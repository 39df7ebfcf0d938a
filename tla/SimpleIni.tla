------------------------------ MODULE SimpleIni ------------------------------
(***************************************************************************)
(* An object of ini.h's CSimpleIniTempl in the hands of a program that     *)
(* calls its methods in any order.  A method runs to its end before the    *)
(* next one is called; a load is several steps, one for each round of its  *)
(* loop, because it can fail between them and leaves what it has added.    *)
(***************************************************************************)
EXTENDS IniData

CONSTANTS
    SectionNames,   \* the names the program passes for a section
    Keys,           \* ... for a key
    Values,         \* ... for a value
    Comments,       \* ... for a comment, Null among them
    Texts,          \* the texts it loads
    MaxSet,         \* bound: m_nOrder from which on nothing is set
    MaxLoad         \* bound: m_nOrder from which on nothing is loaded

ASSUME BoundAssumption == MaxSet \in Nat /\ MaxLoad \in Nat

VARIABLES
    ini,        \* the members of the object
    loading     \* the local variables of LoadData

vars == <<ini, loading>>

Init ==
    /\ \E multiKey, multiLine \in BOOLEAN : ini = NewIni(multiKey, multiLine)
    /\ loading = Idle

-----------------------------------------------------------------------------
Called == loading = Idle

\* SetValue with a key and a value.
SetKey(section, k, value, comment, force) ==
    /\ Called
    /\ ini.order < MaxSet
    /\ ini' = SetValue(ini, section, k, value, comment, force).o
    /\ UNCHANGED loading

\* SetValue without them: only the section.
SetSection(section, comment) ==
    /\ Called
    /\ ini.order < MaxSet
    /\ ini' = SetValue(ini, section, Null, Null, comment, FALSE).o
    /\ UNCHANGED loading

\* Delete and DeleteValue.
Delete(section, k, value, removeEmpty) ==
    /\ Called
    /\ ini' = DeleteValue(ini, section, k, value, removeEmpty)
    /\ UNCHANGED loading

\* The load order goes on from where it was, and the options stay.
Reset ==
    /\ Called
    /\ ini' = [NewIni(ini.multiKey, ini.multiLine) EXCEPT !.order = ini.order]
    /\ UNCHANGED loading

SetMultiKey ==
    /\ Called
    /\ ini' = [ini EXCEPT !.multiKey = ~ @]
    /\ UNCHANGED loading

SetMultiLine ==
    /\ Called
    /\ ini' = [ini EXCEPT !.multiLine = ~ @]
    /\ UNCHANGED loading

\* LoadData up to its loop.
StartLoad(text) ==
    /\ Called
    /\ ini.order < MaxLoad
    /\ ini' = BeginLoad(ini, text).o
    /\ loading' = BeginLoad(ini, text).l

\* One round of the loop, the last one included.
LoadEntry ==
    /\ ~ Called
    /\ ini' = LoadRound(ini, loading).o
    /\ loading' = LoadRound(ini, loading).l

Next ==
    \/ \E section \in SectionNames :
        \/ \E comment \in Comments : SetSection(section, comment)
        \/ Delete(section, Null, Null, FALSE)
        \/ \E k \in Keys :
            \/ \E value \in Values, comment \in Comments, force \in BOOLEAN :
                    SetKey(section, k, value, comment, force)
            \/ \E value \in Values \cup {Null}, removeEmpty \in BOOLEAN :
                    Delete(section, k, value, removeEmpty)
    \/ Reset
    \/ SetMultiKey
    \/ SetMultiLine
    \/ \E text \in Texts : StartLoad(text)
    \/ LoadEntry

Spec == Init /\ [][Next]_vars

-----------------------------------------------------------------------------
IsIni(o) ==
    /\ DOMAIN o = {"sections", "entries", "order", "fileComment", "strings", "loaded",
                   "multiKey", "multiLine"}
    /\ \A s \in o.sections : DOMAIN s = {"name", "comment", "order"}
    /\ \A e \in o.entries : DOMAIN e = {"section", "key", "value", "comment", "order"}
    /\ o.order \in Nat
    /\ \A s \in o.sections : s.order \in 1..o.order
    /\ \A e \in o.entries : e.order \in 1..o.order
    /\ o.strings \subseteq Addresses
    /\ o.loaded \in BOOLEAN /\ o.multiKey \in BOOLEAN /\ o.multiLine \in BOOLEAN

\* The members have their types, and no load order is beyond m_nOrder.
TypeOK ==
    /\ IsIni(ini)
    /\ DOMAIN loading = {"status", "lines", "next", "section"}
    /\ loading.status \in {"idle", "reading"}
    /\ loading.status = "idle" => Called

IsConsistent(o) ==
    /\ \A e \in o.entries : HasSection(o, e.section)
    /\ \A s, t \in o.sections : s # t => s.name.text # t.name.text /\ s.order # t.order
    /\ \A e, f \in o.entries : e # f => e.order # f.order
    /\ \A s \in o.sections, e \in o.entries : s.order # e.order

\* Every key is in a section there is, no section is there twice and no two things have
\* the same place in the load order, whatever was replaced, removed or left half done
\* (AddEntry, DeleteValue): Save sorts by it alone.
Consistent == IsConsistent(ini)

-----------------------------------------------------------------------------
(* Memory *)

SectionHolders(s) ==
    {<<"section", s.order, s.name.at>>, <<"heading", s.order, s.comment.at>>}

EntryHolders(e) ==
    {<<"key", e.order, e.key.at>>, <<"value", e.order, e.value.at>>,
     <<"comment", e.order, e.comment.at>>}

\* Each pointer the members hold, with the place it points to.
Holders(o) ==
    (UNION {SectionHolders(s) : s \in o.sections})
    \cup (UNION {EntryHolders(e) : e \in o.entries})
    \cup {<<"file", 0, o.fileComment.at>>}

\* No pointer leads elsewhere than to a string in use or to one of the places, and no
\* two lead to one string of the heap.
Owns(o, places) ==
    /\ \A h \in Holders(o) : h[3] \in o.strings \cup places
    /\ \A g, h \in Holders(o) : g # h /\ g[3] \in Addresses => g[3] # h[3]

\* The block is there from the first load on, and while that goes on.
OtherPlaces == {Nowhere, Leaked} \cup (IF ini.loaded \/ ~ Called THEN {InBlock} ELSE {})

\* No member points to memory that has been given back or is the caller's
\* (CopyString, DeleteString, Reset and the end of LoadData), and no two share a
\* string of the heap, which DeleteString would give back under one of them.
MemorySafe == Owns(ini, OtherPlaces)

-----------------------------------------------------------------------------
(* What is saved can be loaded *)

\* What a program sees of an object, in load order.
Content(o) ==
    LET seen(e)    == [key |-> e.key.text, value |-> e.value.text, comment |-> e.comment.text]
        entries(s) == LET all == InOrder(KeysOf(o, s))
                      IN  [i \in DOMAIN all |-> seen(all[i])]
        sections   == GetAllSections(o)
    IN  [fileComment |-> o.fileComment.text,
         sections    |-> [i \in DOMAIN sections |->
                            [name    |-> sections[i].name.text,
                             comment |-> sections[i].comment.text,
                             entries |-> entries(sections[i].name.text)]]]

\* A value that reads back as it was written.
Writable(o, value) ==
    IF o.multiLine /\ IsMultiLineData(value)
    THEN ~ Contains(value, Word(EndTag))
    ELSE /\ ~ IsMultiLineData(value)
         /\ o.multiLine => value[1].text \notin DOMAIN Tags

WritableSections(o) ==
    LET sections == GetAllSections(o)
    IN  \A i \in DOMAIN sections :
            LET s == sections[i]
            IN  /\ Len(s.name.text) = 1
                /\ i = 1 /\ s.comment # NoString => o.fileComment # NoString
                \* The section without a name has nothing that would say where it begins.
                /\ s.name.text = <<Blank>> =>
                        i = 1 /\ s.comment = NoString /\ KeysOf(o, s.name.text) # {}

WritableKeys(o) ==
    \A s \in o.sections :
        LET name == s.name.text
        IN  /\ \A e \in KeysOf(o, name) : e.key.text # <<Blank>> /\ Writable(o, e.value.text)
            \* Only the first value of a key is written when keys are single ...
            /\ ~ o.multiKey => GetSectionSize(o, name) = Len(GetAllKeys(o, name))
            \* ... and the values of a key are written together.
            /\ \A e, f, g \in KeysOf(o, name) :
                    /\ e.order < g.order /\ g.order < f.order
                    /\ e.key.text = f.key.text
                    => g.key.text = e.key.text

\* Loading what Save has written gives the object back exactly if nothing in it
\* is beyond the format: this names all that is lost on the way.
RoundTrip ==
    Called =>
        LET again == LoadData(NewIni(ini.multiKey, ini.multiLine), Save(ini))
        IN  Content(again) = Content(ini) <=> (WritableSections(ini) /\ WritableKeys(ini))

\* The sections a text has lines for; keys in front of them are in the one without a name.
SectionsOf(lines) ==
    {<<Blank>>} \cup {<<Word(l.text)>> : l \in {k \in Range(lines) : k.kind = "section"}}

\* "if it's an invalid line, just skip it" (ini.h:1579, FindEntry): a section line
\* without its bracket has no effect on the entries that are loaded.
InvalidLinesSkipped ==
    [][~ Called => \A e \in ini'.entries \ ini.entries :
                        e.section \in SectionsOf(loading.lines)]_vars

-----------------------------------------------------------------------------
(* What a call changes *)

Names(o) == {s.name.text : s \in o.sections}

ValueLists(o) ==
    [p \in {<<e.section, e.key.text>> : e \in o.entries} |->
        LET all == InOrder(EntriesOf(o, p[1], p[2]))
        IN  [i \in DOMAIN all |-> all[i].value.text]]

Abstract == INSTANCE KeyValues WITH
    names <- Names(ini), values <- ValueLists(ini), multiKey <- ini.multiKey

\* Every call, and every round of a load, adds, replaces or removes the values of
\* one key of one section, or removes one section; also when memory runs out in it
\* (AddEntry, DeleteValue).
ImplementsKeyValues == Abstract!Spec

FirstOrder(o, s, k) == First(EntriesOf(o, s, k)).order

\* The key is there before and after the step.
Stays(s, k) == EntriesOf(ini, s, k) # {} /\ EntriesOf(ini', s, k) # {}

\* The first value of the key is deleted and another one is not.
LosesFirst(s, k) ==
    HasMultiple([ini EXCEPT !.multiKey = TRUE], s, k)
        /\ EntriesOf(ini', s, k) \subseteq EntriesOf(ini, s, k)

\* Keys are saved in the order they were first created in: a key that stays keeps
\* its place among the others whatever is done to its values (the load order a
\* forced replacement takes over), and a new key comes behind them.  Only a key
\* that loses the first of its values moves to where the next one is.
OrderKept ==
    [][\A s \in Names(ini) \cap Names(ini') :
        LET keys == {e.key.text : e \in KeysOf(ini', s)}
        IN  \A j, k \in keys :
            /\ (/\ Stays(s, j) /\ Stays(s, k)
                /\ ~ LosesFirst(s, j) /\ ~ LosesFirst(s, k)
                /\ FirstOrder(ini, s, j) < FirstOrder(ini, s, k))
               => FirstOrder(ini', s, j) < FirstOrder(ini', s, k)
            /\ (Stays(s, j) /\ ~ Stays(s, k))
               => FirstOrder(ini', s, j) < FirstOrder(ini', s, k)]_vars
=============================================================================
