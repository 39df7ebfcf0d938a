----------------------------- MODULE EntryProofs -----------------------------
(***************************************************************************)
(* What the methods of SimpleIni do to the entries of a key, and what      *)
(* follows for a program that looks at the keys: a key keeps its place     *)
(* among the others whatever is done to its values, and what it has is the *)
(* list of values of the abstract store (KeyValues).                       *)
(*                                                                         *)
(* AddEntry changes the entries of one key in one of five ways, or leaves  *)
(* them; DeleteValue only removes entries.  Both hold wherever memory runs *)
(* out in between.                                                         *)
(***************************************************************************)
EXTENDS SimpleIniProofs, FiniteSetTheorems

-----------------------------------------------------------------------------
(* The ways to change the entries                                          *)

\* e is an entry of the key k in section s.
EntryOf(e, s, k) == e.section = s /\ e.key.text = k

\* The value v is added behind everything there is.
Inserted(o, o2, s, k, v) ==
    \E e : /\ EntryOf(e, s, k) /\ e.value.text = v /\ e.order = o.order + 1
           /\ EntriesOf(o, s, k) = {} \/ o.multiKey
           /\ o2.entries = o.entries \cup {e}

\* The value v takes the place of all the others of its key.
Replaced(o, o2, s, k, v) ==
    \E e : /\ EntryOf(e, s, k) /\ e.value.text = v
           /\ e.order = First(EntriesOf(o, s, k)).order
           /\ EntriesOf(o, s, k) # {} /\ o.multiKey
           /\ o2.entries = (o.entries \ EntriesOf(o, s, k)) \cup {e}

\* The others have been removed, and then there was no memory for the value.
Dropped(o, o2, s, k) ==
    /\ EntriesOf(o, s, k) # {} /\ o.multiKey
    /\ o2.entries = o.entries \ EntriesOf(o, s, k)

\* The value v is put into the first entry of its key.
Updated(o, o2, s, k, v) ==
    \E e : LET old == EntriesOf(o, s, k)
           IN  /\ EntryOf(e, s, k) /\ e.value.text = v /\ e.order = First(old).order
               /\ old # {} /\ ~ o.multiKey
               /\ o2.entries = (o.entries \ {First(old)}) \cup {e}

Changed(o, o2, s, k, v) ==
    /\ o2.sections = o.sections /\ o2.multiKey = o.multiKey
    /\ \/ o2.entries = o.entries
       \/ Inserted(o, o2, s, k, v)
       \/ Replaced(o, o2, s, k, v)
       \/ Dropped(o, o2, s, k)
       \/ Updated(o, o2, s, k, v)

\* base is o once the section s is there.
Extended(o, base, s) ==
    /\ Names(base) = Names(o) \cup {s}
    /\ base.entries = o.entries /\ base.multiKey = o.multiKey
    /\ base.order \in Nat /\ base.order >= o.order

\* The data stays, the option may change.
Untouched(o, o2) ==
    Names(o2) = Names(o) /\ o2.entries = o.entries /\ o2.multiKey \in BOOLEAN

\* Of the values of the key k those that equal v are gone, or all of them.
ValueGone(o, o2, s, k, v) ==
    /\ Names(o2) = Names(o) /\ o2.multiKey = o.multiKey
    /\ o2.entries = o.entries \ {e \in EntriesOf(o, s, k) : v = Null \/ e.value.text = v}

SectionGone(o, o2, s) ==
    /\ s \in Names(o) /\ Names(o2) = Names(o) \ {s}
    /\ o2.entries = o.entries \ KeysOf(o, s) /\ o2.multiKey = o.multiKey

Emptied(o, o2) == Names(o2) = {} /\ o2.entries = {} /\ o2.multiKey = o.multiKey

\* All that a call or a round of a load does to the data.
Moved(o, o2) ==
    \/ Untouched(o, o2)
    \/ \E base, s, k, v : Extended(o, base, s) /\ Changed(base, o2, s, k, v)
    \/ \E s, k, v : ValueGone(o, o2, s, k, v)
    \/ \E s : SectionGone(o, o2, s)
    \/ Emptied(o, o2)

-----------------------------------------------------------------------------
(* AddEntry                                                                *)

Fields == {"sections", "entries", "order", "fileComment", "strings", "loaded",
           "multiKey", "multiLine"}

\* o2 has the sections and entries of o.
SameData(o, o2) ==
    /\ DOMAIN o2 = DOMAIN o
    /\ o2.sections = o.sections /\ o2.entries = o.entries
    /\ o2.order = o.order /\ o2.multiKey = o.multiKey

\* CopyString only adds the bytes of a string.
LEMMA CopyData ==
    ASSUME NEW o, DOMAIN o = Fields, NEW string
    PROVE  LET r == CopyString(o, string)
           IN  /\ SameData(o, r.o)
               /\ r.string.text = string.text
<1> DEFINE free == Addresses \ o.strings
           a    == CHOOSE x \in free : TRUE
           r    == CopyString(o, string)
           more == [o EXCEPT !.strings = @ \cup {a}]
<1>1. SameData(o, o) /\ SameData(o, more)
  BY DEF SameData, Fields
<1>2. CASE free = {}
  <2>1. r = [ok |-> FALSE, o |-> o, string |-> string]
    BY <1>2 DEF CopyString
  <2> HIDE DEF r, more
  <2>2. r.o = o /\ r.string = string
    BY <2>1
  <2>3. SameData(o, r.o) /\ r.string.text = string.text
    BY <1>1, <2>2
  <2> QED
    BY <2>3 DEF r
<1>3. CASE free # {}
  <2> HIDE DEF more
  <2>1. r = [ok |-> TRUE, o |-> more, string |-> String(string.text, a)]
    BY <1>3 DEF CopyString, more
  <2>2. String(string.text, a).text = string.text
    BY DEF String
  <2> HIDE DEF r, a
  <2>3. r.o = more /\ r.string.text = string.text
    BY <2>1, <2>2
  <2>4. SameData(o, r.o) /\ r.string.text = string.text
    BY <1>1, <2>3
  <2> QED
    BY <2>4 DEF r
<1> QED
  BY <1>2, <1>3

\* So does the copy that is made on a condition.
LEMMA CopyIfData ==
    ASSUME NEW o, DOMAIN o = Fields, NEW string, NEW wanted \in BOOLEAN
    PROVE  LET r == CopyIf(wanted, o, string)
           IN  /\ SameData(o, r.o)
               /\ r.string.text = string.text
<1>1. CASE wanted
  <2>1. CopyIf(wanted, o, string) = CopyString(o, string)
    BY <1>1 DEF CopyIf
  <2> QED
    BY <2>1, CopyData
<1>2. CASE ~ wanted
  <2>1. CopyIf(wanted, o, string) = [ok |-> TRUE, o |-> o, string |-> string]
    BY <1>2 DEF CopyIf, Uncopied
  <2> QED
    BY <2>1 DEF SameData
<1> QED
  BY <1>1, <1>2

\* AddEntry changes the entries of its key in one of the five ways.
LEMMA KeyChanged ==
    ASSUME NEW o, DOMAIN o = Fields, o.multiKey \in BOOLEAN, o.order \in Nat,
           NEW section, NEW key, NEW value, NEW comment,
           NEW force \in BOOLEAN, NEW copy \in BOOLEAN,
           EntriesOf(o, section, key.text) # {} =>
                First(EntriesOf(o, section, key.text)) \in EntriesOf(o, section, key.text),
           \A e \in o.entries : DOMAIN e = {"section", "key", "value", "comment", "order"}
    PROVE  LET r == AddKey(o, section, key, value, comment, force, copy)
           IN  Changed(o, r.o, section, key.text, value.text)
<1> DEFINE old     == EntriesOf(o, section, key.text)
           first   == First(old)
           replace == old # {} /\ o.multiKey /\ force
           insert  == old = {} \/ o.multiKey
           next    == [o EXCEPT !.order = @ + 1]
           keeps   == replace /\ first.comment # NoString
           freed   == Free(next, {comment.at})
           kept    == IF keeps THEN CopyString(freed, first.comment) ELSE Uncopied(next, comment)
           cleared == IF replace THEN RemoveEntries(kept.o, old) ELSE kept.o
           both    == copy /\ insert
           k       == CopyIf(both, cleared, key)
           v       == CopyIf(copy, k.o, value)
           n       == LoadOrder(next, old, replace)
           new     == KeyEntry(section, k.string, v.string, kept.string, n)
           updated == [first EXCEPT !.value = v.string]
           r       == AddKey(o, section, key, value, comment, force, copy)
<1>0. r = CASE ~ k.ok          -> NoMem(k.o)
            [] k.ok /\ ~ v.ok  -> NoMem(v.o)
            [] k.ok /\ v.ok /\ insert ->
                 Done([v.o EXCEPT !.entries = @ \cup {new}])
            [] k.ok /\ v.ok /\ ~ insert ->
                 Done([v.o EXCEPT !.entries = (@ \ {first}) \cup {updated}])
  BY DEF AddKey
<1>1. /\ old # {} => first \in old
      /\ \A e \in old : EntryOf(e, section, key.text) /\ e \in o.entries
  BY DEF EntriesOf, KeysOf, EntryOf
<1>2. /\ DOMAIN next = Fields /\ next.order = o.order + 1
      /\ next.sections = o.sections /\ next.entries = o.entries /\ next.multiKey = o.multiKey
  BY DEF Fields
<1>3. n = (IF replace THEN first.order ELSE next.order)
  BY DEF LoadOrder
<1>4. replace \in BOOLEAN /\ insert \in BOOLEAN /\ keeps \in BOOLEAN /\ both \in BOOLEAN
  OBVIOUS
<1>5. /\ replace => old # {} /\ o.multiKey /\ insert
      /\ insert => old = {} \/ o.multiKey
      /\ ~ insert => old # {} /\ ~ replace /\ ~ o.multiKey
  OBVIOUS
<1>6. old = EntriesOf(o, section, key.text) /\ first = First(EntriesOf(o, section, key.text))
  OBVIOUS
<1> HIDE DEF old, first, replace, insert, next, r
<1>8. SameData(next, kept.o)
  <2>1. SameData(next, freed)
    BY <1>2 DEF Free, SameData, Fields
  <2>2. CASE keeps
    <3>1. kept = CopyString(freed, first.comment)
      BY <2>2
    <3> HIDE DEF kept, freed
    <3>2. DOMAIN freed = Fields
      BY <1>2, <2>1 DEF SameData
    <3>3. SameData(freed, kept.o)
      BY <3>1, <3>2, CopyData
    <3> QED
      BY <2>1, <3>3 DEF SameData
  <2>3. CASE ~ keeps
    <3>1. kept = [ok |-> TRUE, o |-> next, string |-> comment]
      BY <2>3 DEF Uncopied
    <3> HIDE DEF kept
    <3> QED
      BY <3>1 DEF SameData
  <2> QED
    BY <2>2, <2>3
<1> HIDE DEF kept
<1>9. /\ DOMAIN cleared = Fields
      /\ cleared.entries = (IF replace THEN o.entries \ old ELSE o.entries)
      /\ cleared.sections = o.sections /\ cleared.multiKey = o.multiKey
  <2>1. /\ DOMAIN kept.o = Fields /\ kept.o.entries = o.entries
        /\ kept.o.sections = o.sections /\ kept.o.multiKey = o.multiKey
    BY <1>2, <1>8 DEF SameData
  <2>2. CASE replace
    <3>1. cleared = [Free(kept.o, Strings(old)) EXCEPT !.entries = @ \ old]
      BY <2>2 DEF RemoveEntries
    <3> HIDE DEF cleared
    <3> QED
      BY <2>1, <2>2, <3>1 DEF Free, Fields
  <2>3. CASE ~ replace
    BY <2>1, <2>3
  <2> QED
    BY <1>4, <2>2, <2>3
<1> HIDE DEF cleared
<1>10. SameData(cleared, k.o) /\ k.string.text = key.text
  <2> HIDE DEF both
  <2> QED
    BY <1>4, <1>9, CopyIfData
<1> HIDE DEF k
<1>11. SameData(k.o, v.o) /\ v.string.text = value.text
  <2>1. DOMAIN k.o = Fields
    BY <1>9, <1>10 DEF SameData
  <2> QED
    BY <2>1, CopyIfData
<1> HIDE DEF v
<1>12. /\ DOMAIN v.o = Fields
       /\ v.o.entries = (IF replace THEN o.entries \ old ELSE o.entries)
       /\ v.o.sections = o.sections /\ v.o.multiKey = o.multiKey
       /\ k.o.entries = v.o.entries /\ k.o.sections = o.sections /\ k.o.multiKey = o.multiKey
  BY <1>9, <1>10, <1>11 DEF SameData
<1>13. ASSUME NEW x, x.entries = v.o.entries, x.sections = o.sections, x.multiKey = o.multiKey
       PROVE  Changed(o, x, section, key.text, value.text)
  BY <1>5, <1>6, <1>12, <1>13 DEF Changed, Dropped
<1>14. CASE ~ (k.ok /\ v.ok)
  <2>1. r.o = k.o \/ r.o = v.o
    BY <1>0, <1>14 DEF NoMem
  <2> QED
    BY <1>12, <1>13, <2>1 DEF r
<1>15. CASE k.ok /\ v.ok /\ insert
  <2> DEFINE o2 == [v.o EXCEPT !.entries = @ \cup {new}]
  <2>1. r = [ok |-> TRUE, o |-> o2]
    BY <1>0, <1>15 DEF Done
  <2>2. /\ EntryOf(new, section, key.text) /\ new.value.text = value.text /\ new.order = n
    BY <1>10, <1>11 DEF KeyEntry, EntryOf
  <2> HIDE DEF new, n
  <2>3. /\ o2.entries = v.o.entries \cup {new}
        /\ o2.sections = o.sections /\ o2.multiKey = o.multiKey
    BY <1>12 DEF Fields
  <2> HIDE DEF o2
  <2>4. CASE replace
    <3>1. Replaced(o, o2, section, key.text, value.text)
      BY <1>3, <1>5, <1>6, <1>12, <2>2, <2>3, <2>4 DEF Replaced
    <3> QED
      BY <2>1, <2>3, <3>1 DEF r, Changed
  <2>5. CASE ~ replace
    <3>1. Inserted(o, o2, section, key.text, value.text)
      BY <1>2, <1>3, <1>5, <1>6, <1>12, <1>15, <2>2, <2>3, <2>5 DEF Inserted
    <3> QED
      BY <2>1, <2>3, <3>1 DEF r, Changed
  <2> QED
    BY <2>4, <2>5
<1>16. CASE k.ok /\ v.ok /\ ~ insert
  <2> DEFINE o2 == [v.o EXCEPT !.entries = (@ \ {first}) \cup {updated}]
  <2>1. r = [ok |-> TRUE, o |-> o2]
    BY <1>0, <1>16 DEF Done
  <2>2. /\ EntryOf(updated, section, key.text) /\ updated.value.text = value.text
        /\ updated.order = first.order
    BY <1>1, <1>5, <1>11, <1>16 DEF EntryOf
  <2> HIDE DEF updated
  <2>3. /\ o2.entries = (v.o.entries \ {first}) \cup {updated}
        /\ o2.sections = o.sections /\ o2.multiKey = o.multiKey
    BY <1>12 DEF Fields
  <2> HIDE DEF o2
  <2>4. Updated(o, o2, section, key.text, value.text)
    BY <1>5, <1>6, <1>12, <1>16, <2>2, <2>3 DEF Updated
  <2> QED
    BY <2>1, <2>3, <2>4 DEF r, Changed
<1> QED
  BY <1>14, <1>15, <1>16

\* AddEntry leaves the data as it is, or changes the entries of its key once the section
\* is there.
LEMMA EntryChanged ==
    ASSUME NEW o, IsIni(o), NEW section, NEW key, NEW value, NEW comment,
           NEW force \in BOOLEAN, NEW copy \in BOOLEAN
    PROVE  Moved(o, AddEntry(o, section, key, value, comment, force, copy).o)
<1> DEFINE noKey == key = NoString \/ value = NoString
           new   == ~ HasSection(o, section.text)
           cp    == copy /\ comment # NoString
           np    == copy /\ new
           c     == CopyIf(cp, o, comment)
           s     == CopyIf(np, c.o, section)
           entry == SectionEntry(s.string, IF noKey THEN c.string ELSE NoString, s.o.order + 1)
           more  == [s.o EXCEPT !.order = @ + 1, !.sections = @ \cup {entry}]
           added == IF new THEN more ELSE s.o
           k     == AddKey(added, section.text, key, value, c.string, force, copy)
           r     == AddEntry(o, section, key, value, comment, force, copy)
<1>1. r = CASE ~ c.ok             -> NoMem(c.o)
            [] c.ok /\ ~ s.ok     -> NoMem(s.o)
            [] c.ok /\ s.ok /\ noKey -> Done(added)
            [] c.ok /\ s.ok /\ ~ noKey -> k
  BY DEF AddEntry
<1>2. cp \in BOOLEAN /\ np \in BOOLEAN /\ noKey \in BOOLEAN /\ new \in BOOLEAN
  OBVIOUS
<1>3. DOMAIN o = Fields /\ o.multiKey \in BOOLEAN
  BY DEF IsIni, Fields
<1>0. new <=> section.text \notin Names(o)
  BY DEF HasSection, Names
<1> HIDE DEF noKey, new, cp, np, r
<1>4. SameData(o, c.o)
  BY <1>2, <1>3, CopyIfData
<1> HIDE DEF c
<1>5. SameData(c.o, s.o) /\ s.string.text = section.text
  <2>1. DOMAIN c.o = Fields
    BY <1>3, <1>4 DEF SameData
  <2> QED
    BY <1>2, <2>1, CopyIfData
<1> HIDE DEF s
<1>6. SameData(o, s.o)
  BY <1>4, <1>5 DEF SameData
<1>7. /\ DOMAIN added = Fields /\ added.entries = o.entries
      /\ added.order \in Nat /\ added.order >= o.order /\ added.multiKey = o.multiKey
      /\ Names(added) = Names(o) \cup {section.text}
  <2>1. o.order \in Nat
    BY DEF IsIni
  <2>2. /\ DOMAIN s.o = Fields /\ s.o.entries = o.entries
        /\ s.o.order = o.order /\ s.o.multiKey = o.multiKey
        /\ s.o.sections = o.sections
    BY <1>3, <1>6 DEF SameData
  <2>3. entry.name.text = section.text
    BY <1>5 DEF SectionEntry
  <2> HIDE DEF entry
  <2>4. /\ DOMAIN more = Fields /\ more.entries = o.entries
        /\ more.order = o.order + 1 /\ more.multiKey = o.multiKey
        /\ more.sections = o.sections \cup {entry}
    BY <2>2 DEF Fields
  <2> HIDE DEF more
  <2>5. Names(more) = Names(o) \cup {section.text}
    BY <2>3, <2>4 DEF Names
  <2>6. ~ new => Names(s.o) = Names(o) \cup {section.text}
    BY <1>0, <2>2 DEF Names
  <2> QED
    BY <1>2, <2>1, <2>2, <2>4, <2>5, <2>6
<1> HIDE DEF added
<1>8. Extended(o, added, section.text)
  BY <1>7 DEF Extended
<1>9. CASE r = k
  <2>1. added.multiKey \in BOOLEAN
    BY <1>3, <1>7
  <2>2. \A e \in added.entries :
            DOMAIN e = {"section", "key", "value", "comment", "order"} /\ e.order \in Nat
    BY <1>7 DEF IsIni
  <2> DEFINE old == EntriesOf(added, section.text, key.text)
  <2>3. \A e \in old : e.order \in Nat
    BY <2>2 DEF EntriesOf, KeysOf
  <2> HIDE DEF old
  <2>4. old # {} => First(old) \in old
    BY <2>3, FirstIsOne
  <2>5. EntriesOf(added, section.text, key.text) # {} =>
             First(EntriesOf(added, section.text, key.text))
                \in EntriesOf(added, section.text, key.text)
    BY <2>4 DEF old
  <2> DEFINE name == section.text
             note == c.string
             kk   == AddKey(added, name, key, value, note, force, copy)
  <2> HIDE DEF name, note
  <2>6. Changed(added, kk.o, name, key.text, value.text)
    BY <1>7, <2>1, <2>2, <2>5, KeyChanged DEF name
  <2>7. kk = r
    BY <1>9 DEF name, note
  <2> HIDE DEF kk
  <2>8. Extended(o, added, name)
    BY <1>8 DEF name
  <2> QED
    BY <2>6, <2>7, <2>8 DEF r, Moved
<1>10. CASE r \in {NoMem(c.o), NoMem(s.o)}
  <2>1. r.o.entries = o.entries /\ r.o.multiKey = o.multiKey /\ r.o.sections = o.sections
    BY <1>4, <1>6, <1>10 DEF NoMem, SameData
  <2>2. Untouched(o, r.o)
    BY <1>3, <2>1 DEF Untouched, Names
  <2> QED
    BY <2>2 DEF r, Moved
<1>11. CASE r = Done(added)
  <2>1. r.o = added
    BY <1>11 DEF Done
  <2>2. Changed(added, r.o, section.text, key.text, value.text)
    BY <2>1 DEF Changed
  <2> QED
    BY <1>8, <2>2 DEF r, Moved
<1> HIDE DEF k
<1>12. r = k \/ r \in {NoMem(c.o), NoMem(s.o)} \/ r = Done(added)
  BY <1>1
<1> QED
  BY <1>9, <1>10, <1>11, <1>12 DEF k

\* SetValue makes the section when it is missing, then adds the entry.
LEMMA ValueSetMoved ==
    ASSUME NEW o, IsIni(o), NEW section, NEW k, NEW value, NEW comment, NEW force \in BOOLEAN
    PROVE  Moved(o, SetValue(o, section, k, value, comment, force).o)
<1> DEFINE yes == TRUE
<1>1. yes \in BOOLEAN
  OBVIOUS
<1>2. SetValue(o, section, k, value, comment, force) =
        AddEntry(o, Argument(section), Argument(k), Argument(value), Argument(comment), force, yes)
  BY DEF SetValue
<1> HIDE DEF yes
<1> QED
  BY <1>1, <1>2, EntryChanged

-----------------------------------------------------------------------------
(* DeleteValue                                                             *)

\* DeleteString of several entries leaves all else.
LEMMA EntriesGone ==
    ASSUME NEW o, DOMAIN o = Fields, NEW some
    PROVE  LET x == RemoveEntries(o, some)
           IN  /\ DOMAIN x = Fields
               /\ x.entries = o.entries \ some
               /\ x.sections = o.sections /\ x.multiKey = o.multiKey
BY DEF RemoveEntries, Free, Fields

\* Removing a section leaves the entries and the other sections.
LEMMA NameGone ==
    ASSUME NEW o, DOMAIN o = Fields, NEW section
    PROVE  LET x == RemoveSection(o, section)
           IN  /\ Names(x) = Names(o) \ {section}
               /\ x.entries = o.entries /\ x.multiKey = o.multiKey
<1> DEFINE named == {s \in o.sections : s.name.text = section}
           x     == RemoveSection(o, section)
<1>1. /\ x.sections = o.sections \ named
      /\ x.entries = o.entries /\ x.multiKey = o.multiKey
  BY DEF RemoveSection, Free, Fields
<1> HIDE DEF x
<1>2. Names(x) = Names(o) \ {section}
  BY <1>1 DEF Names
<1> QED
  BY <1>1, <1>2 DEF x

\* Delete removes values of one key, or the section.
LEMMA ValueDeletedMoved ==
    ASSUME NEW o, IsIni(o), NEW section, NEW k, NEW value, NEW removeEmpty \in BOOLEAN
    PROVE  Moved(o, DeleteValue(o, section, k, value, removeEmpty))
<1> DEFINE gone == {e \in KeysOf(o, section) :
                       (k = Null \/ e.key.text = k) /\ (value = Null \/ e.value.text = value)}
           left == RemoveEntries(o, gone)
           all  == KeysOf(o, section)
           bare == RemoveEntries(o, all)
           r    == DeleteValue(o, section, k, value, removeEmpty)
<1>1. DOMAIN o = Fields /\ o.multiKey \in BOOLEAN
  BY DEF IsIni, Fields
<1>2. HasSection(o, section) <=> section \in Names(o)
  BY DEF HasSection, Names
<1>3. /\ DOMAIN left = Fields /\ left.entries = o.entries \ gone
      /\ left.sections = o.sections /\ left.multiKey = o.multiKey
  <2> HIDE DEF gone
  <2> QED
    BY <1>1, EntriesGone
<1>4. /\ DOMAIN bare = Fields /\ bare.entries = o.entries \ all
      /\ bare.sections = o.sections /\ bare.multiKey = o.multiKey
  <2> HIDE DEF all
  <2> QED
    BY <1>1, EntriesGone
<1>5. KeysOf(left, section) = {} => left.entries = o.entries \ KeysOf(o, section)
  BY <1>3 DEF KeysOf
<1>6. k # Null => left.entries =
          o.entries \ {e \in EntriesOf(o, section, k) : value = Null \/ e.value.text = value}
  BY <1>3 DEF EntriesOf
<1>7. \/ ~ HasSection(o, section) /\ r = o
      \/ HasSection(o, section) /\ r = RemoveSection(bare, section)
      \/ HasSection(o, section) /\ KeysOf(left, section) = {} /\ r = RemoveSection(left, section)
      \/ k # Null /\ r = left
  <2>1. CASE ~ HasSection(o, section)
    BY <2>1 DEF DeleteValue
  <2>2. CASE HasSection(o, section) /\ k = Null
    BY <2>2 DEF DeleteValue
  <2>3. CASE HasSection(o, section) /\ k # Null
    <3>1. r = IF gone # {} /\ removeEmpty /\ KeysOf(left, section) = {}
              THEN RemoveSection(left, section) ELSE left
      BY <2>3 DEF DeleteValue
    <3> HIDE DEF r, left, gone
    <3> QED
      BY <2>3, <3>1
  <2> QED
    BY <2>1, <2>2, <2>3
<1> SUFFICES Moved(o, r)
  OBVIOUS
<1> HIDE DEF r, left, bare, gone
<1>8. Names(left) = Names(o) /\ Names(bare) = Names(o)
  BY <1>3, <1>4 DEF Names
<1>9. ASSUME NEW x, DOMAIN x = Fields, x.entries = o.entries \ KeysOf(o, section),
             Names(x) = Names(o), x.multiKey = o.multiKey, HasSection(o, section),
             r = RemoveSection(x, section)
      PROVE  Moved(o, r)
  <2>1. SectionGone(o, r, section)
    BY <1>2, <1>9, NameGone DEF SectionGone
  <2> QED
    BY <2>1 DEF Moved
<1>10. CASE r = o
  <2>1. Untouched(o, r)
    BY <1>1, <1>10 DEF Untouched
  <2> QED
    BY <2>1 DEF Moved
<1>11. CASE k # Null /\ r = left
  <2>1. ValueGone(o, r, section, k, value)
    BY <1>3, <1>6, <1>8, <1>11 DEF ValueGone
  <2> QED
    BY <2>1 DEF Moved
<1> QED
  BY <1>3, <1>4, <1>5, <1>7, <1>8, <1>9, <1>10, <1>11

-----------------------------------------------------------------------------
(* Loading                                                                 *)

\* BeginLoad sets the comment of the file and nothing else.
LEMMA LoadBegunMoved ==
    ASSUME NEW o, IsIni(o), NEW text
    PROVE  Untouched(o, BeginLoad(o, text).o)
<1> DEFINE wanted  == o.fileComment = NoString
           comment == IF wanted THEN FindFileComment(Append(text, Blank)) ELSE Null
           copied  == Copying(o) /\ comment # Null
           c       == CopyIf(copied, o, Loaded(o, comment))
           set     == [c.o EXCEPT !.fileComment = c.string]
           with    == IF comment = Null THEN o ELSE set
           lost    == [o EXCEPT !.fileComment = String(comment, Leaked)]
           b       == BeginLoad(o, text)
<1>1. b.o = o \/ b.o = with \/ b.o = lost
  <2>1. CASE text = << >>
    BY <2>1 DEF BeginLoad
  <2>2. CASE text # << >> /\ c.ok
    BY <2>2 DEF BeginLoad
  <2>3. CASE text # << >> /\ ~ c.ok
    BY <2>3 DEF BeginLoad
  <2> QED
    BY <2>1, <2>2, <2>3
<1>2. DOMAIN o = Fields
  BY DEF IsIni, Fields
<1>3. copied \in BOOLEAN
  OBVIOUS
<1> HIDE DEF b, comment, copied
<1>4. SameData(o, c.o)
  BY <1>2, <1>3, CopyIfData
<1> HIDE DEF c
<1>5. /\ set.entries = o.entries /\ set.sections = o.sections /\ set.multiKey = o.multiKey
      /\ lost.entries = o.entries /\ lost.sections = o.sections /\ lost.multiKey = o.multiKey
  BY <1>2, <1>4 DEF SameData, Fields
<1> HIDE DEF set, lost
<1>6. b.o.entries = o.entries /\ b.o.sections = o.sections /\ b.o.multiKey = o.multiKey
  BY <1>1, <1>5
<1>7. Untouched(o, b.o)
  BY <1>6 DEF Untouched, Names, IsIni
<1> QED
  BY <1>7 DEF b

\* A round of LoadData makes one section or one entry, or changes nothing.
LEMMA RoundMoved ==
    ASSUME NEW o, IsIni(o), NEW l
    PROVE  Moved(o, LoadRound(o, l).o)
<1> DEFINE no   == FALSE
           copy == Copying(o)
           e    == FindEntry(l.lines, l.next, l.section, o.multiLine, Copying(o))
           sec  == Loaded(o, e.section)
           key  == Loaded(o, e.key)
           val  == Loaded(o, e.value)
           com  == Loaded(o, e.comment)
           r    == AddEntry(o, sec, key, val, com, no, copy)
           b    == LoadRound(o, l)
<1>1. b.o = EndLoad(o) \/ b.o = r.o
  <2>1. CASE ~ e.found
    BY <2>1 DEF LoadRound
  <2>2. CASE e.found /\ r.ok
    <3>1. b = [o |-> r.o, l |-> [l EXCEPT !.next = e.next, !.section = e.section]]
      BY <2>2 DEF LoadRound
    <3> QED
      BY <3>1
  <2>3. CASE e.found /\ ~ r.ok
    <3>1. b = [o |-> r.o, l |-> Idle]
      BY <2>3 DEF LoadRound
    <3> QED
      BY <3>1
  <2> QED
    BY <2>1, <2>2, <2>3
<1>2. copy \in BOOLEAN /\ no \in BOOLEAN
  BY DEF Copying, IsIni
<1>3. Untouched(o, EndLoad(o))
  <2>1. DOMAIN o = Fields /\ o.multiKey \in BOOLEAN
    BY DEF IsIni, Fields
  <2>2. /\ EndLoad(o).entries = o.entries /\ EndLoad(o).sections = o.sections
        /\ EndLoad(o).multiKey = o.multiKey
    BY <2>1 DEF EndLoad, Fields
  <2> QED
    BY <2>1, <2>2 DEF Untouched, Names
<1> HIDE DEF b, copy, no, sec, key, val, com
<1>4. Moved(o, r.o)
  BY <1>2, EntryChanged
<1> HIDE DEF r
<1>5. Moved(o, b.o)
  <2>1. Moved(o, EndLoad(o))
    BY <1>3 DEF Moved
  <2> QED
    BY <1>1, <1>4, <2>1
<1> QED
  BY <1>5 DEF b

-----------------------------------------------------------------------------
(* Every step                                                              *)

\* Every step of the object moves its data in one of these ways.
LEMMA StepMoved == IInv /\ [Next]_vars => Moved(ini, ini')
<1> SUFFICES ASSUME IInv, [Next]_vars PROVE Moved(ini, ini')
  OBVIOUS
<1>1. IsIni(ini)
  BY DEF IInv, Sound
<1>2. ASSUME NEW section, NEW k, NEW value, NEW comment, NEW force \in BOOLEAN,
             SetKey(section, k, value, comment, force)
      PROVE  Moved(ini, ini')
  BY <1>1, <1>2, ValueSetMoved DEF SetKey
<1>3. ASSUME NEW section, NEW comment, SetSection(section, comment)
      PROVE  Moved(ini, ini')
  <2> DEFINE no == FALSE
  <2>1. ini' = SetValue(ini, section, Null, Null, comment, no).o /\ no \in BOOLEAN
    BY <1>3 DEF SetSection
  <2> HIDE DEF no
  <2> QED
    BY <1>1, <2>1, ValueSetMoved
<1>4. ASSUME NEW section, NEW k, NEW value, NEW removeEmpty \in BOOLEAN,
             Delete(section, k, value, removeEmpty)
      PROVE  Moved(ini, ini')
  BY <1>1, <1>4, ValueDeletedMoved DEF Delete
<1>5. ASSUME Reset PROVE Moved(ini, ini')
  <2>1. ini'.entries = {} /\ ini'.sections = {} /\ ini'.multiKey = ini.multiKey
    BY <1>5 DEF Reset, NewIni
  <2>2. Emptied(ini, ini')
    BY <2>1 DEF Emptied, Names
  <2> QED
    BY <2>2 DEF Moved
<1>6. ASSUME SetMultiKey \/ SetMultiLine PROVE Moved(ini, ini')
  <2>1. /\ ini'.entries = ini.entries /\ ini'.sections = ini.sections
        /\ ini'.multiKey \in BOOLEAN
    BY <1>1, <1>6 DEF SetMultiKey, SetMultiLine, IsIni
  <2>2. Untouched(ini, ini')
    BY <2>1 DEF Untouched, Names
  <2> QED
    BY <2>2 DEF Moved
<1>7. ASSUME NEW text, StartLoad(text) PROVE Moved(ini, ini')
  BY <1>1, <1>7, LoadBegunMoved DEF StartLoad, Moved
<1>8. ASSUME LoadEntry PROVE Moved(ini, ini')
  BY <1>1, <1>8, RoundMoved DEF LoadEntry
<1>9. CASE UNCHANGED vars
  BY <1>1, <1>9 DEF vars, Moved, Untouched, IsIni, Names
<1>10. CASE Next
  <2>1. ASSUME NEW section \in SectionNames,
               \/ \E comment \in Comments : SetSection(section, comment)
               \/ Delete(section, Null, Null, FALSE)
               \/ \E k \in Keys :
                   \/ \E value \in Values, comment \in Comments, force \in BOOLEAN :
                           SetKey(section, k, value, comment, force)
                   \/ \E value \in Values \cup {Null}, removeEmpty \in BOOLEAN :
                           Delete(section, k, value, removeEmpty)
        PROVE  Moved(ini, ini')
    <3> DEFINE no == FALSE
    <3>1. no \in BOOLEAN
      OBVIOUS
    <3>2. CASE Delete(section, Null, Null, no)
      <4> HIDE DEF no
      <4> QED
        BY <1>4, <3>1, <3>2
    <3>3. ASSUME NEW k \in Keys, NEW value \in Values, NEW comment \in Comments,
                 NEW force \in BOOLEAN, SetKey(section, k, value, comment, force)
          PROVE  Moved(ini, ini')
      BY <1>2, <3>3
    <3>4. ASSUME NEW k \in Keys, NEW value \in Values \cup {Null},
                 NEW removeEmpty \in BOOLEAN, Delete(section, k, value, removeEmpty)
          PROVE  Moved(ini, ini')
      BY <1>4, <3>4
    <3>5. CASE \E comment \in Comments : SetSection(section, comment)
      BY <1>3, <3>5
    <3> QED
      BY <2>1, <3>2, <3>3, <3>4, <3>5
  <2> QED
    BY <1>5, <1>6, <1>7, <1>8, <1>10, <2>1 DEF Next
<1> QED
  BY <1>9, <1>10

-----------------------------------------------------------------------------
(* The place of a key                                                      *)

\* No entry is beyond m_nOrder.
Ordered(o) == o.order \in Nat /\ \A e \in o.entries : e.order \in 1..o.order

\* Every key that stays keeps its place, and a new one comes behind all there are.
KeepsPlaces(o, o2) ==
    \A s, k :
        EntriesOf(o2, s, k) # {} =>
            IF EntriesOf(o, s, k) # {}
            THEN FirstOrder(o2, s, k) = FirstOrder(o, s, k)
            ELSE FirstOrder(o2, s, k) \in Nat /\ FirstOrder(o2, s, k) > o.order

\* The first entry is the one with the least order.
LEMMA FirstIsLeast ==
    ASSUME NEW entries, \A e \in entries : e.order \in Nat,
           NEW e \in entries, \A f \in entries : e.order <= f.order
    PROVE  First(entries).order = e.order
<1>1. /\ First(entries) \in entries
      /\ \A f \in entries : First(entries).order <= f.order
  BY DEF First
<1> QED
  BY <1>1

\* The place of a key that has entries.
LEMMA FirstPlace ==
    ASSUME NEW o, Ordered(o), NEW s, NEW k, EntriesOf(o, s, k) # {}
    PROVE  /\ First(EntriesOf(o, s, k)) \in EntriesOf(o, s, k)
           /\ FirstOrder(o, s, k) \in 1..o.order
           /\ \A e \in EntriesOf(o, s, k) : FirstOrder(o, s, k) <= e.order
<1> DEFINE E == EntriesOf(o, s, k)
           n == First(E).order
<1>1. \A e \in E : e.order \in Nat /\ e.order \in 1..o.order
  BY DEF Ordered, EntriesOf, KeysOf
<1>2. n = FirstOrder(o, s, k)
  BY DEF FirstOrder
<1>3. E # {}
  OBVIOUS
<1> HIDE DEF E
<1>4. First(E) \in E
  BY <1>1, <1>3, FirstIsOne
<1>5. PICK e \in E : \A f \in E : e.order <= f.order
  <2> DEFINE T == {e.order : e \in E}
  <2>1. T \subseteq Nat /\ T # {}
    BY <1>1, <1>3
  <2>2. \A e \in E : e.order \in T
    OBVIOUS
  <2>3. \A m \in T : \E e \in E : m = e.order
    OBVIOUS
  <2> HIDE DEF T
  <2>4. PICK m \in T : \A l \in T : m <= l
    BY <2>1, SmallestOrder
  <2> QED
    BY <2>2, <2>3, <2>4
<1>6. n = e.order
  BY <1>1, <1>5, FirstIsLeast
<1> QED
  BY <1>1, <1>2, <1>4, <1>5, <1>6 DEF E

\* The entries of one key change: some of them go, and one is added in front of those that
\* are left, in the place of the first one that was there, if there was one.
LEMMA OneAdded ==
    ASSUME NEW o, Ordered(o), NEW o2, NEW s, NEW k, NEW e, EntryOf(e, s, k),
           NEW gone, gone \subseteq EntriesOf(o, s, k),
           o2.entries = (o.entries \ gone) \cup {e},
           \/ e.order \in Nat /\ e.order > o.order /\ gone = {}
           \/ EntriesOf(o, s, k) # {} /\ e.order = FirstOrder(o, s, k)
    PROVE  KeepsPlaces(o, o2)
<1> SUFFICES ASSUME NEW t, NEW j, EntriesOf(o2, t, j) # {}
             PROVE  IF EntriesOf(o, t, j) # {}
                    THEN FirstOrder(o2, t, j) = FirstOrder(o, t, j)
                    ELSE FirstOrder(o2, t, j) \in Nat /\ FirstOrder(o2, t, j) > o.order
  BY DEF KeepsPlaces
<1> DEFINE E  == EntriesOf(o, t, j)
           E2 == EntriesOf(o2, t, j)
<1>1. CASE <<t, j>> # <<s, k>>
  <2>1. E2 = E
    BY <1>1 DEF EntriesOf, KeysOf, EntryOf
  <2> QED
    BY <2>1 DEF FirstOrder
<1>2. CASE t = s /\ j = k
  <2>1. E2 = (E \ gone) \cup {e} /\ E = EntriesOf(o, s, k)
    BY <1>2 DEF EntriesOf, KeysOf, EntryOf
  <2>2. \A f \in E : f.order \in Nat /\ f.order <= o.order
    BY DEF Ordered, EntriesOf, KeysOf
  <2>3. /\ FirstOrder(o, t, j) = First(E).order
        /\ FirstOrder(o2, t, j) = First(E2).order
    BY DEF FirstOrder
  <2>4. E # {} => /\ First(E) \in E /\ First(E).order \in Nat
                  /\ \A f \in E : First(E).order <= f.order
    BY <2>2, <2>3, FirstPlace
  <2>5. /\ o.order \in Nat
        /\ \/ e.order \in Nat /\ e.order > o.order /\ gone = {}
           \/ E # {} /\ e.order = First(E).order
    BY <1>2, <2>3 DEF Ordered
  <2> HIDE DEF E, E2
  <2>6. e.order \in Nat /\ \A f \in E2 : f.order \in Nat
    BY <2>1, <2>2, <2>4, <2>5
  <2>7. CASE E # {} /\ e.order = First(E).order
    <3>1. \A f \in E2 : e.order <= f.order
      BY <2>1, <2>4, <2>6, <2>7
    <3>2. First(E2).order = e.order
      BY <2>1, <2>6, <3>1, FirstIsLeast
    <3> QED
      BY <2>3, <2>7, <3>2 DEF E
  <2>8. CASE e.order > o.order /\ gone = {}
    <3>1. CASE E = {}
      <4>1. \A f \in E2 : f = e
        BY <2>1, <3>1
      <4>2. First(E2).order = e.order
        BY <2>1, <2>6, <4>1, FirstIsLeast
      <4> QED
        BY <2>3, <2>6, <2>8, <3>1, <4>2 DEF E
    <3>2. CASE E # {}
      <4>1. First(E) \in E2 /\ \A f \in E2 : First(E).order <= f.order
        BY <2>1, <2>2, <2>4, <2>5, <2>6, <2>8, <3>2
      <4>2. First(E2).order = First(E).order
        BY <2>6, <4>1, FirstIsLeast
      <4> QED
        BY <2>3, <3>2, <4>2 DEF E
    <3> QED
      BY <3>1, <3>2
  <2> QED
    BY <2>5, <2>7, <2>8
<1> QED
  BY <1>1, <1>2

\* base is o once the section is there.
LEMMA ChangedPlaces ==
    ASSUME NEW o, Ordered(o), NEW base, base.entries = o.entries, base.order \in Nat,
           base.order >= o.order, NEW o2, NEW s, NEW k, NEW v, Changed(base, o2, s, k, v)
    PROVE  KeepsPlaces(o, o2) \/ o2.entries \subseteq o.entries
<1> DEFINE E == EntriesOf(o, s, k)
<1>1. EntriesOf(base, s, k) = E
  BY DEF EntriesOf, KeysOf
<1>2. First(E).order = FirstOrder(o, s, k)
  BY DEF FirstOrder
<1>3. \A f \in E : EntryOf(f, s, k)
  BY DEF EntriesOf, KeysOf, EntryOf
<1>4. E # {} => First(E) \in E
  BY FirstPlace
<1> HIDE DEF E
<1>5. CASE o2.entries = base.entries
  BY <1>5
<1>6. CASE Inserted(base, o2, s, k, v)
  <2> DEFINE none == {}
  <2>1. PICK e : EntryOf(e, s, k) /\ e.order = base.order + 1 /\ o2.entries = o.entries \cup {e}
    BY <1>6 DEF Inserted
  <2>2. e.order \in Nat /\ e.order > o.order
    BY <2>1 DEF Ordered
  <2>3. none \subseteq EntriesOf(o, s, k) /\ o2.entries = (o.entries \ none) \cup {e} /\ none = {}
    BY <2>1
  <2> HIDE DEF none
  <2> QED
    BY <2>1, <2>2, <2>3, OneAdded
<1>7. CASE Replaced(base, o2, s, k, v)
  <2>1. PICK e : /\ EntryOf(e, s, k) /\ e.order = First(E).order /\ E # {}
                 /\ o2.entries = (o.entries \ E) \cup {e}
    BY <1>1, <1>7 DEF Replaced
  <2> QED
    BY <1>2, <2>1, OneAdded DEF E
<1>8. CASE Dropped(base, o2, s, k)
  BY <1>8 DEF Dropped
<1>9. CASE Updated(base, o2, s, k, v)
  <2> DEFINE gone == {First(E)}
  <2>1. PICK e : /\ EntryOf(e, s, k) /\ e.order = First(E).order /\ E # {}
                 /\ o2.entries = (o.entries \ gone) \cup {e}
    BY <1>1, <1>9 DEF Updated
  <2>2. gone \subseteq EntriesOf(o, s, k)
    BY <1>4, <2>1 DEF E
  <2> HIDE DEF gone
  <2> QED
    BY <1>2, <2>1, <2>2, OneAdded DEF E
<1> QED
  BY <1>5, <1>6, <1>7, <1>8, <1>9 DEF Changed

\* What every step does: it moves no key, or it adds nothing.
Orderly(o, o2) == KeepsPlaces(o, o2) \/ o2.entries \subseteq o.entries

\* However the data is moved, the keys keep their places.
LEMMA MovedOrderly ==
    ASSUME NEW o, Ordered(o), NEW o2, Moved(o, o2)
    PROVE  Orderly(o, o2)
<1>1. CASE Untouched(o, o2)
  BY <1>1 DEF Untouched, Orderly
<1>2. CASE \E base, s, k, v : Extended(o, base, s) /\ Changed(base, o2, s, k, v)
  BY <1>2, ChangedPlaces DEF Extended, Orderly
<1>3. CASE \E s, k, v : ValueGone(o, o2, s, k, v)
  BY <1>3 DEF ValueGone, Orderly
<1>4. CASE \E s : SectionGone(o, o2, s)
  BY <1>4 DEF SectionGone, Orderly
<1>5. CASE Emptied(o, o2)
  BY <1>5 DEF Emptied, Orderly
<1> QED
  BY <1>1, <1>2, <1>3, <1>4, <1>5 DEF Moved

\* The property of a step.
KeyOrderKept ==
    \A s \in Names(ini) \cap Names(ini') :
        LET keys == {e.key.text : e \in KeysOf(ini', s)}
        IN  \A j, k \in keys :
            /\ (/\ Stays(s, j) /\ Stays(s, k)
                /\ ~ LosesFirst(s, j) /\ ~ LosesFirst(s, k)
                /\ FirstOrder(ini, s, j) < FirstOrder(ini, s, k))
               => FirstOrder(ini', s, j) < FirstOrder(ini', s, k)
            /\ (Stays(s, j) /\ ~ Stays(s, k))
               => FirstOrder(ini', s, j) < FirstOrder(ini', s, k)

\* Keys with places that are kept stay in their order.
LEMMA OrderlyKeepsOrder ==
    ASSUME IsIni(ini), Orderly(ini, ini')
    PROVE  KeyOrderKept
<1> SUFFICES ASSUME NEW s, NEW j, NEW k, Stays(s, j), EntriesOf(ini', s, k) # {}
             PROVE  /\ (/\ Stays(s, k) /\ ~ LosesFirst(s, j) /\ ~ LosesFirst(s, k)
                        /\ FirstOrder(ini, s, j) < FirstOrder(ini, s, k))
                       => FirstOrder(ini', s, j) < FirstOrder(ini', s, k)
                    /\ ~ Stays(s, k) => FirstOrder(ini', s, j) < FirstOrder(ini', s, k)
  BY DEF KeyOrderKept, EntriesOf
<1>1. Ordered(ini)
  BY DEF IsIni, Ordered
<1>2. CASE KeepsPlaces(ini, ini')
  <2>1. FirstOrder(ini', s, j) = FirstOrder(ini, s, j)
    BY <1>2 DEF KeepsPlaces, Stays
  <2>2. Stays(s, k) => FirstOrder(ini', s, k) = FirstOrder(ini, s, k)
    BY <1>2 DEF KeepsPlaces, Stays
  <2>3. FirstOrder(ini, s, j) \in 1..ini.order
    BY <1>1, FirstPlace DEF Stays
  <2>4. ~ Stays(s, k) => FirstOrder(ini', s, k) \in Nat /\ FirstOrder(ini', s, k) > ini.order
    BY <1>2 DEF KeepsPlaces, Stays
  <2>5. ini.order \in Nat
    BY <1>1 DEF Ordered
  <2> QED
    BY <2>1, <2>2, <2>3, <2>4, <2>5
<1>3. CASE ini'.entries \subseteq ini.entries
  <2>1. \A i : EntriesOf(ini', s, i) \subseteq EntriesOf(ini, s, i)
    BY <1>3 DEF EntriesOf, KeysOf
  <2>2. Stays(s, k)
    BY <2>1 DEF Stays
  <2>3. ASSUME NEW i, Stays(s, i), ~ LosesFirst(s, i)
        PROVE  FirstOrder(ini', s, i) = FirstOrder(ini, s, i)
    <3>1. ~ HasMultiple([ini EXCEPT !.multiKey = TRUE], s, i)
      BY <2>1, <2>3 DEF LosesFirst
    <3>2. \A e, f \in EntriesOf(ini, s, i) : e = f
      BY <3>1 DEF HasMultiple, IsIni, EntriesOf, KeysOf
    <3>3. EntriesOf(ini', s, i) = EntriesOf(ini, s, i)
      BY <2>1, <2>3, <3>2 DEF Stays
    <3> QED
      BY <3>3 DEF FirstOrder
  <2> QED
    BY <2>2, <2>3
<1> QED
  BY <1>2, <1>3 DEF Orderly

\* A key keeps its place among the others of its section, in every call and every round
\* of a load, wherever memory runs out; a new one comes behind them.
THEOREM KeysKeepTheirOrder == Spec => OrderKept
<1>1. IInv => IsIni(ini)
  BY DEF IInv, Sound
<1>2. IInv /\ [Next]_vars => KeyOrderKept
  <2>1. IsIni(ini) => Ordered(ini)
    BY DEF IsIni, Ordered
  <2> QED
    BY <1>1, <2>1, StepMoved, MovedOrderly, OrderlyKeepsOrder
<1>3. Spec => [][KeyOrderKept]_vars
  BY <1>2, InvInit, InvNext, PTL DEF Spec
<1> QED
  BY <1>3 DEF OrderKept, KeyOrderKept

-----------------------------------------------------------------------------
(* Values in their order                                                   *)

\* Entries that can be sorted.
Dated(E) ==
    /\ IsFiniteSet(E)
    /\ \A e \in E : e.order \in Nat
    /\ \A e, f \in E : e # f => e.order # f.order

Before(E, e) == {f \in E : f.order < e.order}

\* t is E in its order.
Lists(t, E) ==
    /\ t \in [1 .. Cardinality(E) -> E]
    /\ \A i, j \in 1 .. Cardinality(E) : i < j => t[i].order < t[j].order

\* The number of entries in front of an entry tells the entries apart, and takes every value
\* it can.
LEMMA Ranks ==
    ASSUME NEW E, Dated(E)
    PROVE  LET n == Cardinality(E)
               rank == [e \in E |-> Cardinality(Before(E, e))]
           IN  /\ n \in Nat
               /\ rank \in [E -> 0 .. n - 1]
               /\ \A e, f \in E : e.order < f.order => rank[e] < rank[f]
               /\ \A i \in 0 .. n - 1 : \E e \in E : rank[e] = i
<1> DEFINE n == Cardinality(E)
           rank == [e \in E |-> Cardinality(Before(E, e))]
<1>1. n \in Nat /\ IsFiniteSet(E)
  BY FS_CardinalityType DEF Dated
<1>2. \A e \in E : /\ Before(E, e) \subseteq E /\ e \notin Before(E, e)
                   /\ IsFiniteSet(Before(E, e)) /\ rank[e] \in Nat /\ rank[e] <= n
                   /\ rank[e] = Cardinality(Before(E, e))
  <2> TAKE e \in E
  <2>1. Before(E, e) \subseteq E /\ e \notin Before(E, e)
    BY DEF Before, Dated
  <2>2. /\ IsFiniteSet(Before(E, e)) /\ Cardinality(Before(E, e)) <= n
        /\ Cardinality(Before(E, e)) \in Nat
    BY <1>1, <2>1, FS_Subset, FS_CardinalityType
  <2> QED
    BY <2>1, <2>2
<1>3. \A e \in E : rank[e] # n
  BY <1>1, <1>2, FS_Subset
<1>4. rank \in [E -> 0 .. n - 1]
  <2> HIDE DEF n
  <2>1. \A e \in E : Cardinality(Before(E, e)) \in 0 .. n - 1
    BY <1>1, <1>2, <1>3
  <2> QED
    BY <2>1
<1>5. ASSUME NEW e \in E, NEW f \in E, e.order < f.order
      PROVE  rank[e] < rank[f]
  <2>1. Before(E, e) \subseteq Before(E, f) /\ e \in Before(E, f)
    BY <1>5 DEF Before, Dated
  <2>2. Before(E, e) # Before(E, f)
    BY <1>2, <2>1
  <2> HIDE DEF rank
  <2>3. rank[e] <= rank[f] /\ rank[e] # rank[f]
    BY <1>2, <2>1, <2>2, FS_Subset
  <2> QED
    BY <1>2, <2>3
<1>6. \A i \in 0 .. n - 1 : \E e \in E : rank[e] = i
  <2> DEFINE T == 0 .. n - 1
  <2>1. IsFiniteSet(T) /\ Cardinality(T) = n
    <3> HIDE DEF n
    <3>1. 0 \in Int /\ n - 1 \in Int /\ n \in Nat
      BY <1>1
    <3>2. IsFiniteSet(T) /\ Cardinality(T) = IF 0 > n - 1 THEN 0 ELSE (n - 1) - 0 + 1
      BY <3>1, FS_Interval
    <3> QED
      BY <3>1, <3>2
  <2>2. \A e, f \in E : e # f => rank[e] # rank[f]
    <3> TAKE e, f \in E
    <3> HAVE e # f
    <3>1. e.order < f.order \/ f.order < e.order
      BY DEF Dated
    <3> HIDE DEF rank
    <3> QED
      BY <1>2, <1>5, <3>1
  <2> HIDE DEF rank, n
  <2>3. rank \in Injection(E, T)
    BY <1>4, <2>2 DEF Injection, IsInjective
  <2>4. rank \in Surjection(E, T)
    BY <1>1, <2>1, <2>3, FS_Injection DEF n
  <2> QED
    BY <2>4 DEF Surjection
<1> QED
  BY <1>1, <1>4, <1>5, <1>6

\* InOrder makes the list.
LEMMA InOrderLists ==
    ASSUME NEW E, Dated(E)
    PROVE  Lists(InOrder(E), E) /\ Cardinality(E) \in Nat
<1> DEFINE n == Cardinality(E)
           rank == [e \in E |-> Cardinality(Before(E, e))]
           s == InOrder(E)
<1>1. /\ n \in Nat
      /\ rank \in [E -> 0 .. n - 1]
      /\ \A e, f \in E : e.order < f.order => rank[e] < rank[f]
      /\ \A i \in 0 .. n - 1 : \E e \in E : rank[e] = i
  BY Ranks
<1>2. \A e \in E : Cardinality({f \in E : f.order < e.order}) = rank[e]
  BY DEF Before
<1> HIDE DEF rank
<1>3. s = [i \in 1 .. n |-> CHOOSE e \in E : Cardinality({f \in E : f.order < e.order}) = i - 1]
  BY DEF InOrder
<1> HIDE DEF n, s
<1>4. \A i \in 1 .. n : s[i] \in E /\ rank[s[i]] = i - 1
  <2> TAKE i \in 1 .. n
  <2>1. i - 1 \in 0 .. n - 1
    BY <1>1
  <2>2. PICK e \in E : rank[e] = i - 1
    BY <1>1, <2>1
  <2>3. Cardinality({f \in E : f.order < e.order}) = i - 1
    BY <1>2, <2>2
  <2>4. s[i] = CHOOSE x \in E : Cardinality({f \in E : f.order < x.order}) = i - 1
    BY <1>3
  <2>5. s[i] \in E /\ Cardinality({f \in E : f.order < s[i].order}) = i - 1
    BY <2>3, <2>4
  <2> QED
    BY <1>2, <2>5
<1>5. s \in [1 .. n -> E]
  BY <1>3, <1>4
<1>6. ASSUME NEW i \in 1 .. n, NEW j \in 1 .. n, i < j
      PROVE  s[i].order < s[j].order
  <2>1. /\ s[i] \in E /\ s[j] \in E /\ rank[s[i]] = i - 1 /\ rank[s[j]] = j - 1
    BY <1>4
  <2>2. rank[s[i]] < rank[s[j]] /\ s[i] # s[j]
    BY <1>6, <2>1
  <2>3. s[i].order \in Nat /\ s[j].order \in Nat /\ s[i].order # s[j].order
    BY <2>1, <2>2 DEF Dated
  <2>4. ~ (s[j].order < s[i].order)
    BY <1>1, <1>6, <2>1
  <2> QED
    BY <2>3, <2>4
<1> QED
  BY <1>1, <1>5, <1>6 DEF Lists, n, s

\* A list in order holds every entry.
LEMMA ListsAll ==
    ASSUME NEW E, Dated(E), NEW t, Lists(t, E)
    PROVE  \A e \in E : \E i \in 1 .. Cardinality(E) : t[i] = e
<1> DEFINE n == Cardinality(E)
<1>1. n \in Nat /\ IsFiniteSet(E)
  BY FS_CardinalityType DEF Dated
<1>2. IsFiniteSet(1 .. n) /\ Cardinality(1 .. n) = n
  <2> HIDE DEF n
  <2>1. 1 \in Int /\ n \in Int
    BY <1>1
  <2>2. IsFiniteSet(1 .. n) /\ Cardinality(1 .. n) = IF 1 > n THEN 0 ELSE n - 1 + 1
    BY <2>1, FS_Interval
  <2> QED
    BY <1>1, <2>2
<1>3. t \in Injection(1 .. n, E)
  <2>1. t \in [1 .. n -> E] /\ \A i, j \in 1 .. n : i < j => t[i].order < t[j].order
    BY DEF Lists
  <2> HIDE DEF n
  <2>2. \A i, j \in 1 .. n : i # j => t[i] # t[j]
    <3> TAKE i, j \in 1 .. n
    <3> HAVE i # j
    <3>1. i < j \/ j < i
      BY <1>1
    <3>2. t[i].order \in Nat /\ t[j].order \in Nat
      BY <2>1 DEF Dated
    <3> QED
      BY <2>1, <3>1, <3>2
  <2> QED
    BY <2>1, <2>2 DEF Injection, IsInjective
<1>4. t \in Surjection(1 .. n, E)
  BY <1>1, <1>2, <1>3, FS_Injection
<1> QED
  BY <1>4 DEF Surjection

\* There is only one order.
LEMMA ListIsUnique ==
    ASSUME NEW E, Dated(E), NEW s, Lists(s, E), NEW t, Lists(t, E)
    PROVE  s = t
<1> DEFINE n == Cardinality(E)
<1>1. n \in Nat
  BY FS_CardinalityType DEF Dated
<1>2. /\ s \in [1 .. n -> E] /\ \A i, j \in 1 .. n : i < j => s[i].order < s[j].order
      /\ t \in [1 .. n -> E] /\ \A i, j \in 1 .. n : i < j => t[i].order < t[j].order
  BY DEF Lists
<1>3. \A e \in E : \E i \in 1 .. n : s[i] = e
  BY ListsAll
<1>4. \A e \in E : \E i \in 1 .. n : t[i] = e
  BY ListsAll
<1>5. \A e \in E : e.order \in Nat
  BY DEF Dated
<1> HIDE DEF n
<1>6. (\A k \in 1 .. n : s[k] = t[k]) => s = t
  <2>1. s = [k \in 1 .. n |-> s[k]] /\ t = [k \in 1 .. n |-> t[k]]
    BY <1>2
  <2> QED
    BY ONLY <2>1
<1> SUFFICES ASSUME NEW k \in 1 .. n, s[k] # t[k] PROVE FALSE
  BY <1>6
<1> DEFINE T == {i \in 1 .. n : s[i] # t[i]}
<1>7. PICK m \in T : \A i \in T : m <= i
  <2>1. T \subseteq Nat /\ T # {}
    BY <1>1
  <2> HIDE DEF T
  <2> QED
    BY <2>1, SmallestOrder
<1>8. m \in 1 .. n /\ s[m] # t[m] /\ \A i \in 1 .. n : i < m => s[i] = t[i]
  BY <1>1, <1>7
<1>9. PICK i \in 1 .. n : t[i] = s[m]
  BY <1>2, <1>4, <1>8
<1>10. PICK j \in 1 .. n : s[j] = t[m]
  BY <1>2, <1>3, <1>8
<1>11. i > m /\ j > m
  <2>1. i # m /\ j # m
    BY <1>8, <1>9, <1>10
  <2>2. i < m => s[i] = s[m] /\ s[i].order < s[m].order
    BY <1>2, <1>8, <1>9
  <2>3. j < m => t[j] = t[m] /\ t[j].order < t[m].order
    BY <1>2, <1>8, <1>10
  <2>4. s[m].order \in Nat /\ t[m].order \in Nat
    BY <1>2, <1>5, <1>8
  <2> QED
    BY <1>1, <1>8, <2>1, <2>2, <2>3, <2>4
<1>12. t[m].order < s[m].order /\ s[m].order < t[m].order
  BY <1>2, <1>8, <1>9, <1>10, <1>11
<1> QED
  BY <1>2, <1>5, <1>8, <1>12

\* The values of the entries E, in order.
ValuesOf(E) == [i \in DOMAIN InOrder(E) |-> InOrder(E)[i].value.text]

\* Whatever list in order is given, its values are the values.
LEMMA ValuesOfList ==
    ASSUME NEW E, Dated(E), NEW t, Lists(t, E)
    PROVE  /\ ValuesOf(E) = [i \in 1 .. Cardinality(E) |-> t[i].value.text]
           /\ Cardinality(E) \in Nat
<1>1. Lists(InOrder(E), E) /\ Cardinality(E) \in Nat
  BY InOrderLists
<1>2. InOrder(E) = t
  BY <1>1, ListIsUnique
<1>3. DOMAIN t = 1 .. Cardinality(E)
  BY DEF Lists
<1> QED
  BY <1>1, <1>2, <1>3 DEF ValuesOf

\* The value of an entry behind all others is appended.
LEMMA ValuesAppended ==
    ASSUME NEW E, Dated(E), NEW e, e.order \in Nat, \A f \in E : f.order < e.order
    PROVE  /\ Dated(E \cup {e})
           /\ ValuesOf(E \cup {e}) = Append(ValuesOf(E), e.value.text)
<1> DEFINE n == Cardinality(E)
           s == InOrder(E)
           F == E \cup {e}
           t == [i \in 1 .. n + 1 |-> IF i <= n THEN s[i] ELSE e]
           v == [i \in 1 .. n |-> s[i].value.text]
           S == {f.value.text : f \in F}
<1>1. /\ n \in Nat /\ Lists(s, E)
      /\ s \in [1 .. n -> E] /\ \A i, j \in 1 .. n : i < j => s[i].order < s[j].order
      /\ ValuesOf(E) = v
  <2>1. Lists(s, E) /\ n \in Nat
    BY InOrderLists
  <2> HIDE DEF s
  <2> QED
    BY <2>1, ValuesOfList DEF Lists
<1>2. e \notin E /\ \A f \in E : f.order \in Nat
  BY DEF Dated
<1>3. Cardinality(F) = n + 1 /\ IsFiniteSet(F)
  BY <1>2, FS_AddElement DEF Dated
<1>4. Dated(F)
  BY <1>2, <1>3 DEF Dated
<1> HIDE DEF n, s
<1>5. t \in [1 .. n + 1 -> F]
  BY <1>1
<1>6. \A i, j \in 1 .. n + 1 : i < j => t[i].order < t[j].order
  BY <1>1, <1>2
<1>7. Lists(t, F)
  BY <1>3, <1>5, <1>6 DEF Lists
<1>8. ValuesOf(F) = [i \in 1 .. n + 1 |-> t[i].value.text]
  <2> HIDE DEF t, F
  <2> QED
    BY <1>3, <1>4, <1>7, ValuesOfList
<1>9. v \in Seq(S) /\ Len(v) = n /\ e.value.text \in S
  BY <1>1
<1>10. \A i \in 1 .. n + 1 : t[i].value.text = IF i <= n THEN v[i] ELSE e.value.text
  BY <1>1
<1>11. ValuesOf(F) = [i \in 1 .. n + 1 |-> IF i <= n THEN v[i] ELSE e.value.text]
  <2> HIDE DEF t, v, F
  <2> QED
    BY <1>8, <1>10
<1>12. ValuesOf(F) = Append(v, e.value.text)
  <2> HIDE DEF v, S, F
  <2> DEFINE x == e.value.text
             w == [i \in 1 .. n + 1 |-> IF i <= n THEN v[i] ELSE x]
  <2> HIDE DEF x
  <2>1. w = Append(v, x)
    <3>1. \A i \in 1 .. n : v[i] \in S
      BY <1>9
    <3>2. w \in Seq(S) /\ Len(w) = n + 1
      BY <1>1, <1>9, <3>1 DEF x
    <3>3. /\ Append(v, x) \in Seq(S) /\ Len(Append(v, x)) = n + 1
          /\ \A i \in 1 .. n : Append(v, x)[i] = v[i]
          /\ Append(v, x)[n + 1] = x
      BY <1>1, <1>9 DEF x
    <3>4. \A i \in 1 .. n + 1 : w[i] = Append(v, x)[i]
      BY <1>1, <3>3
    <3> HIDE DEF w
    <3> QED
      BY <3>2, <3>3, <3>4
  <2> QED
    BY <1>11, <2>1 DEF x
<1> QED
  BY <1>1, <1>4, <1>12 DEF F

\* A key without entries has no values.
LEMMA ValuesOfNone == ValuesOf({}) = << >> /\ Dated({})
<1>1. Cardinality({}) = 0 /\ IsFiniteSet({})
  BY FS_EmptySet
<1>2. Dated({})
  BY <1>1 DEF Dated
<1>3. Lists(<< >>, {})
  BY <1>1 DEF Lists
<1>4. ValuesOf({}) = [i \in 1 .. 0 |-> << >>[i].value.text]
  BY <1>1, <1>2, <1>3, ValuesOfList
<1> QED
  BY <1>2, <1>4

\* A key with one entry has one value.
LEMMA ValuesOfOne ==
    ASSUME NEW e, e.order \in Nat
    PROVE  Dated({e}) /\ ValuesOf({e}) = <<e.value.text>>
<1> DEFINE t == <<e>>
<1>1. Cardinality({e}) = 1 /\ IsFiniteSet({e})
  BY FS_Singleton
<1>2. Dated({e})
  BY <1>1 DEF Dated
<1>3. Lists(t, {e})
  BY <1>1 DEF Lists
<1>4. ValuesOf({e}) = [i \in 1 .. 1 |-> t[i].value.text]
  BY <1>1, <1>2, <1>3, ValuesOfList
<1> QED
  BY <1>2, <1>4

\* The value of the first entry is changed.
LEMMA ValuesUpdated ==
    ASSUME NEW E, Dated(E), E # {}, NEW e, e.order = First(E).order
    PROVE  LET F == (E \ {First(E)}) \cup {e}
           IN  /\ Dated(F)
               /\ ValuesOf(E) # << >>
               /\ ValuesOf(F) = [ValuesOf(E) EXCEPT ![1] = e.value.text]
<1> DEFINE n == Cardinality(E)
           s == InOrder(E)
           g == First(E)
           R == E \ {g}
           F == R \cup {e}
           t == [s EXCEPT ![1] = e]
<1>1. /\ n \in Nat /\ Lists(s, E)
      /\ s \in [1 .. n -> E] /\ \A i, j \in 1 .. n : i < j => s[i].order < s[j].order
      /\ ValuesOf(E) = [i \in 1 .. n |-> s[i].value.text]
  <2>1. Lists(s, E) /\ n \in Nat
    BY InOrderLists
  <2> HIDE DEF s
  <2> QED
    BY <2>1, ValuesOfList DEF Lists
<1>2. IsFiniteSet(E) /\ \A f \in E : f.order \in Nat
  BY DEF Dated
<1>3. n # 0
  BY <1>2, FS_EmptySet
<1>4. \A f \in E : \E i \in 1 .. n : s[i] = f
  BY <1>1, ListsAll
<1> HIDE DEF n, s
<1>5. \A f \in E : s[1].order <= f.order
  <2> TAKE f \in E
  <2> PICK i \in 1 .. n : s[i] = f
    BY <1>4
  <2>1. CASE i = 1
    BY <1>1, <1>2, <2>1
  <2>2. CASE i # 1
    BY <1>1, <1>2, <1>3, <2>2
  <2> QED
    BY <2>1, <2>2
<1>6. s[1] \in E
  BY <1>1, <1>3
<1>7. g \in E /\ \A f \in E : g.order <= f.order
  BY <1>2, <1>5, <1>6 DEF First
<1>8. g = s[1]
  <2>1. g.order = s[1].order
    BY <1>2, <1>5, <1>6, <1>7
  <2> HIDE DEF g
  <2> QED
    BY <1>6, <1>7, <2>1 DEF Dated
<1>9. e.order = g.order
  OBVIOUS
<1> HIDE DEF g
<1>10. e \notin R /\ \A f \in R : f.order # e.order /\ f.order \in Nat
  BY <1>7, <1>9 DEF Dated
<1>11. IsFiniteSet(R) /\ Cardinality(R) = n - 1
  BY <1>2, <1>7, FS_RemoveElement DEF n
<1>12. IsFiniteSet(F) /\ Cardinality(F) = n
  <2>1. IsFiniteSet(F) /\ Cardinality(F) = (n - 1) + 1
    <3> HIDE DEF R
    <3> QED
      BY <1>10, <1>11, FS_AddElement
  <2> HIDE DEF F
  <2> QED
    BY <1>1, <2>1
<1>13. Dated(F)
  <2>1. \A a, b \in R : a # b => a.order # b.order
    BY DEF Dated
  <2>2. e.order \in Nat
    BY <1>2, <1>7, <1>9
  <2> HIDE DEF R
  <2> QED
    BY <1>10, <1>12, <2>1, <2>2 DEF Dated
<1>14. \A i \in 1 .. n : t[i] = IF i = 1 THEN e ELSE s[i]
  BY <1>1
<1>15. \A i \in 1 .. n : i # 1 => s[i] \in R
  <2> TAKE i \in 1 .. n
  <2> HAVE i # 1
  <2>1. s[1].order < s[i].order
    BY <1>1, <1>3
  <2> QED
    BY <1>1, <1>2, <1>8, <2>1
<1>16. t \in [1 .. n -> F]
  <2>1. DOMAIN t = 1 .. n /\ t = [i \in 1 .. n |-> t[i]]
    BY <1>1
  <2>2. \A i \in 1 .. n : t[i] \in F
    BY <1>14, <1>15
  <2> HIDE DEF t, F
  <2> QED
    BY <2>1, <2>2
<1>17. \A i, j \in 1 .. n : i < j => t[i].order < t[j].order
  <2> TAKE i, j \in 1 .. n
  <2> HAVE i < j
  <2>1. t[j] = s[j] /\ t[i].order = s[i].order
    BY <1>1, <1>8, <1>9, <1>14
  <2> QED
    BY <1>1, <2>1
<1>18. Lists(t, F)
  <2> HIDE DEF t, F
  <2> QED
    BY <1>12, <1>16, <1>17 DEF Lists
<1>19. ValuesOf(F) = [i \in 1 .. n |-> t[i].value.text]
  <2> HIDE DEF t, F
  <2> QED
    BY <1>12, <1>13, <1>18, ValuesOfList
<1>20. ValuesOf(F) = [ValuesOf(E) EXCEPT ![1] = e.value.text]
  <2> HIDE DEF t, F
  <2> QED
    BY <1>1, <1>14, <1>19
<1>21. ValuesOf(E) # << >>
  <2>1. 1 \in DOMAIN ValuesOf(E)
    BY <1>1, <1>3
  <2> QED
    BY <2>1
<1> QED
  BY <1>13, <1>20, <1>21 DEF g

\* Some of the entries can be sorted when all can.
LEMMA FewerDated ==
    ASSUME NEW E, Dated(E), NEW D, D \subseteq E
    PROVE  Dated(D)
BY FS_Subset DEF Dated

\* The entries D of E whose value is not v, and the places of their values in the list of E.
Left(E, D, v, all, left) ==
    /\ Dated(E)
    /\ D = {e \in E : e.value.text # v}
    /\ all = ValuesOf(E)
    /\ left = {i \in DOMAIN all : all[i] # v}

\* The list new takes the values at the places left from the list old, in their order.
Keeps(f, left, new, old) ==
    /\ f \in [1 .. Cardinality(left) -> left]
    /\ \A i, j \in DOMAIN f : i < j => f[i] < f[j]
    /\ new = [i \in DOMAIN f |-> old[f[i]]]

\* Some of the entries are removed: what is left of the values is as the sequence f says.
LEMMA ValuesLeft ==
    ASSUME NEW E, NEW D, NEW v, NEW all, NEW left, Left(E, D, v, all, left)
    PROVE  /\ left = {} <=> D = {}
           /\ \E f : Keeps(f, left, ValuesOf(D), all)
<1> DEFINE n    == Cardinality(E)
           s    == InOrder(E)
           m    == Cardinality(D)
           d    == InOrder(D)
<1>0. /\ Dated(E) /\ D = {e \in E : e.value.text # v}
      /\ all = ValuesOf(E) /\ left = {i \in DOMAIN all : all[i] # v}
  BY DEF Left
<1>1. /\ n \in Nat /\ Lists(s, E)
      /\ s \in [1 .. n -> E] /\ \A i, j \in 1 .. n : i < j => s[i].order < s[j].order
      /\ all = [i \in 1 .. n |-> s[i].value.text]
  <2>1. Lists(s, E) /\ n \in Nat
    BY <1>0, InOrderLists
  <2> HIDE DEF s
  <2>2. s \in [1 .. n -> E] /\ \A i, j \in 1 .. n : i < j => s[i].order < s[j].order
    BY ONLY <2>1 DEF Lists
  <2>3. ValuesOf(E) = [i \in 1 .. n |-> s[i].value.text]
    BY ONLY <1>0, <2>1, ValuesOfList
  <2> QED
    BY <1>0, <2>1, <2>2, <2>3
<1>2. D \subseteq E /\ Dated(D)
  BY <1>0, FewerDated
<1>3. /\ m \in Nat /\ Lists(d, D)
      /\ d \in [1 .. m -> D] /\ \A i, j \in 1 .. m : i < j => d[i].order < d[j].order
      /\ ValuesOf(D) = [i \in 1 .. m |-> d[i].value.text]
  <2>1. Lists(d, D) /\ m \in Nat
    BY <1>2, InOrderLists
  <2> HIDE DEF d
  <2>2. ValuesOf(D) = [i \in 1 .. m |-> d[i].value.text]
    BY ONLY <1>2, <2>1, ValuesOfList
  <2>3. d \in [1 .. m -> D] /\ \A i, j \in 1 .. m : i < j => d[i].order < d[j].order
    BY ONLY <2>1 DEF Lists
  <2> QED
    BY <2>1, <2>2, <2>3
<1>4. \A e \in E : \E i \in 1 .. n : s[i] = e
  BY <1>0, <1>1, ListsAll
<1>5. \A e \in E : e.order \in Nat
  BY <1>0 DEF Dated
<1> HIDE DEF n, s, m, d
<1>6. left = {i \in 1 .. n : s[i] \in D}
  <2>1. \A i \in 1 .. n : all[i] # v <=> s[i] \in D
    BY <1>0, <1>1
  <2>2. DOMAIN all = 1 .. n
    BY <1>1
  <2>3. left = {i \in 1 .. n : all[i] # v}
    BY <1>0, <2>2
  <2> QED
    BY <2>1, <2>3
<1>7. left = {} <=> D = {}
  BY <1>1, <1>2, <1>4, <1>6
<1>8. \A i, j \in 1 .. n : s[i] = s[j] => i = j
  <2> TAKE i, j \in 1 .. n
  <2> HAVE s[i] = s[j]
  <2>1. ~ (s[i].order < s[j].order) /\ ~ (s[j].order < s[i].order)
    BY <1>1, <1>5
  <2> QED
    BY <1>1, <2>1
<1>9. Cardinality(left) = m
  <2> DEFINE g == [i \in left |-> s[i]]
  <2>1. g \in [left -> D]
    BY <1>6
  <2>2. \A i, j \in left : i # j => g[i] # g[j]
    BY <1>6, <1>8
  <2>3. \A e \in D : \E i \in left : g[i] = e
    BY <1>2, <1>4, <1>6
  <2>4. IsFiniteSet(left)
    <3>1. IsFiniteSet(1 .. n)
      BY <1>1, FS_Interval
    <3> QED
      BY <1>6, <3>1, FS_Subset
  <2> HIDE DEF g
  <2>5. g \in Bijection(left, D)
    BY <2>1, <2>2, <2>3 DEF Bijection, Injection, Surjection, IsInjective
  <2>6. ExistsBijection(left, D)
    BY <2>5 DEF ExistsBijection
  <2> QED
    BY <2>4, <2>6, FS_Bijection DEF m
<1> DEFINE f == [k \in 1 .. m |-> CHOOSE i \in left : s[i] = d[k]]
<1>10. \A k \in 1 .. m : f[k] \in left /\ f[k] \in 1 .. n /\ s[f[k]] = d[k]
  <2> TAKE k \in 1 .. m
  <2>1. d[k] \in D /\ d[k] \in E
    BY <1>2, <1>3
  <2>2. PICK i \in 1 .. n : s[i] = d[k]
    BY <1>4, <2>1
  <2>3. i \in left
    BY <1>6, <2>1, <2>2
  <2>4. f[k] = CHOOSE x \in left : s[x] = d[k]
    OBVIOUS
  <2> HIDE DEF f
  <2>5. f[k] \in left /\ s[f[k]] = d[k]
    BY <2>2, <2>3, <2>4
  <2> QED
    BY <1>6, <2>5
<1>11. DOMAIN f = 1 .. m /\ f \in [1 .. m -> left]
  BY <1>10
<1> HIDE DEF f
<1>12. ASSUME NEW i \in 1 .. m, NEW j \in 1 .. m, i < j
       PROVE  f[i] < f[j]
  <2>1. s[f[i]].order < s[f[j]].order
    BY <1>3, <1>10, <1>12
  <2>2. s[f[i]].order \in Nat /\ s[f[j]].order \in Nat
    BY <1>1, <1>5, <1>10
  <2>3. f[i] \in 1 .. n /\ f[j] \in 1 .. n
    BY ONLY <1>10
  <2>4. f[i] # f[j]
    BY ONLY <2>1, <2>2
  <2>5. f[j] < f[i] => s[f[j]].order < s[f[i]].order
    BY ONLY <1>1, <2>3
  <2>6. ~ (s[f[j]].order < s[f[i]].order)
    BY ONLY <2>1, <2>2
  <2> QED
    BY ONLY <1>1, <2>3, <2>4, <2>5, <2>6
<1>13. ValuesOf(D) = [i \in DOMAIN f |-> all[f[i]]]
  <2>1. \A i \in 1 .. m : all[f[i]] = d[i].value.text
    BY <1>1, <1>10
  <2> QED
    BY <1>3, <1>11, <2>1
<1>14. Keeps(f, left, ValuesOf(D), all)
  <2>1. \A i, j \in DOMAIN f : i < j => f[i] < f[j]
    BY <1>11, <1>12
  <2> QED
    BY <1>9, <1>11, <1>13, <2>1 DEF Keeps
<1> QED
  BY <1>7, <1>14

\* The value of every entry is in the list.
LEMMA ValueAt ==
    ASSUME NEW E, Dated(E), NEW e \in E
    PROVE  /\ \E i \in DOMAIN ValuesOf(E) : ValuesOf(E)[i] = e.value.text
           /\ ValuesOf(E) # << >>
<1> DEFINE s == InOrder(E)
<1>1. Lists(s, E)
  BY InOrderLists
<1>2. PICK i \in 1 .. Cardinality(E) : s[i] = e
  BY <1>1, ListsAll
<1> HIDE DEF s
<1>3. ValuesOf(E) = [j \in 1 .. Cardinality(E) |-> s[j].value.text]
  BY <1>1, ValuesOfList
<1>4. i \in DOMAIN ValuesOf(E) /\ ValuesOf(E)[i] = e.value.text
  BY <1>2, <1>3
<1> QED
  BY <1>4

-----------------------------------------------------------------------------
(***************************************************************************)
(* KeyValues is implemented: the step of the object is a step of the       *)
(* abstract object, for the one key that it changes.                       *)
(***************************************************************************)

Places(o) == {<<e.section, e.key.text>> : e \in o.entries}

\* The mapping, key by key.
LEMMA ValueListsOf ==
    ASSUME NEW o
    PROVE  /\ ValueLists(o) = [p \in Places(o) |-> ValuesOf(EntriesOf(o, p[1], p[2]))]
           /\ \A s, k : <<s, k>> \in Places(o) <=> EntriesOf(o, s, k) # {}
           /\ \A p \in Places(o) : p = <<p[1], p[2]>>
<1>1. ValueLists(o) = [p \in Places(o) |-> ValuesOf(EntriesOf(o, p[1], p[2]))]
  BY DEF ValueLists, Places, ValuesOf
<1>2. \A s, k : <<s, k>> \in Places(o) <=> EntriesOf(o, s, k) # {}
  BY DEF Places, EntriesOf, KeysOf
<1>3. \A p \in Places(o) : p = <<p[1], p[2]>>
  BY DEF Places
<1> QED
  BY <1>1, <1>2, <1>3

\* The other keys keep their entries.
OthersStay(o, o2, s, k) ==
    \A t, l : <<t, l>> # <<s, k>> => EntriesOf(o2, t, l) = EntriesOf(o, t, l)

\* The lists when only one key is changed, and it has values afterwards.
LEMMA OneKeyGained ==
    ASSUME NEW o, NEW o2, NEW s, NEW k, OthersStay(o, o2, s, k), EntriesOf(o2, s, k) # {}
    PROVE  /\ ValueLists(o2) = [q \in Places(o2) |-> ValueLists(o2)[q]]
           /\ Places(o2) = Places(o) \cup {<<s, k>>}
           /\ \A q \in Places(o2) :
                ValueLists(o2)[q] =
                   IF q = <<s, k>> THEN ValuesOf(EntriesOf(o2, s, k)) ELSE ValueLists(o)[q]
<1>1. ValueLists(o2) = [p \in Places(o2) |-> ValuesOf(EntriesOf(o2, p[1], p[2]))]
  BY ValueListsOf
<1>2. \A p \in Places(o) : ValueLists(o)[p] = ValuesOf(EntriesOf(o, p[1], p[2]))
  BY ValueListsOf
<1>3. \A t, l : <<t, l>> \in Places(o2) <=> <<t, l>> \in Places(o) \/ <<t, l>> = <<s, k>>
  <2> TAKE t, l
  <2>1. /\ <<t, l>> \in Places(o2) <=> EntriesOf(o2, t, l) # {}
        /\ <<t, l>> \in Places(o) <=> EntriesOf(o, t, l) # {}
    BY ValueListsOf
  <2>2. CASE <<t, l>> = <<s, k>>
    BY <2>1, <2>2
  <2>3. CASE <<t, l>> # <<s, k>>
    BY <2>1, <2>3 DEF OthersStay
  <2> QED
    BY <2>2, <2>3
<1>4. Places(o2) = Places(o) \cup {<<s, k>>}
  BY <1>3, ValueListsOf
<1>5. \A q \in Places(o2) :
          ValuesOf(EntriesOf(o2, q[1], q[2])) =
             IF q = <<s, k>> THEN ValuesOf(EntriesOf(o2, s, k)) ELSE ValueLists(o)[q]
  <2> TAKE q \in Places(o2)
  <2>1. CASE q = <<s, k>>
    BY <2>1
  <2>2. CASE q # <<s, k>>
    <3>1. q \in Places(o) /\ q = <<q[1], q[2]>>
      BY <1>4, <2>2, ValueListsOf
    <3>2. EntriesOf(o2, q[1], q[2]) = EntriesOf(o, q[1], q[2])
      BY <2>2, <3>1 DEF OthersStay
    <3> QED
      BY <1>2, <2>2, <3>1, <3>2
  <2> QED
    BY <2>1, <2>2
<1> QED
  BY <1>1, <1>4, <1>5

\* The lists when only one key is changed, and it has no values afterwards.
LEMMA OneKeyLost ==
    ASSUME NEW o, NEW o2, NEW s, NEW k, OthersStay(o, o2, s, k), EntriesOf(o2, s, k) = {}
    PROVE  /\ ValueLists(o2) = [q \in Places(o2) |-> ValueLists(o2)[q]]
           /\ Places(o2) = Places(o) \ {<<s, k>>}
           /\ \A q \in Places(o2) : ValueLists(o2)[q] = ValueLists(o)[q]
<1>1. ValueLists(o2) = [p \in Places(o2) |-> ValuesOf(EntriesOf(o2, p[1], p[2]))]
  BY ValueListsOf
<1>2. \A p \in Places(o) : ValueLists(o)[p] = ValuesOf(EntriesOf(o, p[1], p[2]))
  BY ValueListsOf
<1>3. \A t, l : <<t, l>> \in Places(o2) <=> <<t, l>> \in Places(o) /\ <<t, l>> # <<s, k>>
  <2> TAKE t, l
  <2>1. /\ <<t, l>> \in Places(o2) <=> EntriesOf(o2, t, l) # {}
        /\ <<t, l>> \in Places(o) <=> EntriesOf(o, t, l) # {}
    BY ValueListsOf
  <2>2. CASE <<t, l>> = <<s, k>>
    BY <2>1, <2>2
  <2>3. CASE <<t, l>> # <<s, k>>
    BY <2>1, <2>3 DEF OthersStay
  <2> QED
    BY <2>2, <2>3
<1>4. Places(o2) = Places(o) \ {<<s, k>>}
  BY <1>3, ValueListsOf
<1>5. \A q \in Places(o2) : ValuesOf(EntriesOf(o2, q[1], q[2])) = ValueLists(o)[q]
  <2> TAKE q \in Places(o2)
  <2>1. q \in Places(o) /\ q # <<s, k>> /\ q = <<q[1], q[2]>>
    BY <1>4, ValueListsOf
  <2>2. EntriesOf(o2, q[1], q[2]) = EntriesOf(o, q[1], q[2])
    BY <2>1 DEF OthersStay
  <2> QED
    BY <1>2, <2>1, <2>2
<1> QED
  BY <1>1, <1>4, <1>5

\* What the abstract object is mapped to.
LEMMA OldValues ==
    ASSUME NEW s, NEW k
    PROVE  /\ Abstract!Old(<<s, k>>) = ValuesOf(EntriesOf(ini, s, k))
           /\ DOMAIN ValueLists(ini) = Places(ini)
<1>1. DOMAIN ValueLists(ini) = Places(ini)
  BY ValueListsOf
<1>2. CASE EntriesOf(ini, s, k) = {}
  BY <1>1, <1>2, ValueListsOf, ValuesOfNone DEF Abstract!Old
<1>3. CASE EntriesOf(ini, s, k) # {}
  <2>1. <<s, k>> \in Places(ini)
    BY <1>3, ValueListsOf
  <2>2. ValueLists(ini)[<<s, k>>] = ValuesOf(EntriesOf(ini, <<s, k>>[1], <<s, k>>[2]))
    BY <2>1, ValueListsOf
  <2>3. <<s, k>>[1] = s /\ <<s, k>>[2] = k
    OBVIOUS
  <2> QED
    BY <1>1, <2>1, <2>2, <2>3 DEF Abstract!Old
<1> QED
  BY <1>1, <1>2, <1>3

\* The entries of one key are changed: the abstract store assigns their values.
LEMMA Assigned ==
    ASSUME NEW s, NEW k, OthersStay(ini, ini', s, k), EntriesOf(ini', s, k) # {},
           Names(ini') = Names(ini) \cup {s}, ini'.multiKey = ini.multiKey
    PROVE  Abstract!Assign(<<s, k>>, ValuesOf(EntriesOf(ini', s, k)))
<1> DEFINE p == <<s, k>>
<1>1. PICK o2 : o2 = ini'
  OBVIOUS
<1>2. OthersStay(ini, o2, s, k) /\ EntriesOf(o2, s, k) # {}
  BY <1>1
<1>3. /\ ValueLists(o2) = [q \in Places(o2) |-> ValueLists(o2)[q]]
      /\ Places(o2) = Places(ini) \cup {<<s, k>>}
      /\ \A q \in Places(o2) :
            ValueLists(o2)[q] =
               IF q = <<s, k>> THEN ValuesOf(EntriesOf(o2, s, k)) ELSE ValueLists(ini)[q]
  BY <1>2, OneKeyGained
<1>4. p[1] = s
  OBVIOUS
<1>5. DOMAIN ValueLists(ini) = Places(ini)
  BY ValueListsOf
<1> QED
  BY <1>1, <1>3, <1>4, <1>5 DEF Abstract!Assign

\* A value of a list after the step.
LEMMA NewValue ==
    ASSUME NEW s, NEW k, NEW e \in EntriesOf(ini', s, k), Dated(EntriesOf(ini', s, k))
    PROVE  \E p \in DOMAIN ValueLists(ini') : \E i \in DOMAIN ValueLists(ini')[p] :
               p = <<s, k>> /\ ValueLists(ini')[p][i] = e.value.text
<1> DEFINE E2 == EntriesOf(ini', s, k)
           p  == <<s, k>>
<1>1. p \in Places(ini')
  BY ValueListsOf
<1>2. ValueLists(ini')[p] = ValuesOf(EntriesOf(ini', p[1], p[2])) /\ p \in DOMAIN ValueLists(ini')
  BY <1>1, ValueListsOf
<1>3. p[1] = s /\ p[2] = k
  OBVIOUS
<1>4. ValueLists(ini')[p] = ValuesOf(E2)
  BY <1>2, <1>3
<1>5. PICK i \in DOMAIN ValuesOf(E2) : ValuesOf(E2)[i] = e.value.text
  BY ValueAt
<1> HIDE DEF p, E2
<1> QED
  BY <1>2, <1>4, <1>5 DEF p

Whole(o) == IsIni(o) /\ IsConsistent(o) /\ IsFiniteSet(o.entries)

\* The entries of a key can be sorted, and are not newer than the newest.
LEMMA KeyDated ==
    ASSUME NEW o, Whole(o), NEW s, NEW k
    PROVE  /\ Dated(EntriesOf(o, s, k))
           /\ EntriesOf(o, s, k) # {} => s \in Names(o)
           /\ \A e \in EntriesOf(o, s, k) : e.order <= o.order
           /\ EntriesOf(o, s, k) # {} => First(EntriesOf(o, s, k)) \in EntriesOf(o, s, k)
<1> DEFINE E == EntriesOf(o, s, k)
<1>1. E \subseteq o.entries /\ \A e \in E : e.section = s
  BY DEF EntriesOf, KeysOf
<1>2. IsFiniteSet(E)
  BY <1>1, FS_Subset DEF Whole
<1>3. \A e \in o.entries : e.order \in 1..o.order /\ e.order \in Nat /\ o.order \in Nat
  BY DEF Whole, IsIni
<1>4. \A e, f \in o.entries : e # f => e.order # f.order
  BY DEF Whole, IsConsistent
<1>5. \A e \in o.entries : e.section \in Names(o)
  BY DEF Whole, IsConsistent, HasSection, Names
<1> HIDE DEF E
<1>6. Dated(E)
  BY <1>1, <1>2, <1>3, <1>4 DEF Dated
<1>7. E # {} => First(E) \in E
  BY <1>1, <1>3, FirstIsOne
<1>8. \A e \in E : e.order <= o.order
  BY <1>1, <1>3
<1>9. E # {} => s \in Names(o)
  BY <1>1, <1>5
<1> QED
  BY <1>6, <1>7, <1>8, <1>9 DEF E

\* Entries of one key go and come: the other keys stay as they are.
LEMMA OthersUntouched ==
    ASSUME NEW o, NEW o2, NEW s, NEW k, NEW gone, gone \subseteq EntriesOf(o, s, k),
           NEW new, \A e \in new : EntryOf(e, s, k),
           o2.entries = (o.entries \ gone) \cup new
    PROVE  /\ OthersStay(o, o2, s, k)
           /\ EntriesOf(o2, s, k) = (EntriesOf(o, s, k) \ gone) \cup new
<1>1. \A e \in gone : EntryOf(e, s, k)
  BY DEF EntriesOf, KeysOf, EntryOf
<1>2. ASSUME NEW t, NEW l, <<t, l>> # <<s, k>>
      PROVE  EntriesOf(o2, t, l) = EntriesOf(o, t, l)
  <2>1. t # s \/ l # k
    BY <1>2
  <2> QED
    BY <1>1, <2>1 DEF EntriesOf, KeysOf, EntryOf
<1>3. EntriesOf(o2, s, k) = (EntriesOf(o, s, k) \ gone) \cup new
  BY DEF EntriesOf, KeysOf, EntryOf
<1> QED
  BY <1>2, <1>3 DEF OthersStay

\* The entries of a key are what they were, but for one entry: now they are E2.
PutInto(s, k, v, e, gone, E2) ==
    /\ EntryOf(e, s, k) /\ e.value.text = v
    /\ gone \subseteq EntriesOf(ini, s, k)
    /\ ini'.entries = (ini.entries \ gone) \cup {e}
    /\ E2 = (EntriesOf(ini, s, k) \ gone) \cup {e} /\ Dated(E2)
    /\ Names(ini') = Names(ini) \cup {s} /\ ini'.multiKey = ini.multiKey

\* One entry takes the place of others: its value is assigned with those left.
LEMMA ValuePut ==
    ASSUME NEW s, NEW k, NEW v, NEW e, NEW gone, NEW E2, PutInto(s, k, v, e, gone, E2)
    PROVE  /\ Abstract!Assign(<<s, k>>, ValuesOf(E2))
           /\ \E p \in DOMAIN ValueLists(ini') : \E i \in DOMAIN ValueLists(ini')[p] :
                  p = <<s, k>> /\ ValueLists(ini')[p][i] = v
<1> DEFINE new == {e}
<1>1. PICK o2 : o2 = ini'
  OBVIOUS
<1>2. OthersStay(ini, o2, s, k) /\ EntriesOf(o2, s, k) = E2
  <2>1. (\A f \in new : EntryOf(f, s, k)) /\ o2.entries = (ini.entries \ gone) \cup new
    BY <1>1 DEF PutInto
  <2>2. E2 = (EntriesOf(ini, s, k) \ gone) \cup new
    BY DEF PutInto
  <2> HIDE DEF new
  <2>3. gone \subseteq EntriesOf(ini, s, k)
    BY DEF PutInto
  <2>4. /\ OthersStay(ini, o2, s, k)
        /\ EntriesOf(o2, s, k) = (EntriesOf(ini, s, k) \ gone) \cup new
    BY ONLY <2>1, <2>3, OthersUntouched
  <2> QED
    BY <2>2, <2>4
<1>3. /\ e \in E2 /\ Dated(E2) /\ e.value.text = v
      /\ Names(ini') = Names(ini) \cup {s} /\ ini'.multiKey = ini.multiKey
  BY DEF PutInto
<1>4. Abstract!Assign(<<s, k>>, ValuesOf(EntriesOf(ini', s, k)))
  BY <1>1, <1>2, <1>3, Assigned
<1>5. \E p \in DOMAIN ValueLists(ini') : \E i \in DOMAIN ValueLists(ini')[p] :
          p = <<s, k>> /\ ValueLists(ini')[p][i] = e.value.text
  BY <1>1, <1>2, <1>3, NewValue
<1> QED
  BY <1>1, <1>2, <1>3, <1>4, <1>5

\* Nothing of the data changes.
LEMMA DataKept ==
    ASSUME Names(ini') = Names(ini), ini'.entries = ini.entries, ini'.multiKey \in BOOLEAN
    PROVE  Abstract!Next
<1>1. ValueLists(ini') = ValueLists(ini)
  BY DEF ValueLists, EntriesOf, KeysOf
<1>2. Abstract!SetMultiKey
  BY <1>1 DEF Abstract!SetMultiKey
<1> QED
  BY <1>2 DEF Abstract!Next

\* A key has lost all of its values.
LEMMA KeyLost ==
    ASSUME NEW s, NEW k, EntriesOf(ini, s, k) # {},
           ini'.entries = ini.entries \ EntriesOf(ini, s, k),
           Names(ini') = Names(ini), ini'.multiKey = ini.multiKey
    PROVE  /\ <<s, k>> \in DOMAIN ValueLists(ini)
           /\ ValueLists(ini') = Abstract!Without({<<s, k>>})
           /\ Abstract!Remove(<<s, k>>)
<1> DEFINE none == {}
<1>1. PICK o2 : o2 = ini'
  OBVIOUS
<1>2. OthersStay(ini, o2, s, k) /\ EntriesOf(o2, s, k) = {}
  <2> PICK E : E = EntriesOf(ini, s, k)
    OBVIOUS
  <2>1. /\ E \subseteq EntriesOf(ini, s, k) /\ o2.entries = (ini.entries \ E) \cup none
        /\ (\A e \in none : EntryOf(e, s, k)) /\ (EntriesOf(ini, s, k) \ E) \cup none = {}
    BY <1>1
  <2> HIDE DEF none
  <2> QED
    BY <2>1, OthersUntouched
<1>3. /\ ValueLists(o2) = [q \in Places(o2) |-> ValueLists(o2)[q]]
      /\ Places(o2) = Places(ini) \ {<<s, k>>}
      /\ \A q \in Places(o2) : ValueLists(o2)[q] = ValueLists(ini)[q]
  BY <1>2, OneKeyLost
<1>4. ValueLists(ini') = [q \in Places(ini) \ {<<s, k>>} |-> ValueLists(ini)[q]]
  BY <1>1, <1>3
<1>5. <<s, k>> \in Places(ini) /\ DOMAIN ValueLists(ini) = Places(ini)
  BY ValueListsOf
<1> QED
  BY <1>4, <1>5 DEF Abstract!Remove, Abstract!Without

\* A value comes to a key, and with it the section.
LEMMA AddedStep ==
    ASSUME Whole(ini), NEW base, NEW s, NEW k, NEW v,
           Extended(ini, base, s), Changed(base, ini', s, k, v)
    PROVE  Abstract!Next
<1> DEFINE E == EntriesOf(ini, s, k)
           none == {}
<1>1. /\ base.entries = ini.entries /\ base.multiKey = ini.multiKey
      /\ base.order \in Nat /\ base.order >= ini.order
      /\ Names(ini') = Names(ini) \cup {s} /\ ini'.multiKey = ini.multiKey
      /\ EntriesOf(base, s, k) = E
  BY DEF Extended, Changed, Names, EntriesOf, KeysOf
<1>2. /\ Dated(E)
      /\ E # {} => s \in Names(ini) /\ First(E) \in E
      /\ \A f \in E : f.order <= ini.order
  BY KeyDated
<1>3. Abstract!Old(<<s, k>>) = ValuesOf(E) /\ DOMAIN ValueLists(ini) = Places(ini)
  BY OldValues
<1>4. ini.order \in Nat /\ \A f \in E : f.order \in Nat
  BY <1>2 DEF Dated, Whole, IsIni
<1>5. E # {} => ValuesOf(E) # << >>
  BY <1>2, ValueAt
<1> HIDE DEF E
<1>6. CASE ini'.entries = base.entries
  <2>1. ValueLists(ini') = ValueLists(ini)
    BY <1>1, <1>6 DEF ValueLists, EntriesOf, KeysOf
  <2>2. s \in Names(ini') /\ Abstract!AddSection(s)
    BY <1>1, <2>1 DEF Abstract!AddSection
  <2> QED
    BY <2>2 DEF Abstract!Next
<1>7. CASE Inserted(base, ini', s, k, v)
  <2>1. PICK e : /\ EntryOf(e, s, k) /\ e.value.text = v /\ e.order = base.order + 1
                 /\ E = {} \/ ini.multiKey
                 /\ ini'.entries = ini.entries \cup {e}
    BY <1>1, <1>7 DEF Inserted
  <2>2. e.order \in Nat /\ \A f \in E : f.order < e.order
    BY <1>1, <1>2, <1>4, <2>1
  <2>3. Dated(E \cup {e}) /\ ValuesOf(E \cup {e}) = Append(ValuesOf(E), v)
    BY <1>2, <2>1, <2>2, ValuesAppended
  <2> PICK F : F = E \cup {e}
    OBVIOUS
  <2>4. PutInto(s, k, v, e, none, F)
    BY <1>1, <2>1, <2>3 DEF E, PutInto
  <2> HIDE DEF none
  <2>5. /\ Abstract!Assign(<<s, k>>, ValuesOf(F))
        /\ \E p \in DOMAIN ValueLists(ini') : \E i \in DOMAIN ValueLists(ini')[p] :
               p = <<s, k>> /\ ValueLists(ini')[p][i] = v
    BY <2>4, ValuePut
  <2>6. Abstract!Assign(<<s, k>>, Append(ValuesOf(E), v))
    BY <2>3, <2>5
  <2>7. CASE ini.multiKey
    <3>1. Abstract!Put(<<s, k>>, v)
      BY <1>3, <2>6, <2>7 DEF Abstract!Put
    <3> QED
      BY <2>5, <3>1 DEF Abstract!Next
  <2>8. CASE ~ ini.multiKey
    <3>1. ValuesOf(E) = << >>
      BY <2>1, <2>8, ValuesOfNone
    <3>2. Append(ValuesOf(E), v) = <<v>>
      BY <3>1
    <3>3. Abstract!Replace(<<s, k>>, v)
      BY <1>3, <2>6, <2>8, <3>1, <3>2 DEF Abstract!Replace
    <3> QED
      BY <2>5, <3>3 DEF Abstract!Next
  <2> QED
    BY <2>7, <2>8
<1>8. CASE Replaced(base, ini', s, k, v)
  <2>1. PICK e : /\ EntryOf(e, s, k) /\ e.value.text = v /\ e.order = First(E).order
                 /\ E # {} /\ ini.multiKey
                 /\ ini'.entries = (ini.entries \ E) \cup {e}
    BY <1>1, <1>8 DEF Replaced
  <2>2. (E \ E) \cup {e} = {e} /\ E \subseteq E
    OBVIOUS
  <2>3. e.order \in Nat
    BY <1>2, <1>4, <2>1
  <2>4. Dated({e}) /\ ValuesOf({e}) = <<v>>
    BY <2>1, <2>3, ValuesOfOne
  <2>5. PutInto(s, k, v, e, E, {e})
    BY <1>1, <2>1, <2>2, <2>4 DEF E, PutInto
  <2>6. /\ Abstract!Assign(<<s, k>>, ValuesOf({e}))
        /\ \E p \in DOMAIN ValueLists(ini') : \E i \in DOMAIN ValueLists(ini')[p] :
               p = <<s, k>> /\ ValueLists(ini')[p][i] = v
    BY <2>5, ValuePut
  <2>7. Abstract!ReplaceAll(<<s, k>>, v)
    BY <1>3, <1>5, <2>1, <2>2, <2>4, <2>6 DEF Abstract!ReplaceAll
  <2> QED
    BY <2>6, <2>7 DEF Abstract!Next
<1>9. CASE Dropped(base, ini', s, k)
  <2>1. E # {} /\ ini'.entries = ini.entries \ E
    BY <1>1, <1>9 DEF Dropped
  <2>2. Names(ini') = Names(ini)
    BY <1>1, <1>2, <2>1
  <2>3. Abstract!Remove(<<s, k>>) /\ <<s, k>> \in DOMAIN ValueLists(ini)
    BY <1>1, <2>1, <2>2, KeyLost DEF E
  <2> QED
    BY <2>3 DEF Abstract!Next
<1>10. CASE Updated(base, ini', s, k, v)
  <2> PICK gone : gone = {First(E)}
    OBVIOUS
  <2>1. PICK e : /\ EntryOf(e, s, k) /\ e.value.text = v /\ e.order = First(E).order
                 /\ E # {} /\ ~ ini.multiKey
                 /\ ini'.entries = (ini.entries \ gone) \cup {e}
    BY <1>1, <1>10 DEF Updated
  <2>2. /\ Dated((E \ gone) \cup {e}) /\ ValuesOf(E) # << >>
        /\ ValuesOf((E \ gone) \cup {e}) = [ValuesOf(E) EXCEPT ![1] = v]
    BY <1>2, <2>1, ValuesUpdated
  <2>3. gone \subseteq E
    BY <1>2, <2>1
  <2> HIDE DEF none
  <2> PICK F : F = (E \ gone) \cup {e}
    OBVIOUS
  <2>4. PutInto(s, k, v, e, gone, F)
    BY <1>1, <2>1, <2>2, <2>3 DEF E, PutInto
  <2>5. /\ Abstract!Assign(<<s, k>>, ValuesOf(F))
        /\ \E p \in DOMAIN ValueLists(ini') : \E i \in DOMAIN ValueLists(ini')[p] :
               p = <<s, k>> /\ ValueLists(ini')[p][i] = v
    BY <2>4, ValuePut
  <2>6. Abstract!Replace(<<s, k>>, v)
    BY <1>3, <2>1, <2>2, <2>5 DEF Abstract!Replace
  <2> QED
    BY <2>5, <2>6 DEF Abstract!Next
<1> QED
  BY <1>6, <1>7, <1>8, <1>9, <1>10 DEF Changed

\* The abstract store counts as the object does.
LEMMA SameCount == \A S : Abstract!Cardinality(S) = Cardinality(S)
BY DEF Abstract!Cardinality, Cardinality

\* Values of a key are removed: none, all, or some of them.
LEMMA ValueGoneStep ==
    ASSUME Whole(ini), NEW s, NEW k, NEW v, ValueGone(ini, ini', s, k, v)
    PROVE  Abstract!Next
<1> DEFINE none == {}
           p    == <<s, k>>
<1> PICK E : E = EntriesOf(ini, s, k)
  OBVIOUS
<1> PICK gone : gone = {e \in E : v = Null \/ e.value.text = v}
  OBVIOUS
<1> PICK D : D = E \ gone
  OBVIOUS
<1>1. /\ Names(ini') = Names(ini) /\ ini'.multiKey = ini.multiKey
      /\ ini'.entries = ini.entries \ gone /\ gone \subseteq E
  BY DEF ValueGone
<1>2. Dated(E) /\ ini.multiKey \in BOOLEAN
  BY KeyDated DEF Whole, IsIni
<1>3. CASE gone = {}
  BY <1>1, <1>2, <1>3, DataKept
<1>4. CASE gone = E /\ E # {}
  <2>1. p \in DOMAIN ValueLists(ini) /\ Abstract!Remove(p)
    BY <1>1, <1>4, KeyLost
  <2> QED
    BY <2>1 DEF Abstract!Next
<1>5. CASE gone # {} /\ gone # E
  <2>1. v # Null /\ D # {}
    BY <1>1, <1>5
  <2>2. D = {e \in E : e.value.text # v}
    BY <2>1
  <2> PICK all : all = ValuesOf(E)
    OBVIOUS
  <2> PICK left : left = {i \in DOMAIN all : all[i] # v}
    OBVIOUS
  <2>3. /\ p \in DOMAIN ValueLists(ini) /\ DOMAIN ValueLists(ini) = Places(ini)
        /\ ValueLists(ini)[p] = all
    <3>1. p \in Places(ini) /\ DOMAIN ValueLists(ini) = Places(ini)
      BY <1>1, <1>5, ValueListsOf
    <3>2. ValueLists(ini)[p] = ValuesOf(EntriesOf(ini, p[1], p[2])) /\ p[1] = s /\ p[2] = k
      BY <3>1, ValueListsOf
    <3> QED
      BY <3>1, <3>2
  <2>4. PICK e \in E : e.value.text = v
    BY <1>5, <2>1
  <2>5. PICK place \in DOMAIN all : all[place] = v
    BY <1>2, <2>3, <2>4, ValueAt
  <2>6. left # {} /\ \E f : Keeps(f, left, ValuesOf(D), all)
    <3>1. Left(E, D, v, all, left)
      BY <1>2, <2>2 DEF Left
    <3>2. /\ left = {} <=> D = {}
          /\ \E f : Keeps(f, left, ValuesOf(D), all)
      BY ONLY <3>1, ValuesLeft
    <3> QED
      BY <2>1, <3>2
  <2>7. PICK o2 : o2 = ini'
    OBVIOUS
  <2>8. OthersStay(ini, o2, s, k) /\ EntriesOf(o2, s, k) = D
    <3>1. /\ gone \subseteq EntriesOf(ini, s, k) /\ o2.entries = (ini.entries \ gone) \cup none
          /\ \A x \in none : EntryOf(x, s, k)
      BY <1>1, <2>7
    <3>2. (EntriesOf(ini, s, k) \ gone) \cup none = D
      OBVIOUS
    <3> HIDE DEF none
    <3>3. /\ OthersStay(ini, o2, s, k)
          /\ EntriesOf(o2, s, k) = (EntriesOf(ini, s, k) \ gone) \cup none
      BY ONLY <3>1, OthersUntouched
    <3> QED
      BY <3>2, <3>3
  <2>9. /\ ValueLists(o2) = [q \in Places(o2) |-> ValueLists(o2)[q]]
        /\ Places(o2) = Places(ini) \cup {<<s, k>>}
        /\ \A q \in Places(o2) :
              ValueLists(o2)[q] =
                 IF q = <<s, k>> THEN ValuesOf(EntriesOf(o2, s, k)) ELSE ValueLists(ini)[q]
    <3>1. OthersStay(ini, o2, s, k) /\ EntriesOf(o2, s, k) # {}
      BY <2>1, <2>8
    <3> QED
      BY ONLY <3>1, OneKeyGained
  <2>10. ValueLists(ini') = [ValueLists(ini) EXCEPT ![p] = ValuesOf(D)]
    <3> DEFINE a == ValueLists(ini)
               b == ValueLists(o2)
    <3>1. /\ p \in DOMAIN a /\ DOMAIN b = DOMAIN a /\ b = [q \in DOMAIN b |-> b[q]]
          /\ \A q \in DOMAIN b : b[q] = IF q = p THEN ValuesOf(D) ELSE a[q]
      BY <2>3, <2>8, <2>9
    <3> HIDE DEF a, b, p
    <3>2. b = [a EXCEPT ![p] = ValuesOf(D)]
      BY <3>1
    <3> QED
      BY <2>7, <3>2 DEF a, b
  <2>11. Abstract!RemoveValue(p, v)
    <3>1. Abstract!Cardinality(left) = Cardinality(left)
      BY SameCount
    <3>2. left = {i \in DOMAIN ValueLists(ini)[p] : ValueLists(ini)[p][i] # v}
      BY <2>3
    <3>3. \E f \in [1 .. Abstract!Cardinality(left) -> left] :
             /\ \A m, n \in DOMAIN f : m < n => f[m] < f[n]
             /\ ValueLists(ini') =
                  [ValueLists(ini) EXCEPT ![p] = [m \in DOMAIN f |-> ValueLists(ini)[p][f[m]]]]
      <4>1. PICK f : Keeps(f, left, ValuesOf(D), all)
        BY <2>6
      <4>2. /\ f \in [1 .. Abstract!Cardinality(left) -> left]
            /\ \A m, n \in DOMAIN f : m < n => f[m] < f[n]
        BY ONLY <3>1, <4>1 DEF Keeps
      <4>3. ValuesOf(D) = [m \in DOMAIN f |-> ValueLists(ini)[p][f[m]]]
        BY ONLY <2>3, <4>1 DEF Keeps
      <4>4. ValueLists(ini') =
              [ValueLists(ini) EXCEPT ![p] = [m \in DOMAIN f |-> ValueLists(ini)[p][f[m]]]]
        BY ONLY <2>10, <4>3
      <4> QED
        BY ONLY <4>2, <4>4
    <3> HIDE DEF p
    <3> QED
      BY ONLY <1>1, <2>6, <3>2, <3>3 DEF Abstract!RemoveValue
  <2> QED
    BY <2>3, <2>5, <2>11 DEF Abstract!Next
<1> QED
  BY <1>1, <1>3, <1>4, <1>5

\* A section is removed with its keys.
LEMMA SectionGoneStep ==
    ASSUME NEW s, SectionGone(ini, ini', s)
    PROVE  Abstract!Next
<1> DEFINE gone == {p \in DOMAIN ValueLists(ini) : p[1] = s}
<1> PICK o2 : o2 = ini'
  OBVIOUS
<1>1. /\ s \in Names(ini) /\ Names(ini') = Names(ini) \ {s} /\ ini'.multiKey = ini.multiKey
      /\ o2.entries = ini.entries \ KeysOf(ini, s)
  BY DEF SectionGone
<1>2. /\ DOMAIN ValueLists(ini) = Places(ini)
      /\ ValueLists(o2) = [q \in Places(o2) |-> ValuesOf(EntriesOf(o2, q[1], q[2]))]
      /\ \A q \in Places(ini) : ValueLists(ini)[q] = ValuesOf(EntriesOf(ini, q[1], q[2]))
  BY ValueListsOf
<1>3. Places(o2) = {q \in Places(ini) : q[1] # s}
  <2>1. \A q \in Places(o2) : q \in Places(ini) /\ q[1] # s
    BY <1>1 DEF Places, KeysOf
  <2>2. \A q \in Places(ini) : q[1] # s => q \in Places(o2)
    BY <1>1 DEF Places, KeysOf
  <2> QED
    BY <2>1, <2>2
<1>4. \A q \in Places(o2) : ValuesOf(EntriesOf(o2, q[1], q[2])) = ValueLists(ini)[q]
  <2> TAKE q \in Places(o2)
  <2>1. q \in Places(ini) /\ q[1] # s
    BY <1>3
  <2>2. EntriesOf(o2, q[1], q[2]) = EntriesOf(ini, q[1], q[2])
    BY <1>1, <2>1 DEF EntriesOf, KeysOf
  <2> QED
    BY <1>2, <2>1, <2>2
<1>5. Places(o2) = DOMAIN ValueLists(ini) \ gone
  BY <1>2, <1>3
<1>6. ValueLists(ini') = [q \in DOMAIN ValueLists(ini) \ gone |-> ValueLists(ini)[q]]
  <2> HIDE DEF gone
  <2> QED
    BY <1>2, <1>4, <1>5
<1>7. Abstract!RemoveSection(s)
  BY <1>1, <1>6 DEF Abstract!RemoveSection, Abstract!Without
<1> QED
  BY <1>1, <1>7 DEF Abstract!Next

\* Without entries there are no lists.
LEMMA NoValues ==
    ASSUME NEW o, o.entries = {}
    PROVE  ValueLists(o) = << >>
<1>1. Places(o) = {}
  BY DEF Places
<1>2. ValueLists(o) = [p \in Places(o) |-> ValuesOf(EntriesOf(o, p[1], p[2]))]
  BY ValueListsOf
<1> QED
  BY <1>1, <1>2

\* Every step of the object is a step of the abstract one.
LEMMA MovedStep ==
    ASSUME Whole(ini), Moved(ini, ini')
    PROVE  Abstract!Next
<1>1. CASE Untouched(ini, ini')
  BY <1>1, DataKept DEF Untouched
<1>2. CASE \E base, s, k, v : Extended(ini, base, s) /\ Changed(base, ini', s, k, v)
  BY <1>2, AddedStep
<1>3. CASE \E s, k, v : ValueGone(ini, ini', s, k, v)
  BY <1>3, ValueGoneStep
<1>4. CASE \E s : SectionGone(ini, ini', s)
  BY <1>4, SectionGoneStep
<1>5. CASE Emptied(ini, ini')
  <2>1. PICK o2 : o2 = ini'
    OBVIOUS
  <2>2. ValueLists(o2) = << >>
    BY <1>5, <2>1, NoValues DEF Emptied
  <2>3. Abstract!Clear
    BY <1>5, <2>1, <2>2 DEF Emptied, Abstract!Clear
  <2> QED
    BY <2>3 DEF Abstract!Next
<1> QED
  BY <1>1, <1>2, <1>3, <1>4, <1>5 DEF Moved

\* A step leaves a finite number of entries.
LEMMA FewEntries ==
    ASSUME NEW o, IsFiniteSet(o.entries), NEW o2, Moved(o, o2)
    PROVE  IsFiniteSet(o2.entries)
<1>1. (\E e : o2.entries \subseteq o.entries \cup {e}) => IsFiniteSet(o2.entries)
  BY FS_AddElement, FS_Subset
<1>2. o2.entries \subseteq o.entries => IsFiniteSet(o2.entries)
  BY FS_Subset
<1>3. CASE \E base, s, k, v : Extended(o, base, s) /\ Changed(base, o2, s, k, v)
  <2>1. PICK base, s, k, v : Extended(o, base, s) /\ Changed(base, o2, s, k, v)
    BY <1>3
  <2>2. base.entries = o.entries
    BY <2>1 DEF Extended
  <2>3. o2.entries \subseteq o.entries \/ \E e : o2.entries \subseteq o.entries \cup {e}
    BY <2>1, <2>2 DEF Changed, Inserted, Replaced, Dropped, Updated
  <2> QED
    BY <1>1, <1>2, <2>3
<1>4. CASE ~ \E base, s, k, v : Extended(o, base, s) /\ Changed(base, o2, s, k, v)
  <2>1. o2.entries \subseteq o.entries
    BY <1>4 DEF Moved, Untouched, ValueGone, SectionGone, Emptied
  <2> QED
    BY <1>2, <2>1
<1> QED
  BY <1>3, <1>4

\* Every call, and every round of a load, adds, replaces or removes the values of one key of
\* one section, or removes one section, also when memory runs out in it.
THEOREM KeyValuesImplemented == Spec => ImplementsKeyValues
<1> DEFINE Finite == IsFiniteSet(ini.entries)
<1>1. Init => IInv /\ Finite
  <2>1. Init => ini.entries = {}
    BY DEF Init, NewIni
  <2> QED
    BY <2>1, InvInit, FS_EmptySet
<1>2. IInv /\ Finite => Whole(ini)
  BY DEF IInv, Sound, Whole
<1>3. IInv /\ Finite /\ [Next]_vars => IInv' /\ Finite'
  <2> SUFFICES ASSUME IInv, Finite, [Next]_vars PROVE IInv' /\ Finite'
    OBVIOUS
  <2>1. PICK o2 : o2 = ini'
    OBVIOUS
  <2>2. Moved(ini, o2)
    BY <2>1, StepMoved
  <2>3. IsFiniteSet(o2.entries)
    BY <2>2, FewEntries
  <2> QED
    BY <2>1, <2>3, InvNext
<1>4. Init => Abstract!Init
  <2> SUFFICES ASSUME Init PROVE Abstract!Init
    OBVIOUS
  <2>1. ini.sections = {} /\ ini.entries = {} /\ ini.multiKey \in BOOLEAN
    BY DEF Init, NewIni
  <2>2. Names(ini) = {}
    BY <2>1 DEF Names
  <2> QED
    BY <2>1, <2>2, NoValues DEF Abstract!Init
<1>5. IInv /\ Finite /\ [Next]_vars => Abstract!Next
  BY <1>2, StepMoved, MovedStep
<1>6. IInv /\ Finite /\ [Next]_vars => [Abstract!Next]_(Abstract!vars)
  BY <1>5
<1> HIDE DEF Finite
<1>7. Spec => Abstract!Spec
  BY <1>1, <1>3, <1>4, <1>6, PTL DEF Spec, Abstract!Spec
<1> QED
  BY <1>7 DEF ImplementsKeyValues
=============================================================================
