--------------------------- MODULE SimpleIniProofs ---------------------------
(***************************************************************************)
(* Theorems about SimpleIni: whatever a program does with an object, and   *)
(* wherever memory runs out, its members keep their types and agree with   *)
(* each other, and every pointer in it leads to memory that is its own.    *)
(*                                                                         *)
(* The three invariants are inductive together.  The lemmas follow the     *)
(* methods: a string is copied, the entries that are replaced are removed, *)
(* and the copies are put into the new entry.  Between these steps a copy  *)
(* is in use and no member points to it: it is pending.                    *)
(***************************************************************************)
EXTENDS SimpleIni, WellFoundedInduction, TLAPS

-----------------------------------------------------------------------------
(* The first of several entries *)

LEMMA LessThan == OpToRel(<, Nat) = {ss \in Nat \X Nat : ss[1] < ss[2]}
BY DEF OpToRel

LEMMA SmallestOrder ==
    ASSUME NEW T, T \subseteq Nat, T # {}
    PROVE  \E x \in T : \A y \in T : x <= y
<1>1. PICK x \in T : \A y \in T : <<y, x>> \notin {ss \in Nat \X Nat : ss[1] < ss[2]}
  BY NatLessThanWellFounded, WFMin, LessThan
<1>2. \A y \in T : ~ (y < x)
  BY <1>1
<1> QED
  BY <1>2

\* Of entries with orders there is a first one.
LEMMA FirstIsOne ==
    ASSUME NEW entries, entries # {}, \A e \in entries : e.order \in Nat
    PROVE  First(entries) \in entries
<1> DEFINE T == {e.order : e \in entries}
<1>1. PICK n \in T : \A m \in T : n <= m
  BY SmallestOrder
<1>2. PICK e \in entries : e.order = n
  OBVIOUS
<1>3. \A f \in entries : e.order <= f.order
  BY <1>1, <1>2
<1> QED
  BY <1>2, <1>3 DEF First

-----------------------------------------------------------------------------
(* Holders *)

LEMMA HolderCases ==
    ASSUME NEW o, NEW h
    PROVE  h \in Holders(o) <=>
              \/ \E s \in o.sections : h \in SectionHolders(s)
              \/ \E e \in o.entries : h \in EntryHolders(e)
              \/ h = <<"file", 0, o.fileComment.at>>
BY DEF Holders

\* A place is pending in o: it is outside the heap, or in use and nobody points to it.
Pending(o, at, places) ==
    IF at \in Addresses
    THEN at \in o.strings /\ \A h \in Holders(o) : h[3] # at
    ELSE at \in places

\* The places that are not on the heap: none of them is an address.
Elsewhere(places) == places \cap Addresses = {} /\ Nowhere \in places

\* The three invariants for an object.
Sound(o, places) == IsIni(o) /\ IsConsistent(o) /\ Owns(o, places)

\* o2 is o with other strings in use.
SameMembers(o, o2) ==
    /\ DOMAIN o2 = DOMAIN o
    /\ o2.sections = o.sections /\ o2.entries = o.entries /\ o2.order = o.order
    /\ o2.fileComment = o.fileComment /\ o2.loaded = o.loaded
    /\ o2.multiKey = o.multiKey /\ o2.multiLine = o.multiLine

\* o2 has the settings of o, and as many loads behind it.
SameOptions(o, o2) ==
    o2.loaded = o.loaded /\ o2.multiKey = o.multiKey /\ o2.multiLine = o.multiLine

\* o with one more section.
WithSection(o, name, c) ==
    [o EXCEPT !.order = @ + 1,
              !.sections = @ \cup {SectionEntry(name, c, o.order + 1)}]

\* More strings in use do no harm.
LEMMA MoreStrings ==
    ASSUME NEW o, NEW o2, NEW places, Sound(o, places), SameMembers(o, o2),
           o.strings \subseteq o2.strings, o2.strings \subseteq Addresses
    PROVE  /\ Sound(o2, places)
           /\ Holders(o2) = Holders(o)
<1>1. Holders(o2) = Holders(o)
  BY DEF Holders, SameMembers
<1>2. IsIni(o2)
  BY DEF Sound, IsIni, SameMembers
<1>3. IsConsistent(o2)
  BY DEF Sound, IsConsistent, HasSection, SameMembers
<1>4. Owns(o2, places)
  BY <1>1 DEF Sound, Owns
<1> QED
  BY <1>1, <1>2, <1>3, <1>4 DEF Sound

-----------------------------------------------------------------------------
(* CopyString *)

LEMMA FreeAddress ==
    ASSUME NEW free, free # {}
    PROVE  (CHOOSE x \in free : TRUE) \in free
OBVIOUS

\* A copy is new in the strings, and the members stay; without room nothing changes.
LEMMA Copied ==
    ASSUME NEW o, IsIni(o), NEW string, NEW wanted \in BOOLEAN
    PROVE  LET r == CopyIf(wanted, o, string)
           IN  /\ SameMembers(o, r.o)
               /\ o.strings \subseteq r.o.strings /\ r.o.strings \subseteq Addresses
               /\ r.ok \in BOOLEAN
               /\ r.ok /\ wanted => /\ r.string.at \in r.o.strings \ o.strings
                                    /\ r.string.text = string.text
               /\ ~ wanted => r.ok /\ r.string = string
               /\ r.ok \/ r.string = string
<1> DEFINE r    == CopyIf(wanted, o, string)
           free == Addresses \ o.strings
           a    == CHOOSE x \in free : TRUE
<1>1. CASE ~ wanted
  <2>1. r = [ok |-> TRUE, o |-> o, string |-> string]
    BY <1>1 DEF CopyIf, Uncopied
  <2> HIDE DEF r
  <2>2. r.ok = TRUE /\ r.o = o /\ r.string = string
    BY <2>1
  <2> QED
    BY <1>1, <2>2 DEF SameMembers, IsIni, r
<1>2. CASE wanted /\ free = {}
  <2>1. r = [ok |-> FALSE, o |-> o, string |-> string]
    BY <1>2 DEF CopyIf, CopyString
  <2> HIDE DEF r
  <2>2. r.ok = FALSE /\ r.o = o /\ r.string = string
    BY <2>1
  <2> QED
    BY <1>2, <2>2 DEF SameMembers, IsIni, r
<1>3. CASE wanted /\ free # {}
  <2> DEFINE o2 == [o EXCEPT !.strings = @ \cup {a}]
  <2>1. r = [ok |-> TRUE, o |-> o2, string |-> [text |-> string.text, at |-> a]]
    BY <1>3 DEF CopyIf, CopyString, String
  <2>2. a \in free
    BY <1>3, FreeAddress
  <2>3. /\ SameMembers(o, o2)
        /\ o2.strings = o.strings \cup {a}
    BY DEF SameMembers, IsIni
  <2> HIDE DEF r, o2, a
  <2>4. r.ok = TRUE /\ r.o = o2 /\ r.string.at = a /\ r.string.text = string.text
    BY <2>1
  <2>5. o.strings \subseteq Addresses
    BY DEF IsIni
  <2> QED
    BY <1>3, <2>2, <2>3, <2>4, <2>5 DEF r
<1> QED
  BY <1>1, <1>2, <1>3

-----------------------------------------------------------------------------
(* Changes of the members *)

\* What is pending stays so when nothing more is held and it is not freed.
LEMMA StaysPending ==
    ASSUME NEW o, NEW o2, NEW places, NEW at, Pending(o, at, places),
           Holders(o2) \subseteq Holders(o),
           at \in Addresses => at \in o2.strings
    PROVE  Pending(o2, at, places)
BY DEF Pending

\* The members with which AddEntry raises m_nOrder.
LEMMA RaisedOrder ==
    ASSUME NEW o, NEW places, Sound(o, places)
    PROVE  LET o2 == [o EXCEPT !.order = @ + 1]
           IN  /\ Sound(o2, places)
               /\ Holders(o2) = Holders(o)
               /\ o2.order = o.order + 1
               /\ o2.strings = o.strings /\ o2.sections = o.sections
               /\ o2.entries = o.entries /\ o2.loaded = o.loaded
               /\ o2.multiKey = o.multiKey /\ o2.multiLine = o.multiLine
               /\ o2.fileComment = o.fileComment
<1> DEFINE o2 == [o EXCEPT !.order = @ + 1]
<1>1. /\ DOMAIN o2 = DOMAIN o
      /\ o2.order = o.order + 1
      /\ o2.strings = o.strings /\ o2.sections = o.sections
      /\ o2.entries = o.entries /\ o2.loaded = o.loaded
      /\ o2.multiKey = o.multiKey /\ o2.multiLine = o.multiLine
      /\ o2.fileComment = o.fileComment
  BY DEF Sound, IsIni
<1> HIDE DEF o2
<1>2. Holders(o2) = Holders(o)
  BY <1>1 DEF Holders
<1>3. IsIni(o2)
  BY <1>1 DEF Sound, IsIni
<1>4. IsConsistent(o2)
  BY <1>1 DEF Sound, IsConsistent, HasSection
<1>5. Owns(o2, places)
  BY <1>1, <1>2 DEF Sound, Owns
<1> QED
  BY <1>1, <1>2, <1>3, <1>4, <1>5 DEF Sound, o2

\* A pending string can be given back.
LEMMA FreedPending ==
    ASSUME NEW o, NEW places, Sound(o, places), Elsewhere(places),
           NEW at, Pending(o, at, places)
    PROVE  LET o2 == Free(o, {at})
           IN  /\ Sound(o2, places) /\ SameMembers(o, o2)
               /\ Holders(o2) = Holders(o)
<1> DEFINE o2 == Free(o, {at})
<1>1. SameMembers(o, o2) /\ o2.strings = o.strings \ {at}
  BY DEF Free, SameMembers, Sound, IsIni
<1> HIDE DEF o2
<1>2. Holders(o2) = Holders(o)
  BY <1>1 DEF Holders, SameMembers
<1>3. IsIni(o2)
  BY <1>1 DEF Sound, IsIni, SameMembers
<1>4. IsConsistent(o2)
  BY <1>1 DEF Sound, IsConsistent, HasSection, SameMembers
<1>5. ASSUME NEW h \in Holders(o) PROVE h[3] \in o2.strings \cup places
  <2>1. h[3] \in o.strings \cup places
    BY DEF Sound, Owns
  <2>2. o.strings \subseteq Addresses
    BY DEF Sound, IsIni
  <2> QED
    BY <1>1, <2>1, <2>2 DEF Pending, Elsewhere
<1>6. Owns(o2, places)
  BY <1>2, <1>5 DEF Sound, Owns
<1> QED
  BY <1>1, <1>2, <1>3, <1>4, <1>6 DEF Sound, o2

\* An entry that is gone has other holders than those that stay.
LEMMA RemainingHolders ==
    ASSUME NEW o, NEW places, Sound(o, places), NEW gone, gone \subseteq o.entries,
           NEW e \in gone, NEW h,
           \/ \E s \in o.sections : h \in SectionHolders(s)
           \/ \E f \in o.entries \ gone : h \in EntryHolders(f)
           \/ h = <<"file", 0, o.fileComment.at>>
    PROVE  h \notin EntryHolders(e)
<1>1. \A f \in o.entries \ gone : f.order # e.order
  BY DEF Sound, IsConsistent
<1>2. \A g \in EntryHolders(e) : g[1] \in {"key", "value", "comment"} /\ g[2] = e.order
  BY DEF EntryHolders
<1>3. \A s \in o.sections : \A g \in SectionHolders(s) : g[1] \in {"section", "heading"}
  BY DEF SectionHolders
<1>4. \A f \in o.entries \ gone : \A g \in EntryHolders(f) : g[2] = f.order
  BY DEF EntryHolders
<1> QED
  BY <1>1, <1>2, <1>3, <1>4

\* RemoveEntries: what it frees nobody else points to, and what was pending stays so.
LEMMA EntriesRemoved ==
    ASSUME NEW o, NEW places, Sound(o, places), Elsewhere(places),
           NEW gone, gone \subseteq o.entries
    PROVE  LET r == RemoveEntries(o, gone)
           IN  /\ Sound(r, places)
               /\ Holders(r) \subseteq Holders(o)
               /\ r.entries = o.entries \ gone
               /\ r.sections = o.sections /\ r.order = o.order /\ r.loaded = o.loaded
               /\ r.multiKey = o.multiKey /\ r.multiLine = o.multiLine
               /\ \A at : Pending(o, at, places) => Pending(r, at, places)
               /\ \A e \in gone : Pending(r, e.comment.at, places)
<1> DEFINE r == RemoveEntries(o, gone)
<1>1. /\ DOMAIN r = DOMAIN o
      /\ r.entries = o.entries \ gone
      /\ r.strings = o.strings \ Strings(gone)
      /\ r.sections = o.sections /\ r.order = o.order /\ r.loaded = o.loaded
      /\ r.multiKey = o.multiKey /\ r.multiLine = o.multiLine
      /\ r.fileComment = o.fileComment
  BY DEF RemoveEntries, Free, Sound, IsIni
<1> HIDE DEF r
<1>2. IsIni(r)
  BY <1>1 DEF Sound, IsIni
<1>3. IsConsistent(r)
  BY <1>1 DEF Sound, IsConsistent, HasSection
<1>4. \A h : h \in Holders(r) <=>
                \/ \E s \in o.sections : h \in SectionHolders(s)
                \/ \E f \in o.entries \ gone : h \in EntryHolders(f)
                \/ h = <<"file", 0, o.fileComment.at>>
  BY <1>1, HolderCases
<1>5. Holders(r) \subseteq Holders(o)
  BY <1>4, HolderCases
<1>6. ASSUME NEW h \in Holders(r), NEW e \in gone PROVE h \notin EntryHolders(e)
  BY <1>4, <1>6, RemainingHolders
<1>7. ASSUME NEW e \in gone, NEW g \in EntryHolders(e) PROVE g \in Holders(o)
  BY <1>7, HolderCases
<1>8. ASSUME NEW h \in Holders(r), h[3] \in Addresses PROVE h[3] \notin Strings(gone)
  <2>1. SUFFICES ASSUME NEW e \in gone, h[3] = e.key.at \/ h[3] = e.value.at PROVE FALSE
    BY DEF Strings
  <2>2. PICK g \in EntryHolders(e) : g[3] = h[3]
    BY <2>1 DEF EntryHolders
  <2>3. g # h /\ g \in Holders(o) /\ h \in Holders(o)
    BY <1>5, <1>6, <1>7
  <2> QED
    BY <1>8, <2>2, <2>3 DEF Sound, Owns
<1>9. Owns(r, places)
  <2>1. ASSUME NEW h \in Holders(r) PROVE h[3] \in r.strings \cup places
    <3>1. h[3] \in o.strings \cup places
      BY <1>5 DEF Sound, Owns
    <3>2. o.strings \subseteq Addresses
      BY DEF Sound, IsIni
    <3> QED
      BY <1>1, <1>8, <3>1, <3>2
  <2> QED
    BY <1>5, <2>1 DEF Sound, Owns
<1>10. ASSUME NEW at, Pending(o, at, places) PROVE Pending(r, at, places)
  <2>1. at \in Addresses => at \in r.strings
    <3>1. SUFFICES ASSUME at \in Addresses, NEW e \in gone, at = e.key.at \/ at = e.value.at
                   PROVE  FALSE
      BY <1>1, <1>10 DEF Pending, Strings
    <3>2. PICK g \in EntryHolders(e) : g[3] = at
      BY <3>1 DEF EntryHolders
    <3> QED
      BY <1>7, <1>10, <3>1, <3>2 DEF Pending
  <2> QED
    BY <1>5, <1>10, <2>1, StaysPending
<1>11. ASSUME NEW e \in gone PROVE Pending(r, e.comment.at, places)
  <2> DEFINE g == <<"comment", e.order, e.comment.at>>
  <2>1. g \in EntryHolders(e) /\ g[3] = e.comment.at
    BY DEF EntryHolders
  <2>2. g \in Holders(o)
    BY <1>7, <2>1
  <2>3. g[3] \in o.strings \cup places
    BY <2>2 DEF Sound, Owns
  <2>4. ASSUME NEW h \in Holders(r), g[3] \in Addresses PROVE h[3] # g[3]
    BY <1>5, <1>6, <2>1, <2>2, <2>4 DEF Sound, Owns
  <2>5. ASSUME g[3] \in Addresses PROVE g[3] \notin Strings(gone)
    <3>1. SUFFICES ASSUME NEW f \in gone, g[3] = f.key.at \/ g[3] = f.value.at PROVE FALSE
      BY DEF Strings
    <3>2. PICK k \in EntryHolders(f) : k[3] = g[3] /\ (k[1] = "key" \/ k[1] = "value")
      BY <3>1 DEF EntryHolders
    <3>3. k \in Holders(o) /\ k # g
      BY <1>7, <3>2
    <3> QED
      BY <2>2, <2>5, <3>2, <3>3 DEF Sound, Owns
  <2> HIDE DEF g
  <2>6. Pending(r, g[3], places)
    <3>1. CASE g[3] \in Addresses
      <4>1. g[3] \in r.strings
        BY <1>1, <2>3, <2>5, <3>1 DEF Elsewhere
      <4> QED
        BY <2>4, <3>1, <4>1 DEF Pending
    <3>2. CASE g[3] \notin Addresses
      BY <2>3, <3>2 DEF Pending, Sound, IsIni
    <3> QED
      BY <3>1, <3>2
  <2> QED
    BY <2>1, <2>6
<1> QED
  BY <1>1, <1>2, <1>3, <1>5, <1>9, <1>10, <1>11 DEF Sound, r

-----------------------------------------------------------------------------
(* New holders *)

\* No two of these places are one string of the heap.
Apart(a, b) == a \in Addresses => a # b

\* Holders of pending strings that lie apart can be added.
LEMMA MoreHolders ==
    ASSUME NEW o, NEW o2, NEW places, Owns(o, places), NEW new,
           o2.strings = o.strings,
           \A h \in Holders(o2) : h \in Holders(o) \/ h \in new,
           \A n \in new : Pending(o, n[3], places),
           \A n, m \in new : n # m => Apart(n[3], m[3])
    PROVE  Owns(o2, places)
<1>1. ASSUME NEW h \in Holders(o2) PROVE h[3] \in o2.strings \cup places
  <2>1. CASE h \in Holders(o)
    BY <2>1 DEF Owns
  <2>2. CASE h \in new
    <3>1. Pending(o, h[3], places)
      BY <2>2
    <3> QED
      BY <3>1 DEF Pending
  <2> QED
    BY <2>1, <2>2
<1>2. ASSUME NEW g \in Holders(o2), NEW h \in Holders(o2), g # h, g[3] \in Addresses
      PROVE  g[3] # h[3]
  <2>1. CASE g \in Holders(o) /\ h \in Holders(o)
    BY <1>2, <2>1 DEF Owns
  <2>2. CASE g \in Holders(o) /\ h \in new
    <3>1. Pending(o, h[3], places)
      BY <2>2
    <3> QED
      BY <1>2, <2>2, <3>1 DEF Pending
  <2>3. CASE g \in new /\ h \in Holders(o)
    <3>1. Pending(o, g[3], places)
      BY <2>3
    <3> QED
      BY <1>2, <2>3, <3>1 DEF Pending
  <2>4. CASE g \in new /\ h \in new
    BY <1>2, <2>4 DEF Apart
  <2> QED
    BY <2>1, <2>2, <2>3, <2>4
<1> QED
  BY <1>1, <1>2 DEF Owns

LEMMA EntryInserted ==
    ASSUME NEW o, NEW places, Sound(o, places),
           NEW section, HasSection(o, section),
           NEW k, NEW v, NEW c, NEW n \in 1..o.order,
           \A e \in o.entries : e.order # n,
           \A s \in o.sections : s.order # n,
           Pending(o, k.at, places), Pending(o, v.at, places), Pending(o, c.at, places),
           Apart(k.at, v.at), Apart(k.at, c.at), Apart(v.at, c.at)
    PROVE  Sound([o EXCEPT !.entries = @ \cup {KeyEntry(section, k, v, c, n)}], places)
<1> DEFINE e  == KeyEntry(section, k, v, c, n)
           o2 == [o EXCEPT !.entries = @ \cup {e}]
<1>1. /\ DOMAIN e = {"section", "key", "value", "comment", "order"}
      /\ e.section = section /\ e.key = k /\ e.value = v /\ e.comment = c /\ e.order = n
  BY DEF KeyEntry
<1> HIDE DEF e
<1>2. /\ DOMAIN o2 = DOMAIN o
      /\ o2.entries = o.entries \cup {e}
      /\ o2.strings = o.strings /\ o2.sections = o.sections /\ o2.order = o.order
      /\ o2.loaded = o.loaded /\ o2.multiKey = o.multiKey /\ o2.multiLine = o.multiLine
      /\ o2.fileComment = o.fileComment
  BY DEF Sound, IsIni
<1> HIDE DEF o2
<1>3. IsIni(o2)
  BY <1>1, <1>2 DEF Sound, IsIni
<1>4. IsConsistent(o2)
  BY <1>1, <1>2 DEF Sound, IsConsistent, HasSection
<1>5. \A h \in Holders(o2) : h \in Holders(o) \/ h \in EntryHolders(e)
  BY <1>2, HolderCases
<1>6. \A g \in EntryHolders(e) : Pending(o, g[3], places)
  BY <1>1 DEF EntryHolders
<1>7. \A g, h \in EntryHolders(e) : g # h => Apart(g[3], h[3])
  BY <1>1 DEF EntryHolders, Apart
<1>8. Owns(o2, places)
  BY <1>2, <1>5, <1>6, <1>7, MoreHolders DEF Sound
<1> QED
  BY <1>3, <1>4, <1>8 DEF Sound, o2, e

\* The old value stays in use, but nobody points to it any more.
LEMMA EntryUpdated ==
    ASSUME NEW o, NEW places, Sound(o, places), NEW e \in o.entries,
           NEW v, Pending(o, v.at, places)
    PROVE  Sound([o EXCEPT !.entries = (@ \ {e}) \cup {[e EXCEPT !.value = v]}], places)
<1> DEFINE f  == [e EXCEPT !.value = v]
           o2 == [o EXCEPT !.entries = (@ \ {e}) \cup {f}]
<1>1. /\ DOMAIN f = {"section", "key", "value", "comment", "order"}
      /\ f.section = e.section /\ f.key = e.key /\ f.value = v
      /\ f.comment = e.comment /\ f.order = e.order
  BY DEF Sound, IsIni
<1> HIDE DEF f
<1>2. /\ DOMAIN o2 = DOMAIN o
      /\ o2.entries = (o.entries \ {e}) \cup {f}
      /\ o2.strings = o.strings /\ o2.sections = o.sections /\ o2.order = o.order
      /\ o2.loaded = o.loaded /\ o2.multiKey = o.multiKey /\ o2.multiLine = o.multiLine
      /\ o2.fileComment = o.fileComment
  BY DEF Sound, IsIni
<1> HIDE DEF o2
<1>3. IsIni(o2)
  BY <1>1, <1>2 DEF Sound, IsIni
<1>4. IsConsistent(o2)
  BY <1>1, <1>2 DEF Sound, IsConsistent, HasSection
<1> DEFINE new == {<<"value", e.order, v.at>>}
<1>5. \A g \in EntryHolders(f) : g \in EntryHolders(e) \/ g \in new
  BY <1>1 DEF EntryHolders
<1>6. \A h \in Holders(o2) : h \in Holders(o) \/ h \in new
  BY <1>2, <1>5, HolderCases
<1>7. /\ \A g \in new : Pending(o, g[3], places)
      /\ \A g, h \in new : g # h => Apart(g[3], h[3])
  OBVIOUS
<1> HIDE DEF new
<1>8. Owns(o2, places)
  BY <1>2, <1>6, <1>7, MoreHolders DEF Sound
<1> QED
  BY <1>3, <1>4, <1>8 DEF Sound, o2, f

LEMMA SectionInserted ==
    ASSUME NEW o, NEW places, Sound(o, places),
           NEW name, NEW c, ~ HasSection(o, name.text),
           Pending(o, name.at, places), Pending(o, c.at, places), Apart(name.at, c.at)
    PROVE  LET o2 == WithSection(o, name, c)
           IN  /\ Sound(o2, places)
               /\ \A h \in Holders(o2) :
                    h \in Holders(o) \/ h[3] = name.at \/ h[3] = c.at
               /\ HasSection(o2, name.text)
               /\ SameOptions(o, o2)
               /\ o.strings \subseteq o2.strings
<1> DEFINE s  == SectionEntry(name, c, o.order + 1)
           o2 == WithSection(o, name, c)
<1>1. /\ DOMAIN s = {"name", "comment", "order"}
      /\ s.name = name /\ s.comment = c /\ s.order = o.order + 1
  BY DEF SectionEntry
<1> HIDE DEF s
<1>2. /\ DOMAIN o2 = DOMAIN o
      /\ o2.sections = o.sections \cup {s}
      /\ o2.order = o.order + 1
      /\ o2.strings = o.strings /\ o2.entries = o.entries
      /\ o2.loaded = o.loaded /\ o2.multiKey = o.multiKey /\ o2.multiLine = o.multiLine
      /\ o2.fileComment = o.fileComment
  BY DEF Sound, IsIni, WithSection, s
<1> HIDE DEF o2
<1>3. IsIni(o2)
  BY <1>1, <1>2 DEF Sound, IsIni
<1>4. IsConsistent(o2)
  BY <1>1, <1>2 DEF Sound, IsIni, IsConsistent, HasSection
<1>5. \A h \in Holders(o2) : h \in Holders(o) \/ h \in SectionHolders(s)
  BY <1>2, HolderCases
<1>6. \A g \in SectionHolders(s) : Pending(o, g[3], places)
  BY <1>1 DEF SectionHolders
<1>7. \A g, h \in SectionHolders(s) : g # h => Apart(g[3], h[3])
  BY <1>1 DEF SectionHolders, Apart
<1>8. Owns(o2, places)
  BY <1>2, <1>5, <1>6, <1>7, MoreHolders DEF Sound
<1>9. HasSection(o2, name.text)
  BY <1>1, <1>2 DEF HasSection
<1>10. \A h \in SectionHolders(s) : h[3] = name.at \/ h[3] = c.at
  BY <1>1 DEF SectionHolders
<1>11. SameOptions(o, o2)
  BY <1>2 DEF SameOptions
<1> QED
  BY <1>2, <1>3, <1>4, <1>5, <1>8, <1>9, <1>10, <1>11 DEF Sound, o2

-----------------------------------------------------------------------------
(* AddEntry *)

\* CopyString in the middle of AddEntry: the copy is pending and apart from all that was.
LEMMA CopiedPending ==
    ASSUME NEW o, NEW places, Sound(o, places), Elsewhere(places),
           NEW wanted \in BOOLEAN, NEW string
    PROVE  LET r == CopyIf(wanted, o, string)
           IN  /\ Sound(r.o, places) /\ SameMembers(o, r.o)
               /\ Holders(r.o) = Holders(o)
               /\ r.ok \in BOOLEAN
               /\ \A at : Pending(o, at, places) => Pending(r.o, at, places)
               /\ r.ok /\ wanted =>
                    /\ Pending(r.o, r.string.at, places)
                    /\ \A at : Pending(o, at, places) => Apart(at, r.string.at)
                    /\ r.string.text = string.text
               /\ ~ wanted => r.ok /\ r.string = string
               /\ r.ok \/ r.string = string
<1> DEFINE r == CopyIf(wanted, o, string)
<1>1. /\ SameMembers(o, r.o)
      /\ o.strings \subseteq r.o.strings /\ r.o.strings \subseteq Addresses
      /\ r.ok \in BOOLEAN
      /\ r.ok /\ wanted => /\ r.string.at \in r.o.strings \ o.strings
                           /\ r.string.text = string.text
      /\ ~ wanted => r.ok /\ r.string = string
      /\ r.ok \/ r.string = string
  BY Copied DEF Sound
<1> HIDE DEF r
<1>2. Sound(r.o, places) /\ Holders(r.o) = Holders(o)
  BY <1>1, MoreStrings
<1>3. ASSUME NEW at, Pending(o, at, places) PROVE Pending(r.o, at, places)
  BY <1>1, <1>2, <1>3 DEF Pending
<1>4. ASSUME r.ok, wanted PROVE Pending(r.o, r.string.at, places)
  <2>1. r.string.at \in Addresses /\ r.string.at \in r.o.strings
    BY <1>1, <1>4
  <2>2. ASSUME NEW h \in Holders(o) PROVE h[3] # r.string.at
    <3>1. h[3] \in o.strings \cup places
      BY DEF Sound, Owns
    <3> QED
      BY <1>1, <1>4, <2>1, <3>1 DEF Elsewhere
  <2> QED
    BY <1>2, <2>1, <2>2 DEF Pending
<1>5. ASSUME r.ok, wanted, NEW at, Pending(o, at, places) PROVE Apart(at, r.string.at)
  BY <1>1, <1>5 DEF Pending, Apart
<1> QED
  BY <1>1, <1>2, <1>3, <1>4, <1>5 DEF r

\* The same for a copy that is always made.
LEMMA CopyStringPending ==
    ASSUME NEW o, NEW places, Sound(o, places), Elsewhere(places), NEW source
    PROVE  LET r == CopyString(o, source)
           IN  /\ Sound(r.o, places) /\ SameMembers(o, r.o)
               /\ r.ok => Pending(r.o, r.string.at, places)
               /\ r.ok \/ r.string = source
<1> DEFINE yes == TRUE
           r   == CopyIf(yes, o, source)
<1>1. CopyString(o, source) = r
  BY DEF CopyIf
<1>2. yes \in BOOLEAN /\ yes
  OBVIOUS
<1> HIDE DEF yes
<1>3. Sound(r.o, places) /\ SameMembers(o, r.o)
  BY <1>2, CopiedPending
<1>4. r.ok /\ yes => Pending(r.o, r.string.at, places)
  BY <1>2, CopiedPending
<1> HIDE DEF r
<1>5. r.ok \/ r.string = source
  <2>1. CASE Addresses \ o.strings = {}
    <3>1. CopyString(o, source) = [ok |-> FALSE, o |-> o, string |-> source]
      BY <2>1 DEF CopyString
    <3> QED
      BY <1>1, <3>1
  <2>2. CASE Addresses \ o.strings # {}
    <3>1. CopyString(o, source).ok
      BY <2>2 DEF CopyString
    <3> QED
      BY <1>1, <3>1
  <2> QED
    BY <2>1, <2>2
<1> QED
  BY <1>1, <1>2, <1>3, <1>4, <1>5

LEMMA KeyAdded ==
    ASSUME NEW o, NEW places, Sound(o, places), Elsewhere(places),
           NEW section, HasSection(o, section), NEW key, NEW value, NEW comment,
           NEW force \in BOOLEAN, NEW copy \in BOOLEAN,
           Pending(o, comment.at, places),
           ~ copy => key.at \in places /\ value.at \in places
    PROVE  LET r == AddKey(o, section, key, value, comment, force, copy)
           IN  /\ Sound(r.o, places)
               /\ SameOptions(o, r.o)
               /\ ~ copy => r.ok
<1> DEFINE old     == EntriesOf(o, section, key.text)
           first   == First(old)
           replace == old # {} /\ o.multiKey /\ force
           insert  == old = {} \/ o.multiKey
           next    == [o EXCEPT !.order = @ + 1]
           keeps   == replace /\ first.comment # NoString
           freed   == Free(next, {comment.at})
           kept    == IF keeps THEN CopyString(freed, first.comment) ELSE Uncopied(next, comment)
           cleared == IF replace THEN RemoveEntries(kept.o, old) ELSE kept.o
           both    == copy /\ insert
           k       == CopyIf(both, cleared, key)
           v       == CopyIf(copy, k.o, value)
           n       == LoadOrder(next, old, replace)
           new     == KeyEntry(section, k.string, v.string, kept.string, n)
           updated == [first EXCEPT !.value = v.string]
           r       == AddKey(o, section, key, value, comment, force, copy)
<1>0. r = CASE ~ k.ok          -> NoMem(k.o)
            [] k.ok /\ ~ v.ok  -> NoMem(v.o)
            [] k.ok /\ v.ok /\ insert ->
                 Done([v.o EXCEPT !.entries = @ \cup {new}])
            [] k.ok /\ v.ok /\ ~ insert ->
                 Done([v.o EXCEPT !.entries = (@ \ {first}) \cup {updated}])
  BY DEF AddKey
<1>1. old \subseteq o.entries /\ (old # {} => first \in old)
  <2>1. old \subseteq o.entries
    BY DEF EntriesOf, KeysOf
  <2>2. \A e \in old : e.order \in Nat
    BY <2>1 DEF Sound, IsIni
  <2> QED
    BY <2>1, <2>2, FirstIsOne
<1>2. /\ Sound(next, places)
      /\ Holders(next) = Holders(o)
      /\ next.order = o.order + 1
      /\ next.strings = o.strings /\ next.sections = o.sections /\ next.entries = o.entries
      /\ next.loaded = o.loaded /\ next.multiKey = o.multiKey
      /\ next.multiLine = o.multiLine
  BY RaisedOrder
<1>3. n = (IF replace THEN first.order ELSE next.order)
  BY DEF LoadOrder
<1>4. replace \in BOOLEAN /\ insert \in BOOLEAN /\ keeps \in BOOLEAN /\ both \in BOOLEAN
  OBVIOUS
<1>5. replace => old # {} /\ insert
  OBVIOUS
<1>6. ~ insert => old # {} /\ ~ replace
  OBVIOUS
<1> HIDE DEF old, first, replace, insert, next, r
<1>7. Pending(next, comment.at, places)
  BY <1>2 DEF Pending
<1>8. /\ Sound(kept.o, places)
      /\ SameMembers(next, kept.o)
      /\ \/ Pending(kept.o, kept.string.at, places)
         \/ replace /\ kept.string = first.comment
  <2>1. CASE keeps
    <3>1. /\ Sound(freed, places) /\ SameMembers(next, freed)
          /\ Holders(freed) = Holders(next)
      BY <1>2, <1>7, FreedPending
    <3> DEFINE copied == CopyString(freed, first.comment)
    <3>2. kept = copied
      BY <2>1
    <3>3. replace
      BY <2>1
    <3> HIDE DEF freed, kept, keeps
    <3>4. /\ Sound(copied.o, places) /\ SameMembers(freed, copied.o)
          /\ copied.ok => Pending(copied.o, copied.string.at, places)
          /\ copied.ok \/ copied.string = first.comment
      BY <3>1, CopyStringPending
    <3> HIDE DEF copied
    <3> QED
      BY <3>1, <3>2, <3>3, <3>4 DEF SameMembers
  <2>2. CASE ~ keeps
    <3>1. kept = [ok |-> TRUE, o |-> next, string |-> comment]
      BY <2>2 DEF Uncopied
    <3> HIDE DEF kept
    <3>2. kept.o = next /\ kept.string = comment
      BY <3>1
    <3> QED
      BY <1>2, <1>7, <3>2 DEF SameMembers
  <2> QED
    BY <2>1, <2>2
<1> HIDE DEF kept
<1>9. /\ Sound(cleared, places)
      /\ Pending(cleared, kept.string.at, places)
      /\ cleared.entries = IF replace THEN o.entries \ old ELSE o.entries
      /\ cleared.sections = o.sections /\ cleared.order = o.order + 1
      /\ cleared.loaded = o.loaded /\ cleared.multiKey = o.multiKey
      /\ cleared.multiLine = o.multiLine
  <2>1. CASE replace
    <3>1. cleared = RemoveEntries(kept.o, old)
      BY <2>1
    <3>2. old \subseteq kept.o.entries
      BY <1>1, <1>2, <1>8 DEF SameMembers
    <3> HIDE DEF cleared
    <3>3. /\ Sound(cleared, places)
          /\ cleared.entries = kept.o.entries \ old
          /\ cleared.sections = kept.o.sections /\ cleared.order = kept.o.order
          /\ cleared.loaded = kept.o.loaded /\ cleared.multiKey = kept.o.multiKey
          /\ cleared.multiLine = kept.o.multiLine
          /\ \A at : Pending(kept.o, at, places) => Pending(cleared, at, places)
          /\ \A e \in old : Pending(cleared, e.comment.at, places)
      BY <1>8, <3>1, <3>2, EntriesRemoved
    <3>4. Pending(cleared, kept.string.at, places)
      BY <1>1, <1>5, <1>8, <2>1, <3>3
    <3> QED
      BY <1>2, <1>8, <2>1, <3>3, <3>4 DEF SameMembers
  <2>2. CASE ~ replace
    <3>1. cleared = kept.o
      BY <2>2
    <3> HIDE DEF cleared
    <3> QED
      BY <1>2, <1>8, <2>2, <3>1 DEF SameMembers
  <2> QED
    BY <2>1, <2>2
<1> HIDE DEF cleared
<1>10. /\ Sound(k.o, places) /\ SameMembers(cleared, k.o)
       /\ Pending(k.o, kept.string.at, places)
       /\ ~ copy => k.ok
       /\ k.ok /\ insert => /\ Pending(k.o, k.string.at, places)
                            /\ Apart(kept.string.at, k.string.at)
  <2> HIDE DEF both
  <2>1. /\ Sound(k.o, places) /\ SameMembers(cleared, k.o)
        /\ \A at : Pending(cleared, at, places) => Pending(k.o, at, places)
        /\ k.ok /\ both =>
                /\ Pending(k.o, k.string.at, places)
                /\ \A at : Pending(cleared, at, places) => Apart(at, k.string.at)
        /\ ~ both => k.ok /\ k.string = key
    BY <1>4, <1>9, CopiedPending
  <2>2. ~ copy => key.at \in places /\ key.at \notin Addresses
    BY DEF Elsewhere
  <2> HIDE DEF k
  <2> USE DEF both
  <2>3. ~ copy /\ insert => /\ Pending(k.o, k.string.at, places)
                            /\ Apart(kept.string.at, k.string.at)
    BY <2>1, <2>2 DEF Pending, Apart
  <2> QED
    BY <1>9, <2>1, <2>3
<1> HIDE DEF k
<1>11. /\ Sound(v.o, places) /\ SameMembers(k.o, v.o)
       /\ \A at : Pending(k.o, at, places) => Pending(v.o, at, places)
       /\ ~ copy => v.ok
       /\ v.ok => /\ Pending(v.o, v.string.at, places)
                  /\ \A at : Pending(k.o, at, places) => Apart(at, v.string.at)
  <2>1. /\ Sound(v.o, places) /\ SameMembers(k.o, v.o)
        /\ \A at : Pending(k.o, at, places) => Pending(v.o, at, places)
        /\ v.ok /\ copy =>
                /\ Pending(v.o, v.string.at, places)
                /\ \A at : Pending(k.o, at, places) => Apart(at, v.string.at)
        /\ ~ copy => v.ok /\ v.string = value
    BY <1>10, CopiedPending
  <2>2. ~ copy => value.at \in places /\ value.at \notin Addresses
    BY DEF Elsewhere
  <2> HIDE DEF v
  <2>3. ~ copy => /\ Pending(v.o, v.string.at, places)
                  /\ \A at : Apart(at, v.string.at)
    BY <2>1, <2>2 DEF Pending, Apart
  <2> QED
    BY <2>1, <2>3
<1> HIDE DEF v
<1>12. /\ v.o.entries = (IF replace THEN o.entries \ old ELSE o.entries)
       /\ v.o.sections = o.sections /\ v.o.order = o.order + 1
       /\ v.o.loaded = o.loaded /\ v.o.multiKey = o.multiKey
       /\ v.o.multiLine = o.multiLine
  BY <1>9, <1>10, <1>11 DEF SameMembers
<1>13. /\ k.o.loaded = o.loaded /\ k.o.multiKey = o.multiKey
       /\ k.o.multiLine = o.multiLine
  BY <1>9, <1>10 DEF SameMembers
<1>14. CASE ~ k.ok
  <2>1. r = [ok |-> FALSE, o |-> k.o]
    BY <1>0, <1>14 DEF NoMem
  <2> QED
    BY <1>10, <1>13, <1>14, <2>1 DEF r, SameOptions
<1>15. CASE k.ok /\ ~ v.ok
  <2>1. r = [ok |-> FALSE, o |-> v.o]
    BY <1>0, <1>15 DEF NoMem
  <2> QED
    BY <1>11, <1>12, <1>15, <2>1 DEF r, SameOptions
<1>16. CASE k.ok /\ v.ok /\ insert
  <2> DEFINE o2 == [v.o EXCEPT !.entries = @ \cup {new}]
  <2>1. r = [ok |-> TRUE, o |-> o2]
    BY <1>0, <1>16 DEF Done
  <2>2. /\ n \in 1..v.o.order
        /\ \A e \in v.o.entries : e.order # n
        /\ \A s \in v.o.sections : s.order # n
    <3>1. CASE replace
      <4>1. n = first.order /\ first \in o.entries /\ first \in old
        BY <1>1, <1>3, <1>5, <3>1
      <4>2. n \in 1..o.order /\ o.order \in Nat
        BY <4>1 DEF Sound, IsIni
      <4>3. \A e \in o.entries \ old : e.order # n
        BY <4>1 DEF Sound, IsConsistent
      <4>4. \A s \in o.sections : s.order # n
        BY <4>1 DEF Sound, IsConsistent
      <4> HIDE DEF n
      <4> QED
        BY <1>12, <3>1, <4>2, <4>3, <4>4
    <3>2. CASE ~ replace
      <4>1. n = o.order + 1
        BY <1>2, <1>3, <3>2
      <4> HIDE DEF n
      <4> QED
        BY <1>12, <3>2, <4>1 DEF Sound, IsIni
    <3> QED
      BY <3>1, <3>2
  <2>3. HasSection(v.o, section)
    BY <1>12 DEF HasSection
  <2>4. /\ Pending(v.o, k.string.at, places) /\ Pending(v.o, v.string.at, places)
        /\ Pending(v.o, kept.string.at, places)
        /\ Apart(k.string.at, v.string.at) /\ Apart(k.string.at, kept.string.at)
        /\ Apart(v.string.at, kept.string.at)
    <3>1. Apart(k.string.at, kept.string.at)
      BY <1>10, <1>16 DEF Apart
    <3>2. Apart(v.string.at, kept.string.at)
      BY <1>10, <1>11, <1>16 DEF Apart
    <3> QED
      BY <1>10, <1>11, <1>16, <3>1, <3>2
  <2> HIDE DEF n
  <2>5. Sound(o2, places)
    BY <1>11, <2>2, <2>3, <2>4, EntryInserted
  <2>6. /\ o2.loaded = v.o.loaded /\ o2.multiKey = v.o.multiKey
        /\ o2.multiLine = v.o.multiLine
    BY <1>11 DEF Sound, IsIni
  <2> HIDE DEF o2
  <2> QED
    BY <1>12, <2>1, <2>5, <2>6 DEF r, SameOptions
<1>17. CASE k.ok /\ v.ok /\ ~ insert
  <2> DEFINE o2 == [v.o EXCEPT !.entries = (@ \ {first}) \cup {updated}]
  <2>1. r = [ok |-> TRUE, o |-> o2]
    BY <1>0, <1>17 DEF Done
  <2>2. first \in v.o.entries
    BY <1>1, <1>6, <1>12, <1>17
  <2>3. Sound(o2, places)
    BY <1>11, <1>17, <2>2, EntryUpdated
  <2> HIDE DEF updated
  <2>4. /\ o2.loaded = v.o.loaded /\ o2.multiKey = v.o.multiKey
        /\ o2.multiLine = v.o.multiLine
    BY <1>11 DEF Sound, IsIni
  <2> HIDE DEF o2
  <2> QED
    BY <1>12, <2>1, <2>3, <2>4 DEF r, SameOptions
<1> QED
  BY <1>14, <1>15, <1>16, <1>17

\* AddEntry, wherever it returns.
LEMMA EntryAdded ==
    ASSUME NEW o, NEW places, Sound(o, places), Elsewhere(places),
           NEW section, NEW key, NEW value, NEW comment,
           NEW force \in BOOLEAN, NEW copy \in BOOLEAN,
           ~ copy => {section.at, key.at, value.at, comment.at} \subseteq places
    PROVE  LET r == AddEntry(o, section, key, value, comment, force, copy)
           IN  /\ Sound(r.o, places)
               /\ SameOptions(o, r.o)
               /\ ~ copy => r.ok
<1> DEFINE noKey == key = NoString \/ value = NoString
           new   == ~ HasSection(o, section.text)
           wantC == copy /\ comment # NoString
           wantS == copy /\ new
           c     == CopyIf(wantC, o, comment)
           s     == CopyIf(wantS, c.o, section)
           held  == IF noKey THEN c.string ELSE NoString
           more  == WithSection(s.o, s.string, held)
           added == IF new THEN more ELSE s.o
           last  == AddKey(added, section.text, key, value, c.string, force, copy)
           r     == AddEntry(o, section, key, value, comment, force, copy)
<1>0. r = CASE ~ c.ok             -> NoMem(c.o)
            [] c.ok /\ ~ s.ok     -> NoMem(s.o)
            [] c.ok /\ s.ok /\ noKey -> Done(added)
            [] c.ok /\ s.ok /\ ~ noKey -> last
  BY DEF AddEntry, WithSection
<1>1. wantC \in BOOLEAN /\ wantS \in BOOLEAN /\ new \in BOOLEAN
  OBVIOUS
<1>2. NoString.at = Nowhere /\ NoString.at \in places /\ NoString.at \notin Addresses
  BY DEF NoString, String, Elsewhere
<1>3. ~ wantC /\ copy => comment.at \in places
  BY <1>2
<1> HIDE DEF r, new, noKey, last
<1>4. /\ Sound(c.o, places) /\ SameMembers(o, c.o)
      /\ ~ copy => c.ok
      /\ c.ok => Pending(c.o, c.string.at, places)
  <2>1. ~ wantC => comment.at \in places /\ comment.at \notin Addresses
    BY <1>3 DEF Elsewhere
  <2>2. ~ copy => ~ wantC
    OBVIOUS
  <2> HIDE DEF wantC
  <2>3. /\ Sound(c.o, places) /\ SameMembers(o, c.o)
        /\ c.ok /\ wantC => Pending(c.o, c.string.at, places)
        /\ ~ wantC => c.ok /\ c.string = comment
    BY <1>1, CopiedPending
  <2> HIDE DEF c
  <2>4. ~ wantC => Pending(c.o, c.string.at, places)
    BY <2>1, <2>3 DEF Pending
  <2> QED
    BY <2>2, <2>3, <2>4
<1> HIDE DEF c
<1>5. /\ Sound(s.o, places) /\ SameMembers(c.o, s.o)
      /\ ~ copy => s.ok
      /\ c.ok => Pending(s.o, c.string.at, places)
      /\ c.ok /\ s.ok /\ new => /\ Pending(s.o, s.string.at, places)
                              /\ Apart(s.string.at, c.string.at)
                              /\ s.string.text = section.text
  <2>1. ~ copy => section.at \in places /\ section.at \notin Addresses
    BY DEF Elsewhere
  <2>2. new => (copy <=> wantS)
    OBVIOUS
  <2>3. ~ copy => ~ wantS
    OBVIOUS
  <2> HIDE DEF wantS
  <2>4. /\ Sound(s.o, places) /\ SameMembers(c.o, s.o)
        /\ \A at : Pending(c.o, at, places) => Pending(s.o, at, places)
        /\ s.ok /\ wantS =>
                /\ Pending(s.o, s.string.at, places)
                /\ \A at : Pending(c.o, at, places) => Apart(at, s.string.at)
                /\ s.string.text = section.text
        /\ ~ wantS => s.ok /\ s.string = section
    BY <1>1, <1>4, CopiedPending
  <2> HIDE DEF s
  <2>5. ~ wantS /\ new => /\ Pending(s.o, s.string.at, places)
                          /\ Apart(s.string.at, c.string.at)
                          /\ s.string.text = section.text
    BY <2>1, <2>2, <2>4 DEF Pending, Apart
  <2>6. c.ok /\ s.ok /\ wantS => Apart(s.string.at, c.string.at)
    BY <1>4, <2>4 DEF Apart
  <2> QED
    BY <1>4, <2>3, <2>4, <2>5, <2>6
<1> HIDE DEF s
<1>6. SameOptions(o, c.o) /\ SameOptions(o, s.o) /\ s.o.sections = o.sections
  BY <1>4, <1>5 DEF SameMembers, SameOptions
<1>7. ASSUME c.ok, s.ok
      PROVE  /\ Sound(added, places)
             /\ HasSection(added, section.text)
             /\ SameOptions(o, added)
             /\ ~ noKey => Pending(added, c.string.at, places)
  <2>1. CASE new
    <3>1. added = more
      BY <2>1
    <3>2. /\ Pending(s.o, held.at, places)
          /\ Apart(s.string.at, held.at)
      BY <1>2, <1>5, <1>7, <2>1 DEF Pending, Apart
    <3>3. ~ noKey => held.at \notin Addresses
      BY <1>2
    <3> HIDE DEF held
    <3>4. ~ HasSection(s.o, s.string.text)
      BY <1>5, <1>6, <1>7, <2>1 DEF HasSection, new
    <3>5. /\ Sound(more, places)
          /\ \A h \in Holders(more) :
                h \in Holders(s.o) \/ h[3] = s.string.at \/ h[3] = held.at
          /\ HasSection(more, s.string.text)
          /\ SameOptions(s.o, more)
          /\ s.o.strings \subseteq more.strings
      BY <1>5, <1>7, <2>1, <3>2, <3>4, SectionInserted
    <3> HIDE DEF more, added
    <3>7. ~ noKey => Pending(more, c.string.at, places)
      BY <1>5, <1>7, <2>1, <3>3, <3>5 DEF Pending, Apart
    <3> QED
      BY <1>5, <1>6, <1>7, <2>1, <3>1, <3>5, <3>7 DEF SameOptions
  <2>2. CASE ~ new
    <3>1. added = s.o
      BY <2>2
    <3> HIDE DEF added
    <3>2. HasSection(s.o, section.text)
      BY <1>6, <2>2 DEF HasSection, new
    <3> QED
      BY <1>5, <1>6, <1>7, <3>1, <3>2
  <2> QED
    BY <2>1, <2>2
<1> HIDE DEF added
<1>8. CASE ~ c.ok
  <2>1. r = [ok |-> FALSE, o |-> c.o]
    BY <1>0, <1>8 DEF NoMem
  <2> QED
    BY <1>4, <1>6, <1>8, <2>1 DEF r
<1>9. CASE c.ok /\ ~ s.ok
  <2>1. r = [ok |-> FALSE, o |-> s.o]
    BY <1>0, <1>9 DEF NoMem
  <2> QED
    BY <1>5, <1>6, <1>9, <2>1 DEF r
<1>10. CASE c.ok /\ s.ok /\ noKey
  <2>1. r = [ok |-> TRUE, o |-> added]
    BY <1>0, <1>10 DEF Done
  <2> QED
    BY <1>7, <1>10, <2>1 DEF r
<1>11. CASE c.ok /\ s.ok /\ ~ noKey
  <2>1. r = last
    BY <1>0, <1>11
  <2>2. ~ copy => key.at \in places /\ value.at \in places
    OBVIOUS
  <2> DEFINE name == section.text
             kept == c.string
  <2>3. HasSection(added, name) /\ Pending(added, kept.at, places) /\ Sound(added, places)
    BY <1>7, <1>11
  <2>4. last = AddKey(added, name, key, value, kept, force, copy)
    BY DEF last
  <2> HIDE DEF name, kept
  <2>5. /\ Sound(last.o, places)
        /\ SameOptions(added, last.o)
        /\ ~ copy => last.ok
    BY <2>2, <2>3, <2>4, KeyAdded
  <2>6. SameOptions(o, last.o)
    BY <1>7, <1>11, <2>5 DEF SameOptions
  <2> QED
    BY <2>1, <2>5, <2>6 DEF r
<1> QED
  BY <1>8, <1>9, <1>10, <1>11

-----------------------------------------------------------------------------
(* The methods *)

\* SetValue, whatever is passed for NULL.
LEMMA ValueSet ==
    ASSUME NEW o, NEW places, Sound(o, places), Elsewhere(places),
           NEW section, NEW k, NEW value, NEW comment, NEW force \in BOOLEAN
    PROVE  LET r == SetValue(o, section, k, value, comment, force)
           IN  Sound(r.o, places) /\ SameOptions(o, r.o)
<1> DEFINE yes == TRUE
           a   == Argument(section)
           b   == Argument(k)
           c   == Argument(value)
           d   == Argument(comment)
           r   == AddEntry(o, a, b, c, d, force, yes)
<1>1. yes \in BOOLEAN /\ yes
  OBVIOUS
<1>2. SetValue(o, section, k, value, comment, force) = r
  BY DEF SetValue
<1> HIDE DEF yes, a, b, c, d
<1>3. ~ yes => {a.at, b.at, c.at, d.at} \subseteq places
  BY <1>1
<1>4. Sound(r.o, places) /\ SameOptions(o, r.o)
  BY <1>1, <1>3, EntryAdded
<1> QED
  BY <1>2, <1>4

\* RemoveSection, once its keys are gone.
LEMMA SectionRemoved ==
    ASSUME NEW o, NEW places, Sound(o, places), Elsewhere(places),
           NEW section, KeysOf(o, section) = {}
    PROVE  LET r == RemoveSection(o, section)
           IN  Sound(r, places) /\ SameOptions(o, r)
<1> DEFINE named == {s \in o.sections : s.name.text = section}
           freed == {s.name.at : s \in named}
           r     == RemoveSection(o, section)
<1>1. /\ DOMAIN r = DOMAIN o
      /\ r.sections = o.sections \ named
      /\ r.strings = o.strings \ freed
      /\ r.entries = o.entries /\ r.order = o.order /\ r.loaded = o.loaded
      /\ r.multiKey = o.multiKey /\ r.multiLine = o.multiLine
      /\ r.fileComment = o.fileComment
  BY DEF RemoveSection, Free, Sound, IsIni
<1> HIDE DEF r
<1>2. IsIni(r)
  BY <1>1 DEF Sound, IsIni
<1>3. IsConsistent(r)
  <2>1. ASSUME NEW e \in r.entries PROVE HasSection(r, e.section)
    <3>1. PICK s \in o.sections : s.name.text = e.section
      BY <1>1 DEF Sound, IsConsistent, HasSection
    <3>2. e.section # section
      BY <1>1 DEF KeysOf
    <3> QED
      BY <1>1, <3>1, <3>2 DEF HasSection
  <2> QED
    BY <1>1, <2>1 DEF Sound, IsConsistent
<1>4. Holders(r) \subseteq Holders(o)
  BY <1>1, HolderCases
<1>5. ASSUME NEW h \in Holders(r), h[3] \in Addresses PROVE h[3] \notin freed
  <2>1. SUFFICES ASSUME NEW s \in named, h[3] = s.name.at PROVE FALSE
    OBVIOUS
  <2> DEFINE g == <<"section", s.order, s.name.at>>
  <2>2. g \in Holders(o)
    <3>1. g \in SectionHolders(s)
      BY DEF SectionHolders
    <3> QED
      BY <3>1, HolderCases
  <2>3. g # h
    <3>1. CASE \E t \in r.sections : h \in SectionHolders(t)
      <4>1. PICK t \in o.sections \ named : h \in SectionHolders(t)
        BY <1>1, <3>1
      <4>2. t.order # s.order
        BY <4>1 DEF Sound, IsConsistent
      <4> QED
        BY <4>1, <4>2 DEF SectionHolders
    <3>2. CASE \E e \in r.entries : h \in EntryHolders(e)
      BY <3>2 DEF EntryHolders
    <3>3. CASE h = <<"file", 0, r.fileComment.at>>
      BY <3>3
    <3> QED
      BY <3>1, <3>2, <3>3, HolderCases
  <2>4. g[3] = h[3]
    BY <2>1
  <2> HIDE DEF g
  <2> QED
    BY <1>4, <1>5, <2>2, <2>3, <2>4 DEF Sound, Owns
<1> HIDE DEF freed, named
<1>6. ASSUME NEW h \in Holders(r) PROVE h[3] \in r.strings \cup places
  <2>1. h[3] \in o.strings \cup places
    BY <1>4 DEF Sound, Owns
  <2>2. o.strings \subseteq Addresses
    BY DEF Sound, IsIni
  <2> QED
    BY <1>1, <1>5, <2>1, <2>2
<1>7. Owns(r, places)
  BY <1>4, <1>6 DEF Sound, Owns
<1>8. SameOptions(o, r)
  BY <1>1 DEF SameOptions
<1> QED
  BY <1>2, <1>3, <1>7, <1>8 DEF Sound, r

\* RemoveEntries, of any of the keys of a section.
LEMMA SomeRemoved ==
    ASSUME NEW o, NEW places, Sound(o, places), Elsewhere(places),
           NEW gone, gone \subseteq o.entries
    PROVE  LET r == RemoveEntries(o, gone)
           IN  Sound(r, places) /\ SameOptions(o, r) /\ r.entries = o.entries \ gone
<1> DEFINE r == RemoveEntries(o, gone)
<1>1. /\ Sound(r, places)
      /\ r.entries = o.entries \ gone
      /\ r.loaded = o.loaded
      /\ r.multiKey = o.multiKey /\ r.multiLine = o.multiLine
  BY EntriesRemoved
<1> QED
  BY <1>1 DEF SameOptions

\* DeleteValue, with a key or a value or without.
LEMMA ValueDeleted ==
    ASSUME NEW o, NEW places, Sound(o, places), Elsewhere(places),
           NEW section, NEW k, NEW value, NEW removeEmpty \in BOOLEAN
    PROVE  LET r == DeleteValue(o, section, k, value, removeEmpty)
           IN  Sound(r, places) /\ SameOptions(o, r)
<1> DEFINE gone == {e \in KeysOf(o, section) :
                       (k = Null \/ e.key.text = k) /\ (value = Null \/ e.value.text = value)}
           all  == KeysOf(o, section)
           left == RemoveEntries(o, gone)
           bare == RemoveEntries(o, all)
           last == RemoveSection(left, section)
           r    == DeleteValue(o, section, k, value, removeEmpty)
<1>1. \/ r = o
      \/ r = RemoveSection(bare, section)
      \/ KeysOf(left, section) = {} /\ r = last
      \/ r = left
  <2>1. CASE ~ HasSection(o, section)
    BY <2>1 DEF DeleteValue
  <2>2. CASE HasSection(o, section) /\ k = Null
    BY <2>2 DEF DeleteValue
  <2>3. CASE HasSection(o, section) /\ k # Null
    <3>1. r = IF gone # {} /\ removeEmpty /\ KeysOf(left, section) = {} THEN last ELSE left
      BY <2>3 DEF DeleteValue
    <3> HIDE DEF r, last, left, gone
    <3> QED
      BY <3>1
  <2> QED
    BY <2>1, <2>2, <2>3
<1>2. gone \subseteq o.entries /\ all \subseteq o.entries
  BY DEF KeysOf
<1> HIDE DEF r, gone, all
<1>3. /\ Sound(left, places) /\ SameOptions(o, left)
      /\ Sound(bare, places) /\ SameOptions(o, bare)
      /\ bare.entries = o.entries \ all
  BY <1>2, SomeRemoved
<1>4. KeysOf(bare, section) = {}
  BY <1>3 DEF all, KeysOf
<1> HIDE DEF left, bare
<1>5. /\ Sound(RemoveSection(bare, section), places)
      /\ SameOptions(bare, RemoveSection(bare, section))
  BY <1>3, <1>4, SectionRemoved
<1>6. KeysOf(left, section) = {} => Sound(last, places) /\ SameOptions(left, last)
  BY <1>3, SectionRemoved
<1> HIDE DEF last
<1>7. Sound(o, places) /\ SameOptions(o, o)
  BY DEF SameOptions
<1>8. Sound(r, places)
  BY <1>1, <1>3, <1>5, <1>6, <1>7
<1>9. SameOptions(o, r)
  BY <1>1, <1>3, <1>5, <1>6, <1>7 DEF SameOptions
<1> QED
  BY <1>8, <1>9 DEF r

-----------------------------------------------------------------------------
(* Loading *)

AllPlaces == {Nowhere, Leaked, InBlock}

LEMMA PlacesOffHeap ==
    /\ Elsewhere(AllPlaces) /\ Elsewhere(OtherPlaces)
    /\ OtherPlaces \subseteq AllPlaces
    /\ (ini.loaded \/ ~ Called) => OtherPlaces = AllPlaces
BY AddressesAssumption DEF AllPlaces, OtherPlaces, Elsewhere, Nowhere, Leaked, InBlock

LEMMA MorePlaces ==
    ASSUME NEW o, NEW places, NEW more, Sound(o, places), places \subseteq more
    PROVE  Sound(o, more)
BY DEF Sound, Owns

\* BeginLoad.  It can only fail for want of room, and needs room for a copy alone.
LEMMA LoadBegun ==
    ASSUME NEW o, Sound(o, AllPlaces), NEW text
    PROVE  LET b == BeginLoad(o, text)
           IN  /\ Sound(b.o, AllPlaces) /\ SameOptions(o, b.o)
               /\ b.l = Idle => b.o = o \/ o.loaded
               /\ DOMAIN b.l = DOMAIN Idle
               /\ b.l.status = "reading" \/ b.l = Idle
<1> DEFINE lines   == Append(text, Blank)
           wanted  == o.fileComment = NoString
           comment == IF wanted THEN FindFileComment(lines) ELSE Null
           copied  == Copying(o) /\ comment # Null
           there   == Loaded(o, comment)
           c       == CopyIf(copied, o, there)
           set     == [c.o EXCEPT !.fileComment = c.string]
           with    == IF comment = Null THEN o ELSE set
           lost    == [o EXCEPT !.fileComment = String(comment, Leaked)]
           l       == [Idle EXCEPT !.status = "reading", !.lines = lines,
                                   !.next = Len(comment) + 1]
           b       == BeginLoad(o, text)
<1>1. \/ b = [o |-> o, l |-> Idle]
      \/ c.ok /\ b = [o |-> with, l |-> l]
      \/ ~ c.ok /\ b = [o |-> lost, l |-> Idle]
  <2>1. CASE text = << >>
    BY <2>1 DEF BeginLoad
  <2>2. CASE text # << >> /\ c.ok
    <3>1. b = [o |-> with, l |-> l]
      BY <2>2 DEF BeginLoad
    <3> QED
      BY <2>2, <3>1
  <2>3. CASE text # << >> /\ ~ c.ok
    <3>1. b = [o |-> lost, l |-> Idle]
      BY <2>3 DEF BeginLoad
    <3> QED
      BY <2>3, <3>1
  <2> QED
    BY <2>1, <2>2, <2>3
<1>2. /\ DOMAIN l = DOMAIN Idle
      /\ l.status = "reading"
  BY DEF Idle
<1> HIDE DEF b, l, lines
<1>3. Elsewhere(AllPlaces)
  BY PlacesOffHeap
<1>4. copied \in BOOLEAN /\ (copied => o.loaded)
  BY DEF Copying
<1>5. comment # Null => wanted
  OBVIOUS
<1>6. comment # Null /\ ~ copied => there.at \in AllPlaces /\ there.at \notin Addresses
  <2>1. ASSUME comment # Null, ~ Copying(o) PROVE there.at = InBlock
    BY <2>1 DEF Loaded, String
  <2>2. InBlock \in AllPlaces /\ InBlock \notin Addresses
    BY <1>3 DEF AllPlaces, Elsewhere
  <2> HIDE DEF there
  <2> QED
    BY <2>1, <2>2
<1> HIDE DEF copied, there, comment
<1>7. /\ Sound(c.o, AllPlaces) /\ SameMembers(o, c.o)
      /\ Holders(c.o) = Holders(o)
      /\ c.ok /\ copied => Pending(c.o, c.string.at, AllPlaces)
      /\ ~ copied => c.ok /\ c.string = there
  BY <1>3, <1>4, CopiedPending
<1> HIDE DEF c
<1>8. c.ok /\ comment # Null => Pending(c.o, c.string.at, AllPlaces)
  BY <1>6, <1>7 DEF Pending
\* Another file comment, at a place that is pending, in place of none.
<1>9. ASSUME NEW p, Sound(p, AllPlaces), NEW string, Pending(p, string.at, AllPlaces)
      PROVE  LET q == [p EXCEPT !.fileComment = string]
             IN  Sound(q, AllPlaces) /\ SameOptions(p, q)
  <2> DEFINE q   == [p EXCEPT !.fileComment = string]
             new == {<<"file", 0, string.at>>}
  <2>1. /\ DOMAIN q = DOMAIN p
        /\ q.fileComment = string
        /\ q.sections = p.sections /\ q.entries = p.entries /\ q.order = p.order
        /\ q.strings = p.strings /\ q.loaded = p.loaded
        /\ q.multiKey = p.multiKey /\ q.multiLine = p.multiLine
    BY <1>9 DEF Sound, IsIni
  <2> HIDE DEF q
  <2>2. IsIni(q)
    BY <1>9, <2>1 DEF Sound, IsIni
  <2>3. IsConsistent(q)
    BY <1>9, <2>1 DEF Sound, IsConsistent, HasSection
  <2>4. \A h \in Holders(q) : h \in Holders(p) \/ h \in new
    BY <2>1, HolderCases
  <2>5. \A n \in new : Pending(p, n[3], AllPlaces)
    BY <1>9
  <2>6. \A n, m \in new : n # m => Apart(n[3], m[3])
    OBVIOUS
  <2> HIDE DEF new
  <2>7. Owns(q, AllPlaces)
    BY <1>9, <2>1, <2>4, <2>5, <2>6, MoreHolders DEF Sound
  <2>8. SameOptions(p, q)
    BY <2>1 DEF SameOptions
  <2> QED
    BY <2>2, <2>3, <2>7, <2>8 DEF Sound, q
<1>10. c.ok => Sound(with, AllPlaces) /\ SameOptions(o, with)
  <2>1. CASE comment = Null
    BY <2>1 DEF SameOptions
  <2>2. CASE comment # Null
    <3>1. with = set
      BY <2>2
    <3>2. c.ok => Sound(set, AllPlaces) /\ SameOptions(c.o, set)
      BY <1>7, <1>8, <1>9, <2>2
    <3> HIDE DEF with, set
    <3> QED
      BY <1>7, <3>1, <3>2 DEF SameOptions, SameMembers
  <2> QED
    BY <2>1, <2>2
<1>11. Sound(lost, AllPlaces) /\ SameOptions(o, lost)
  <2> DEFINE away == String(comment, Leaked)
  <2>1. away.at = Leaked
    BY DEF String
  <2>2. Leaked \in AllPlaces /\ Leaked \notin Addresses
    BY <1>3 DEF AllPlaces, Elsewhere
  <2> HIDE DEF away
  <2>3. Pending(o, away.at, AllPlaces)
    BY <2>1, <2>2 DEF Pending
  <2>4. LET q == [o EXCEPT !.fileComment = away]
        IN  Sound(q, AllPlaces) /\ SameOptions(o, q)
    BY <1>9, <2>3
  <2> QED
    BY <2>4 DEF away
<1> HIDE DEF with, lost
<1>12. "reading" # Idle.status
  BY DEF Idle
<1>13. CASE b = [o |-> o, l |-> Idle]
  BY <1>13 DEF SameOptions, b
<1>14. CASE c.ok /\ b = [o |-> with, l |-> l]
  BY <1>2, <1>10, <1>12, <1>14 DEF b
<1>15. CASE ~ c.ok /\ b = [o |-> lost, l |-> Idle]
  BY <1>4, <1>7, <1>11, <1>15 DEF b
<1> QED
  BY <1>1, <1>13, <1>14, <1>15

\* LoadRound.  The round that ends the load is not one of a first load that has failed.
LEMMA RoundLoaded ==
    ASSUME NEW o, Sound(o, AllPlaces), NEW l, DOMAIN l = DOMAIN Idle, l.status = "reading"
    PROVE  LET b == LoadRound(o, l)
           IN  /\ Sound(b.o, AllPlaces)
               /\ DOMAIN b.l = DOMAIN Idle
               /\ \/ b.l = Idle /\ b.o.loaded
                  \/ b.l.status = "reading"
<1> DEFINE copy == Copying(o)
           no   == FALSE
           e    == FindEntry(l.lines, l.next, l.section, o.multiLine, Copying(o))
           sec  == Loaded(o, e.section)
           key  == Loaded(o, e.key)
           val  == Loaded(o, e.value)
           com  == Loaded(o, e.comment)
           r    == AddEntry(o, sec, key, val, com, no, copy)
           on   == [l EXCEPT !.next = e.next, !.section = e.section]
           b    == LoadRound(o, l)
<1>1. \/ b = [o |-> EndLoad(o), l |-> Idle]
      \/ r.ok /\ b = [o |-> r.o, l |-> on]
      \/ ~ r.ok /\ b = [o |-> r.o, l |-> Idle]
  <2>1. CASE ~ e.found
    BY <2>1 DEF LoadRound
  <2>2. CASE e.found /\ r.ok
    <3>1. b = [o |-> r.o, l |-> on]
      BY <2>2 DEF LoadRound
    <3> QED
      BY <2>2, <3>1
  <2>3. CASE e.found /\ ~ r.ok
    <3>1. b = [o |-> r.o, l |-> Idle]
      BY <2>3 DEF LoadRound
    <3> QED
      BY <2>3, <3>1
  <2> QED
    BY <2>1, <2>2, <2>3
<1>2. DOMAIN on = DOMAIN Idle /\ on.status = "reading"
  BY DEF Idle
<1> HIDE DEF b, on
<1>3. Elsewhere(AllPlaces)
  BY PlacesOffHeap
<1>4. copy \in BOOLEAN /\ no \in BOOLEAN /\ copy = o.loaded
  BY DEF Copying, Sound, IsIni
<1>5. \A text : ~ copy => Loaded(o, text).at \in AllPlaces
  BY DEF Loaded, NoString, String, AllPlaces
<1>6. ~ copy => {sec.at, key.at, val.at, com.at} \subseteq AllPlaces
  BY <1>5
<1> HIDE DEF copy, no, sec, key, val, com
<1>7. Sound(r.o, AllPlaces) /\ SameOptions(o, r.o) /\ (~ copy => r.ok)
  BY <1>3, <1>4, <1>6, EntryAdded
<1> HIDE DEF r
<1>8. Sound(EndLoad(o), AllPlaces) /\ EndLoad(o).loaded
  <2>1. CASE Copying(o)
    BY <2>1 DEF EndLoad, Copying
  <2>2. CASE ~ Copying(o)
    <3> DEFINE q == [o EXCEPT !.loaded = TRUE]
    <3>1. /\ DOMAIN q = DOMAIN o /\ q.loaded = TRUE
          /\ q.fileComment = o.fileComment
          /\ q.sections = o.sections /\ q.entries = o.entries /\ q.order = o.order
          /\ q.strings = o.strings
          /\ q.multiKey = o.multiKey /\ q.multiLine = o.multiLine
      BY DEF Sound, IsIni
    <3>2. EndLoad(o) = q
      BY <2>2 DEF EndLoad
    <3> HIDE DEF q
    <3>3. Holders(q) = Holders(o)
      BY <3>1 DEF Holders
    <3>4. IsIni(q)
      BY <3>1 DEF Sound, IsIni
    <3>5. IsConsistent(q)
      BY <3>1 DEF Sound, IsConsistent, HasSection
    <3>6. Owns(q, AllPlaces)
      BY <3>1, <3>3 DEF Sound, Owns
    <3> QED
      BY <3>1, <3>2, <3>4, <3>5, <3>6 DEF Sound
  <2> QED
    BY <2>1, <2>2
<1>9. CASE b = [o |-> EndLoad(o), l |-> Idle]
  BY <1>8, <1>9 DEF b
<1>10. CASE r.ok /\ b = [o |-> r.o, l |-> on]
  BY <1>2, <1>7, <1>10 DEF b
<1>11. CASE ~ r.ok /\ b = [o |-> r.o, l |-> Idle]
  BY <1>4, <1>7, <1>11 DEF b, SameOptions
<1> QED
  BY <1>1, <1>9, <1>10, <1>11

-----------------------------------------------------------------------------
(* The invariant *)

\* The local variables of LoadData.
LoadingOK ==
    /\ DOMAIN loading = DOMAIN Idle
    /\ loading = Idle \/ loading.status = "reading"

IInv == Sound(ini, OtherPlaces) /\ LoadingOK

LEMMA IdleFields ==
    /\ DOMAIN Idle = {"status", "lines", "next", "section"}
    /\ Idle.status = "idle"
BY DEF Idle

LEMMA InvImplies == IInv => TypeOK /\ Consistent /\ MemorySafe
<1> SUFFICES ASSUME IInv PROVE TypeOK /\ Consistent /\ MemorySafe
  OBVIOUS
<1>1. TypeOK
  BY IdleFields DEF IInv, Sound, LoadingOK, TypeOK, Called
<1>2. Consistent
  BY DEF IInv, Sound, Consistent
<1>3. MemorySafe
  BY DEF IInv, Sound, MemorySafe
<1> QED
  BY <1>1, <1>2, <1>3

\* An object without anything in it, as the constructor and Reset leave it.
LEMMA EmptySound ==
    ASSUME NEW o, NEW places, Nowhere \in places,
           DOMAIN o = DOMAIN NewIni(FALSE, FALSE),
           o.sections = {}, o.entries = {}, o.order \in Nat, o.fileComment = NoString,
           o.strings = {}, o.loaded \in BOOLEAN, o.multiKey \in BOOLEAN, o.multiLine \in BOOLEAN
    PROVE  Sound(o, places)
<1>1. IsIni(o)
  BY DEF IsIni, NewIni
<1>2. IsConsistent(o)
  BY DEF IsConsistent
<1>3. \A h \in Holders(o) : h = <<"file", 0, Nowhere>>
  <2>1. o.fileComment.at = Nowhere
    BY DEF NoString, String
  <2> QED
    BY <2>1 DEF Holders
<1>4. Owns(o, places)
  BY <1>3 DEF Owns
<1> QED
  BY <1>1, <1>2, <1>4 DEF Sound

LEMMA InvInit == Init => IInv
<1> SUFFICES ASSUME Init PROVE IInv
  OBVIOUS
<1>1. PICK multiKey \in BOOLEAN, multiLine \in BOOLEAN : ini = NewIni(multiKey, multiLine)
  BY DEF Init
<1>2. Nowhere \in OtherPlaces
  BY DEF OtherPlaces
<1>3. Sound(ini, OtherPlaces)
  <2>1. /\ DOMAIN ini = DOMAIN NewIni(FALSE, FALSE)
        /\ ini.sections = {} /\ ini.entries = {} /\ ini.order \in Nat
        /\ ini.fileComment = NoString
        /\ ini.strings = {} /\ ini.loaded \in BOOLEAN
        /\ ini.multiKey \in BOOLEAN /\ ini.multiLine \in BOOLEAN
    BY <1>1 DEF NewIni
  <2> QED
    BY <1>2, <2>1, EmptySound
<1>4. LoadingOK
  BY DEF Init, LoadingOK
<1> QED
  BY <1>3, <1>4 DEF IInv

\* A method that keeps the loads behind the object keeps the places.
LEMMA CallKeeps ==
    ASSUME IInv, Sound(ini', OtherPlaces), SameOptions(ini, ini'), UNCHANGED loading
    PROVE  IInv'
<1>1. OtherPlaces' = OtherPlaces
  BY DEF OtherPlaces, SameOptions, Called
<1> QED
  BY <1>1 DEF IInv, LoadingOK

\* SetMultiKey and SetMultiLine change nothing that matters here.
LEMMA OptionSet ==
    ASSUME IInv, UNCHANGED loading,
           DOMAIN ini' = DOMAIN ini,
           ini'.sections = ini.sections, ini'.entries = ini.entries,
           ini'.order = ini.order, ini'.fileComment = ini.fileComment,
           ini'.strings = ini.strings, ini'.loaded = ini.loaded,
           ini'.multiKey \in BOOLEAN, ini'.multiLine \in BOOLEAN
    PROVE  IInv'
<1>1. OtherPlaces' = OtherPlaces
  BY DEF OtherPlaces, Called
<1>2. Holders(ini') = Holders(ini)
  BY DEF Holders
<1>3. IsIni(ini')
  BY DEF IInv, Sound, IsIni
<1>4. IsConsistent(ini')
  BY DEF IInv, Sound, IsConsistent, HasSection
<1>5. Owns(ini', OtherPlaces)
  BY <1>2 DEF IInv, Sound, Owns
<1> QED
  BY <1>1, <1>3, <1>4, <1>5 DEF IInv, Sound, LoadingOK

LEMMA InvNext == IInv /\ [Next]_vars => IInv'
<1> SUFFICES ASSUME IInv, [Next]_vars PROVE IInv'
  OBVIOUS
<1>1. Elsewhere(OtherPlaces) /\ OtherPlaces \subseteq AllPlaces
  BY PlacesOffHeap
<1>2. ASSUME NEW section, NEW k, NEW value, NEW comment, NEW force \in BOOLEAN,
             SetKey(section, k, value, comment, force)
      PROVE  IInv'
  <2>1. ini' = SetValue(ini, section, k, value, comment, force).o /\ UNCHANGED loading
    BY <1>2 DEF SetKey
  <2>2. Sound(ini', OtherPlaces) /\ SameOptions(ini, ini')
    BY <1>1, <2>1, ValueSet DEF IInv
  <2> QED
    BY <2>1, <2>2, CallKeeps
<1>3. ASSUME NEW section, NEW comment, SetSection(section, comment)
      PROVE  IInv'
  <2> DEFINE no == FALSE
  <2>1. ini' = SetValue(ini, section, Null, Null, comment, no).o /\ UNCHANGED loading
    BY <1>3 DEF SetSection
  <2>2. no \in BOOLEAN
    OBVIOUS
  <2> HIDE DEF no
  <2>3. Sound(ini', OtherPlaces) /\ SameOptions(ini, ini')
    BY <1>1, <2>1, <2>2, ValueSet DEF IInv
  <2> QED
    BY <2>1, <2>3, CallKeeps
<1>4. ASSUME NEW section, NEW k, NEW value, NEW removeEmpty \in BOOLEAN,
             Delete(section, k, value, removeEmpty)
      PROVE  IInv'
  <2>1. ini' = DeleteValue(ini, section, k, value, removeEmpty) /\ UNCHANGED loading
    BY <1>4 DEF Delete
  <2>2. Sound(ini', OtherPlaces) /\ SameOptions(ini, ini')
    BY <1>1, <2>1, ValueDeleted DEF IInv
  <2> QED
    BY <2>1, <2>2, CallKeeps
<1>5. ASSUME Reset PROVE IInv'
  <2>1. /\ DOMAIN ini' = DOMAIN NewIni(FALSE, FALSE)
        /\ ini'.sections = {} /\ ini'.entries = {} /\ ini'.order = ini.order
        /\ ini'.fileComment = NoString
        /\ ini'.strings = {} /\ ini'.loaded \in BOOLEAN
        /\ ini'.multiKey = ini.multiKey /\ ini'.multiLine = ini.multiLine
    BY <1>5 DEF Reset, NewIni
  <2>2. Nowhere \in OtherPlaces'
    BY DEF OtherPlaces
  <2>3. Sound(ini', OtherPlaces')
    BY <2>1, <2>2, EmptySound DEF IInv, Sound, IsIni
  <2> QED
    BY <1>5, <2>3 DEF IInv, LoadingOK, Reset
<1>6. ASSUME SetMultiKey PROVE IInv'
  <2>1. ini' = [ini EXCEPT !.multiKey = ~ @] /\ UNCHANGED loading
    BY <1>6 DEF SetMultiKey
  <2>2. IsIni(ini)
    BY DEF IInv, Sound
  <2> QED
    BY <2>1, <2>2, OptionSet DEF IsIni
<1>7. ASSUME SetMultiLine PROVE IInv'
  <2>1. ini' = [ini EXCEPT !.multiLine = ~ @] /\ UNCHANGED loading
    BY <1>7 DEF SetMultiLine
  <2>2. IsIni(ini)
    BY DEF IInv, Sound
  <2> QED
    BY <2>1, <2>2, OptionSet DEF IsIni
<1>8. ASSUME NEW text, StartLoad(text) PROVE IInv'
  <2> DEFINE b == BeginLoad(ini, text)
  <2>1. ini' = b.o /\ loading' = b.l /\ Called
    BY <1>8 DEF StartLoad
  <2>2. Sound(ini, AllPlaces)
    BY <1>1, MorePlaces DEF IInv
  <2>3. /\ Sound(b.o, AllPlaces) /\ SameOptions(ini, b.o)
        /\ b.l = Idle => b.o = ini \/ ini.loaded
        /\ DOMAIN b.l = DOMAIN Idle
        /\ b.l.status = "reading" \/ b.l = Idle
    BY <2>2, LoadBegun
  <2> HIDE DEF b
  <2>4. LoadingOK'
    BY <2>1, <2>3 DEF LoadingOK
  <2>5. CASE loading' = Idle /\ ini' = ini
    BY <2>1, <2>4, <2>5 DEF IInv, Called, OtherPlaces
  <2>6. CASE loading' # Idle \/ ini.loaded
    <3>1. OtherPlaces' = AllPlaces
      BY <2>1, <2>3, <2>6 DEF OtherPlaces, AllPlaces, Called, SameOptions
    <3> QED
      BY <2>1, <2>3, <2>4, <3>1 DEF IInv
  <2> QED
    BY <2>1, <2>3, <2>5, <2>6
<1>9. ASSUME LoadEntry PROVE IInv'
  <2> DEFINE b == LoadRound(ini, loading)
  <2>1. ini' = b.o /\ loading' = b.l /\ ~ Called
    BY <1>9 DEF LoadEntry
  <2>2. OtherPlaces = AllPlaces
    BY <2>1, PlacesOffHeap
  <2>3. loading.status = "reading" /\ DOMAIN loading = DOMAIN Idle
    BY <2>1 DEF IInv, LoadingOK, Called
  <2>4. Sound(ini, AllPlaces)
    BY <2>2 DEF IInv
  <2>5. /\ Sound(b.o, AllPlaces)
        /\ DOMAIN b.l = DOMAIN Idle
        /\ \/ b.l = Idle /\ b.o.loaded
           \/ b.l.status = "reading"
    BY <2>3, <2>4, RoundLoaded
  <2> HIDE DEF b
  <2>6. ini'.loaded \/ ~ Called'
    BY <2>1, <2>5, IdleFields DEF Called
  <2>7. OtherPlaces' = AllPlaces
    BY <2>6 DEF OtherPlaces, AllPlaces
  <2> QED
    BY <2>1, <2>5, <2>7 DEF IInv, LoadingOK
<1>10. CASE UNCHANGED vars
  BY <1>10 DEF vars, IInv, OtherPlaces, LoadingOK, Called
<1> QED
  <2>1. CASE Next
    <3>1. ASSUME NEW section \in SectionNames,
                 \/ \E comment \in Comments : SetSection(section, comment)
                 \/ Delete(section, Null, Null, FALSE)
                 \/ \E k \in Keys :
                     \/ \E value \in Values, comment \in Comments, force \in BOOLEAN :
                             SetKey(section, k, value, comment, force)
                     \/ \E value \in Values \cup {Null}, removeEmpty \in BOOLEAN :
                             Delete(section, k, value, removeEmpty)
          PROVE  IInv'
      <4> DEFINE no == FALSE
      <4>1. no \in BOOLEAN
        OBVIOUS
      <4>2. CASE \E comment \in Comments : SetSection(section, comment)
        BY <1>3, <4>2
      <4>3. CASE Delete(section, Null, Null, no)
        <5> HIDE DEF no
        <5> QED
          BY <1>4, <4>1, <4>3
      <4>4. ASSUME NEW k \in Keys, NEW value \in Values, NEW comment \in Comments,
                   NEW force \in BOOLEAN, SetKey(section, k, value, comment, force)
            PROVE  IInv'
        BY <1>2, <4>4
      <4>5. ASSUME NEW k \in Keys, NEW value \in Values \cup {Null},
                   NEW removeEmpty \in BOOLEAN, Delete(section, k, value, removeEmpty)
            PROVE  IInv'
        BY <1>4, <4>5
      <4> QED
        BY <3>1, <4>2, <4>3, <4>4, <4>5
    <3> QED
      BY <1>5, <1>6, <1>7, <1>8, <1>9, <2>1, <3>1 DEF Next
  <2> QED
    BY <1>10, <2>1

-----------------------------------------------------------------------------
(* Theorems *)

\* The members keep their types, and m_nOrder is never behind an order that is in use.
THEOREM TypeCorrect == Spec => []TypeOK
<1>1. IInv => TypeOK
  BY InvImplies
<1> QED
  BY <1>1, InvInit, InvNext, PTL DEF Spec

\* Sections, keys and load orders agree after every call, also one that ran out of
\* memory half way.
THEOREM StaysConsistent == Spec => []Consistent
<1>1. IInv => Consistent
  BY InvImplies
<1> QED
  BY <1>1, InvInit, InvNext, PTL DEF Spec

\* Every pointer of the object leads to memory that is its own and has not been given
\* back, and no string of the heap has two owners.
THEOREM MemoryStaysSafe == Spec => []MemorySafe
<1>1. IInv => MemorySafe
  BY InvImplies
<1> QED
  BY <1>1, InvInit, InvNext, PTL DEF Spec
=============================================================================
