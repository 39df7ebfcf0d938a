----------------------------- MODULE VDiskProofs -----------------------------
(***************************************************************************)
(* Theorems about VDisk: for every set of paths and any number of files,   *)
(* saves and reads, the header of an archive counts what is in it, its     *)
(* folders are linked to their parents, each ends where the last file      *)
(* below it does, and Save writes all its files or none.                   *)
(***************************************************************************)
EXTENDS VDisk, SequenceLemmas, FiniteSetTheorems

-----------------------------------------------------------------------------
(* The files of a Save                                                     *)

Words == {n \in Parts : IsPart(n)}

\* A directory of Save: none of its parts is empty.
IsHome(d) == d \in Seq(Parts) /\ Plain(d)

\* A file that has a folder has the one its path names; wrong data came packed.
FileOK(f) ==
    /\ f \in FileType
    /\ IsPart(Last(f.path)) /\ (f.data \in Data \/ f.packed # 0)
    /\ f.folder # NoFolder => f.folder = Directory(f.path) /\ IsHome(f.folder)

FilesOK == files \in Seq(FileType) /\ \A i \in 1 .. Len(files) : FileOK(files[i])

\* The folders of the files, in the order of Save.
Homes == [j \in 1 .. Len(order) |-> files[order[j]].folder]

AllHome(n) == \A j \in 1 .. n : Homes[j] # NoFolder

\* w[j] is what the first j files take in the archive.
Weighs(w, n) ==
    /\ DOMAIN w = 0 .. n /\ w[0] = 0
    /\ \A j \in 1 .. n : w[j] = w[j - 1] + EntryBlockSize + files[order[j]].packed
    /\ \A j \in 0 .. n : w[j] \in Nat

\* What the first loop of Save has counted after n files.
Planned(n, w) ==
    /\ \A j \in 1 .. n : Homes[j] # NoFolder => Ancestry(Homes[j]) \subseteq dirs
    /\ AllHome(n) =>
        /\ \A d \in dirs : \E j \in 1 .. n : d \in Ancestry(Homes[j])
        /\ header.files = n
        /\ header.folders = Cardinality(dirs)
        /\ header.size = HeaderSize + 3 * EntryBlockSize * Cardinality(dirs) + w[n]

-----------------------------------------------------------------------------
(* The entries of an archive                                               *)

Contiguous(s) ==
    \A k \in 1 .. Len(s) : s[k].at = IF k = 1 THEN HeaderSize ELSE Behind(s[k - 1])

IsFolder(e, name) == e.type = "folder" /\ e.name = name

\* A root, and the three entries of a folder next to each other.
Shaped(s) ==
    /\ \A k \in 1 .. Len(s) :
        /\ IsFolder(s[k], ".") => s[k].folder = s[k].at /\ (k = 1 \/ k - 1 \in Named(s))
        /\ IsFolder(s[k], "..") => k > 2 /\ k - 2 \in Named(s)
        /\ s[k].type = "file" =>
             /\ s[k].name \in Words /\ s[k].packed # 0
             /\ s[k].end \in {0, Behind(s[k])}
    /\ s # <<>> => IsFolder(s[1], ".")
    /\ \A k \in Named(s) :
        /\ k > 1 /\ k + 2 \in 1 .. Len(s)
        /\ s[k].name \in Parts
        /\ IsFolder(s[k + 1], ".") /\ s[k + 1].at = s[k].folder
        /\ IsFolder(s[k + 2], "..")

\* FilesBefore, for the entries s.
FilesIn(s, k) == Cardinality({j \in Indices("file", s) : j < k})

After(s, k) == {j \in Named(s) : j > k /\ FilesIn(s, j) = FilesIn(s, k)}

\* FolderOf, for the entries s of files with these folders; n is the file that is
\* written next, and left the number of its folders that are not.
FolderIn(s, homes, n, left, k) ==
    LET i == FilesIn(s, k) + 1
        d == homes[i]
    IN  SubSeq(d, 1, Len(d) - Cardinality(After(s, k)) - (IF i = n THEN left ELSE 0))

\* The parent of the folder at entry k was written earlier.
LinkedUp(s, homes, n, left, k) ==
    \E j \in 1 .. k - 1 :
        /\ IsFolder(s[j], ".") /\ s[j].at = s[k + 2].folder
        /\ IF j = 1 THEN Len(FolderIn(s, homes, n, left, k)) <= 1
           ELSE FolderIn(s, homes, n, left, j - 1) = Front(FolderIn(s, homes, n, left, k))

-----------------------------------------------------------------------------
(* One more entry                                                          *)

IsNamed(e) == e.type = "folder" /\ e.name \notin {".", ".."}

LEMMA AppendFacts ==
    ASSUME NEW S, NEW s \in Seq(S), NEW e \in S
    PROVE  /\ Append(s, e) \in Seq(S) /\ Append(s, e) # <<>>
           /\ Len(s) \in Nat /\ Len(Append(s, e)) = Len(s) + 1
           /\ \A k \in 1 .. Len(s) : Append(s, e)[k] = s[k] /\ k \in 1 .. Len(Append(s, e))
           /\ Append(s, e)[Len(s) + 1] = e
           /\ Last(Append(s, e)) = e
<1>1. /\ Append(s, e) \in Seq(S)
      /\ Len(s) \in Nat /\ Len(Append(s, e)) = Len(s) + 1
      /\ \A k \in 1 .. Len(s) : Append(s, e)[k] = s[k]
      /\ Append(s, e)[Len(s) + 1] = e
  OBVIOUS
<1> QED
  BY <1>1 DEF Last

LEMMA IndicesFinite ==
    ASSUME NEW S, NEW s \in Seq(S), NEW T, T \subseteq 1 .. Len(s)
    PROVE  IsFiniteSet(T) /\ Cardinality(T) \in Nat
<1>1. IsFiniteSet(1 .. Len(s))
  BY FS_Interval
<1> QED
  BY <1>1, FS_Subset, FS_CardinalityType

LEMMA FilesAppended ==
    ASSUME NEW S, NEW s \in Seq(S), NEW e \in S
    PROVE  LET t == Append(s, e)
           IN  /\ Indices("file", t) =
                    Indices("file", s) \cup (IF e.type = "file" THEN {Len(s) + 1} ELSE {})
               /\ Cardinality(Indices("file", t)) =
                    Cardinality(Indices("file", s)) + (IF e.type = "file" THEN 1 ELSE 0)
               /\ Cardinality(Indices("file", s)) \in Nat
<1> DEFINE t == Append(s, e)
           F == Indices("file", s)
           n == Len(s) + 1
<1>1. /\ Len(t) = n /\ t[n] = e /\ n \in Nat
      /\ \A k \in 1 .. Len(s) : t[k] = s[k]
  BY AppendFacts
<1>2. F = {k \in 1 .. Len(s) : s[k].type = "file"} /\ F \subseteq 1 .. Len(s)
  BY DEF Indices
<1>3. Indices("file", t) = {k \in 1 .. n : t[k].type = "file"}
  BY <1>1 DEF Indices
<1>4. n \notin F /\ IsFiniteSet(F) /\ Cardinality(F) \in Nat
  <2>1. n \notin 1 .. Len(s)
    BY <1>1
  <2> HIDE DEF F, n
  <2> QED
    BY <1>2, <2>1, IndicesFinite
<1>5. CASE e.type = "file"
  <2>1. Indices("file", t) = F \cup {n}
    BY <1>1, <1>2, <1>3, <1>5
  <2> HIDE DEF F, n
  <2>2. Cardinality(F \cup {n}) = Cardinality(F) + 1
    BY <1>4, FS_AddElement
  <2> QED
    BY <1>4, <1>5, <2>1, <2>2 DEF F, n
<1>6. CASE e.type # "file"
  <2>1. Indices("file", t) = F
    <3>1. \A k \in 1 .. n : t[k].type = "file" => k # n
      BY <1>1, <1>6
    <3>2. \A k \in 1 .. n : t[k].type = "file" <=> k \in 1 .. Len(s) /\ s[k].type = "file"
      BY <1>1, <3>1
    <3>3. 1 .. Len(s) \subseteq 1 .. n
      BY <1>1
    <3> HIDE DEF t, n
    <3> QED
      BY <1>2, <1>3, <3>2, <3>3
  <2> QED
    BY <1>4, <1>6, <2>1
<1> QED
  BY <1>5, <1>6

LEMMA NamedAppended ==
    ASSUME NEW S, NEW s \in Seq(S), NEW e \in S
    PROVE  LET t == Append(s, e)
           IN  /\ Named(t) = Named(s) \cup (IF IsNamed(e) THEN {Len(s) + 1} ELSE {})
               /\ Cardinality(Named(t)) = Cardinality(Named(s)) + (IF IsNamed(e) THEN 1 ELSE 0)
               /\ Cardinality(Named(s)) \in Nat
<1> DEFINE t == Append(s, e)
           F == Named(s)
           n == Len(s) + 1
<1>1. /\ Len(t) = n /\ t[n] = e /\ n \in Nat
      /\ \A k \in 1 .. Len(s) : t[k] = s[k]
  BY AppendFacts
<1>2. F = {k \in 1 .. Len(s) : IsNamed(s[k])} /\ F \subseteq 1 .. Len(s)
  BY DEF Indices, Named, IsNamed
<1>3. Named(t) = {k \in 1 .. n : IsNamed(t[k])}
  BY <1>1 DEF Indices, Named, IsNamed
<1>4. n \notin F /\ IsFiniteSet(F) /\ Cardinality(F) \in Nat
  <2>1. n \notin 1 .. Len(s)
    BY <1>1
  <2> HIDE DEF F, n
  <2> QED
    BY <1>2, <2>1, IndicesFinite
<1>5. CASE IsNamed(e)
  <2>1. Named(t) = F \cup {n}
    BY <1>1, <1>2, <1>3, <1>5
  <2> HIDE DEF F, n
  <2>2. Cardinality(F \cup {n}) = Cardinality(F) + 1
    BY <1>4, FS_AddElement
  <2> QED
    BY <1>4, <1>5, <2>1, <2>2 DEF F, n
<1>6. CASE ~ IsNamed(e)
  <2>1. Named(t) = F
    BY <1>1, <1>2, <1>3, <1>6
  <2> QED
    BY <1>4, <1>6, <2>1
<1> QED
  BY <1>5, <1>6

LEMMA FilesInAppended ==
    ASSUME NEW S, NEW s \in Seq(S), NEW e \in S
    PROVE  /\ \A k \in 1 .. Len(s) : FilesIn(Append(s, e), k) = FilesIn(s, k)
           /\ FilesIn(Append(s, e), Len(s) + 1) = Cardinality(Indices("file", s))
<1> DEFINE t == Append(s, e)
<1>1. Indices("file", t) =
        Indices("file", s) \cup (IF e.type = "file" THEN {Len(s) + 1} ELSE {})
  BY FilesAppended
<1>2. Indices("file", s) \subseteq 1 .. Len(s) /\ Len(s) \in Nat
  BY DEF Indices
<1> HIDE DEF t
<1>3. ASSUME NEW k \in 1 .. Len(s)
      PROVE  {j \in Indices("file", t) : j < k} = {j \in Indices("file", s) : j < k}
  BY <1>1, <1>2
<1>4. {j \in Indices("file", t) : j < Len(s) + 1} = Indices("file", s)
  BY <1>1, <1>2
<1> QED
  BY <1>3, <1>4 DEF FilesIn, t

LEMMA AfterAppended ==
    ASSUME NEW S, NEW s \in Seq(S), NEW e \in S
    PROVE  LET t == Append(s, e)
           IN  /\ \A k \in 1 .. Len(s) :
                    /\ Cardinality(After(s, k)) \in Nat
                    /\ Cardinality(After(t, k)) = Cardinality(After(s, k)) +
                         (IF IsNamed(e) /\ FilesIn(s, k) = Cardinality(Indices("file", s))
                          THEN 1 ELSE 0)
               /\ Cardinality(After(t, Len(s) + 1)) = 0
<1> DEFINE t == Append(s, e)
           n == Len(s) + 1
<1>1. Named(t) = Named(s) \cup (IF IsNamed(e) THEN {n} ELSE {})
  BY NamedAppended
<1>2. Named(s) \subseteq 1 .. Len(s) /\ Len(s) \in Nat
  BY DEF Named, Indices
<1>3. /\ \A k \in 1 .. Len(s) : FilesIn(t, k) = FilesIn(s, k)
      /\ FilesIn(t, n) = Cardinality(Indices("file", s))
  BY FilesInAppended
<1> HIDE DEF t
<1>4. ASSUME NEW k \in 1 .. Len(s)
      PROVE  /\ Cardinality(After(s, k)) \in Nat
             /\ Cardinality(After(t, k)) = Cardinality(After(s, k)) +
                     (IF IsNamed(e) /\ FilesIn(s, k) = Cardinality(Indices("file", s))
                      THEN 1 ELSE 0)
  <2> DEFINE A == After(s, k)
             c == Cardinality(Indices("file", s))
  <2>1. A \subseteq 1 .. Len(s)
    BY <1>2 DEF After
  <2>2. n \notin A
    BY <1>2, <2>1
  <2>3. After(t, k) = A \cup (IF IsNamed(e) /\ FilesIn(s, k) = c THEN {n} ELSE {})
    BY <1>1, <1>2, <1>3 DEF After
  <2> HIDE DEF A, n, c
  <2>4. IsFiniteSet(A) /\ Cardinality(A) \in Nat
    BY <2>1, IndicesFinite
  <2>5. Cardinality(A \cup {n}) = Cardinality(A) + 1
    BY <2>2, <2>4, FS_AddElement
  <2>6. CASE IsNamed(e) /\ FilesIn(s, k) = c
    BY <2>3, <2>4, <2>5, <2>6 DEF A, c
  <2>7. CASE ~ (IsNamed(e) /\ FilesIn(s, k) = c)
    <3>1. After(t, k) = A
      BY <2>3, <2>7
    <3> QED
      BY <2>4, <2>7, <3>1 DEF A, c
  <2> QED
    BY <2>6, <2>7
<1>5. After(t, n) = {}
  BY <1>1, <1>2 DEF After
<1> QED
  BY <1>4, <1>5, FS_EmptySet DEF t, n

-----------------------------------------------------------------------------
(* The invariant                                                           *)

Left == IF next <= Len(order) /\ File.folder # NoFolder
        THEN Cardinality(Missing(File.folder)) ELSE 0

Made == DOMAIN written \ {Root}

Saving == pc \in {"planning", "writing"}

SaveInv ==
    /\ Saving =>
        /\ order \in Seq(1 .. Len(files))
        /\ \A i, j \in 1 .. Len(order) : i # j => order[i] # order[j]
        /\ next \in 1 .. Len(order) + 1
        /\ IsFiniteSet(dirs) /\ \A d \in dirs : IsHome(d)
    /\ ~Saving => order = <<>> /\ next = 1 /\ dirs = {} /\ written = <<>> /\ buffer = <<>>
    /\ header \in [files: Nat, folders: Nat, size: Nat]
    /\ pc = "planning" =>
        /\ written = <<>> /\ buffer = <<>>
        /\ \E w : Weighs(w, next - 1) /\ Planned(next - 1, w)

WriteInv ==
    pc = "writing" =>
        /\ Made \subseteq dirs
        /\ buffer = <<>> => written = <<>> /\ next = 1
        /\ buffer # <<>> => Root \in DOMAIN written /\ written[Root] = HeaderSize
        /\ \A j \in 1 .. next - 1 : Homes[j] # NoFolder /\ Ancestry(Homes[j]) \subseteq Made
        /\ \A d \in Made : Len(d) > 1 => Front(d) \in Made
        /\ \A d \in DOMAIN written : written[d] \in Nat
        /\ Cardinality(Indices("file", buffer)) = next - 1
        /\ Cardinality(Named(buffer)) = Cardinality(Made)
        /\ \E w : /\ Weighs(w, Len(order)) /\ Planned(Len(order), w)
                  /\ buffer # <<>> =>
                        EndOf(buffer) = HeaderSize + EntryBlockSize
                                          + 3 * EntryBlockSize * Cardinality(Made) + w[next - 1]

LinkInv ==
    pc = "writing" =>
        /\ \A k \in Named(buffer) :
            /\ FilesIn(buffer, k) + 1 <= next /\ FilesIn(buffer, k) + 1 <= Len(order)
            /\ FolderIn(buffer, Homes, next, Left, k) \in Made
            /\ written[FolderIn(buffer, Homes, next, Left, k)] = buffer[k].folder
            /\ LinkedUp(buffer, Homes, next, Left, k)
        /\ \A d \in Made : \E k \in Named(buffer) : FolderIn(buffer, Homes, next, Left, k) = d

\* The folders of the files in the archive.
PlanHomes == [j \in 1 .. Len(archive.plan) |-> archive.plan[j].folder]

EntriesOK(s) == s \in Seq(EntryType) /\ Contiguous(s) /\ Shaped(s)

ArchiveInv ==
    /\ archive \in [files: Nat, folders: Nat, size: Nat,
                   entries: Seq(EntryType), plan: Seq(FileType)]
    /\ EntriesOK(buffer) /\ EntriesOK(archive.entries)
    /\ HeaderTrue
    /\ \A k \in Named(archive.entries) :
        /\ FilesIn(archive.entries, k) + 1 <= Len(archive.plan)
        /\ LinkedUp(archive.entries, PlanHomes, 0, 0, k)

FolderType == [at: Nat, name: Parts \cup {"."}, path: Seq(Parts) \cup {NoFolder}]

OffsetsIn(fs) == {fs[i].at : i \in 1 .. Len(fs)}

\* The offsets of the folders in front of entry k.
Places(s, k) == {s[j].folder : j \in {x \in 1 .. k - 1 : x = 1 \/ x \in Named(s)}}

\* Entry k is the "." or the ".." of the folder at this offset.
Entering(s, k, offset) == \E j \in Named(s) : k \in {j + 1, j + 2} /\ offset = s[j].folder

\* The reader stands at entry k of s, at this position and in the folder registered under
\* the offset cur; a folder has its path when its ".." is read.
Standing(s, k, pos, fs, cur) ==
    /\ pos = IF k = 1 THEN HeaderSize ELSE Behind(s[k - 1])
    /\ fs \in Seq(FolderType)
    /\ OffsetsIn(fs) = Places(s, k)
    /\ \A i, j \in 1 .. Len(fs) : fs[i].at = fs[j].at => i = j
    /\ k = 1 => cur = 0
    /\ k > 1 => cur \in OffsetsIn(fs)
    /\ \A j \in Named(s) : k \in {j + 1, j + 2} => cur = s[j].folder
    /\ \A i \in 1 .. Len(fs) :
        /\ fs[i].path \in Seq(Parts) \/ Entering(s, k, fs[i].at)
        /\ fs[i].name \in Parts \/ fs[i].at = HeaderSize

ReaderAt(k) == Standing(archive.entries, k, position, folders, current)

ReadInv ==
    /\ current \in {0} \cup {folders[i].at : i \in 1 .. Len(folders)}
    /\ position \in {0} \cup HeaderSize .. EndOf(archive.entries)
    /\ ~(pc \in {"reading", "threw"}) => position = 0 /\ current = 0
    /\ folders \in Seq(FolderType)
    /\ pc = "reading" =>
        position = 0 \/ \E k \in 1 .. Len(archive.entries) + 1 : ReaderAt(k)

IInv ==
    /\ pc \in {"ready", "planning", "writing", "reading", "threw"}
    /\ FilesOK
    /\ opened \in {"not", "true", "false"} /\ saves \in 0 .. MaxSaves
    /\ SaveInv /\ WriteInv /\ LinkInv /\ ArchiveInv /\ ReadInv

-----------------------------------------------------------------------------
(* Paths                                                                   *)

LEMMA MinMaxOf ==
    ASSUME NEW n \in Nat, NEW T, T \subseteq 1 .. n, T # {}
    PROVE  /\ Min(T) \in T /\ Max(T) \in T
           /\ \A x \in T : Min(T) <= x /\ x <= Max(T)
<1> DEFINE D == {n - x : x \in T}
<1>1. \E m \in T : \A x \in T : m <= x
  <2>1. T \subseteq Nat
    OBVIOUS
  <2> QED
    BY <2>1, LeastNumber
<1>2. \E m \in T : \A x \in T : m >= x
  <2>1. D \subseteq Nat /\ D # {}
    <3>1. ASSUME NEW x \in T PROVE n - x \in Nat
      OBVIOUS
    <3> QED
      BY <3>1
  <2> HIDE DEF D
  <2>2. PICK d \in D : \A x \in D : d <= x
    BY <2>1, LeastNumber
  <2>3. PICK m \in T : d = n - m
    BY DEF D
  <2>4. ASSUME NEW x \in T PROVE m >= x
    <3>1. n - x \in D
      BY DEF D
    <3>2. n - m <= n - x
      BY <2>2, <2>3, <3>1
    <3> QED
      BY <3>2
  <2> QED
    BY <2>4
<1>3. Min(T) \in T /\ \A x \in T : Min(T) <= x
  BY <1>1 DEF Min
<1>4. Max(T) \in T /\ \A x \in T : Max(T) >= x
  BY <1>2 DEF Max
<1> QED
  BY <1>3, <1>4

\* Trimming a path leaves parts of it; a name that is not empty stays at its end.
LEMMA TrimmedParts ==
    ASSUME NEW p \in Seq(Parts)
    PROVE  /\ TrimParts(p) \in Seq(Parts)
           /\ p # <<>> /\ IsPart(Last(p)) => TrimParts(p) # <<>> /\ Last(TrimParts(p)) = Last(p)
<1> DEFINE kept == {i \in 1 .. Len(p) : IsPart(p[i])}
<1>1. kept \subseteq 1 .. Len(p) /\ Len(p) \in Nat
  OBVIOUS
<1>2. CASE kept = {}
  <2>1. TrimParts(p) = <<>>
    BY <1>2 DEF TrimParts
  <2>2. ~ (p # <<>> /\ IsPart(Last(p)))
    BY <1>2 DEF IsPart, Last
  <2> QED
    BY <2>1, <2>2
<1>3. CASE kept # {}
  <2> DEFINE a == Min(kept)
             b == Max(kept)
  <2>1. TrimParts(p) = SubSeq(p, a, b)
    BY <1>3 DEF TrimParts
  <2>2. a \in kept /\ b \in kept /\ \A x \in kept : a <= x /\ x <= b
    <3> HIDE DEF kept
    <3> QED
      BY <1>1, <1>3, MinMaxOf
  <2>3. a \in 1 .. Len(p) /\ b \in 1 .. Len(p) /\ a <= b
    BY <2>2
  <2>4. p # <<>> /\ IsPart(Last(p)) => b = Len(p)
    BY <2>2, <2>3 DEF IsPart, Last
  <2> HIDE DEF a, b
  <2>5. /\ SubSeq(p, a, b) \in Seq(Parts) /\ Len(SubSeq(p, a, b)) = b - a + 1
        /\ SubSeq(p, a, b)[b - a + 1] = p[b]
    BY <2>3
  <2> QED
    BY <2>1, <2>3, <2>4, <2>5 DEF Last
<1> QED
  BY <1>2, <1>3

LEMMA DirectoryType ==
    ASSUME NEW p \in Seq(Parts), p # <<>>
    PROVE  Directory(p) \in Seq(Parts)
<1> DEFINE q == [i \in 1 .. Len(p) - 1 |-> Without(p[i], Name(p))]
<1>1. Len(p) \in Nat /\ Len(p) > 0 /\ Name(p) \in Parts /\ \A i \in 1 .. Len(p) : p[i] \in Parts
  BY DEF Name, Last
<1>2. \A i \in 1 .. Len(p) - 1 : q[i] \in Parts
  <2>1. \A n, m \in Parts : Without(n, m) \in Parts
    BY PartsAssumption
  <2> QED
    BY <1>1, <2>1
<1>3. q \in Seq(Parts)
  <2>1. Len(p) - 1 \in Nat /\ q \in [1 .. Len(p) - 1 -> Parts]
    BY <1>1, <1>2
  <2> HIDE DEF q
  <2> QED
    BY <2>1
<1> HIDE DEF q
<1>4. TrimParts(q) \in Seq(Parts)
  BY <1>3, TrimmedParts
<1> QED
  BY <1>4 DEF Directory, q

\* The parts that are left of a directory are not empty.
LEMMA TrimmedPlain ==
    ASSUME NEW d \in Seq(Parts)
    PROVE  /\ Trimmed(d) \in Seq(Words)
           /\ Plain(d) => Trimmed(d) = d
<1>1. CASE Plain(d)
  <2>1. Trimmed(d) = d
    BY <1>1 DEF Trimmed
  <2>2. \A i \in 1 .. Len(d) : d[i] \in Words
    BY <1>1 DEF Plain, Words
  <2>3. d \in Seq(Words)
    BY <2>2
  <2> QED
    BY <2>1, <2>3
<1>2. CASE ~ Plain(d)
  <2> DEFINE ss == [i \in 1 .. Len(d) |-> IF IsPart(d[i]) THEN <<d[i]>> ELSE <<>>]
  <2>1. Trimmed(d) = FlattenSeq(ss)
    BY <1>2 DEF Trimmed
  <2>2. ASSUME NEW i \in 1 .. Len(d) PROVE ss[i] \in Seq(Words)
    <3>1. d[i] \in Parts
      OBVIOUS
    <3>2. CASE IsPart(d[i])
      <4>1. d[i] \in Words /\ ss[i] = <<d[i]>>
        BY <3>1, <3>2 DEF Words
      <4> QED
        BY <4>1
    <3>3. CASE ~ IsPart(d[i])
      <4>1. ss[i] = <<>>
        BY <3>3
      <4> QED
        BY <4>1
    <3> QED
      BY <3>2, <3>3
  <2>3. ss \in Seq(Seq(Words))
    <3>1. Len(d) \in Nat /\ DOMAIN ss = 1 .. Len(d) /\ ss = [i \in 1 .. Len(d) |-> ss[i]]
      OBVIOUS
    <3> HIDE DEF ss
    <3>2. ss \in [1 .. Len(d) -> Seq(Words)]
      BY <2>2, <3>1
    <3> QED
      BY <3>1, <3>2
  <2> HIDE DEF ss
  <2> QED
    BY <1>2, <2>1, <2>3, FlattenType
<1> QED
  BY <1>1, <1>2

-----------------------------------------------------------------------------
(* The folders of a directory                                              *)

Upper(d, i) == SubSeq(d, 1, i)

LEMMA UpperFacts ==
    ASSUME NEW d \in Seq(Words), NEW i \in 0 .. Len(d)
    PROVE  /\ Upper(d, i) \in Seq(Words) /\ Len(Upper(d, i)) = i
           /\ IsHome(Upper(d, i))
           /\ Upper(d, Len(d)) = d
           /\ i > 0 => Front(Upper(d, i)) = Upper(d, i - 1)
                       /\ Upper(d, i) # <<>> /\ Last(Upper(d, i)) = d[i]
<1>1. /\ Upper(d, i) \in Seq(Words) /\ Len(Upper(d, i)) = i
      /\ \A j \in 1 .. i : Upper(d, i)[j] = d[j]
  BY DEF Upper
<1>2. IsHome(Upper(d, i))
  <2>1. \A j \in 1 .. i : d[j] \in Words
    OBVIOUS
  <2>2. \A j \in 1 .. i : IsPart(d[j]) /\ d[j] \in Parts
    BY <2>1 DEF Words
  <2>3. Upper(d, i) \in Seq(Parts)
    <3>1. Words \subseteq Parts
      BY DEF Words
    <3> QED
      BY <1>1, <3>1
  <2> QED
    BY <1>1, <2>2, <2>3 DEF IsHome, Plain
<1>3. Upper(d, Len(d)) = d
  BY DEF Upper
<1>4. ASSUME i > 0
      PROVE  Front(Upper(d, i)) = Upper(d, i - 1)
  <2>1. Front(Upper(d, i)) = SubSeq(Upper(d, i), 1, i - 1)
    BY <1>1 DEF Front
  <2>2. /\ SubSeq(Upper(d, i), 1, i - 1) \in Seq(Words)
        /\ Len(SubSeq(Upper(d, i), 1, i - 1)) = i - 1
        /\ \A j \in 1 .. i - 1 : SubSeq(Upper(d, i), 1, i - 1)[j] = Upper(d, i)[j]
    BY <1>1, <1>4
  <2>3. /\ Upper(d, i - 1) \in Seq(Words) /\ Len(Upper(d, i - 1)) = i - 1
        /\ \A j \in 1 .. i - 1 : Upper(d, i - 1)[j] = d[j]
    BY <1>4 DEF Upper
  <2>4. \A j \in 1 .. i - 1 : SubSeq(Upper(d, i), 1, i - 1)[j] = Upper(d, i - 1)[j]
    <3> TAKE j \in 1 .. i - 1
    <3>1. j \in 1 .. i
      BY <1>4
    <3>2. Upper(d, i)[j] = d[j]
      BY <1>1, <3>1
    <3>3. /\ SubSeq(Upper(d, i), 1, i - 1)[j] = Upper(d, i)[j]
          /\ Upper(d, i - 1)[j] = d[j]
      BY ONLY <2>2, <2>3, j \in 1 .. i - 1, Zenon
    <3> QED
      BY <3>2, <3>3, Zenon
  <2> DEFINE a == SubSeq(Upper(d, i), 1, i - 1)
             b == Upper(d, i - 1)
  <2>5. a = b
    <3> HIDE DEF a, b
    <3>1. a \in Seq(Words) /\ b \in Seq(Words) /\ Len(a) = Len(b)
      BY <2>2, <2>3 DEF a, b
    <3>2. \A j \in 1 .. Len(a) : a[j] = b[j]
      BY <2>2, <2>4 DEF a, b
    <3> QED
      BY <3>1, <3>2
  <2> QED
    BY <2>1, <2>5
<1> QED
  BY <1>1, <1>2, <1>3, <1>4 DEF Last

LEMMA AncestryFacts ==
    ASSUME NEW d \in Seq(Parts)
    PROVE  /\ IsFiniteSet(Ancestry(d))
           /\ \A a \in Ancestry(d) : IsHome(a)
           /\ Plain(d) => d \in Ancestry(d)
<1> DEFINE e == Trimmed(d)
<1>1. e \in Seq(Words) /\ (Plain(d) => e = d)
  BY TrimmedPlain
<1>2. CASE d = <<>>
  <2>1. Ancestry(d) = {<<>>}
    BY <1>2 DEF Ancestry
  <2>2. IsHome(<<>>)
    BY DEF IsHome, Plain
  <2> QED
    BY <1>2, <2>1, <2>2, FS_Singleton
<1>3. CASE d # <<>>
  <2> DEFINE n == Len(e)
             f == [i \in 1 .. n |-> Upper(e, i)]
  <2>1. Ancestry(d) = {Upper(e, i) : i \in 1 .. n}
    BY <1>3 DEF Ancestry, Upper
  <2>2. n \in Nat
    BY <1>1
  <2> HIDE DEF e
  <2>3. \A i \in 1 .. n : IsHome(Upper(e, i))
    BY <1>1, UpperFacts
  <2>4. Plain(d) => d \in Ancestry(d)
    <3> SUFFICES ASSUME Plain(d) PROVE d \in Ancestry(d)
      OBVIOUS
    <3>1. e = d /\ n \in 1 .. n
      BY <1>1, <1>3, <2>2
    <3>2. Upper(e, n) = d
      BY <1>1, <3>1, UpperFacts
    <3> QED
      BY <2>1, <3>1, <3>2
  <2>5. f \in Surjection(1 .. n, Ancestry(d))
    BY <2>1 DEF Surjection
  <2>6. IsFiniteSet(1 .. n)
    BY <2>2, FS_Interval
  <2>7. IsFiniteSet(Ancestry(d))
    <3> HIDE DEF f, n
    <3> QED
      BY <2>5, <2>6, FS_Surjection
  <2> QED
    BY <2>1, <2>3, <2>4, <2>7
<1> QED
  BY <1>2, <1>3

LEMMA OtherFolders ==
    /\ Root \notin Seq(Parts) /\ NoFolder \notin Seq(Parts)
    /\ Root # <<>> /\ Len(Root) = 1
<1>1. "." \notin Parts /\ "no_folder" \notin Parts
  BY PartsAssumption
<1>2. /\ Root[1] = "." /\ NoFolder[1] = "no_folder" /\ Len(Root) = 1 /\ Len(NoFolder) = 1
      /\ Root # <<>>
  BY DEF Root, NoFolder
<1>3. ASSUME NEW p \in Seq(Parts), Len(p) = 1 PROVE p[1] \in Parts
  <2>1. 1 \in 1 .. Len(p)
    BY <1>3
  <2> QED
    BY <2>1
<1> QED
  BY <1>1, <1>2, <1>3

LEMMA AncestryIs ==
    ASSUME NEW F, IsHome(F), F # <<>>
    PROVE  F \in Seq(Words) /\ Ancestry(F) = {Upper(F, i) : i \in 1 .. Len(F)}
<1>1. F \in Seq(Parts) /\ Plain(F)
  BY DEF IsHome
<1>2. Trimmed(F) \in Seq(Words) /\ Trimmed(F) = F
  BY <1>1, TrimmedPlain
<1> QED
  BY <1>2 DEF Ancestry, Upper

\* The folders that are missing are the innermost ones; the outermost of them lies in a
\* folder that is not missing.
LEMMA MissingShape ==
    ASSUME NEW F, IsHome(F), NEW M, \A d \in M : Len(d) > 1 => Front(d) \in M,
           NEW X, X = Ancestry(F) \ M, X # {}
    PROVE  LET c == Cardinality(X)
               t == Upper(F, Len(F) - c + 1)
           IN  /\ c \in Nat /\ c > 0 /\ Len(F) - c + 1 \in 0 .. Len(F)
               /\ t \in X /\ Outermost(X) = t
               /\ Len(t) > 1 => Front(t) \in M
               /\ \A a \in X : Len(t) <= Len(a)
<1> DEFINE L == Len(F)
<1>1. CASE F = <<>>
  <2>1. Ancestry(F) = {<<>>}
    BY <1>1 DEF Ancestry
  <2>2. X = {<<>>} /\ Cardinality(X) = 1
    <3>1. X = {<<>>}
      BY <2>1
    <3> QED
      BY <3>1, FS_Singleton
  <2>3. Upper(F, Len(F) - 1 + 1) = <<>>
    BY <1>1 DEF Upper
  <2>4. Outermost(X) = <<>>
    BY <2>2 DEF Outermost
  <2>5. Len(F) = 0 /\ Len(F) - 1 + 1 = 0
    BY <1>1
  <2>6. \A a \in X : a = <<>>
    BY <2>2
  <2>7. \A a \in X : Len(<<>>) <= Len(a)
    BY <2>6
  <2>8. Upper(F, Len(F) - Cardinality(X) + 1) = <<>>
    BY <2>2, <2>3
  <2>9. Len(F) - Cardinality(X) + 1 \in 0 .. Len(F)
    BY <2>2, <2>5
  <2>10. PICK t : t = Upper(F, Len(F) - Cardinality(X) + 1)
    OBVIOUS
  <2>11. t = <<>> /\ t \in X /\ ~ (Len(t) > 1)
    BY <2>2, <2>8, <2>10
  <2>12. /\ t \in X /\ Outermost(X) = t
         /\ (Len(t) > 1 => Front(t) \in M) /\ \A a \in X : Len(t) <= Len(a)
    BY <2>4, <2>7, <2>11
  <2>13. Cardinality(X) \in Nat /\ Cardinality(X) > 0
    BY <2>2
  <2> HIDE DEF L
  <2> QED
    BY ONLY <2>9, <2>10, <2>12, <2>13
<1>2. CASE F # <<>>
  <2>1. F \in Seq(Words) /\ Ancestry(F) = {Upper(F, i) : i \in 1 .. L} /\ L \in Nat
    BY <1>2, AncestryIs
  <2> HIDE DEF L
  <2>2. \A i \in 1 .. L : /\ Len(Upper(F, i)) = i /\ Upper(F, i) # <<>>
                          /\ Front(Upper(F, i)) = Upper(F, i - 1)
                          /\ IsHome(Upper(F, i))
    BY <2>1, UpperFacts DEF L
  <2> DEFINE I == {i \in 1 .. L : Upper(F, i) \notin M}
  <2>3. I # {} /\ I \subseteq Nat
    BY <2>1
  <2>4. PICK m \in I : \A i \in I : m <= i
    <3> HIDE DEF I
    <3> QED
      BY <2>3, LeastNumber
  <2>5. m \in 1 .. L /\ Upper(F, m) \notin M
    OBVIOUS
  <2>6. ASSUME NEW i \in m .. L PROVE Upper(F, i) \notin M
    <3> DEFINE J == {j \in m .. L : Upper(F, j) \in M}
    <3> SUFFICES ASSUME J # {} PROVE FALSE
      OBVIOUS
    <3>1. J \subseteq Nat
      BY <2>5
    <3>2. PICK j \in J : \A x \in J : j <= x
      <4> HIDE DEF J
      <4> QED
        BY <3>1, LeastNumber
    <3>3. j \in m .. L /\ Upper(F, j) \in M /\ j # m
      BY <2>5
    <3>4. j - 1 \in m .. L /\ j \in 1 .. L /\ j > 1
      BY <2>1, <2>5, <3>3
    <3>5. Upper(F, j - 1) \in M
      BY <2>2, <3>3, <3>4
    <3>6. j - 1 \in J
      BY <3>4, <3>5
    <3> HIDE DEF J
    <3> QED
      BY <3>2, <3>4, <3>6
  <2>7. X = {Upper(F, i) : i \in m .. L}
    <3>1. \A i \in 1 .. L : Upper(F, i) \notin M => i \in m .. L
      BY <2>4, <2>5
    <3>2. m .. L \subseteq 1 .. L
      BY <2>5
    <3> HIDE DEF I
    <3> QED
      BY <2>1, <2>6, <3>1, <3>2
  <2> HIDE DEF I
  <2>8. Cardinality(X) = L - m + 1
    <3> DEFINE f == [i \in m .. L |-> Upper(F, i)]
    <3>1. \A i, j \in m .. L : f[i] = f[j] => i = j
      BY <2>2, <2>5
    <3>2. f \in Bijection(m .. L, X)
      BY <2>7, <3>1 DEF Bijection, Injection, Surjection, IsInjective
    <3>3. IsFiniteSet(m .. L) /\ Cardinality(m .. L) = L - m + 1
      BY <2>1, <2>5, FS_Interval
    <3>4. ExistsBijection(m .. L, X)
      BY <3>2 DEF ExistsBijection
    <3> HIDE DEF f
    <3> QED
      BY <3>3, <3>4, FS_Bijection
  <2>9. L - Cardinality(X) + 1 = m
    BY <2>1, <2>5, <2>8
  <2>10. Upper(F, m) \in X
    BY <2>5, <2>7
  <2>11. \A i \in m .. L : Depth(Upper(F, i)) = i
    <3>1. \A i \in m .. L : i \in 1 .. L
      BY <2>5
    <3>2. \A i \in m .. L : Upper(F, i) \in Seq(Parts)
      BY <2>2, <3>1 DEF IsHome
    <3>3. \A i \in m .. L : Upper(F, i) # Root
      BY <3>2, OtherFolders
    <3> QED
      BY <2>2, <3>1, <3>3 DEF Depth
  <2>12. Outermost(X) = Upper(F, m)
    <3>1. \A e \in X : Depth(Upper(F, m)) <= Depth(e)
      BY <2>5, <2>7, <2>11
    <3>2. ASSUME NEW d \in X, \A e \in X : Depth(d) <= Depth(e) PROVE d = Upper(F, m)
      <4>1. PICK i \in m .. L : d = Upper(F, i)
        BY <2>7
      <4>2. Depth(d) = i /\ Depth(Upper(F, m)) = m
        BY <2>5, <2>11, <4>1
      <4>3. i <= m
        BY <2>10, <3>2, <4>2
      <4> QED
        BY <4>1, <4>3, <2>5
    <3> QED
      BY <2>10, <3>1, <3>2 DEF Outermost
  <2>13. Len(Upper(F, m)) > 1 => Front(Upper(F, m)) \in M
    <3> SUFFICES ASSUME Len(Upper(F, m)) > 1 PROVE Front(Upper(F, m)) \in M
      OBVIOUS
    <3>1. m > 1 /\ Front(Upper(F, m)) = Upper(F, m - 1)
      BY <2>2, <2>5
    <3>2. m - 1 \in 1 .. L /\ ~ (m <= m - 1)
      BY <2>1, <2>5, <3>1
    <3>3. m - 1 \notin I
      BY <2>4, <3>2
    <3> QED
      BY <3>1, <3>2, <3>3 DEF I
  <2>14. \A a \in X : Len(Upper(F, m)) <= Len(a)
    <3>1. \A i \in m .. L : Len(Upper(F, i)) = i /\ m <= i
      BY <2>2, <2>5
    <3> QED
      BY <2>5, <2>7, <3>1
  <2> QED
    <3>1. L - m + 1 \in Nat /\ L - m + 1 > 0 /\ m \in 0 .. L
      BY <2>1, <2>5
    <3> QED
      BY <2>8, <2>9, <2>10, <2>12, <2>13, <2>14, <3>1 DEF L
<1> QED
  BY <1>1, <1>2

-----------------------------------------------------------------------------
(* Offsets and sizes                                                       *)

LEMMA EntryFacts ==
    ASSUME NEW e \in EntryType
    PROVE  /\ e.at \in Nat /\ e.packed \in Nat /\ e.folder \in Nat /\ e.end \in Nat
           /\ e.type \in {"file", "folder"} /\ e.name \in Parts \cup {".", ".."}
           /\ Behind(e) \in Nat /\ Behind(e) >= e.at + 145
  BY DEF EntryType, Behind, EntryBlockSize

\* The entries lie behind each other, in their order.
LEMMA Ascending ==
    ASSUME NEW s \in Seq(EntryType), Contiguous(s)
    PROVE  /\ \A k \in 1 .. Len(s) : s[k].at >= HeaderSize /\ Behind(s[k]) <= EndOf(s)
           /\ \A j, k \in 1 .. Len(s) : j < k => Behind(s[j]) <= s[k].at
           /\ EndOf(s) \in Nat /\ EndOf(s) >= HeaderSize
<1>1. \A k \in 1 .. Len(s) : s[k] \in EntryType
  OBVIOUS
<1>2. \A k \in 1 .. Len(s) : s[k].at \in Nat /\ Behind(s[k]) \in Nat /\ Behind(s[k]) >= s[k].at
  BY <1>1, EntryFacts
<1>3. \A k \in 1 .. Len(s) : s[k].at = IF k = 1 THEN HeaderSize ELSE Behind(s[k - 1])
  BY DEF Contiguous
<1>4. ASSUME NEW j \in 1 .. Len(s), NEW k \in 1 .. Len(s), j < k
      PROVE  Behind(s[j]) <= s[k].at
  <2> DEFINE T == {i \in j + 1 .. Len(s) : ~ (Behind(s[j]) <= s[i].at)}
  <2> SUFFICES ASSUME T # {} PROVE FALSE
    <3>1. k \in j + 1 .. Len(s)
      BY <1>4
    <3> QED
      BY <3>1
  <2>1. PICK i \in T : \A x \in T : i <= x
    <3>1. T \subseteq Nat
      OBVIOUS
    <3> HIDE DEF T
    <3> QED
      BY <3>1, LeastNumber
  <2>2. i \in j + 1 .. Len(s) /\ i \in 1 .. Len(s) /\ i > 1 /\ ~ (Behind(s[j]) <= s[i].at)
    OBVIOUS
  <2>3. s[i].at = Behind(s[i - 1]) /\ i - 1 \in 1 .. Len(s)
    BY <1>3, <2>2
  <2>4. i - 1 # j
    BY <1>2, <2>2, <2>3
  <2>5. i - 1 \in j + 1 .. Len(s) /\ ~ (i <= i - 1)
    BY <2>2, <2>4
  <2>6. Behind(s[j]) <= s[i - 1].at
    <3>1. i - 1 \notin T
      BY <2>1, <2>5
    <3> QED
      BY <2>5, <3>1
  <2> QED
    BY <1>2, <2>2, <2>3, <2>6
<1>5. EndOf(s) \in Nat /\ EndOf(s) >= HeaderSize /\ \A k \in 1 .. Len(s) : Behind(s[k]) <= EndOf(s)
  <2>1. CASE s = <<>>
    BY <2>1 DEF EndOf, HeaderSize
  <2>2. CASE s # <<>>
    <3>1. EndOf(s) = Behind(s[Len(s)]) /\ Len(s) \in 1 .. Len(s)
      BY <2>2 DEF EndOf, Last
    <3>2. \A k \in 1 .. Len(s) : k # Len(s) => Behind(s[k]) <= s[Len(s)].at
      BY <1>4, <3>1
    <3>3. s[1].at = HeaderSize /\ 1 \in 1 .. Len(s)
      BY <1>3, <3>1
    <3>4. s[Len(s)].at >= HeaderSize
      <4>1. CASE Len(s) = 1
        BY <1>2, <3>3, <4>1
      <4>2. CASE Len(s) # 1
        BY <1>2, <3>2, <3>3, <4>2, <3>1
      <4> QED
        BY <4>1, <4>2
    <3> QED
      BY <1>2, <3>1, <3>2, <3>4 DEF HeaderSize
  <2> QED
    BY <2>1, <2>2
<1>6. ASSUME NEW k \in 1 .. Len(s) PROVE s[k].at >= HeaderSize
  <2>1. s[1].at = HeaderSize /\ 1 \in 1 .. Len(s)
    BY <1>3
  <2>2. CASE k = 1
    BY <1>2, <2>1, <2>2
  <2>3. CASE k # 1
    <3>1. Behind(s[1]) <= s[k].at
      BY <1>4, <2>1, <2>3
    <3> QED
      BY <1>2, <2>1, <3>1 DEF HeaderSize
  <2> QED
    BY <2>2, <2>3
<1> QED
  BY <1>4, <1>5, <1>6

\* What these files take in the archive: the sum of EntrySize.
Weight(fs, S) == MapThenSumSet(LAMBDA i : EntryBlockSize + fs[i].packed, S)

\* f is the sum on the subsets of S, adding up an arbitrary element first.
Adds(fs, f, S) ==
    f = [s \in SUBSET S |->
            IF s = {} THEN 0
            ELSE (EntryBlockSize + fs[CHOOSE y \in s : TRUE].packed) + f[s \ {CHOOSE y \in s : TRUE}]]

LEMMA SubsetFacts ==
    ASSUME NEW S, IsFiniteSet(S)
    PROVE  /\ \A s \in SUBSET S : IsFiniteSet(s) /\ Cardinality(s) \in Nat
           /\ \A s \in SUBSET S : \A y \in s : /\ s \ {y} \in SUBSET S
                                               /\ Cardinality(s \ {y}) = Cardinality(s) - 1
           /\ \A s \in SUBSET S : s # {} => (CHOOSE y \in s : TRUE) \in s
<1>1. \A s \in SUBSET S : IsFiniteSet(s) /\ Cardinality(s) \in Nat
  BY FS_Subset, FS_CardinalityType
<1>2. ASSUME NEW s \in SUBSET S, s # {} PROVE (CHOOSE y \in s : TRUE) \in s
  BY <1>2
<1>3. ASSUME NEW s \in SUBSET S, NEW y \in s PROVE Cardinality(s \ {y}) = Cardinality(s) - 1
  BY <1>1, FS_RemoveElement
<1> QED
  BY <1>1, <1>2, <1>3

\* The sum over a finite set exists.
LEMMA WeightAdds ==
    ASSUME NEW fs, NEW S, IsFiniteSet(S)
    PROVE  \E f : Adds(fs, f, S) /\ Weight(fs, S) = f[S]
<1> DEFINE x(s) == CHOOSE y \in s : TRUE
           P(g, D) == g = [s \in D |-> IF s = {} THEN 0
                                       ELSE (EntryBlockSize + fs[x(s)].packed) + g[s \ {x(s)}]]
           D(n) == {s \in SUBSET S : Cardinality(s) <= n}
           Good(n) == \E g : P(g, D(n))
           T == {n \in Nat : ~ Good(n)}
<1>1. /\ \A s \in SUBSET S : IsFiniteSet(s) /\ Cardinality(s) \in Nat
      /\ \A s \in SUBSET S : s # {} => /\ x(s) \in s /\ s \ {x(s)} \in SUBSET S
                                       /\ Cardinality(s \ {x(s)}) = Cardinality(s) - 1
  BY SubsetFacts
<1> HIDE DEF x
<1>2. Good(0)
  <2> DEFINE g == [s \in D(0) |-> 0]
  <2>1. ASSUME NEW s \in D(0) PROVE s = {}
    BY <1>1, FS_EmptySet
  <2>2. P(g, D(0))
    BY <2>1
  <2> QED
    BY <2>2
<1>3. ASSUME NEW n \in Nat, Good(n) PROVE Good(n + 1)
  <2>1. PICK g : P(g, D(n))
    BY <1>3
  <2> DEFINE val(s) == EntryBlockSize + fs[x(s)].packed
             h == [s \in D(n + 1) |-> IF s = {} THEN 0 ELSE val(s) + g[s \ {x(s)}]]
  <2>2. ASSUME NEW s \in D(n) PROVE g[s] = IF s = {} THEN 0 ELSE val(s) + g[s \ {x(s)}]
    BY <2>1
  <2>3. D(n) \subseteq D(n + 1)
    BY <1>1
  <2>4. ASSUME NEW s \in D(n + 1), s # {} PROVE s \ {x(s)} \in D(n)
    BY <1>1, <2>4
  <2> HIDE DEF val
  <2>5. ASSUME NEW s \in D(n) PROVE h[s] = g[s]
    <3>1. s \in D(n + 1)
      BY <2>3
    <3> HIDE DEF D
    <3> QED
      BY <2>2, <3>1
  <2>6. P(h, D(n + 1))
    <3> HIDE DEF D
    <3>1. ASSUME NEW s \in D(n + 1), s # {} PROVE h[s \ {x(s)}] = g[s \ {x(s)}]
      BY <2>4, <2>5, <3>1
    <3>2. h = [s \in D(n + 1) |-> IF s = {} THEN 0 ELSE val(s) + h[s \ {x(s)}]]
      <4> DEFINE k == [s \in D(n + 1) |-> IF s = {} THEN 0 ELSE val(s) + h[s \ {x(s)}]]
      <4>1. ASSUME NEW s \in D(n + 1) PROVE h[s] = k[s]
        <5>1. CASE s = {}
          BY <5>1
        <5>2. CASE s # {}
          BY <3>1, <5>2
        <5> QED
          BY <5>1, <5>2
      <4>2. DOMAIN h = D(n + 1) /\ DOMAIN k = D(n + 1)
        OBVIOUS
      <4>3. h = [s \in D(n + 1) |-> h[s]] /\ k = [s \in D(n + 1) |-> k[s]]
        OBVIOUS
      <4> HIDE DEF h, k
      <4>4. h = k
        BY <4>1, <4>3
      <4> QED
        BY <4>4 DEF k
    <3> QED
      BY <3>2 DEF val
  <2> HIDE DEF P, h, D
  <2> QED
    BY <2>6
<1>4. \A n \in Nat : Good(n)
  <2> SUFFICES ASSUME T # {} PROVE FALSE
    OBVIOUS
  <2>1. T \subseteq Nat
    OBVIOUS
  <2> HIDE DEF Good
  <2>2. PICK n \in T : \A m \in T : n <= m
    <3> HIDE DEF T
    <3> QED
      BY <2>1, LeastNumber
  <2>3. n \in Nat /\ ~ Good(n) /\ n # 0
    BY <1>2
  <2>4. n - 1 \in Nat /\ n - 1 \notin T
    BY <2>2, <2>3
  <2>5. Good(n - 1) /\ n - 1 + 1 = n
    BY <2>3, <2>4
  <2> QED
    BY <1>3, <2>3, <2>4, <2>5
<1>5. SUBSET S = D(Cardinality(S)) /\ Cardinality(S) \in Nat
  BY FS_Subset, FS_CardinalityType
<1>6. PICK g : P(g, SUBSET S)
  <2> HIDE DEF D, P
  <2> QED
    BY <1>4, <1>5
<1>7. P(CHOOSE f : P(f, SUBSET S), SUBSET S)
  <2> HIDE DEF P
  <2> QED
    BY <1>6
<1>8. Weight(fs, S) = (CHOOSE f : P(f, SUBSET S))[S]
  BY DEF Weight, MapThenSumSet, MapThenFoldSet, x
<1>9. Adds(fs, CHOOSE f : P(f, SUBSET S), S)
  BY <1>7 DEF Adds, x
<1> HIDE DEF P
<1> QED
  BY <1>8, <1>9

\* Any element can be added up first, and the sum does not depend on the set around.
LEMMA AddsFacts ==
    ASSUME NEW fs, NEW S, IsFiniteSet(S), \A i \in S : fs[i].packed \in Nat,
           NEW f, Adds(fs, f, S)
    PROVE  /\ \A s \in SUBSET S : f[s] \in Nat
           /\ \A s \in SUBSET S : \A y \in s : f[s] = EntryBlockSize + fs[y].packed + f[s \ {y}]
           /\ f[{}] = 0
<1> DEFINE x(s) == CHOOSE y \in s : TRUE
           v(y) == EntryBlockSize + fs[y].packed
           Good(s) == f[s] \in Nat /\ \A y \in s : f[s] = v(y) + f[s \ {y}]
           U == {Cardinality(s) : s \in {t \in SUBSET S : ~ Good(t)}}
<1>1. /\ \A s \in SUBSET S : IsFiniteSet(s) /\ Cardinality(s) \in Nat
      /\ \A s \in SUBSET S : \A y \in s : /\ s \ {y} \in SUBSET S
                                          /\ Cardinality(s \ {y}) = Cardinality(s) - 1
      /\ \A s \in SUBSET S : s # {} => x(s) \in s
  BY SubsetFacts
<1>2. \A s \in SUBSET S : f[s] = IF s = {} THEN 0 ELSE v(x(s)) + f[s \ {x(s)}]
  BY DEF Adds
<1>3. \A y \in S : v(y) \in Nat
  BY DEF EntryBlockSize
<1> HIDE DEF x, v
<1>4. f[{}] = 0
  <2>1. {} \in SUBSET S
    OBVIOUS
  <2> QED
    BY <1>2, <2>1
<1>5. U = {}
  <2> SUFFICES ASSUME U # {} PROVE FALSE
    OBVIOUS
  <2>1. U \subseteq Nat
    BY <1>1
  <2>2. PICK n \in U : \A m \in U : n <= m
    <3> HIDE DEF U
    <3> QED
      BY <2>1, LeastNumber
  <2>3. PICK s \in SUBSET S : ~ Good(s) /\ n = Cardinality(s)
    OBVIOUS
  <2>4. \A t \in SUBSET S : ~ Good(t) => Cardinality(s) <= Cardinality(t)
    BY <2>2, <2>3
  <2> HIDE DEF Good, U
  <2>5. \A y \in s : Good(s \ {y})
    BY <1>1, <2>4
  <2>6. s # {}
    <3> SUFFICES ASSUME s = {} PROVE FALSE
      OBVIOUS
    <3>1. f[s] = 0 /\ f[s] \in Nat
      BY <1>4
    <3>2. \A y \in s : f[s] = v(y) + f[s \ {y}]
      OBVIOUS
    <3> QED
      BY <2>3, <3>1, <3>2 DEF Good
  <2> PICK z : z = x(s)
    OBVIOUS
  <2>7. z \in s /\ z \in S /\ f[s] = v(z) + f[s \ {z}]
    BY <1>1, <1>2, <2>6
  <2>8. f[s \ {z}] \in Nat /\ f[s] \in Nat
    BY <1>3, <2>5, <2>7 DEF Good
  <2>9. ASSUME NEW y \in s PROVE f[s] = v(y) + f[s \ {y}]
    <3>1. CASE y = z
      BY <2>7, <3>1
    <3>2. CASE y # z
      <4>1. y \in s \ {z} /\ z \in s \ {y} /\ y \in S
        BY <2>7, <3>2
      <4>2. (s \ {z}) \ {y} = (s \ {y}) \ {z}
        OBVIOUS
      <4> PICK r : r = f[(s \ {y}) \ {z}]
        OBVIOUS
      <4>3. f[s \ {z}] = v(y) + r
        BY <2>5, <2>7, <4>1, <4>2 DEF Good
      <4>4. f[s \ {y}] = v(z) + r
        BY <2>5, <2>9, <4>1 DEF Good
      <4>5. r \in Nat
        <5>1. (s \ {y}) \ {z} \in SUBSET S /\ Good((s \ {y}) \ {z})
          <6>1. s \ {y} \in SUBSET S /\ Cardinality(s \ {y}) = Cardinality(s) - 1
            BY <1>1, <2>9
          <6>2. /\ (s \ {y}) \ {z} \in SUBSET S
                /\ Cardinality((s \ {y}) \ {z}) = Cardinality(s \ {y}) - 1
            BY <1>1, <4>1, <6>1
          <6>3. Cardinality(s) \in Nat
            BY <1>1
          <6>4. ~ (Cardinality(s) <= Cardinality((s \ {y}) \ {z}))
            BY <6>1, <6>2, <6>3
          <6> QED
            BY <2>4, <6>2, <6>4
        <5> QED
          BY <5>1 DEF Good
      <4>6. v(y) \in Nat /\ v(z) \in Nat
        BY <1>3, <2>7, <4>1
      <4> QED
        BY <2>7, <4>3, <4>4, <4>5, <4>6
    <3> QED
      BY <3>1, <3>2
  <2> QED
    BY <2>3, <2>8, <2>9 DEF Good
<1>6. \A s \in SUBSET S : Good(s)
  BY <1>5
<1> QED
  BY <1>4, <1>6 DEF v

LEMMA WeightFacts ==
    ASSUME NEW fs, NEW S, IsFiniteSet(S), \A i \in S : fs[i].packed \in Nat
    PROVE  /\ Weight(fs, S) \in Nat
           /\ S = {} => Weight(fs, S) = 0
           /\ \A y \in S : Weight(fs, S) = EntryBlockSize + fs[y].packed + Weight(fs, S \ {y})
<1>1. PICK f : Adds(fs, f, S) /\ Weight(fs, S) = f[S]
  BY WeightAdds
<1>2. /\ \A s \in SUBSET S : f[s] \in Nat
      /\ \A s \in SUBSET S : \A y \in s : f[s] = EntryBlockSize + fs[y].packed + f[s \ {y}]
      /\ f[{}] = 0
  BY <1>1, AddsFacts
<1>3. S \in SUBSET S
  OBVIOUS
<1>4. ASSUME NEW y \in S PROVE Weight(fs, S \ {y}) = f[S \ {y}]
  <2> DEFINE R == S \ {y}
  <2>1. IsFiniteSet(R) /\ \A i \in R : fs[i].packed \in Nat
    BY FS_Subset
  <2>2. SUBSET R \subseteq SUBSET S
    OBVIOUS
  <2> HIDE DEF R
  <2>3. PICK g : Adds(fs, g, R) /\ Weight(fs, R) = g[R]
    BY <2>1, WeightAdds
  <2>4. /\ \A s \in SUBSET R : g[s] \in Nat
        /\ \A s \in SUBSET R : \A z \in s : g[s] = EntryBlockSize + fs[z].packed + g[s \ {z}]
        /\ g[{}] = 0
    BY <2>1, <2>3, AddsFacts
  <2>5. \A s \in SUBSET R : g[s] = f[s]
    <3> DEFINE U == {Cardinality(s) : s \in {t \in SUBSET R : g[t] # f[t]}}
    <3> SUFFICES ASSUME U # {} PROVE FALSE
      OBVIOUS
    <3>1. /\ \A s \in SUBSET R : Cardinality(s) \in Nat
          /\ \A s \in SUBSET R : \A z \in s : /\ s \ {z} \in SUBSET R
                                              /\ Cardinality(s \ {z}) = Cardinality(s) - 1
      BY <2>1, SubsetFacts
    <3>2. U \subseteq Nat
      BY <3>1
    <3>3. PICK n \in U : \A m \in U : n <= m
      <4> HIDE DEF U
      <4> QED
        BY <3>2, LeastNumber
    <3>4. PICK s \in SUBSET R : g[s] # f[s] /\ n = Cardinality(s)
      OBVIOUS
    <3>5. \A t \in SUBSET R : g[t] # f[t] => Cardinality(s) <= Cardinality(t)
      BY <3>3, <3>4
    <3> HIDE DEF U
    <3>6. s # {}
      BY <1>2, <2>4, <3>4
    <3>7. PICK z : z \in s
      BY <3>6
    <3>8. g[s \ {z}] = f[s \ {z}]
      BY <3>1, <3>5, <3>7
    <3>9. s \in SUBSET S
      BY <2>2
    <3> QED
      BY <1>2, <2>4, <3>4, <3>7, <3>8, <3>9
  <2>6. Weight(fs, R) = f[R]
    BY <2>3, <2>5
  <2> QED
    BY <2>6 DEF R
<1> QED
  BY <1>1, <1>2, <1>3, <1>4

\* A sum is the same over other indices of the same sizes.
LEMMA WeightMapped ==
    ASSUME NEW fs, NEW gs, NEW S, IsFiniteSet(S), NEW p,
           \A i \in S : fs[i].packed \in Nat /\ gs[p[i]].packed = fs[i].packed,
           \A i, j \in S : p[i] = p[j] => i = j
    PROVE  Weight(gs, {p[i] : i \in S}) = Weight(fs, S)
<1> DEFINE Image(s) == {p[i] : i \in s}
           Same(s) == Weight(gs, Image(s)) = Weight(fs, s)
           U == {Cardinality(s) : s \in {t \in SUBSET S : ~ Same(t)}}
<1> SUFFICES ASSUME ~ Same(S) PROVE FALSE
  OBVIOUS
<1>1. /\ \A s \in SUBSET S : IsFiniteSet(s) /\ Cardinality(s) \in Nat
      /\ \A s \in SUBSET S : \A z \in s : /\ s \ {z} \in SUBSET S
                                          /\ Cardinality(s \ {z}) = Cardinality(s) - 1
  BY SubsetFacts
<1> HIDE DEF Same
<1>2. U \subseteq Nat /\ U # {}
  <2>1. S \in {t \in SUBSET S : ~ Same(t)}
    OBVIOUS
  <2> QED
    BY <1>1, <2>1
<1>3. PICK n \in U : \A m \in U : n <= m
  <2> HIDE DEF U
  <2> QED
    BY <1>2, LeastNumber
<1>4. PICK s \in SUBSET S : ~ Same(s) /\ n = Cardinality(s)
  OBVIOUS
<1>5. \A t \in SUBSET S : ~ Same(t) => Cardinality(s) <= Cardinality(t)
  BY <1>3, <1>4
<1> HIDE DEF U
<1>6. ASSUME NEW t \in SUBSET S
      PROVE  /\ IsFiniteSet(Image(t)) /\ \A j \in Image(t) : gs[j].packed \in Nat
             /\ IsFiniteSet(t) /\ \A i \in t : fs[i].packed \in Nat
  <2>1. IsFiniteSet(t)
    BY <1>1
  <2>2. IsFiniteSet(Image(t))
    <3> DEFINE h == [i \in t |-> p[i]]
    <3>1. h \in [t -> Image(t)] /\ \A j \in Image(t) : \E i \in t : h[i] = j
      OBVIOUS
    <3> HIDE DEF h, Image
    <3>2. h \in Surjection(t, Image(t))
      BY <3>1 DEF Surjection
    <3> QED
      BY <2>1, <3>2, FS_Surjection
  <2> QED
    BY <2>1, <2>2
<1>7. s # {}
  <2> SUFFICES ASSUME s = {} PROVE FALSE
    OBVIOUS
  <2>1. Image(s) = {} /\ IsFiniteSet(Image(s)) /\ IsFiniteSet(s)
    BY <1>6
  <2>2. Weight(gs, Image(s)) = 0 /\ Weight(fs, s) = 0
    <3> HIDE DEF Image
    <3> QED
      BY <1>6, <2>1, WeightFacts
  <2> QED
    BY <1>4, <2>2 DEF Same
<1>8. PICK z : z \in s
  BY <1>7
<1>9. Same(s \ {z}) /\ z \in S
  BY <1>1, <1>5, <1>8
<1>10. Image(s \ {z}) = Image(s) \ {p[z]} /\ p[z] \in Image(s)
  BY <1>8
<1> HIDE DEF Image
<1>11. Weight(fs, s) = EntryBlockSize + fs[z].packed + Weight(fs, s \ {z})
  BY <1>6, <1>8, WeightFacts
<1>12. Weight(gs, Image(s)) = EntryBlockSize + gs[p[z]].packed + Weight(gs, Image(s) \ {p[z]})
  BY <1>6, <1>10, WeightFacts
<1>13. Same(s)
  BY <1>9, <1>10, <1>11, <1>12 DEF Same
<1> QED
  BY <1>4, <1>13

\* The sum over an interval grows by its last file.
LEMMA WeightNext ==
    ASSUME NEW fs, NEW a \in Nat, NEW b \in Nat, a <= b + 1,
           \A i \in a .. b + 1 : fs[i].packed \in Nat
    PROVE  /\ Weight(fs, a .. b) \in Nat
           /\ Weight(fs, a .. b + 1) = EntryBlockSize + fs[b + 1].packed + Weight(fs, a .. b)
<1>1. IsFiniteSet(a .. b) /\ IsFiniteSet(a .. b + 1)
  BY FS_Interval
<1>2. b + 1 \in a .. b + 1 /\ (a .. b + 1) \ {b + 1} = a .. b
  OBVIOUS
<1>3. \A i \in a .. b : fs[i].packed \in Nat
  OBVIOUS
<1>4. Weight(fs, a .. b) \in Nat
  BY <1>1, <1>3, WeightFacts
<1> PICK S : S = a .. b + 1
  OBVIOUS
<1>5. \A y \in S : Weight(fs, S) = EntryBlockSize + fs[y].packed + Weight(fs, S \ {y})
  BY <1>1, WeightFacts
<1>6. b + 1 \in S /\ S \ {b + 1} = a .. b
  BY <1>2
<1>7. Weight(fs, S) = EntryBlockSize + fs[b + 1].packed + Weight(fs, a .. b)
  BY <1>5, <1>6
<1> QED
  BY <1>4, <1>7

-----------------------------------------------------------------------------
(* The entries of a folder, and of a damaged archive                       *)

LEMMA FolderAppended ==
    ASSUME NEW S, NEW s \in Seq(S), NEW a \in S, NEW b \in S, NEW c \in S,
           IsNamed(a), ~ IsNamed(b), ~ IsNamed(c), b.type = "folder", c.type = "folder"
    PROVE  LET t == s \o <<a, b, c>>
               n == Len(s)
           IN  /\ t \in Seq(S) /\ Len(t) = n + 3 /\ n \in Nat
               /\ \A k \in 1 .. n : t[k] = s[k]
               /\ t[n + 1] = a /\ t[n + 2] = b /\ t[n + 3] = c /\ EndOf(t) = Behind(c)
               /\ Named(t) = Named(s) \cup {n + 1}
               /\ Cardinality(Named(t)) = Cardinality(Named(s)) + 1
               /\ Cardinality(Indices("file", t)) = Cardinality(Indices("file", s))
               /\ \A k \in 1 .. n : FilesIn(t, k) = FilesIn(s, k)
               /\ FilesIn(t, n + 1) = Cardinality(Indices("file", s))
               /\ \A k \in 1 .. n :
                    /\ Cardinality(After(s, k)) \in Nat
                    /\ Cardinality(After(t, k)) = Cardinality(After(s, k)) +
                         (IF FilesIn(s, k) = Cardinality(Indices("file", s)) THEN 1 ELSE 0)
               /\ Cardinality(After(t, n + 1)) = 0
<1> DEFINE n == Len(s)
           t == s \o <<a, b, c>>
           u == Append(s, a)
           v == Append(u, b)
           w == Append(v, c)
<1>1. /\ t \in Seq(S) /\ Len(t) = n + 3 /\ n \in Nat
      /\ \A k \in 1 .. n : t[k] = s[k]
      /\ t[n + 1] = a /\ t[n + 2] = b /\ t[n + 3] = c
  OBVIOUS
<1>2. u \in Seq(S) /\ v \in Seq(S) /\ w \in Seq(S)
  OBVIOUS
<1>3. Len(u) = n + 1 /\ Len(v) = n + 2 /\ Len(w) = n + 3
  BY <1>1
<1>4. t = w
  <2>1. \A k \in 1 .. n + 3 : t[k] = w[k]
    BY <1>1
  <2> HIDE DEF t, w, n
  <2> QED
    BY <1>1, <1>2, <1>3, <2>1
<1> HIDE DEF t, u, v, w
<1>5. EndOf(t) = Behind(c)
  BY <1>1 DEF EndOf, Last
<1>6. /\ Named(u) = Named(s) \cup {n + 1}
      /\ Cardinality(Named(u)) = Cardinality(Named(s)) + 1
  BY NamedAppended DEF u
<1>7. Named(v) = Named(u) /\ Cardinality(Named(v)) = Cardinality(Named(u))
  BY <1>2, NamedAppended DEF v
<1>8. Named(w) = Named(v) /\ Cardinality(Named(w)) = Cardinality(Named(v))
  BY <1>2, NamedAppended DEF w
<1>9. Cardinality(Indices("file", u)) = Cardinality(Indices("file", s))
  <2>1. a.type # "file"
    BY DEF IsNamed
  <2> QED
    BY <2>1, FilesAppended DEF u
<1>10. Cardinality(Indices("file", v)) = Cardinality(Indices("file", u))
  BY <1>2, FilesAppended DEF v
<1>11. Cardinality(Indices("file", w)) = Cardinality(Indices("file", v))
  BY <1>2, FilesAppended DEF w
<1>12. /\ \A k \in 1 .. n : FilesIn(u, k) = FilesIn(s, k)
       /\ FilesIn(u, n + 1) = Cardinality(Indices("file", s))
  BY FilesInAppended DEF u
<1>13. \A k \in 1 .. n + 1 : FilesIn(v, k) = FilesIn(u, k)
  BY <1>2, <1>3, FilesInAppended DEF v
<1>14. \A k \in 1 .. n + 2 : FilesIn(w, k) = FilesIn(v, k)
  BY <1>2, <1>3, FilesInAppended DEF w
<1>15. /\ \A k \in 1 .. n :
            /\ Cardinality(After(s, k)) \in Nat
            /\ Cardinality(After(u, k)) = Cardinality(After(s, k)) +
                 (IF FilesIn(s, k) = Cardinality(Indices("file", s)) THEN 1 ELSE 0)
       /\ Cardinality(After(u, n + 1)) = 0
  BY AfterAppended DEF u
<1>16. \A k \in 1 .. n + 1 : Cardinality(After(v, k)) = Cardinality(After(u, k))
  <2>1. \A k \in 1 .. Len(u) : /\ Cardinality(After(u, k)) \in Nat
                               /\ Cardinality(After(v, k)) = Cardinality(After(u, k)) + 0
    BY <1>2, AfterAppended DEF v
  <2> QED
    BY <1>3, <2>1
<1>17. \A k \in 1 .. n + 1 : Cardinality(After(w, k)) = Cardinality(After(v, k))
  <2>1. \A k \in 1 .. Len(v) : /\ Cardinality(After(v, k)) \in Nat
                               /\ Cardinality(After(w, k)) = Cardinality(After(v, k)) + 0
    BY <1>2, AfterAppended DEF w
  <2>2. \A k \in 1 .. n + 1 : k \in 1 .. Len(v)
    BY <1>1, <1>3
  <2> QED
    BY <2>1, <2>2
<1>18. \A k \in 1 .. n : k \in 1 .. n + 1 /\ k \in 1 .. n + 2 /\ n + 1 \in 1 .. n + 1 /\ n + 1 \in 1 .. n + 2
  BY <1>1
<1>19. n + 1 \in 1 .. n + 1 /\ n + 1 \in 1 .. n + 2
  BY <1>1
<1>20. /\ \A k \in 1 .. n : FilesIn(t, k) = FilesIn(s, k)
       /\ FilesIn(t, n + 1) = Cardinality(Indices("file", s))
  BY <1>4, <1>12, <1>13, <1>14, <1>18, <1>19
<1>21. /\ \A k \in 1 .. n :
            /\ Cardinality(After(s, k)) \in Nat
            /\ Cardinality(After(t, k)) = Cardinality(After(s, k)) +
                 (IF FilesIn(s, k) = Cardinality(Indices("file", s)) THEN 1 ELSE 0)
       /\ Cardinality(After(t, n + 1)) = 0
  BY <1>4, <1>15, <1>16, <1>17, <1>18, <1>19
<1>22. /\ Named(t) = Named(s) \cup {n + 1}
       /\ Cardinality(Named(t)) = Cardinality(Named(s)) + 1
       /\ Cardinality(Indices("file", t)) = Cardinality(Indices("file", s))
  BY <1>4, <1>6, <1>7, <1>8, <1>9, <1>10, <1>11
<1> QED
  BY <1>1, <1>5, <1>20, <1>21, <1>22 DEF t

\* What the damage of its data leaves alone.
Alike(e, f) ==
    /\ e.type = f.type /\ e.name = f.name /\ e.at = f.at
    /\ e.packed = f.packed /\ e.folder = f.folder /\ e.end = f.end

LEMMA AlikeFacts ==
    ASSUME NEW S, NEW s \in Seq(S), NEW t \in Seq(S), Len(t) = Len(s),
           \A k \in 1 .. Len(s) : Alike(t[k], s[k])
    PROVE  /\ \A type : Indices(type, t) = Indices(type, s)
           /\ Named(t) = Named(s)
           /\ \A k : FilesIn(t, k) = FilesIn(s, k) /\ After(t, k) = After(s, k)
           /\ EndOf(t) = EndOf(s)
           /\ Contiguous(s) => Contiguous(t)
           /\ Shaped(s) => Shaped(t)
<1>1. \A k \in 1 .. Len(s) : Behind(t[k]) = Behind(s[k])
  BY DEF Alike, Behind
<1>2. \A type : Indices(type, t) = Indices(type, s)
  BY DEF Alike, Indices
<1>3. Named(t) = Named(s)
  BY <1>2 DEF Alike, Named, Indices
<1>4. \A k : FilesIn(t, k) = FilesIn(s, k)
  BY <1>2 DEF FilesIn
<1>5. \A k : After(t, k) = After(s, k)
  BY <1>3, <1>4 DEF After
<1>6. EndOf(t) = EndOf(s)
  <2>1. CASE s = <<>>
    <3>1. t = <<>>
      BY <2>1
    <3> QED
      BY <2>1, <3>1
  <2>2. CASE s # <<>>
    <3>1. t # <<>> /\ Len(s) \in 1 .. Len(s)
      BY <2>2
    <3> QED
      BY <1>1, <2>2, <3>1 DEF EndOf, Last
  <2> QED
    BY <2>1, <2>2
<1>7. ASSUME Contiguous(s) PROVE Contiguous(t)
  <2> SUFFICES ASSUME NEW k \in 1 .. Len(s)
               PROVE  t[k].at = IF k = 1 THEN HeaderSize ELSE Behind(t[k - 1])
    BY DEF Contiguous
  <2>1. t[k].at = IF k = 1 THEN HeaderSize ELSE Behind(s[k - 1])
    BY <1>7 DEF Contiguous, Alike
  <2>2. k # 1 => k - 1 \in 1 .. Len(s)
    OBVIOUS
  <2> QED
    BY <1>1, <2>1, <2>2
<1>8. ASSUME Shaped(s) PROVE Shaped(t)
  <2>1. \A k \in 1 .. Len(s) : \A name : IsFolder(t[k], name) <=> IsFolder(s[k], name)
    BY DEF IsFolder, Alike
  <2>2. ASSUME NEW k \in 1 .. Len(t)
        PROVE  /\ IsFolder(t[k], ".") => t[k].folder = t[k].at /\ (k = 1 \/ k - 1 \in Named(t))
               /\ IsFolder(t[k], "..") => k > 2 /\ k - 2 \in Named(t)
               /\ t[k].type = "file" =>
                    /\ t[k].name \in Words /\ t[k].packed # 0
                    /\ t[k].end \in {0, Behind(t[k])}
    BY <1>1, <1>3, <1>8, <2>1 DEF Shaped, Alike
  <2>3. t # <<>> => IsFolder(t[1], ".")
    <3>1. t # <<>> => s # <<>> /\ 1 \in 1 .. Len(s)
      OBVIOUS
    <3> QED
      BY <1>8, <2>1, <3>1 DEF Shaped
  <2>4. ASSUME NEW k \in Named(t)
        PROVE  /\ k > 1 /\ k + 2 \in 1 .. Len(t)
               /\ t[k].name \in Parts
               /\ IsFolder(t[k + 1], ".") /\ t[k + 1].at = t[k].folder
               /\ IsFolder(t[k + 2], "..")
    <3>1. /\ k > 1 /\ k + 2 \in 1 .. Len(s)
          /\ s[k].name \in Parts
          /\ IsFolder(s[k + 1], ".") /\ s[k + 1].at = s[k].folder
          /\ IsFolder(s[k + 2], "..")
      BY <1>3, <1>8 DEF Shaped
    <3>2. k \in 1 .. Len(s)
      BY <1>3 DEF Named, Indices
    <3>3. k + 1 \in 1 .. Len(s)
      BY <3>1, <3>2
    <3> QED
      BY <2>1, <3>1, <3>2, <3>3 DEF Alike
  <2> QED
    BY <2>2, <2>3, <2>4 DEF Shaped
<1> QED
  BY <1>2, <1>3, <1>4, <1>5, <1>6, <1>7, <1>8

LEMMA RootEntryOK ==
    ASSUME NEW e \in EntryType, IsFolder(e, "."), e.folder = e.at, e.at = HeaderSize
    PROVE  EntriesOK(<<e>>)
<1> DEFINE s == <<e>>
<1>1. s \in Seq(EntryType) /\ Len(s) = 1 /\ s[1] = e /\ s # <<>>
  OBVIOUS
<1> HIDE DEF s
<1>2. Contiguous(s)
  BY <1>1 DEF Contiguous
<1>3. Named(s) = {}
  BY <1>1 DEF Named, Indices, IsFolder
<1>4. Shaped(s)
  BY <1>1, <1>3 DEF Shaped, IsFolder
<1> QED
  BY <1>1, <1>2, <1>4 DEF EntriesOK, s

LEMMA FileEntryOK ==
    ASSUME NEW s, EntriesOK(s), s # <<>>, NEW e \in EntryType, e.type = "file",
           e.at = EndOf(s), e.name \in Words, e.packed # 0, e.end \in {0, Behind(e)}
    PROVE  EntriesOK(Append(s, e))
<1> DEFINE t == Append(s, e)
           n == Len(s)
<1>1. s \in Seq(EntryType) /\ Contiguous(s) /\ Shaped(s)
  BY DEF EntriesOK
<1>2. /\ t \in Seq(EntryType) /\ n \in Nat /\ n > 0 /\ Len(t) = n + 1 /\ t[n + 1] = e
      /\ \A k \in 1 .. n : t[k] = s[k]
  BY <1>1
<1>3. Named(t) = Named(s)
  <2>1. Named(t) = Named(s) \cup (IF IsNamed(e) THEN {Len(s) + 1} ELSE {})
    BY <1>1, NamedAppended
  <2>2. ~ IsNamed(e)
    BY DEF IsNamed
  <2> QED
    BY <2>1, <2>2
<1>4. EndOf(s) = Behind(s[n])
  BY DEF EndOf, Last
<1> HIDE DEF t
<1>5. Contiguous(t)
  <2> SUFFICES ASSUME NEW k \in 1 .. n + 1
               PROVE  t[k].at = IF k = 1 THEN HeaderSize ELSE Behind(t[k - 1])
    BY <1>2 DEF Contiguous
  <2>1. CASE k = n + 1
    BY <1>2, <1>4, <2>1
  <2>2. CASE k # n + 1
    <3>1. k \in 1 .. n /\ (k # 1 => k - 1 \in 1 .. n)
      BY <1>2, <2>2
    <3>2. s[k].at = IF k = 1 THEN HeaderSize ELSE Behind(s[k - 1])
      BY <1>1, <3>1 DEF Contiguous
    <3> QED
      BY <1>2, <3>1, <3>2
  <2> QED
    BY <2>1, <2>2
<1>6. Shaped(t)
  <2>1. ASSUME NEW k \in 1 .. n + 1
        PROVE  /\ IsFolder(t[k], ".") => t[k].folder = t[k].at /\ (k = 1 \/ k - 1 \in Named(t))
               /\ IsFolder(t[k], "..") => k > 2 /\ k - 2 \in Named(t)
               /\ t[k].type = "file" =>
                    /\ t[k].name \in Words /\ t[k].packed # 0
                    /\ t[k].end \in {0, Behind(t[k])}
    <3>1. CASE k = n + 1
      BY <1>2, <3>1 DEF IsFolder
    <3>2. CASE k # n + 1
      <4>1. k \in 1 .. n
        BY <1>2, <3>2
      <4> QED
        BY <1>1, <1>2, <1>3, <4>1 DEF Shaped
    <3> QED
      BY <3>1, <3>2
  <2>2. IsFolder(t[1], ".")
    BY <1>1, <1>2 DEF Shaped
  <2>3. ASSUME NEW k \in Named(t)
        PROVE  /\ k > 1 /\ k + 2 \in 1 .. n + 1
               /\ t[k].name \in Parts
               /\ IsFolder(t[k + 1], ".") /\ t[k + 1].at = t[k].folder
               /\ IsFolder(t[k + 2], "..")
    <3>1. /\ k > 1 /\ k + 2 \in 1 .. n
          /\ s[k].name \in Parts
          /\ IsFolder(s[k + 1], ".") /\ s[k + 1].at = s[k].folder
          /\ IsFolder(s[k + 2], "..")
      BY <1>1, <1>3 DEF Shaped
    <3>2. k \in 1 .. n
      BY <1>3 DEF Named, Indices
    <3>3. k + 1 \in 1 .. n /\ k + 2 \in 1 .. n + 1
      BY <1>2, <3>1, <3>2
    <3> QED
      BY <1>2, <3>1, <3>2, <3>3
  <2> QED
    BY <1>2, <2>1, <2>2, <2>3 DEF Shaped
<1> QED
  BY <1>2, <1>5, <1>6 DEF EntriesOK, t

LEMMA FolderEntriesOK ==
    ASSUME NEW s, EntriesOK(s), s # <<>>,
           NEW a \in EntryType, NEW b \in EntryType, NEW c \in EntryType,
           IsNamed(a), a.name \in Parts, IsFolder(b, "."), IsFolder(c, ".."),
           a.at = EndOf(s), b.at = Behind(a), c.at = Behind(b),
           b.folder = b.at, a.folder = b.at
    PROVE  EntriesOK(s \o <<a, b, c>>)
<1> DEFINE t == s \o <<a, b, c>>
           n == Len(s)
<1>1. s \in Seq(EntryType) /\ Contiguous(s) /\ Shaped(s)
  BY DEF EntriesOK
<1>2. /\ ~ IsNamed(b) /\ ~ IsNamed(c) /\ b.type = "folder" /\ c.type = "folder"
      /\ a.type = "folder" /\ ~ IsFolder(a, ".") /\ ~ IsFolder(a, "..")
      /\ ~ IsFolder(b, "..") /\ ~ IsFolder(c, ".")
  BY DEF IsNamed, IsFolder
<1>3. /\ t \in Seq(EntryType) /\ Len(t) = n + 3
      /\ \A k \in 1 .. n : t[k] = s[k]
      /\ t[n + 1] = a /\ t[n + 2] = b /\ t[n + 3] = c
      /\ Named(t) = Named(s) \cup {n + 1}
  BY <1>1, <1>2, FolderAppended
<1>4. n \in Nat /\ n > 0 /\ EndOf(s) = Behind(s[n])
  BY <1>1 DEF EndOf, Last
<1> HIDE DEF t, n
<1>5. Contiguous(t)
  <2> SUFFICES ASSUME NEW k \in 1 .. n + 3
               PROVE  t[k].at = IF k = 1 THEN HeaderSize ELSE Behind(t[k - 1])
    BY <1>3 DEF Contiguous
  <2>1. n \in 1 .. n
    BY <1>4
  <2>2. CASE k \in {n + 1, n + 2, n + 3}
    BY <1>3, <1>4, <2>1, <2>2
  <2>3. CASE k \in 1 .. n
    <3>1. k # 1 => k - 1 \in 1 .. n
      BY <1>4, <2>3
    <3>2. s[k].at = IF k = 1 THEN HeaderSize ELSE Behind(s[k - 1])
      BY <1>1, <2>3 DEF Contiguous, n
    <3> QED
      BY <1>3, <2>3, <3>1, <3>2
  <2>4. k \in 1 .. n \/ k \in {n + 1, n + 2, n + 3}
    BY <1>4
  <2> QED
    BY <2>2, <2>3, <2>4
<1>6. Shaped(t)
  <2>1. ASSUME NEW k \in 1 .. n + 3
        PROVE  /\ IsFolder(t[k], ".") => t[k].folder = t[k].at /\ (k = 1 \/ k - 1 \in Named(t))
               /\ IsFolder(t[k], "..") => k > 2 /\ k - 2 \in Named(t)
               /\ t[k].type = "file" =>
                    /\ t[k].name \in Words /\ t[k].packed # 0
                    /\ t[k].end \in {0, Behind(t[k])}
    <3>1. CASE k = n + 1
      BY <1>2, <1>3, <1>4, <3>1
    <3>2. CASE k = n + 2
      <4>1. k - 1 = n + 1
        BY <1>4, <3>2
      <4> QED
        BY <1>2, <1>3, <3>2, <4>1
    <3>3. CASE k = n + 3
      <4>1. k - 2 = n + 1 /\ k > 2
        BY <1>4, <3>3
      <4> QED
        BY <1>2, <1>3, <3>3, <4>1
    <3>4. CASE k \in 1 .. n
      BY <1>1, <1>3, <3>4 DEF Shaped, n
    <3>5. k \in 1 .. n \/ k \in {n + 1, n + 2, n + 3}
      BY <1>4
    <3> QED
      BY <3>1, <3>2, <3>3, <3>4, <3>5
  <2>2. IsFolder(t[1], ".")
    BY <1>1, <1>3, <1>4 DEF Shaped
  <2>3. ASSUME NEW k \in Named(t)
        PROVE  /\ k > 1 /\ k + 2 \in 1 .. n + 3
               /\ t[k].name \in Parts
               /\ IsFolder(t[k + 1], ".") /\ t[k + 1].at = t[k].folder
               /\ IsFolder(t[k + 2], "..")
    <3>1. CASE k \in Named(s)
      <4>1. /\ k > 1 /\ k + 2 \in 1 .. n
            /\ s[k].name \in Parts
            /\ IsFolder(s[k + 1], ".") /\ s[k + 1].at = s[k].folder
            /\ IsFolder(s[k + 2], "..")
        BY <1>1, <3>1 DEF Shaped, n
      <4>2. k \in 1 .. n
        BY <3>1 DEF Named, Indices, n
      <4>3. k + 1 \in 1 .. n /\ k + 2 \in 1 .. n + 3
        BY <1>4, <4>1, <4>2
      <4> QED
        BY <1>3, <4>1, <4>2, <4>3
    <3>2. CASE k = n + 1
      <4>1. k + 1 = n + 2 /\ k + 2 = n + 3 /\ k > 1 /\ k + 2 \in 1 .. n + 3
        BY <1>4, <3>2
      <4> QED
        BY <1>3, <3>2, <4>1
    <3> QED
      BY <1>3, <3>1, <3>2
  <2>4. t # <<>>
    BY <1>3, <1>4
  <2> QED
    BY <1>3, <2>1, <2>2, <2>3 DEF Shaped
<1> QED
  BY <1>3, <1>5, <1>6 DEF EntriesOK, t

-----------------------------------------------------------------------------
(* What a step leaves alone                                                *)

LEMMA NoEntriesOK == EntriesOK(<<>>)
  BY DEF EntriesOK, Contiguous, Shaped, Named, Indices

LEMMA Idle ==
    ASSUME SaveInv, ~ Saving, UNCHANGED saveVars
    PROVE  SaveReturns /\ header' \in [files: Nat, folders: Nat, size: Nat]
  BY DEF SaveInv, saveVars, SaveReturns

LEMMA NoSave ==
    ASSUME pc' \notin {"planning", "writing"}, SaveReturns,
           header' \in [files: Nat, folders: Nat, size: Nat]
    PROVE  SaveInv' /\ WriteInv' /\ LinkInv'
<1>1. ~ Saving' /\ pc' # "planning" /\ pc' # "writing"
  BY DEF Saving
<1>2. SaveInv'
  BY <1>1 DEF SaveInv, SaveReturns
<1> QED
  BY <1>1, <1>2 DEF WriteInv, LinkInv

LEMMA ArchiveKept ==
    ASSUME ArchiveInv, archive' = archive, EntriesOK(buffer')
    PROVE  ArchiveInv'
<1>1. PlanHomes' = PlanHomes
  BY DEF PlanHomes
<1>2. HeaderTrue'
  BY DEF ArchiveInv, HeaderTrue
<1>3. \A k \in Named(archive.entries)' :
        /\ FilesIn(archive.entries, k)' + 1 <= Len(archive.plan)'
        /\ LinkedUp(archive.entries, PlanHomes, 0, 0, k)'
  BY <1>1 DEF ArchiveInv
<1> QED
  BY <1>2, <1>3 DEF ArchiveInv

LEMMA ReadKept ==
    ASSUME ReadInv, UNCHANGED <<position, folders, current, archive>>,
           pc \notin {"reading", "threw"}, pc' # "reading"
    PROVE  ReadInv'
  BY DEF ReadInv

LEMMA ReadOver ==
    ASSUME OpenReturns, folders' \in Seq(FolderType), pc' # "reading"
    PROVE  ReadInv'
  BY DEF ReadInv, OpenReturns

-----------------------------------------------------------------------------
(* The files                                                               *)

LEMMA NewFileOK ==
    ASSUME NEW path \in Seq(Parts), path # <<>>, IsPart(Last(path)),
           NEW data \in Data \cup {WrongData}, NEW packed \in Nat, data \in Data \/ packed # 0
    PROVE  LET f == [NewFile(path, data) EXCEPT !.packed = packed]
           IN  FileOK(f) /\ f.path = path /\ f.data = data /\ f.folder = NoFolder
<1> DEFINE f == [NewFile(path, data) EXCEPT !.packed = packed]
           yes == TRUE
<1> HIDE DEF yes
<1>1. f = [path |-> path, data |-> data, packed |-> packed, hasEnd |-> yes, folder |-> NoFolder]
  <2>1. NewFile(path, data) =
          [path |-> path, data |-> data, packed |-> 0, hasEnd |-> yes, folder |-> NoFolder]
    BY DEF NewFile, yes
  <2> QED
    BY <2>1
<1>2. f \in FileType
  <2>1. yes \in BOOLEAN
    BY DEF yes
  <2> QED
    BY <1>1, <2>1 DEF FileType
<1> QED
  BY <1>1, <1>2 DEF FileOK

LEMMA FilesAppendedOK ==
    ASSUME NEW fs \in Seq(FileType), \A i \in 1 .. Len(fs) : FileOK(fs[i]), NEW f, FileOK(f)
    PROVE  Append(fs, f) \in Seq(FileType) /\ \A i \in 1 .. Len(Append(fs, f)) : FileOK(Append(fs, f)[i])
<1>1. f \in FileType
  BY DEF FileOK
<1>2. /\ Append(fs, f) \in Seq(FileType) /\ Len(Append(fs, f)) = Len(fs) + 1
      /\ \A i \in 1 .. Len(fs) : Append(fs, f)[i] = fs[i]
      /\ Append(fs, f)[Len(fs) + 1] = f /\ Len(fs) \in Nat
  BY <1>1
<1>3. ASSUME NEW i \in 1 .. Len(fs) + 1 PROVE FileOK(Append(fs, f)[i])
  <2>1. CASE i = Len(fs) + 1
    BY <1>2, <2>1
  <2>2. CASE i # Len(fs) + 1
    BY <1>2, <2>2
  <2> QED
    BY <2>1, <2>2
<1> QED
  BY <1>2, <1>3

LEMMA FileChangedOK ==
    ASSUME NEW fs \in Seq(FileType), \A i \in 1 .. Len(fs) : FileOK(fs[i]),
           NEW j \in 1 .. Len(fs), NEW f, FileOK(f), NEW gs, gs = [fs EXCEPT ![j] = f]
    PROVE  /\ gs \in Seq(FileType) /\ Len(gs) = Len(fs)
           /\ \A i \in 1 .. Len(gs) : FileOK(gs[i])
           /\ \A i \in 1 .. Len(fs) : gs[i] = IF i = j THEN f ELSE fs[i]
<1>1. f \in FileType
  BY DEF FileOK
<1>2. /\ gs \in Seq(FileType) /\ Len(gs) = Len(fs)
      /\ \A i \in 1 .. Len(fs) : gs[i] = IF i = j THEN f ELSE fs[i]
  BY <1>1
<1> QED
  BY <1>2

LEMMA MarkedOK ==
    ASSUME FilesOK, NEW i, i = order[next], i \in 1 .. Len(files)
    PROVE  /\ FileOK(Marked) /\ FileOK(File)
           /\ Marked.folder = File.folder /\ Marked.packed = File.packed
           /\ Marked.path = File.path /\ Marked.data = File.data
<1>1. FileOK(File) /\ File \in FileType
  BY DEF FilesOK, File, FileOK
<1>2. File = [path |-> File.path, data |-> File.data, packed |-> File.packed,
              hasEnd |-> File.hasEnd, folder |-> File.folder]
  BY <1>1 DEF FileType
<1>3. Marked = [path |-> File.path, data |-> File.data, packed |-> File.packed,
                hasEnd |-> File.hasEnd /\ ~ LeavesFolder, folder |-> File.folder]
  BY <1>2 DEF Marked
<1>4. Marked \in FileType
  BY <1>1, <1>3 DEF FileType, LeavesFolder
<1> QED
  BY <1>1, <1>3, <1>4 DEF FileOK

-----------------------------------------------------------------------------
(* Steps outside of Save                                                   *)

LEMMA InvInit == Init => IInv
<1> SUFFICES ASSUME Init PROVE IInv
  OBVIOUS
<1>1. FilesOK
  BY DEF Init, FilesOK
<1>2. opened \in {"not", "true", "false"} /\ saves \in 0 .. MaxSaves
  BY BoundsAssumption DEF Init
<1>3. pc = "ready" /\ SaveInv /\ WriteInv /\ LinkInv
  BY DEF Init, SaveInv, WriteInv, LinkInv, Saving
<1>4. ArchiveInv
  <2>1. /\ archive.entries = <<>> /\ archive.plan = <<>>
        /\ archive \in [files: Nat, folders: Nat, size: Nat,
                        entries: Seq(EntryType), plan: Seq(FileType)]
    BY DEF Init, NoArchive
  <2>2. buffer = <<>> /\ Named(<<>>) = {}
    BY DEF Init, Named, Indices
  <2> QED
    BY <2>1, <2>2, NoEntriesOK DEF ArchiveInv, HeaderTrue
<1>5. ReadInv
  BY DEF Init, ReadInv
<1> QED
  BY <1>1, <1>2, <1>3, <1>4, <1>5 DEF IInv

LEMMA InvAddFile ==
    ASSUME IInv, NEW path \in Paths, NEW data \in Data, AddFile(path, data)
    PROVE  IInv'
<1>1. pc = "ready" /\ pc' = "ready" /\ UNCHANGED <<saveVars, archive, openVars, saves>>
  BY DEF AddFile
<1>2. FilesOK'
  <2>1. /\ path \in Seq(Parts) /\ path # <<>> /\ IsPart(Last(path))
    BY PathsAssumption
  <2> DEFINE yes == TRUE
             f == NewFile(path, data)
  <2>2. f = [path |-> path, data |-> data, packed |-> 0, hasEnd |-> yes, folder |-> NoFolder]
    BY DEF NewFile
  <2> HIDE DEF f, yes
  <2>3. FileOK(f)
    <3>1. yes \in BOOLEAN
      BY DEF yes
    <3>2. f \in FileType
      BY <2>1, <2>2, <3>1 DEF FileType
    <3> QED
      BY <2>1, <2>2, <3>2 DEF FileOK
  <2>4. files' = files \/ files' = Append(files, f)
    BY DEF AddFile, f
  <2>5. files \in Seq(FileType) /\ \A i \in 1 .. Len(files) : FileOK(files[i])
    BY DEF IInv, FilesOK
  <2>6. /\ Append(files, f) \in Seq(FileType)
        /\ \A i \in 1 .. Len(Append(files, f)) : FileOK(Append(files, f)[i])
    BY <2>3, <2>5, FilesAppendedOK
  <2>7. CASE files' = files
    BY <2>5, <2>7 DEF FilesOK
  <2>8. CASE files' = Append(files, f)
    <3> DEFINE g == Append(files, f)
    <3> HIDE DEF g
    <3>1. files' = g /\ g \in Seq(FileType) /\ \A i \in 1 .. Len(g) : FileOK(g[i])
      BY <2>6, <2>8 DEF g
    <3> QED
      BY <3>1 DEF FilesOK
  <2> QED
    BY <2>4, <2>7, <2>8
<1>3. ~ Saving
  BY <1>1 DEF Saving
<1>4. SaveInv' /\ WriteInv' /\ LinkInv'
  BY <1>1, <1>3, Idle, NoSave DEF IInv
<1>5. ArchiveInv' /\ ReadInv'
  BY <1>1, ArchiveKept, ReadKept DEF IInv, saveVars, openVars, ArchiveInv
<1> QED
  BY <1>1, <1>2, <1>4, <1>5 DEF IInv, openVars

LEMMA InvNewDisk == ASSUME IInv, NewDisk PROVE IInv'
<1>1. /\ pc' = "ready" /\ files' = <<>> /\ opened' = "not" /\ folders' = <<>>
      /\ SaveReturns /\ OpenReturns /\ UNCHANGED <<archive, saves>>
      /\ header' = [files |-> 0, folders |-> 0, size |-> 0]
  BY DEF NewDisk
<1>2. FilesOK'
  BY <1>1 DEF FilesOK
<1>3. SaveInv' /\ WriteInv' /\ LinkInv'
  BY <1>1, NoSave
<1>4. ArchiveInv'
  BY <1>1, ArchiveKept, NoEntriesOK DEF IInv, SaveReturns
<1>5. ReadInv'
  BY <1>1, ReadOver
<1> QED
  BY <1>1, <1>2, <1>3, <1>4, <1>5 DEF IInv

LEMMA InvExtract == ASSUME IInv, Extract PROVE IInv'
<1>1. pc = "ready" /\ pc' = "ready" /\ UNCHANGED <<files, saveVars, archive, openVars, saves>>
  BY DEF Extract
<1>2. ~ Saving /\ FilesOK'
  BY <1>1 DEF Saving, IInv, FilesOK
<1>3. SaveInv' /\ WriteInv' /\ LinkInv'
  BY <1>1, <1>2, Idle, NoSave DEF IInv
<1>4. ArchiveInv' /\ ReadInv'
  BY <1>1, ArchiveKept, ReadKept DEF IInv, saveVars, openVars, ArchiveInv
<1> QED
  BY <1>1, <1>2, <1>3, <1>4 DEF IInv, openVars

LEMMA InvStutter == ASSUME IInv, UNCHANGED vars PROVE IInv'
<1>1. /\ pc' = pc /\ files' = files /\ archive' = archive /\ saves' = saves
      /\ order' = order /\ next' = next /\ dirs' = dirs /\ written' = written
      /\ header' = header /\ buffer' = buffer
      /\ position' = position /\ folders' = folders /\ current' = current /\ opened' = opened
  BY DEF vars, saveVars, openVars
<1>2. Homes' = Homes /\ Left' = Left /\ Made' = Made /\ Saving' = Saving
  BY <1>1 DEF Homes, Left, Made, Saving, Missing, File
<1>3. \A w, n : /\ Weighs(w, n) => Weighs(w, n)'
                /\ Planned(n, w) => Planned(n, w)'
  BY <1>1, <1>2 DEF Weighs, Planned, AllHome
<1>4. FilesOK'
  BY <1>1 DEF IInv, FilesOK
<1>5. SaveInv'
  BY <1>1, <1>2, <1>3 DEF IInv, SaveInv
<1>6. WriteInv'
  BY <1>1, <1>2, <1>3 DEF IInv, WriteInv
<1>7. LinkInv'
  BY <1>1, <1>2 DEF IInv, LinkInv
<1>8. ArchiveInv'
  BY <1>1, ArchiveKept DEF IInv, ArchiveInv
<1>9. ReadInv'
  <2>1. \A k : ReaderAt(k)' <=> ReaderAt(k)
    BY <1>1 DEF ReaderAt
  <2> QED
    BY <1>1, <2>1 DEF IInv, ReadInv
<1> QED
  BY <1>1, <1>4, <1>5, <1>6, <1>7, <1>8, <1>9 DEF IInv

LEMMA InvDamage ==
    ASSUME IInv, NEW k \in 1 .. Len(archive.entries), NEW how \in {"packed", "checksum"},
           Damage(k, how)
    PROVE  IInv'
<1> DEFINE s == archive.entries
           t == [s EXCEPT ![k].damage = how]
<1>1. /\ pc = "ready" /\ pc' = "ready" /\ UNCHANGED <<files, saveVars, openVars, saves>>
      /\ archive' = [archive EXCEPT !.entries[k].damage = how]
  BY DEF Damage
<1>2. ~ Saving /\ FilesOK'
  BY <1>1 DEF Saving, IInv, FilesOK
<1>3. SaveInv' /\ WriteInv' /\ LinkInv'
  BY <1>1, <1>2, Idle, NoSave DEF IInv
<1>4. /\ archive \in [files: Nat, folders: Nat, size: Nat,
                      entries: Seq(EntryType), plan: Seq(FileType)]
      /\ EntriesOK(s) /\ s \in Seq(EntryType)
  BY DEF IInv, ArchiveInv, EntriesOK
<1>5. /\ archive'.entries = t /\ archive'.plan = archive.plan /\ archive'.files = archive.files
      /\ archive'.folders = archive.folders /\ archive'.size = archive.size
  BY <1>1, <1>4
<1>6. t \in Seq(EntryType) /\ Len(t) = Len(s) /\ \A i \in 1 .. Len(s) : Alike(t[i], s[i])
  <2>1. [s[k] EXCEPT !.damage = how] \in EntryType /\ Alike([s[k] EXCEPT !.damage = how], s[k])
    <3>1. s[k] \in EntryType
      BY <1>4
    <3> QED
      BY <3>1 DEF EntryType, Alike
  <2>2. /\ t \in Seq(EntryType) /\ Len(t) = Len(s)
        /\ \A i \in 1 .. Len(s) : t[i] = IF i = k THEN [s[k] EXCEPT !.damage = how] ELSE s[i]
    BY <1>4, <2>1
  <2>3. \A i \in 1 .. Len(s) : Alike(s[i], s[i])
    BY DEF Alike
  <2> QED
    BY <2>1, <2>2, <2>3
<1> HIDE DEF t
<1>7. /\ \A type : Indices(type, t) = Indices(type, s)
      /\ Named(t) = Named(s)
      /\ \A i : FilesIn(t, i) = FilesIn(s, i) /\ After(t, i) = After(s, i)
      /\ EndOf(t) = EndOf(s)
      /\ EntriesOK(t)
  BY <1>4, <1>6, AlikeFacts DEF EntriesOK
<1>8. ArchiveInv'
  <2>1. archive' \in [files: Nat, folders: Nat, size: Nat,
                      entries: Seq(EntryType), plan: Seq(FileType)]
    BY <1>1, <1>4, <1>5, <1>6 DEF t
  <2>2. EntriesOK(buffer)'
    BY <1>1 DEF IInv, ArchiveInv, saveVars
  <2>3. HeaderTrue'
    <3>1. t = <<>> <=> s = <<>>
      BY <1>4, <1>6
    <3> QED
      BY <1>5, <1>7, <3>1 DEF IInv, ArchiveInv, HeaderTrue
  <2>4. PlanHomes' = PlanHomes
    BY <1>5 DEF PlanHomes
  <2>5. ASSUME NEW i \in Named(t)
        PROVE  FilesIn(t, i) + 1 <= Len(archive.plan) /\ LinkedUp(t, PlanHomes, 0, 0, i)
    <3>1. FilesIn(s, i) + 1 <= Len(archive.plan) /\ LinkedUp(s, PlanHomes, 0, 0, i)
      BY <1>7 DEF IInv, ArchiveInv
    <3>2. \A j : FolderIn(t, PlanHomes, 0, 0, j) = FolderIn(s, PlanHomes, 0, 0, j)
      BY <1>7 DEF FolderIn
    <3>3. i \in 1 .. Len(s) /\ i + 2 \in 1 .. Len(s)
      BY <1>4, <1>7 DEF Named, Indices, EntriesOK, Shaped
    <3>4. PICK j \in 1 .. i - 1 :
            /\ IsFolder(s[j], ".") /\ s[j].at = s[i + 2].folder
            /\ IF j = 1 THEN Len(FolderIn(s, PlanHomes, 0, 0, i)) <= 1
               ELSE FolderIn(s, PlanHomes, 0, 0, j - 1) = Front(FolderIn(s, PlanHomes, 0, 0, i))
      BY <3>1 DEF LinkedUp
    <3>5. j \in 1 .. Len(s)
      BY <3>3
    <3>6. IsFolder(t[j], ".") /\ t[j].at = t[i + 2].folder
      BY <1>6, <3>3, <3>4, <3>5 DEF Alike, IsFolder
    <3> QED
      BY <1>7, <3>1, <3>2, <3>4, <3>6 DEF LinkedUp
  <2> QED
    BY <1>5, <1>7, <2>1, <2>2, <2>3, <2>4, <2>5 DEF ArchiveInv
<1>9. ReadInv'
  <2>1. EndOf(archive'.entries) = EndOf(s)
    BY <1>5, <1>7
  <2> QED
    BY <1>1, <2>1 DEF IInv, ReadInv, openVars
<1> QED
  BY <1>1, <1>2, <1>3, <1>8, <1>9 DEF IInv, openVars

LEMMA InvOpenBegin == ASSUME IInv, OpenBegin PROVE IInv'
<1>1. /\ pc = "ready" /\ pc' = "reading" /\ files' = <<>> /\ folders' = <<>> /\ current' = 0
      /\ position' = HeaderSize /\ opened' = "not" /\ UNCHANGED <<saveVars, archive, saves>>
  BY DEF OpenBegin
<1>2. ~ Saving /\ FilesOK'
  BY <1>1 DEF Saving, FilesOK
<1>3. SaveInv' /\ WriteInv' /\ LinkInv'
  BY <1>1, <1>2, Idle, NoSave DEF IInv
<1>4. ArchiveInv'
  BY <1>1, ArchiveKept DEF IInv, saveVars, ArchiveInv
<1>5. ReadInv'
  <2>1. EndOf(archive.entries) \in Nat /\ EndOf(archive.entries) >= HeaderSize
    BY Ascending DEF IInv, ArchiveInv, EntriesOK
  <2>2. Standing(archive.entries, 1, HeaderSize, <<>>, 0)
    <3>1. OffsetsIn(<<>>) = {} /\ Places(archive.entries, 1) = {}
      BY DEF OffsetsIn, Places
    <3>2. \A j \in Named(archive.entries) : 1 \notin {j + 1, j + 2}
      BY DEF Named, Indices
    <3> QED
      BY <3>1, <3>2 DEF Standing
  <2>3. 1 \in 1 .. Len(archive.entries) + 1
    BY DEF IInv, ArchiveInv, EntriesOK
  <2> QED
    BY <1>1, <2>1, <2>2, <2>3 DEF ReadInv, ReaderAt, HeaderSize, saveVars
<1> QED
  BY <1>1, <1>2, <1>3, <1>4, <1>5 DEF IInv

LEMMA InvOpenOver == ASSUME IInv, ReadHeaderAgain \/ OpenEnd PROVE IInv'
<1>1. /\ pc = "reading" /\ pc' = "ready" /\ opened' \in {"true", "false"} /\ OpenReturns
      /\ UNCHANGED <<files, saveVars, archive, folders, saves>>
  BY DEF ReadHeaderAgain, OpenEnd
<1>2. ~ Saving /\ FilesOK'
  BY <1>1 DEF Saving, IInv, FilesOK
<1>3. SaveInv' /\ WriteInv' /\ LinkInv'
  BY <1>1, <1>2, Idle, NoSave DEF IInv
<1>4. ArchiveInv'
  BY <1>1, ArchiveKept DEF IInv, saveVars, ArchiveInv
<1>5. ReadInv'
  BY <1>1, ReadOver DEF IInv, ReadInv
<1> QED
  BY <1>1, <1>2, <1>3, <1>4, <1>5 DEF IInv

-----------------------------------------------------------------------------
(* Steps of Save                                                           *)

LEMMA InvSaveBegin == ASSUME IInv, SaveBegin PROVE IInv'
<1>1. /\ pc = "ready" /\ pc' = "planning" /\ saves < MaxSaves /\ saves' = saves + 1
      /\ next' = 1 /\ dirs' = {} /\ written' = <<>> /\ buffer' = <<>> /\ folders' = <<>>
      /\ header' = [files |-> 0, folders |-> 0, size |-> HeaderSize]
      /\ UNCHANGED <<files, archive, position, current, opened>>
  BY DEF SaveBegin
<1>2. FilesOK' /\ Len(files) \in Nat
  BY <1>1 DEF IInv, FilesOK
<1>3. /\ order' \in Seq(1 .. Len(files))
      /\ \A i, j \in 1 .. Len(order') : i # j => order'[i] # order'[j]
  <2> DEFINE n == Len(files)
             m == Cardinality(1 .. n)
  <2>1. m = n
    <3>1. n \in Nat
      BY <1>2
    <3> HIDE DEF n
    <3>2. m = IF 1 > n THEN 0 ELSE n - 1 + 1
      BY ONLY <3>1, FS_Interval
    <3> HIDE DEF m
    <3> QED
      BY ONLY <3>1, <3>2
  <2>2. order' \in SetToSeqs(1 .. n)
    BY DEF SaveBegin
  <2>3. order' \in [1 .. n -> 1 .. n] /\ \A i, j \in 1 .. n : i # j => order'[i] # order'[j]
    BY <2>1, <2>2 DEF SetToSeqs
  <2> HIDE DEF n
  <2>4. order' \in Seq(1 .. n) /\ Len(order') = n
    BY <1>2, <2>3 DEF n
  <2> QED
    BY <2>3, <2>4 DEF n
<1>4. SaveInv' /\ WriteInv' /\ LinkInv'
  <2>1. \E w : Weighs(w, next - 1)' /\ Planned(next - 1, w)'
    <3> DEFINE w == [j \in 0 .. 0 |-> 0]
    <3>1. DOMAIN w = 0 .. 0 /\ w[0] = 0
      OBVIOUS
    <3>2. next' - 1 = 0
      BY <1>1
    <3> HIDE DEF w
    <3>3. Weighs(w, next - 1)'
      BY <3>1, <3>2 DEF Weighs
    <3>4. Cardinality(dirs') = 0 /\ 3 * EntryBlockSize * 0 = 0
      BY <1>1, FS_EmptySet DEF EntryBlockSize
    <3>5. Planned(next - 1, w)'
      BY <1>1, <3>1, <3>2, <3>4 DEF Planned, HeaderSize
    <3> QED
      BY <3>3, <3>5
  <2>2. header' \in [files: Nat, folders: Nat, size: Nat]
    BY <1>1 DEF HeaderSize
  <2>3. Saving' /\ pc' # "writing"
    BY <1>1 DEF Saving
  <2>4. IsFiniteSet(dirs') /\ \A d \in dirs' : IsHome(d)
    BY <1>1, FS_EmptySet
  <2>5. next' \in 1 .. Len(order') + 1
    BY <1>1, <1>3
  <2>6. SaveInv'
    BY <1>1, <1>3, <2>1, <2>2, <2>3, <2>4, <2>5 DEF SaveInv
  <2> QED
    BY <2>3, <2>6 DEF WriteInv, LinkInv
<1>5. ArchiveInv'
  BY <1>1, ArchiveKept, NoEntriesOK DEF IInv
<1>6. ReadInv'
  <2>1. position' = 0 /\ current' = 0 /\ folders' \in Seq(FolderType)
    BY <1>1 DEF IInv, ReadInv
  <2> QED
    BY <1>1, <2>1 DEF ReadInv
<1>7. saves' \in 0 .. MaxSaves
  BY <1>1, BoundsAssumption DEF IInv
<1> QED
  BY <1>1, <1>2, <1>4, <1>5, <1>6, <1>7 DEF IInv

\* A file is packed once; what its place in a folder changes.
LEMMA PackedOK ==
    ASSUME NEW f, FileOK(f), NEW dir, dir = Directory(f.path), IsHome(dir)
    PROVE  LET g == [Pack(f) EXCEPT !.folder = dir]
           IN  FileOK(g) /\ g.folder = dir /\ g.packed \in Nat
<1> DEFINE p == IF f.packed # 0 \/ f.data = EmptyData THEN f.packed ELSE PackedLength(f.data)
           g == [Pack(f) EXCEPT !.folder = dir]
<1>1. /\ f.path \in Seq(Parts) \ {<<>>} /\ f.data \in Data \cup {WrongData} /\ f.packed \in Nat
      /\ f.hasEnd \in BOOLEAN /\ IsPart(Last(f.path)) /\ (f.data \in Data \/ f.packed # 0)
      /\ f = [path |-> f.path, data |-> f.data, packed |-> f.packed, hasEnd |-> f.hasEnd,
              folder |-> f.folder]
  BY DEF FileOK, FileType
<1>2. p \in Nat /\ (f.data \in Data \/ p # 0)
  BY <1>1, PackedAssumption
<1>3. Pack(f) = [path |-> f.path, data |-> f.data, packed |-> p, hasEnd |-> f.hasEnd,
                 folder |-> f.folder]
  BY <1>1 DEF Pack
<1> HIDE DEF p
<1>4. g = [path |-> f.path, data |-> f.data, packed |-> p, hasEnd |-> f.hasEnd, folder |-> dir]
  BY <1>3
<1>5. dir \in Seq(Parts)
  BY DEF IsHome
<1>6. g \in FileType
  BY <1>1, <1>2, <1>4, <1>5 DEF FileType
<1> QED
  BY <1>1, <1>2, <1>4, <1>6 DEF FileOK

\* One more file on the scales.
LEMMA WeighsMore ==
    ASSUME NEW n \in Nat, NEW w, Weighs(w, n), n + 1 <= Len(order), Len(order) \in Nat,
           \A j \in 1 .. n : files'[order[j]].packed = files[order[j]].packed,
           files'[order[n + 1]].packed \in Nat, order' = order
    PROVE  \E v : /\ Weighs(v, n + 1)' /\ v[n] = w[n]
                  /\ v[n + 1] = w[n] + EntryBlockSize + files'[order[n + 1]].packed
<1> PICK v : v = [j \in 0 .. n + 1 |-> IF j = n + 1
                                        THEN w[n] + EntryBlockSize + files'[order[n + 1]].packed
                                        ELSE w[j]]
  OBVIOUS
<1>1. /\ DOMAIN v = 0 .. n + 1 /\ \A j \in 0 .. n : v[j] = w[j]
      /\ v[n + 1] = w[n] + EntryBlockSize + files'[order[n + 1]].packed
  OBVIOUS
<1>2. w[n] \in Nat /\ w[0] = 0 /\ \A j \in 0 .. n : w[j] \in Nat
  BY DEF Weighs
<1>3. v[n + 1] \in Nat
  BY <1>1, <1>2 DEF EntryBlockSize
<1>4. \A j \in 0 .. n + 1 : v[j] \in Nat
  BY <1>1, <1>2, <1>3
<1>5. ASSUME NEW j \in 1 .. n + 1
      PROVE  v[j] = v[j - 1] + EntryBlockSize + files'[order'[j]].packed
  <2>1. CASE j = n + 1
    BY <1>1, <2>1
  <2>2. CASE j # n + 1
    <3>1. j \in 1 .. n /\ j \in 0 .. n /\ j - 1 \in 0 .. n
      BY <2>2
    <3>2. w[j] = w[j - 1] + EntryBlockSize + files[order[j]].packed
      BY <3>1 DEF Weighs
    <3> QED
      BY <1>1, <3>1, <3>2
  <2> QED
    BY <2>1, <2>2
<1>6. Weighs(v, n + 1)'
  BY <1>1, <1>2, <1>4, <1>5 DEF Weighs
<1> QED
  BY <1>1, <1>6

\* The file the loop is at.
LEMMA FileAt ==
    ASSUME IInv, Saving, next <= Len(order)
    PROVE  /\ next \in 1 .. Len(order) /\ Len(order) \in Nat /\ order[next] \in 1 .. Len(files)
           /\ File = files[order[next]] /\ FileOK(File) /\ File \in FileType
           /\ Homes[next] = File.folder
           /\ \A j \in 1 .. Len(order) : /\ order[j] \in 1 .. Len(files)
                                         /\ j # next => order[j] # order[next]
<1>1. /\ order \in Seq(1 .. Len(files)) /\ next \in 1 .. Len(order) + 1
      /\ \A i, j \in 1 .. Len(order) : i # j => order[i] # order[j]
  BY DEF IInv, SaveInv
<1>2. next \in 1 .. Len(order) /\ Len(order) \in Nat
  BY <1>1
<1>3. \A j \in 1 .. Len(order) : order[j] \in 1 .. Len(files)
  BY <1>1
<1>4. FileOK(files[order[next]])
  BY <1>2, <1>3 DEF IInv, FilesOK
<1> QED
  BY <1>1, <1>2, <1>3, <1>4 DEF File, Homes, FileOK

LEMMA InvPlanFile == ASSUME IInv, PlanFile PROVE IInv'
<1> DEFINE i == order[next]
           f == files[i]
           dir == Directory(f.path)
           new == Ancestry(dir) \ dirs
           found == dir \in dirs \cup new
           g == IF found THEN [Pack(f) EXCEPT !.folder = dir] ELSE f
<1>1. /\ pc = "planning" /\ pc' = "planning" /\ next <= Len(order)
      /\ next' = next + 1 /\ dirs' = dirs \cup new /\ files' = [files EXCEPT ![i] = g]
      /\ header' = [files   |-> header.files + (IF found THEN 1 ELSE 0),
                    folders |-> header.folders + Cardinality(new),
                    size    |-> header.size + 3 * EntryBlockSize * Cardinality(new)
                                  + (IF found THEN EntryBlockSize + g.packed ELSE 0)]
      /\ UNCHANGED <<order, written, buffer, archive, position, folders, current, opened, saves>>
  BY DEF PlanFile, openVars
<1>2. /\ next \in 1 .. Len(order) /\ Len(order) \in Nat /\ i \in 1 .. Len(files)
      /\ FileOK(f) /\ f \in FileType
      /\ \A j \in 1 .. Len(order) : order[j] \in 1 .. Len(files) /\ (j # next => order[j] # i)
  BY <1>1, FileAt DEF Saving
<1>3. /\ IsFiniteSet(dirs) /\ \A d \in dirs : IsHome(d)
      /\ order \in Seq(1 .. Len(files))
      /\ \A k, j \in 1 .. Len(order) : k # j => order[k] # order[j]
      /\ header \in [files: Nat, folders: Nat, size: Nat]
      /\ written = <<>> /\ buffer = <<>>
  BY <1>1 DEF IInv, SaveInv, Saving
<1>4. dir \in Seq(Parts)
  BY <1>2, DirectoryType DEF FileType
<1>5. /\ IsFiniteSet(new) /\ Cardinality(new) \in Nat /\ \A d \in new : IsHome(d)
      /\ Plain(dir) => found
  <2>1. /\ IsFiniteSet(Ancestry(dir)) /\ \A a \in Ancestry(dir) : IsHome(a)
        /\ Plain(dir) => dir \in Ancestry(dir)
    BY <1>4, AncestryFacts
  <2> QED
    BY <2>1, FS_Subset, FS_CardinalityType
<1>6. /\ IsFiniteSet(dirs') /\ \A d \in dirs' : IsHome(d)
      /\ Cardinality(dirs) \in Nat
      /\ Cardinality(dirs') = Cardinality(dirs) + Cardinality(new)
  <2>1. /\ IsFiniteSet(dirs \cup new)
        /\ Cardinality(dirs \cup new) = Cardinality(dirs) + Cardinality(new) - Cardinality(dirs \cap new)
    BY <1>3, <1>5, FS_Union
  <2>2. Cardinality(dirs \cap new) = 0 /\ Cardinality(dirs) \in Nat
    <3>1. dirs \cap new = {}
      OBVIOUS
    <3> HIDE DEF new
    <3> QED
      BY <1>3, <3>1, FS_EmptySet, FS_CardinalityType
  <2> HIDE DEF new
  <2>3. \A d \in dirs \cup new : IsHome(d)
    BY <1>3, <1>5
  <2>4. dirs' = dirs \cup new
    BY <1>1
  <2> HIDE DEF found, g, dir
  <2> QED
    BY <1>5, <2>1, <2>2, <2>3, <2>4
<1>7. found => IsHome(dir)
  BY <1>3, <1>5
<1>8. ~ found => f.folder = NoFolder
  BY <1>2, <1>5 DEF FileOK, IsHome
<1>9. FileOK(g) /\ g.packed \in Nat /\ g.folder = IF found THEN dir ELSE NoFolder
  <2>1. CASE found
    <3>1. IsHome(dir)
      BY <1>7, <2>1
    <3> HIDE DEF found
    <3> QED
      BY <1>2, <2>1, <3>1, PackedOK
  <2>2. CASE ~ found
    BY <1>2, <1>8, <2>2 DEF FileType
  <2> QED
    BY <2>1, <2>2
<1> HIDE DEF dir, new, found, g
<1>10. /\ files' \in Seq(FileType) /\ Len(files') = Len(files)
       /\ \A j \in 1 .. Len(files') : FileOK(files'[j])
       /\ \A j \in 1 .. Len(files) : files'[j] = IF j = i THEN g ELSE files[j]
  <2>1. files \in Seq(FileType) /\ \A j \in 1 .. Len(files) : FileOK(files[j])
    BY DEF IInv, FilesOK
  <2> HIDE DEF i
  <2> QED
    BY <1>1, <1>2, <1>9, <2>1, FileChangedOK
<1> PICK n : n = next - 1
  OBVIOUS
<1>11. /\ \A j \in 1 .. n : Homes'[j] = Homes[j] /\ files'[order[j]].packed = files[order[j]].packed
       /\ Homes'[next] = g.folder /\ files'[order[next]].packed = g.packed
  <2>1. \A j \in 1 .. n : j \in 1 .. Len(order) /\ j # next
    BY <1>2
  <2>2. \A j \in 1 .. Len(order) : Homes'[j] = files'[order[j]].folder /\ Homes[j] = files[order[j]].folder
    BY <1>1 DEF Homes
  <2> QED
    BY <1>2, <1>10, <2>1, <2>2
<1>12. PICK w : Weighs(w, n) /\ Planned(n, w)
  BY <1>1 DEF IInv, SaveInv
<1>13. n \in Nat /\ n + 1 = next /\ n + 1 = next' - 1 /\ w[n] \in Nat
  BY <1>1, <1>2, <1>12 DEF Weighs
<1>14. PICK v : /\ Weighs(v, n + 1)'
                /\ v[n + 1] = w[n] + EntryBlockSize + g.packed
  <2>1. \E v : /\ Weighs(v, n + 1)' /\ v[n] = w[n]
               /\ v[n + 1] = w[n] + EntryBlockSize + files'[order[n + 1]].packed
    <3>1. n + 1 <= Len(order) /\ Len(order) \in Nat /\ order' = order
      BY <1>1, <1>2, <1>13
    <3>2. files'[order[n + 1]].packed \in Nat
      BY <1>9, <1>11, <1>13
    <3> QED
      BY <1>11, <1>12, <1>13, <3>1, <3>2, WeighsMore
  <2> QED
    BY <1>11, <1>13, <2>1
<1>15. Planned(n + 1, v)'
  <2>1. ASSUME NEW j \in 1 .. n + 1, Homes'[j] # NoFolder
        PROVE  Ancestry(Homes'[j]) \subseteq dirs'
    <3>1. CASE j = n + 1
      <4>1. Homes'[j] = g.folder /\ g.folder = dir
        BY <1>9, <1>11, <1>13, <2>1, <3>1
      <4> QED
        BY <1>1, <4>1 DEF new
    <3>2. CASE j # n + 1
      <4>1. j \in 1 .. n /\ Homes'[j] = Homes[j]
        BY <1>11, <1>13, <3>2
      <4>2. Ancestry(Homes[j]) \subseteq dirs
        BY <1>12, <2>1, <4>1 DEF Planned
      <4> QED
        BY <1>1, <4>1, <4>2
    <3> QED
      BY <3>1, <3>2
  <2>2. ASSUME \A j \in 1 .. n + 1 : Homes'[j] # NoFolder
        PROVE  /\ \A d \in dirs' : \E j \in 1 .. n + 1 : d \in Ancestry(Homes'[j])
               /\ header'.files = n + 1
               /\ header'.folders = Cardinality(dirs')
               /\ header'.size = HeaderSize + 3 * EntryBlockSize * Cardinality(dirs') + v[n + 1]
    <3>1. found /\ Homes'[n + 1] = dir
      <4>1. n + 1 \in 1 .. n + 1
        BY <1>13
      <4>2. Homes'[n + 1] = g.folder
        BY <1>11, <1>13
      <4> QED
        BY <1>9, <2>2, <4>1, <4>2
    <3>2. AllHome(n)
      <4>1. \A j \in 1 .. n : j \in 1 .. n + 1
        BY <1>13
      <4> QED
        BY <1>11, <2>2, <4>1 DEF AllHome
    <3>3. /\ \A d \in dirs : \E j \in 1 .. n : d \in Ancestry(Homes[j])
          /\ header.files = n
          /\ header.folders = Cardinality(dirs)
          /\ header.size = HeaderSize + 3 * EntryBlockSize * Cardinality(dirs) + w[n]
      BY <1>12, <3>2 DEF Planned
    <3>4. \A d \in dirs' : \E j \in 1 .. n + 1 : d \in Ancestry(Homes'[j])
      <4>1. ASSUME NEW d \in dirs PROVE \E j \in 1 .. n + 1 : d \in Ancestry(Homes'[j])
        <5>1. PICK j \in 1 .. n : d \in Ancestry(Homes[j])
          BY <3>3
        <5>2. j \in 1 .. n + 1 /\ Homes'[j] = Homes[j]
          BY <1>11, <1>13
        <5> QED
          BY <5>1, <5>2
      <4>2. ASSUME NEW d \in new PROVE \E j \in 1 .. n + 1 : d \in Ancestry(Homes'[j])
        <5>1. d \in Ancestry(dir) /\ n + 1 \in 1 .. n + 1
          BY <1>13 DEF new
        <5> QED
          BY <3>1, <5>1
      <4> QED
        BY <1>1, <4>1, <4>2
    <3>5. header'.files = n + 1 /\ header'.folders = Cardinality(dirs')
      BY <1>1, <1>6, <3>1, <3>3
    <3>6. header'.size = HeaderSize + 3 * EntryBlockSize * Cardinality(dirs') + v[n + 1]
      <4> DEFINE a == Cardinality(dirs)
                 b == Cardinality(new)
                 p == g.packed
      <4>1. header'.size = header.size + 435 * b + (145 + p)
        BY <1>1, <3>1 DEF EntryBlockSize
      <4>2. header.size = 24 + 435 * a + w[n]
        BY <3>3 DEF HeaderSize, EntryBlockSize
      <4>3. v[n + 1] = w[n] + 145 + p
        BY <1>14 DEF EntryBlockSize
      <4>4. a \in Nat /\ b \in Nat /\ p \in Nat /\ w[n] \in Nat /\ Cardinality(dirs') = a + b
        BY <1>5, <1>6, <1>9, <1>13
      <4> HIDE DEF a, b, p
      <4> QED
        BY <4>1, <4>2, <4>3, <4>4 DEF HeaderSize, EntryBlockSize
    <3> QED
      BY <3>4, <3>5, <3>6
  <2> QED
    BY <2>1, <2>2 DEF Planned, AllHome
<1>16. SaveInv'
  <2>1. Saving' /\ next' \in 1 .. Len(order') + 1
    BY <1>1, <1>2 DEF Saving
  <2>2. order' \in Seq(1 .. Len(files'))
    BY <1>1, <1>3, <1>10
  <2>3. header' \in [files: Nat, folders: Nat, size: Nat]
    <3>1. (IF found THEN 1 ELSE 0) \in Nat /\ (IF found THEN EntryBlockSize + g.packed ELSE 0) \in Nat
      BY <1>9 DEF EntryBlockSize
    <3>2. 3 * EntryBlockSize * Cardinality(new) \in Nat
      BY <1>5 DEF EntryBlockSize
    <3>3. header.files \in Nat /\ header.folders \in Nat /\ header.size \in Nat
      BY <1>3
    <3> DEFINE a == header.files + (IF found THEN 1 ELSE 0)
               b == header.folders + Cardinality(new)
               c == header.size + 3 * EntryBlockSize * Cardinality(new)
                                  + (IF found THEN EntryBlockSize + g.packed ELSE 0)
    <3>4. a \in Nat /\ b \in Nat /\ c \in Nat
      BY <1>5, <3>1, <3>2, <3>3
    <3>5. header' = [files |-> a, folders |-> b, size |-> c]
      BY <1>1
    <3> HIDE DEF a, b, c
    <3> QED
      BY <3>4, <3>5
  <2>4. \E u : Weighs(u, next - 1)' /\ Planned(next - 1, u)'
    <3>1. Weighs(v, next - 1)' /\ Planned(next - 1, v)'
      BY <1>13, <1>14, <1>15
    <3> QED
      BY <3>1
  <2>5. written' = <<>> /\ buffer' = <<>>
    BY <1>1, <1>3
  <2> QED
    BY <1>1, <1>3, <1>6, <2>1, <2>2, <2>3, <2>4, <2>5 DEF SaveInv
<1>17. WriteInv' /\ LinkInv'
  BY <1>1 DEF WriteInv, LinkInv
<1>18. ArchiveInv' /\ ReadInv'
  BY <1>1, ArchiveKept, ReadKept DEF IInv, ArchiveInv
<1>19. FilesOK'
  BY <1>10 DEF FilesOK
<1> QED
  BY <1>1, <1>16, <1>17, <1>18, <1>19 DEF IInv

LEMMA InvPlanEnd == ASSUME IInv, PlanEnd PROVE IInv'
<1>1. /\ pc = "planning" /\ pc' = "writing" /\ next > Len(order) /\ next' = 1
      /\ UNCHANGED <<files, order, dirs, written, header, buffer, archive, position, folders,
                     current, opened, saves>>
  BY DEF PlanEnd, openVars
<1>2. /\ order \in Seq(1 .. Len(files)) /\ next \in 1 .. Len(order) + 1
      /\ \A i, j \in 1 .. Len(order) : i # j => order[i] # order[j]
      /\ IsFiniteSet(dirs) /\ \A d \in dirs : IsHome(d)
      /\ header \in [files: Nat, folders: Nat, size: Nat]
      /\ written = <<>> /\ buffer = <<>>
      /\ \E w : Weighs(w, next - 1) /\ Planned(next - 1, w)
  BY <1>1 DEF IInv, SaveInv, Saving
<1>3. next - 1 = Len(order) /\ Len(order) \in Nat
  BY <1>1, <1>2
<1>4. PICK w : Weighs(w, Len(order)) /\ Planned(Len(order), w)
  BY <1>2, <1>3
<1>5. Homes' = Homes
  BY <1>1 DEF Homes
<1>6. Weighs(w, Len(order))' /\ Planned(Len(order), w)'
  BY <1>1, <1>4, <1>5 DEF Weighs, Planned, AllHome
<1>7. SaveInv'
  <2>1. Saving' /\ pc' # "planning"
    BY <1>1 DEF Saving
  <2>2. next' \in 1 .. Len(order') + 1
    BY <1>1, <1>2
  <2> QED
    BY <1>1, <1>2, <2>1, <2>2 DEF SaveInv
<1>8. /\ Made' = {} /\ Named(buffer') = {} /\ Indices("file", buffer') = {}
      /\ Cardinality({}) = 0 /\ DOMAIN written' = {}
  BY <1>1, <1>2, FS_EmptySet DEF Made, Named, Indices
<1>9. WriteInv'
  <2>1. buffer' = <<>> /\ written' = <<>> /\ next' = 1
    BY <1>1, <1>2
  <2>2. /\ Made' \subseteq dirs'
        /\ \A j \in 1 .. next' - 1 : Homes'[j] # NoFolder /\ Ancestry(Homes'[j]) \subseteq Made'
        /\ \A d \in Made' : Len(d) > 1 => Front(d) \in Made'
        /\ \A d \in DOMAIN written' : written'[d] \in Nat
        /\ Cardinality(Indices("file", buffer')) = next' - 1
        /\ Cardinality(Named(buffer')) = Cardinality(Made')
    <3>1. 1 .. next' - 1 = {}
      BY <2>1
    <3>2. Cardinality(Indices("file", buffer')) = next' - 1
      <4>1. Indices("file", buffer') = {}
        BY <1>8
      <4>2. next' - 1 = 0
        BY <2>1
      <4> QED
        BY <4>1, <4>2, FS_EmptySet
    <3> QED
      BY <1>8, <3>1, <3>2
  <2> QED
    BY <1>6, <2>1, <2>2 DEF WriteInv
<1>10. LinkInv'
  BY <1>8 DEF LinkInv
<1>11. ArchiveInv' /\ ReadInv'
  BY <1>1, ArchiveKept, ReadKept DEF IInv, ArchiveInv
<1>12. FilesOK'
  BY <1>1 DEF IInv, FilesOK
<1> QED
  BY <1>1, <1>7, <1>9, <1>10, <1>11, <1>12 DEF IInv

LEMMA InvSaveThrows == ASSUME IInv, SaveThrows PROVE IInv'
<1>1. /\ pc = "writing" /\ pc' = "threw" /\ next <= Len(order) /\ SaveReturns
      /\ files' = [files EXCEPT ![order[next]] = Marked]
      /\ UNCHANGED <<header, archive, position, folders, current, opened, saves>>
  BY DEF SaveThrows, openVars
<1>2. order[next] \in 1 .. Len(files) /\ header \in [files: Nat, folders: Nat, size: Nat]
  BY <1>1, FileAt DEF Saving, IInv, SaveInv
<1>3. FileOK(Marked)
  BY <1>2, MarkedOK DEF IInv
<1>4. FilesOK'
  <2>1. files \in Seq(FileType) /\ \A j \in 1 .. Len(files) : FileOK(files[j])
    BY DEF IInv, FilesOK
  <2>2. files' \in Seq(FileType) /\ \A j \in 1 .. Len(files') : FileOK(files'[j])
    BY <1>1, <1>2, <1>3, <2>1, FileChangedOK
  <2> QED
    BY <2>2 DEF FilesOK
<1>5. SaveInv' /\ WriteInv' /\ LinkInv'
  BY <1>1, <1>2, NoSave
<1>6. ArchiveInv' /\ ReadInv'
  BY <1>1, ArchiveKept, ReadKept, NoEntriesOK DEF IInv, SaveReturns
<1> QED
  BY <1>1, <1>4, <1>5, <1>6 DEF IInv

LEMMA InvSaveEnd == ASSUME IInv, SaveEnd PROVE IInv'
<1> DEFINE plan == [k \in 1 .. Len(order) |-> files[order[k]]]
<1>1. /\ pc = "writing" /\ pc' = "ready" /\ next > Len(order) /\ SaveReturns
      /\ archive' = [files |-> header.files, folders |-> header.folders, size |-> header.size,
                     entries |-> buffer, plan |-> plan]
      /\ UNCHANGED <<files, header, position, folders, current, opened, saves>>
  BY DEF SaveEnd, openVars
<1>2. /\ order \in Seq(1 .. Len(files)) /\ next \in 1 .. Len(order) + 1
      /\ IsFiniteSet(dirs)
      /\ header \in [files: Nat, folders: Nat, size: Nat]
  BY <1>1 DEF IInv, SaveInv, Saving
<1>3. next - 1 = Len(order) /\ Len(order) \in Nat /\ next # 0
  BY <1>1, <1>2
<1>4. EntriesOK(buffer) /\ buffer \in Seq(EntryType)
  BY DEF IInv, ArchiveInv, EntriesOK
<1>5. plan \in Seq(FileType) /\ Len(plan) = Len(order)
  <2>1. \A k \in 1 .. Len(order) : files[order[k]] \in FileType
    BY <1>2 DEF IInv, FilesOK
  <2> QED
    BY <1>3, <2>1
<1>6. /\ archive'.entries = buffer /\ archive'.plan = plan /\ archive'.files = header.files
      /\ archive'.folders = header.folders /\ archive'.size = header.size
  BY <1>1
<1>7. PlanHomes' = Homes
  BY <1>5, <1>6 DEF PlanHomes, Homes
<1> HIDE DEF plan
<1>8. HeaderTrue'
  <2> SUFFICES ASSUME buffer # <<>>
               PROVE  /\ header.files = Cardinality(Indices("file", buffer))
                      /\ header.folders = Cardinality(Named(buffer))
                      /\ header.size + EntryBlockSize = EndOf(buffer)
    BY <1>6 DEF HeaderTrue
  <2>1. /\ Made \subseteq dirs
        /\ \A j \in 1 .. next - 1 : Homes[j] # NoFolder /\ Ancestry(Homes[j]) \subseteq Made
        /\ Cardinality(Indices("file", buffer)) = next - 1
        /\ Cardinality(Named(buffer)) = Cardinality(Made)
    BY <1>1 DEF IInv, WriteInv
  <2>2. PICK w : /\ Weighs(w, Len(order)) /\ Planned(Len(order), w)
                 /\ EndOf(buffer) = HeaderSize + EntryBlockSize
                                     + 3 * EntryBlockSize * Cardinality(Made) + w[next - 1]
    BY <1>1 DEF IInv, WriteInv
  <2>3. /\ \A d \in dirs : \E j \in 1 .. Len(order) : d \in Ancestry(Homes[j])
        /\ header.files = Len(order)
        /\ header.folders = Cardinality(dirs)
        /\ header.size = HeaderSize + 3 * EntryBlockSize * Cardinality(dirs) + w[Len(order)]
    BY <1>3, <2>1, <2>2 DEF Planned, AllHome
  <2>4. Made = dirs
    BY <1>3, <2>1, <2>3
  <2>5. Cardinality(dirs) \in Nat /\ w[Len(order)] \in Nat
    BY <1>2, <1>3, <2>2, FS_CardinalityType DEF Weighs
  <2>6. header.size + EntryBlockSize = EndOf(buffer)
    BY <1>3, <2>2, <2>3, <2>4, <2>5 DEF HeaderSize, EntryBlockSize
  <2> QED
    BY <1>3, <2>1, <2>3, <2>4, <2>6
<1>9. ASSUME NEW k \in Named(buffer)
      PROVE  FilesIn(buffer, k) + 1 <= Len(order) /\ LinkedUp(buffer, Homes, 0, 0, k)
  <2>1. FilesIn(buffer, k) + 1 <= Len(order) /\ LinkedUp(buffer, Homes, next, Left, k)
    BY <1>1 DEF IInv, LinkInv
  <2>2. Left = 0
    BY <1>1, <1>2 DEF Left
  <2>3. \A j : FolderIn(buffer, Homes, next, 0, j) = FolderIn(buffer, Homes, 0, 0, j)
    BY DEF FolderIn
  <2> QED
    BY <2>1, <2>2, <2>3 DEF LinkedUp
<1>10. ArchiveInv'
  <2>1. archive' \in [files: Nat, folders: Nat, size: Nat,
                      entries: Seq(EntryType), plan: Seq(FileType)]
    BY <1>1, <1>2, <1>4, <1>5
  <2>2. EntriesOK(buffer') /\ EntriesOK(archive'.entries)
    BY <1>1, <1>4, <1>6, NoEntriesOK DEF SaveReturns
  <2> QED
    BY <1>5, <1>6, <1>7, <1>8, <1>9, <2>1, <2>2 DEF ArchiveInv
<1>11. ReadInv'
  <2>1. position = 0 /\ current = 0 /\ folders \in Seq(FolderType)
    BY <1>1 DEF IInv, ReadInv
  <2> QED
    BY <1>1, <2>1 DEF ReadInv
<1>12. SaveInv' /\ WriteInv' /\ LinkInv'
  BY <1>1, <1>2, NoSave
<1>13. FilesOK'
  BY <1>1 DEF IInv, FilesOK
<1> QED
  BY <1>1, <1>10, <1>11, <1>12, <1>13 DEF IInv

LEMMA FolderEntry ==
    ASSUME NEW name, name \in Parts \/ name = "." \/ name = "..",
           NEW at \in Nat, NEW folder \in Nat, NEW end \in Nat, NEW e, e = Entry("folder", name, at, 0, folder, end, EmptyData)
    PROVE  /\ e \in EntryType /\ e.type = "folder" /\ e.name = name /\ e.at = at
           /\ e.folder = folder /\ e.end = end /\ Behind(e) = at + EntryBlockSize
<1>1. EmptyData \in Data \cup {WrongData} /\ 0 \in Nat
  BY DataAssumption
<1>2. /\ e \in EntryType /\ e.type = "folder" /\ e.name = name /\ e.at = at
      /\ e.folder = folder /\ e.end = end /\ e.packed = 0
  BY <1>1 DEF Entry, EntryType
<1>3. Behind(e) = at + EntryBlockSize + 0
  BY <1>2 DEF Behind
<1> QED
  BY <1>2, <1>3 DEF EntryBlockSize

\* A parent that was written stays the parent.
LEMMA LinkedUpKept ==
    ASSUME NEW s \in Seq(EntryType), Shaped(s), NEW t, \A k \in 1 .. Len(s) : t[k] = s[k],
           NEW homes, NEW n, NEW left, NEW m, NEW rest,
           \A k \in Named(s) : FolderIn(t, homes, m, rest, k) = FolderIn(s, homes, n, left, k),
           NEW k \in Named(s), LinkedUp(s, homes, n, left, k)
    PROVE  LinkedUp(t, homes, m, rest, k)
<1>1. k \in 1 .. Len(s) /\ k + 2 \in 1 .. Len(s) /\ Len(s) \in Nat
  BY DEF Named, Indices, Shaped
<1>2. PICK j \in 1 .. k - 1 :
        /\ IsFolder(s[j], ".") /\ s[j].at = s[k + 2].folder
        /\ IF j = 1 THEN Len(FolderIn(s, homes, n, left, k)) <= 1
           ELSE FolderIn(s, homes, n, left, j - 1) = Front(FolderIn(s, homes, n, left, k))
  BY DEF LinkedUp
<1>3. j \in 1 .. Len(s)
  BY <1>1
<1>4. t[j] = s[j] /\ t[k + 2] = s[k + 2]
  BY <1>1, <1>3
<1>5. j # 1 => j - 1 \in Named(s)
  BY <1>2, <1>3 DEF Shaped
<1>6. /\ IsFolder(t[j], ".") /\ t[j].at = t[k + 2].folder
      /\ IF j = 1 THEN Len(FolderIn(t, homes, m, rest, k)) <= 1
         ELSE FolderIn(t, homes, m, rest, j - 1) = Front(FolderIn(t, homes, m, rest, k))
  BY <1>2, <1>4, <1>5
<1> QED
  BY <1>6 DEF LinkedUp

\* What the two writing steps can rely on.
LEMMA Writing ==
    ASSUME IInv, pc = "writing", next <= Len(order), File.folder # NoFolder
    PROVE  /\ next \in 1 .. Len(order) /\ Len(order) \in Nat /\ order[next] \in 1 .. Len(files)
           /\ order \in Seq(1 .. Len(files)) /\ FileOK(File) /\ Homes[next] = File.folder
           /\ IsHome(File.folder) /\ Ancestry(File.folder) \subseteq dirs
           /\ \A a \in Ancestry(File.folder) : IsHome(a) /\ a # Root
           /\ IsFiniteSet(dirs) /\ IsFiniteSet(Made) /\ Cardinality(Made) \in Nat
           /\ \A d \in Made : IsHome(d)
           /\ EntriesOK(buffer) /\ EndOf(buffer) \in Nat
<1>1. /\ next \in 1 .. Len(order) /\ Len(order) \in Nat /\ order[next] \in 1 .. Len(files)
      /\ FileOK(File) /\ Homes[next] = File.folder
  BY FileAt DEF Saving
<1>2. IsHome(File.folder)
  BY <1>1 DEF FileOK
<1>3. \A a \in Ancestry(File.folder) : IsHome(a) /\ a # Root
  BY <1>2, AncestryFacts, OtherFolders DEF IsHome
<1>4. Ancestry(File.folder) \subseteq dirs
  <2>1. PICK w : Planned(Len(order), w)
    BY DEF IInv, WriteInv
  <2> QED
    BY <1>1, <2>1 DEF Planned
<1>5. /\ order \in Seq(1 .. Len(files)) /\ IsFiniteSet(dirs) /\ \A d \in dirs : IsHome(d)
      /\ Made \subseteq dirs
  BY DEF IInv, SaveInv, WriteInv, Saving
<1>6. IsFiniteSet(Made) /\ Cardinality(Made) \in Nat
  BY <1>5, FS_Subset, FS_CardinalityType
<1>7. EntriesOK(buffer) /\ EndOf(buffer) \in Nat
  BY Ascending DEF IInv, ArchiveInv, EntriesOK
<1> QED
  BY <1>1, <1>2, <1>3, <1>4, <1>5, <1>6, <1>7

\* What WriteFile does to the entries: the folders of the others stay what they are.
FileAdded(e) ==
    LET n == Len(buffer)
    IN  /\ n \in Nat /\ buffer'[n + 1] = e
        /\ Named(buffer') = Named(buffer)
        /\ Indices("file", buffer') = Indices("file", buffer) \cup {n + 1}
        /\ \A k \in 1 .. n : buffer'[k] = buffer[k] /\ FilesIn(buffer', k) = FilesIn(buffer, k)
        /\ FilesIn(buffer', n + 1) = next - 1
        /\ \A k \in Named(buffer) :
              FolderIn(buffer', Homes, next + 1, Left', k) = FolderIn(buffer, Homes, next, Left, k)
        /\ Behind(e) = EndOf(buffer) + EntryBlockSize + File.packed /\ buffer # <<>>
        /\ Homes' = Homes /\ Made' = Made /\ Len(files') = Len(files)
        /\ \A j \in 1 .. Len(order) : files'[order[j]].packed = files[order[j]].packed

LEMMA InvWriteFile ==
    ASSUME IInv, WriteFile
    PROVE  IInv' /\ \E e : FileAdded(e)
<1> DEFINE F == File.folder
           at == EndOf(buffer)
           e == Entry("file", Name(File.path), at, File.packed, 0, EndOffset(Marked, at), File.data)
<1>1. /\ pc = "writing" /\ pc' = "writing" /\ next <= Len(order) /\ F # NoFolder
      /\ Missing(F) = {} /\ File.packed # 0
      /\ buffer' = Append(buffer, e) /\ files' = [files EXCEPT ![order[next]] = Marked]
      /\ next' = next + 1
      /\ UNCHANGED <<order, dirs, written, header, archive, position, folders, current, opened,
                     saves>>
  BY DEF WriteFile, openVars
<1>2. /\ next \in 1 .. Len(order) /\ Len(order) \in Nat /\ order[next] \in 1 .. Len(files)
      /\ order \in Seq(1 .. Len(files)) /\ FileOK(File) /\ Homes[next] = F
      /\ \A a \in Ancestry(F) : a # Root
      /\ EntriesOK(buffer) /\ at \in Nat
      /\ Cardinality(Made) \in Nat
  BY <1>1, Writing
<1>3. /\ FileOK(Marked) /\ Marked.folder = File.folder /\ Marked.packed = File.packed
  BY <1>2, MarkedOK DEF IInv
<1>4. /\ FilesOK' /\ Len(files') = Len(files)
      /\ \A j \in 1 .. Len(files) : /\ files'[j].folder = files[j].folder
                                    /\ files'[j].packed = files[j].packed
  <2>1. files \in Seq(FileType) /\ \A j \in 1 .. Len(files) : FileOK(files[j])
    BY DEF IInv, FilesOK
  <2>2. files' = [files EXCEPT ![order[next]] = Marked]
    BY <1>1
  <2> HIDE DEF e, at, F
  <2>3. /\ files' \in Seq(FileType) /\ Len(files') = Len(files)
        /\ \A j \in 1 .. Len(files') : FileOK(files'[j])
        /\ \A j \in 1 .. Len(files) : files'[j] = IF j = order[next] THEN Marked ELSE files[j]
    <3>1. order[next] \in 1 .. Len(files)
      BY <1>2
    <3>2. FileOK(Marked)
      BY <1>3
    <3> QED
      BY ONLY <2>1, <2>2, <3>1, <3>2, FileChangedOK
  <2>4. FilesOK'
    BY <2>3 DEF FilesOK
  <2> QED
    BY <1>3, <2>3, <2>4 DEF File
<1>5. \A j \in 1 .. Len(order) : order[j] \in 1 .. Len(files)
  BY <1>2
<1>6. Homes' = Homes /\ Made' = Made
  BY <1>1, <1>4, <1>5 DEF Homes, Made
<1>7. /\ \A j \in 1 .. next - 1 : Homes[j] # NoFolder /\ Ancestry(Homes[j]) \subseteq Made
      /\ Made \subseteq dirs
      /\ buffer = <<>> => written = <<>>
      /\ buffer # <<>> => Root \in DOMAIN written /\ written[Root] = HeaderSize
      /\ \A d \in Made : Len(d) > 1 => Front(d) \in Made
      /\ \A d \in DOMAIN written : written[d] \in Nat
      /\ Cardinality(Indices("file", buffer)) = next - 1
      /\ Cardinality(Named(buffer)) = Cardinality(Made)
  BY <1>1 DEF IInv, WriteInv
<1>8. Root \in DOMAIN written /\ buffer # <<>> /\ Ancestry(F) \subseteq Made
  <2>1. \A a \in Ancestry(F) \cup {Root} : a \in DOMAIN written
    BY <1>1 DEF Missing
  <2>2. buffer # <<>>
    BY <1>7, <2>1
  <2> HIDE DEF F
  <2> QED
    BY <1>2, <2>1, <2>2 DEF Made
<1>9. /\ e \in EntryType /\ e.type = "file" /\ e.at = at /\ e.packed = File.packed
      /\ e.name \in Words /\ e.packed \in Nat /\ e.packed # 0 /\ e.end \in {0, Behind(e)}
  <2>1. /\ File.packed \in Nat /\ File.data \in Data \cup {WrongData}
        /\ File.path \in Seq(Parts) /\ File.path # <<>> /\ IsPart(Last(File.path))
    BY <1>2 DEF FileOK, FileType
  <2>2. Name(File.path) \in Words /\ Name(File.path) \in Parts
    <3>1. Last(File.path) \in Parts
      BY <2>1 DEF Last
    <3> QED
      BY <2>1, <3>1 DEF Name, Words
  <2>3. EndOffset(Marked, at) \in {0, at + File.packed + EntryBlockSize}
    BY <1>3 DEF EndOffset
  <2>4. EndOffset(Marked, at) \in Nat
    BY <1>2, <2>1, <2>3 DEF EntryBlockSize
  <2> HIDE DEF at
  <2>5. /\ e \in EntryType /\ e.type = "file" /\ e.at = at /\ e.packed = File.packed
        /\ e.name = Name(File.path) /\ e.end = EndOffset(Marked, at)
    <3>1. 0 \in Nat /\ "file" \in {"file", "folder"}
      OBVIOUS
    <3>2. e = Entry("file", Name(File.path), at, File.packed, 0, EndOffset(Marked, at), File.data)
      OBVIOUS
    <3> DEFINE name == Name(File.path)
               packed == File.packed
               end == EndOffset(Marked, at)
               data == File.data
    <3>3. /\ name \in Parts /\ at \in Nat /\ packed \in Nat /\ end \in Nat
          /\ data \in Data \cup {WrongData}
          /\ e = Entry("file", name, at, packed, 0, end, data)
      BY <1>2, <2>1, <2>2, <2>4, <3>2
    <3> HIDE DEF e, name, packed, end, data
    <3>4. /\ e \in EntryType /\ e.type = "file" /\ e.at = at /\ e.packed = packed
          /\ e.name = name /\ e.end = end
      BY <3>1, <3>3 DEF Entry, EntryType
    <3> QED
      BY <3>4 DEF name, packed, end
  <2> HIDE DEF e
  <2>6. Behind(e) = at + File.packed + EntryBlockSize
    <3>1. Behind(e) = at + EntryBlockSize + File.packed /\ at \in Nat /\ File.packed \in Nat
      BY <1>2, <2>1, <2>5 DEF Behind
    <3> QED
      BY <3>1 DEF EntryBlockSize
  <2> QED
    BY <1>1, <2>1, <2>2, <2>3, <2>5, <2>6
<1> HIDE DEF e, F, at
<1>10. EntriesOK(buffer')
  <2>1. e.at = EndOf(buffer)
    BY <1>9 DEF at
  <2> QED
    BY <1>1, <1>2, <1>8, <1>9, <2>1, FileEntryOK
<1>11. buffer \in Seq(EntryType) /\ Shaped(buffer) /\ Len(buffer) \in Nat
  BY <1>2 DEF EntriesOK
<1>12. /\ Cardinality(Indices("file", buffer')) = next' - 1
       /\ Named(buffer') = Named(buffer)
       /\ buffer' # <<>> /\ EndOf(buffer') = Behind(e)
       /\ \A k \in 1 .. Len(buffer) :
            /\ buffer'[k] = buffer[k] /\ FilesIn(buffer', k) = FilesIn(buffer, k)
            /\ Cardinality(After(buffer', k)) = Cardinality(After(buffer, k))
  <2>1. ~ IsNamed(e)
    BY <1>9 DEF IsNamed
  <2>2. Named(buffer') = Named(buffer)
    <3>1. Named(Append(buffer, e)) = Named(buffer) \cup (IF IsNamed(e) THEN {Len(buffer) + 1} ELSE {})
      BY <1>9, <1>11, NamedAppended
    <3>2. Named(Append(buffer, e)) = Named(buffer)
      BY <2>1, <3>1
    <3> QED
      BY <1>1, <3>2
  <2>3. Cardinality(Indices("file", buffer')) = Cardinality(Indices("file", buffer)) + 1
    BY <1>1, <1>9, <1>11, FilesAppended
  <2>4. /\ buffer' # <<>> /\ Last(buffer') = e
        /\ \A k \in 1 .. Len(buffer) : buffer'[k] = buffer[k]
    BY <1>1, <1>9, <1>11, AppendFacts
  <2>5. \A k \in 1 .. Len(buffer) : FilesIn(buffer', k) = FilesIn(buffer, k)
    BY <1>1, <1>9, <1>11, FilesInAppended
  <2>6. \A k \in 1 .. Len(buffer) : Cardinality(After(buffer', k)) = Cardinality(After(buffer, k))
    <3>1. \A k \in 1 .. Len(buffer) :
            /\ Cardinality(After(buffer, k)) \in Nat
            /\ Cardinality(After(buffer', k)) = Cardinality(After(buffer, k)) + 0
      BY <1>1, <1>9, <1>11, <2>1, AfterAppended
    <3> QED
      BY <3>1
  <2>7. EndOf(buffer') = Behind(e)
    BY <2>4 DEF EndOf
  <2> QED
    BY <1>1, <1>2, <1>7, <2>2, <2>3, <2>4, <2>5, <2>6, <2>7
<1>13. WriteInv'
  <2>1. PICK w : /\ Weighs(w, Len(order)) /\ Planned(Len(order), w)
                 /\ EndOf(buffer) = HeaderSize + EntryBlockSize
                                     + 3 * EntryBlockSize * Cardinality(Made) + w[next - 1]
    BY <1>1, <1>8 DEF IInv, WriteInv
  <2>2. Weighs(w, Len(order))' /\ Planned(Len(order), w)'
    <3>1. \A j \in 1 .. Len(order) : files'[order'[j]].packed = files[order[j]].packed
      BY <1>1, <1>4, <1>5
    <3>2. Weighs(w, Len(order))'
      BY <1>1, <2>1, <3>1 DEF Weighs
    <3>3. Planned(Len(order), w)'
      BY <1>1, <1>6, <2>1 DEF Planned, AllHome
    <3> QED
      BY <3>2, <3>3
  <2>3. w[next] = w[next - 1] + EntryBlockSize + File.packed /\ w[next] \in Nat /\ w[next - 1] \in Nat
    <3>1. next \in 0 .. Len(order) /\ next - 1 \in 0 .. Len(order)
      BY <1>2
    <3> QED
      BY <1>2, <2>1, <3>1 DEF Weighs, File
  <2>4. EndOf(buffer') = HeaderSize + EntryBlockSize
                           + 3 * EntryBlockSize * Cardinality(Made') + w[next' - 1]
    <3>1. Behind(e) = at + EntryBlockSize + File.packed
      BY <1>9 DEF Behind
    <3>2. next' - 1 = next
      BY <1>1, <1>2
    <3>3. at = HeaderSize + EntryBlockSize + 3 * EntryBlockSize * Cardinality(Made) + w[next - 1]
      BY <2>1 DEF at
    <3>4. File.packed \in Nat
      BY <1>9
    <3> DEFINE m == Cardinality(Made)
               x == w[next]
               y == w[next - 1]
               p == File.packed
    <3>5. at = 24 + 145 + 435 * m + y /\ x = y + 145 + p /\ Behind(e) = at + 145 + p
      BY <2>3, <3>1, <3>3 DEF HeaderSize, EntryBlockSize
    <3>6. m \in Nat /\ x \in Nat /\ y \in Nat /\ p \in Nat
      BY <1>2, <2>3, <3>4
    <3>7. Behind(e) = 24 + 145 + 435 * m + x
      <4> HIDE DEF m, x, y, p
      <4> QED
        BY <3>5, <3>6
    <3> QED
      BY <1>6, <1>12, <3>2, <3>7 DEF HeaderSize, EntryBlockSize
  <2>5. ASSUME NEW j \in 1 .. next' - 1
        PROVE  Homes'[j] # NoFolder /\ Ancestry(Homes'[j]) \subseteq Made'
    <3>1. j \in 1 .. next - 1 \/ j = next
      BY <1>1, <1>2
    <3> QED
      BY <1>1, <1>2, <1>6, <1>7, <1>8, <3>1
  <2>6. /\ Made' \subseteq dirs' /\ Root \in DOMAIN written' /\ written'[Root] = HeaderSize
        /\ \A d \in Made' : Len(d) > 1 => Front(d) \in Made'
        /\ \A d \in DOMAIN written' : written'[d] \in Nat
        /\ Cardinality(Named(buffer')) = Cardinality(Made')
    BY <1>1, <1>6, <1>7, <1>8, <1>12
  <2>7. \E v : /\ Weighs(v, Len(order))' /\ Planned(Len(order), v)'
               /\ buffer' # <<>> =>
                    EndOf(buffer') = HeaderSize + EntryBlockSize
                                       + 3 * EntryBlockSize * Cardinality(Made') + v[next' - 1]
    BY <2>2, <2>4
  <2> QED
    BY <1>12, <2>5, <2>6, <2>7 DEF WriteInv
<1>17. PICK rest : rest = Left'
  OBVIOUS
<1>18. Left = 0
  BY <1>1, FS_EmptySet DEF Left, F
<1>19. \A k \in Named(buffer) :
          /\ FilesIn(buffer, k) + 1 <= next /\ FilesIn(buffer, k) + 1 <= Len(order)
          /\ FolderIn(buffer, Homes, next, 0, k) \in Made
          /\ written[FolderIn(buffer, Homes, next, 0, k)] = buffer[k].folder
          /\ LinkedUp(buffer, Homes, next, 0, k)
  BY <1>1, <1>18 DEF IInv, LinkInv
<1>20. ASSUME NEW k \in Named(buffer)
       PROVE  FolderIn(buffer', Homes, next + 1, rest, k) = FolderIn(buffer, Homes, next, 0, k)
  <2>1. k \in 1 .. Len(buffer)
    BY DEF Named, Indices
  <2>2. FilesIn(buffer', k) = FilesIn(buffer, k)
    BY <1>12, <2>1
  <2>3. Cardinality(After(buffer', k)) = Cardinality(After(buffer, k))
    BY <1>12, <2>1
  <2>4. FilesIn(buffer, k) + 1 # next + 1
    <3>1. FilesIn(buffer, k) \in Nat
      BY <1>11, IndicesFinite DEF FilesIn, Indices
    <3> QED
      BY <1>2, <1>19, <3>1
  <2> QED
    BY <2>2, <2>3, <2>4 DEF FolderIn
<1>14. LinkInv'
  <2>2. Left = 0
    BY <1>18
  <2>3. \A k \in Named(buffer) :
            /\ FilesIn(buffer, k) + 1 <= next /\ FilesIn(buffer, k) + 1 <= Len(order)
            /\ FolderIn(buffer, Homes, next, 0, k) \in Made
            /\ written[FolderIn(buffer, Homes, next, 0, k)] = buffer[k].folder
            /\ LinkedUp(buffer, Homes, next, 0, k)
    BY <1>19
  <2>4. \A d \in Made : \E k \in Named(buffer) : FolderIn(buffer, Homes, next, 0, k) = d
    BY <1>1, <2>2 DEF IInv, LinkInv
  <2>5. \A k \in Named(buffer) : k \in 1 .. Len(buffer)
    BY DEF Named, Indices
  <2>6. \A k \in Named(buffer) :
            FolderIn(buffer', Homes, next + 1, rest, k) = FolderIn(buffer, Homes, next, 0, k)
    BY <1>20
  <2>7. ASSUME NEW k \in Named(buffer)
        PROVE  LinkedUp(buffer', Homes, next + 1, rest, k)
    <3>1. LinkedUp(buffer, Homes, next, 0, k)
      BY <2>3
    <3>2. \A i \in 1 .. Len(buffer) : buffer'[i] = buffer[i]
      BY <1>12
    <3> QED
      BY <1>11, <2>6, <3>1, <3>2, LinkedUpKept
  <2>8. ASSUME NEW k \in Named(buffer')
        PROVE  /\ FilesIn(buffer', k) + 1 <= next' /\ FilesIn(buffer', k) + 1 <= Len(order')
               /\ FolderIn(buffer', Homes', next', rest, k) \in Made'
               /\ written'[FolderIn(buffer', Homes', next', rest, k)] = buffer'[k].folder
               /\ LinkedUp(buffer', Homes', next', rest, k)
    <3>1. k \in Named(buffer) /\ k \in 1 .. Len(buffer)
      BY <1>12, <2>5
    <3>2. FilesIn(buffer, k) \in Nat
      BY <1>11, IndicesFinite DEF FilesIn, Indices
    <3>3. FilesIn(buffer', k) = FilesIn(buffer, k) /\ buffer'[k] = buffer[k]
      BY <1>12, <3>1
    <3> QED
      BY <1>1, <1>2, <1>6, <2>3, <2>6, <2>7, <3>1, <3>2, <3>3
  <2>9. \A d \in Made' : \E k \in Named(buffer') : FolderIn(buffer', Homes', next', rest, k) = d
    BY <1>1, <1>6, <1>12, <2>4, <2>6
  <2> QED
    BY <1>17, <2>8, <2>9 DEF LinkInv
<1>15. SaveInv'
  <2>1. Saving' /\ next' \in 1 .. Len(order') + 1 /\ pc' # "planning"
    BY <1>1, <1>2 DEF Saving
  <2>2. order' \in Seq(1 .. Len(files'))
    BY <1>1, <1>2, <1>4
  <2> QED
    BY <1>1, <2>1, <2>2 DEF IInv, SaveInv, Saving
<1>16. ArchiveInv' /\ ReadInv'
  BY <1>1, <1>10, ArchiveKept, ReadKept DEF IInv
<1>21. FileAdded(e)
  <2>1. /\ buffer'[Len(buffer) + 1] = e
        /\ Indices("file", buffer') = Indices("file", buffer) \cup {Len(buffer) + 1}
        /\ FilesIn(buffer', Len(buffer) + 1) = next - 1
    <3>1. buffer'[Len(buffer) + 1] = e
      BY <1>1, <1>9, <1>11, AppendFacts
    <3>2. Indices("file", buffer') = Indices("file", buffer) \cup {Len(buffer) + 1}
      BY <1>1, <1>9, <1>11, FilesAppended
    <3>3. FilesIn(buffer', Len(buffer) + 1) = next - 1
      BY <1>1, <1>7, <1>9, <1>11, FilesInAppended
    <3> QED
      BY <3>1, <3>2, <3>3
  <2>2. Behind(e) = EndOf(buffer) + EntryBlockSize + File.packed
    BY <1>9 DEF Behind, at
  <2>3. \A k \in Named(buffer) :
            FolderIn(buffer', Homes, next + 1, Left', k) = FolderIn(buffer, Homes, next, Left, k)
    BY <1>17, <1>18, <1>20
  <2> QED
    BY <1>4, <1>5, <1>6, <1>8, <1>11, <1>12, <2>1, <2>2, <2>3 DEF FileAdded
<1> QED
  BY <1>1, <1>4, <1>13, <1>14, <1>15, <1>16, <1>21 DEF IInv

LEMMA DotEntry ==
    ASSUME NEW at \in Nat, NEW folder \in Nat, NEW end \in Nat,
           NEW e, e = Entry("folder", ".", at, 0, folder, end, EmptyData)
    PROVE  /\ e \in EntryType /\ IsFolder(e, ".") /\ e.at = at
           /\ e.folder = folder /\ Behind(e) = at + EntryBlockSize
<1>1. EmptyData \in Data \cup {WrongData} /\ 0 \in Nat
  BY DataAssumption
<1>2. e \in EntryType /\ IsFolder(e, ".") /\ e.at = at /\ e.folder = folder /\ e.packed = 0
  BY <1>1 DEF Entry, EntryType, IsFolder
<1>3. Behind(e) = at + EntryBlockSize + 0
  BY <1>2 DEF Behind
<1> QED
  BY <1>2, <1>3 DEF EntryBlockSize

LEMMA DotDotEntry ==
    ASSUME NEW at \in Nat, NEW folder \in Nat, NEW end \in Nat,
           NEW e, e = Entry("folder", "..", at, 0, folder, end, EmptyData)
    PROVE  /\ e \in EntryType /\ IsFolder(e, "..") /\ e.at = at
           /\ e.folder = folder /\ Behind(e) = at + EntryBlockSize
<1>1. EmptyData \in Data \cup {WrongData} /\ 0 \in Nat
  BY DataAssumption
<1>2. e \in EntryType /\ IsFolder(e, "..") /\ e.at = at /\ e.folder = folder /\ e.packed = 0
  BY <1>1 DEF Entry, EntryType, IsFolder
<1>3. Behind(e) = at + EntryBlockSize + 0
  BY <1>2 DEF Behind
<1> QED
  BY <1>2, <1>3 DEF EntryBlockSize

\* The first folder that is written is the root.
LEMMA WriteRoot ==
    ASSUME IInv, WriteFolder, Root \notin DOMAIN written
    PROVE  /\ IInv' /\ next' = next /\ next = 1
           /\ Made' = {} /\ Named(buffer') = {} /\ Indices("file", buffer') = {}
<1> DEFINE F == File.folder
           X == Missing(F)
           e == Entry("folder", ".", HeaderSize, 0, HeaderSize, HeaderSize + EntryBlockSize,
                      EmptyData)
<1>1. /\ pc = "writing" /\ pc' = "writing" /\ next <= Len(order) /\ F # NoFolder
      /\ UNCHANGED <<files, order, next, dirs, header, archive, position, folders, current,
                     opened, saves>>
  BY DEF WriteFolder, openVars
<1>2. /\ buffer = <<>> => written = <<>> /\ next = 1
      /\ buffer # <<>> => Root \in DOMAIN written
      /\ \A d \in Made : Len(d) > 1 => Front(d) \in Made
  BY <1>1 DEF IInv, WriteInv
<1>3. buffer = <<>> /\ written = <<>> /\ next = 1 /\ Made = {}
  BY <1>2 DEF Made
<1>4. \A a \in Ancestry(F) : IsHome(a) /\ a # Root
  BY <1>1, Writing
<1>5. Outermost(X) = Root
  <2>1. X = {d \in Ancestry(F) \cup {Root} : d \notin DOMAIN written}
    BY DEF Missing
  <2>2. Root \in X /\ \A d \in X : d # Root => d \in Ancestry(F)
    BY <2>1
  <2>3. Depth(Root) = 0
    BY DEF Depth
  <2>4. ASSUME NEW d \in X, d # Root PROVE Depth(d) >= 1 /\ Depth(d) \in Nat
    <3>1. d \in Seq(Parts)
      BY <1>4, <2>2, <2>4 DEF IsHome
    <3>2. d # <<>> => Len(d) \in Nat /\ Len(d) >= 1
      BY <3>1
    <3> QED
      BY <2>4, <3>2 DEF Depth
  <2> HIDE DEF X, F
  <2>5. \A d \in X : Depth(Root) <= Depth(d)
    BY <2>3, <2>4
  <2>6. \A d \in X : (\A x \in X : Depth(d) <= Depth(x)) => d = Root
    BY <2>2, <2>3, <2>4
  <2> QED
    BY <2>2, <2>5, <2>6 DEF Outermost
<1>6. EndOf(buffer) = HeaderSize
  BY <1>3 DEF EndOf
<1>7. buffer' = <<>> \o <<e>> /\ written' = Written(Root, HeaderSize)
  BY <1>3, <1>5, <1>6 DEF WriteFolder, RootEntry
<1>8. buffer' = <<e>> /\ written' = [d \in {Root} |-> HeaderSize]
  <2>1. DOMAIN written = {}
    BY <1>3
  <2> QED
    BY <1>7, <2>1 DEF Written
<1>9. /\ e \in EntryType /\ IsFolder(e, ".") /\ e.folder = e.at /\ e.at = HeaderSize
      /\ Behind(e) = HeaderSize + EntryBlockSize
  <2>1. HeaderSize \in Nat /\ HeaderSize + EntryBlockSize \in Nat
    BY DEF HeaderSize, EntryBlockSize
  <2>2. e = Entry("folder", ".", HeaderSize, 0, HeaderSize, HeaderSize + EntryBlockSize, EmptyData)
    OBVIOUS
  <2> HIDE DEF e
  <2> QED
    BY <2>1, <2>2, DotEntry
<1> HIDE DEF F, X, e
<1>10. EntriesOK(buffer')
  BY <1>8, <1>9, RootEntryOK
<1>11. /\ Named(buffer') = {} /\ Indices("file", buffer') = {} /\ Cardinality({}) = 0
       /\ Made' = {} /\ buffer' # <<>> /\ EndOf(buffer') = HeaderSize + EntryBlockSize
  <2>1. Len(buffer') = 1 /\ buffer'[1] = e /\ buffer' # <<>>
    BY <1>8
  <2>2. Named(buffer') = {} /\ Indices("file", buffer') = {}
    BY <1>9, <2>1 DEF Named, Indices, IsFolder
  <2>3. EndOf(buffer') = HeaderSize + EntryBlockSize
    BY <1>9, <2>1 DEF EndOf, Last
  <2> QED
    BY <1>8, <2>1, <2>2, <2>3, FS_EmptySet DEF Made
<1>12. Homes' = Homes
  BY <1>1 DEF Homes
<1>13. WriteInv'
  <2>1. PICK w : Weighs(w, Len(order)) /\ Planned(Len(order), w)
    BY <1>1 DEF IInv, WriteInv
  <2>2. Weighs(w, Len(order))' /\ Planned(Len(order), w)'
    BY <1>1, <1>12, <2>1 DEF Weighs, Planned, AllHome
  <2>3. w[next' - 1] = 0 /\ next' = 1
    BY <1>1, <1>3, <2>1 DEF Weighs
  <2>4. EndOf(buffer') = HeaderSize + EntryBlockSize
                           + 3 * EntryBlockSize * Cardinality(Made') + w[next' - 1]
    <3>1. Cardinality(Made') = 0
      BY <1>11
    <3> QED
      BY <1>11, <2>3, <3>1 DEF HeaderSize, EntryBlockSize
  <2>5. Cardinality(Indices("file", buffer')) = next' - 1
    <3>1. Indices("file", buffer') = {}
      BY <1>11
    <3>2. next' - 1 = 0
      BY <2>3
    <3> QED
      BY <3>1, <3>2, FS_EmptySet
  <2>6. Cardinality(Named(buffer')) = Cardinality(Made')
    BY <1>11
  <2>7. \A j \in 1 .. next' - 1 : Homes'[j] # NoFolder /\ Ancestry(Homes'[j]) \subseteq Made'
    BY <2>3
  <2>8. Root \in DOMAIN written' /\ \A d \in DOMAIN written' : written'[d] = HeaderSize
    BY <1>8
  <2>9. \A d \in DOMAIN written' : written'[d] \in Nat
    BY <2>8 DEF HeaderSize
  <2> QED
    BY <1>11, <2>2, <2>4, <2>5, <2>6, <2>7, <2>8, <2>9 DEF WriteInv
<1>14. LinkInv'
  BY <1>11 DEF LinkInv
<1>15. SaveInv'
  BY <1>1 DEF IInv, SaveInv, Saving
<1>16. ArchiveInv' /\ ReadInv'
  BY <1>1, <1>10, ArchiveKept, ReadKept DEF IInv
<1>17. FilesOK'
  BY <1>1 DEF IInv, FilesOK
<1> QED
  BY <1>1, <1>3, <1>11, <1>13, <1>14, <1>15, <1>16, <1>17 DEF IInv

\* The name of a folder.
NameOf(dir) == IF dir = <<>> THEN NoName ELSE Last(dir)

\* The three entries of a folder.
Three(dir, at, a, b, c) ==
    /\ FolderEntries(dir, at) = <<a, b, c>>
    /\ a.type = "folder" /\ a.name \in Parts /\ a.name = NameOf(dir) /\ IsFolder(b, ".") /\ IsFolder(c, "..")
    /\ a.at = at /\ b.at = at + 145 /\ c.at = at + 290
    /\ Behind(a) = at + 145 /\ Behind(b) = at + 290 /\ Behind(c) = at + 435
    /\ a.folder = at + 145 /\ b.folder = at + 145 /\ c.folder = ParentOffset(dir)
    /\ a.end = IF a.name = "DATA" THEN 0 ELSE at + 435 + EntrySize(dir)
    /\ EntrySize(dir) \in Nat

LEMMA FolderEntriesAre ==
    ASSUME NEW dir, IsHome(dir), NEW at, at \in Nat, ParentOffset(dir) \in Nat,
           IsFiniteSet(dirs), FilesOK
    PROVE  \E a, b, c \in EntryType : Three(dir, at, a, b, c)
<1> DEFINE name == IF dir = <<>> THEN NoName ELSE Last(dir)
           dot == at + EntryBlockSize
           dotdot == dot + EntryBlockSize
           size == EntrySize(dir)
           end == IF name = "DATA" THEN 0 ELSE dotdot + EntryBlockSize + size
           after == dotdot + EntryBlockSize
           up == ParentOffset(dir)
           a == Entry("folder", name, at, 0, dot, end, EmptyData)
           b == Entry("folder", ".", dot, 0, dot, dotdot, EmptyData)
           c == Entry("folder", "..", dotdot, 0, up, after, EmptyData)
<1>1. FolderEntries(dir, at) = <<a, b, c>>
  BY DEF FolderEntries
<1>2. name \in Parts
  <2>1. dir \in Seq(Parts) /\ NoName \in Parts
    BY PartsAssumption DEF IsHome
  <2> QED
    BY <2>1 DEF Last
<1>3. size \in Nat
  <2> DEFINE below == Subfolders(dir)
             held == {i \in 1 .. Len(files) : files[i].folder \in below \cup {dir}}
             sum == Weight(files, held)
  <2>1. Cardinality(below) \in Nat
    <3>1. below \subseteq dirs
      BY DEF Subfolders
    <3> QED
      BY <3>1, FS_Subset, FS_CardinalityType
  <2>2. sum \in Nat
    <3>1. IsFiniteSet(held)
      <4>1. held \subseteq 1 .. Len(files) /\ files \in Seq(FileType)
        BY DEF FilesOK
      <4> HIDE DEF held
      <4> QED
        BY <4>1, IndicesFinite
    <3>2. ASSUME NEW i \in held PROVE files[i].packed \in Nat
      <4>1. i \in 1 .. Len(files) /\ files \in Seq(FileType)
        BY DEF FilesOK
      <4>2. files[i] \in FileType
        BY <4>1
      <4> HIDE DEF held
      <4> QED
        BY <4>2 DEF FileType
    <3> HIDE DEF held
    <3> QED
      BY <3>1, <3>2, WeightFacts
  <2>3. size = 3 * EntryBlockSize * Cardinality(below) + sum
    BY DEF EntrySize, Weight
  <2> HIDE DEF size, below, sum
  <2> QED
    BY <2>1, <2>2, <2>3 DEF EntryBlockSize
<1>13. name = NameOf(dir)
  BY DEF NameOf
<1> HIDE DEF size, name, up
<1>4. dot = at + 145 /\ dotdot = at + 290 /\ after = at + 435 /\ end \in Nat
  BY <1>3 DEF EntryBlockSize
<1>5. up \in Nat /\ up = ParentOffset(dir)
  BY DEF up
<1>6. dot \in Nat /\ dotdot \in Nat /\ after \in Nat
  BY <1>4
<1>7. /\ a \in EntryType /\ a.type = "folder" /\ a.name = name /\ a.at = at
      /\ a.folder = dot /\ a.end = end /\ Behind(a) = at + EntryBlockSize
  <2>1. a = Entry("folder", name, at, 0, dot, end, EmptyData)
    OBVIOUS
  <2> HIDE DEF a, b, c, dot, dotdot, after, end, up
  <2> QED
    BY <1>2, <1>4, <1>6, <2>1, FolderEntry
<1>8. /\ b \in EntryType /\ IsFolder(b, ".") /\ b.at = dot
      /\ b.folder = dot /\ Behind(b) = dot + EntryBlockSize
  <2>1. b = Entry("folder", ".", dot, 0, dot, dotdot, EmptyData)
    OBVIOUS
  <2> HIDE DEF a, b, c, dot, dotdot, after, end, up
  <2> QED
    BY <1>6, <2>1, DotEntry
<1>9. /\ c \in EntryType /\ IsFolder(c, "..") /\ c.at = dotdot
      /\ c.folder = up /\ Behind(c) = dotdot + EntryBlockSize
  <2>1. c = Entry("folder", "..", dotdot, 0, up, after, EmptyData)
    OBVIOUS
  <2> HIDE DEF a, b, c, dot, dotdot, after, end, up
  <2> QED
    BY <1>5, <1>6, <2>1, DotDotEntry
<1>12. a.end = (IF a.name = "DATA" THEN 0 ELSE at + 435 + EntrySize(dir))
  <2>1. end = IF name = "DATA" THEN 0 ELSE dotdot + EntryBlockSize + size
    OBVIOUS
  <2>2. size = EntrySize(dir) /\ dotdot + EntryBlockSize = at + 435
    BY <1>4 DEF size
  <2> HIDE DEF a, dotdot, end
  <2> QED
    BY <1>7, <2>1, <2>2
<1> HIDE DEF a, b, c, dot, dotdot, after, up
<1>10. /\ a.at = at /\ b.at = at + 145 /\ c.at = at + 290
       /\ Behind(a) = at + 145 /\ Behind(b) = at + 290 /\ Behind(c) = at + 435
       /\ a.folder = at + 145 /\ b.folder = at + 145 /\ c.folder = ParentOffset(dir)
       /\ a.name \in Parts /\ a.name = NameOf(dir)
  BY <1>2, <1>4, <1>5, <1>7, <1>8, <1>9, <1>13 DEF EntryBlockSize
<1> USE <1>7, <1>8, <1>9
<1>11. FolderEntries(dir, at) = <<a, b, c>>
  BY <1>1
<1> WITNESS a \in EntryType, b \in EntryType, c \in EntryType
<1> QED
  BY <1>3, <1>10, <1>11, <1>12 DEF Three, size

\* What WriteFolder does to the entries when it writes this folder.
FolderAdded(dir, a) ==
    LET n == Len(buffer)
    IN  /\ dir \in Ancestry(File.folder) /\ dir \notin Made /\ Made' = Made \cup {dir}
        /\ \A x \in Ancestry(File.folder) \ Made : Len(dir) <= Len(x)
        /\ n \in Nat /\ buffer'[n + 1] = a /\ buffer # <<>>
        /\ Named(buffer') = Named(buffer) \cup {n + 1}
        /\ Indices("file", buffer') = Indices("file", buffer)
        /\ \A k \in 1 .. n : buffer'[k] = buffer[k] /\ FilesIn(buffer', k) = FilesIn(buffer, k)
        /\ FilesIn(buffer', n + 1) = next - 1
        /\ FolderIn(buffer', Homes, next, Left', n + 1) = dir
        /\ \A k \in Named(buffer) :
              FolderIn(buffer', Homes, next, Left', k) = FolderIn(buffer, Homes, next, Left, k)
        /\ a.at = EndOf(buffer) /\ a.name = NameOf(dir)
        /\ a.end = IF a.name = "DATA" THEN 0 ELSE EndOf(buffer) + 435 + EntrySize(dir)

\* A folder is written below one that was written before.
LEMMA WriteNamed ==
    ASSUME IInv, WriteFolder, Root \in DOMAIN written
    PROVE  IInv' /\ \E dir, a : FolderAdded(dir, a)
<1> DEFINE F == File.folder
           X == Missing(F)
           n == Len(buffer)
<1>1. /\ pc = "writing" /\ pc' = "writing" /\ next <= Len(order) /\ F # NoFolder
      /\ Missing(F) # {}
      /\ UNCHANGED <<files, order, next, dirs, header, archive, position, folders, current,
                     opened, saves>>
  BY DEF WriteFolder, openVars
<1>2. /\ next \in 1 .. Len(order) /\ Len(order) \in Nat /\ Homes[next] = F
      /\ IsHome(F) /\ Ancestry(F) \subseteq dirs
      /\ \A a \in Ancestry(F) : IsHome(a) /\ a # Root
      /\ IsFiniteSet(dirs) /\ IsFiniteSet(Made) /\ Cardinality(Made) \in Nat
      /\ \A d \in Made : IsHome(d)
      /\ EntriesOK(buffer) /\ EndOf(buffer) \in Nat
  BY <1>1, Writing
<1>3. /\ \A j \in 1 .. next - 1 : Homes[j] # NoFolder /\ Ancestry(Homes[j]) \subseteq Made
      /\ Made \subseteq dirs
      /\ buffer = <<>> => written = <<>>
      /\ buffer # <<>> => written[Root] = HeaderSize
      /\ \A d \in Made : Len(d) > 1 => Front(d) \in Made
      /\ \A d \in DOMAIN written : written[d] \in Nat
      /\ Cardinality(Indices("file", buffer)) = next - 1
      /\ Cardinality(Named(buffer)) = Cardinality(Made)
  BY <1>1 DEF IInv, WriteInv
<1>4. X = Ancestry(F) \ Made
  BY <1>2 DEF Missing, Made
<1>5. PICK m, dir : /\ m = Cardinality(X) /\ m \in Nat /\ m > 0
                    /\ dir = Upper(F, Len(F) - m + 1) /\ dir \in X /\ Outermost(X) = dir
                    /\ Len(dir) > 1 => Front(dir) \in Made
                    /\ \A x \in X : Len(dir) <= Len(x)
  <2> HIDE DEF X, F
  <2> QED
    BY <1>1, <1>2, <1>3, <1>4, MissingShape DEF X
<1>6. /\ dir \in Ancestry(F) /\ dir \notin Made /\ IsHome(dir) /\ dir # Root
      /\ dir \notin DOMAIN written /\ dir \in dirs
  BY <1>2, <1>4, <1>5 DEF Made
<1>7. ParentOf(dir) \in DOMAIN written /\ ParentOffset(dir) \in Nat
  BY <1>3, <1>5 DEF ParentOf, ParentOffset, Made
<1>8. buffer # <<>> /\ written[Root] = HeaderSize
  BY <1>3
<1>9. PICK at : at = EndOf(buffer) /\ at \in Nat
  BY <1>2
<1>10. PICK a, b, c \in EntryType : Three(dir, at, a, b, c)
  <2>1. FilesOK
    BY DEF IInv
  <2>2. IsHome(dir) /\ at \in Nat /\ ParentOffset(dir) \in Nat /\ IsFiniteSet(dirs)
    BY <1>2, <1>6, <1>7, <1>9
  <2> QED
    BY <2>1, <2>2, FolderEntriesAre
<1>11. buffer' = buffer \o <<a, b, c>> /\ written' = Written(dir, at + EntryBlockSize)
  <2>1. /\ buffer' = buffer \o FolderEntries(dir, at)
        /\ written' = Written(dir, at + EntryBlockSize)
    BY <1>5, <1>6, <1>9 DEF WriteFolder
  <2> QED
    BY <1>10, <2>1 DEF Three
<1>12. /\ DOMAIN written' = DOMAIN written \cup {dir}
       /\ written'[dir] = at + 145
       /\ \A d \in DOMAIN written : written'[d] = written[d]
  BY <1>6, <1>11 DEF Written, EntryBlockSize
<1>13. Made' = Made \cup {dir} /\ Cardinality(Made') = Cardinality(Made) + 1
  <2>1. Made' = Made \cup {dir}
    BY <1>6, <1>12 DEF Made
  <2> QED
    BY <1>2, <1>6, <2>1, FS_AddElement
<1> HIDE DEF F, X, n
<1>14. IsNamed(a) /\ ~ IsNamed(b) /\ ~ IsNamed(c) /\ b.type = "folder" /\ c.type = "folder"
  BY <1>10, PartsAssumption DEF IsNamed, IsFolder, Three
<1>15. /\ buffer \in Seq(EntryType) /\ Shaped(buffer) /\ Contiguous(buffer)
  BY <1>2 DEF EntriesOK
<1>16. /\ n \in Nat /\ Len(buffer') = n + 3
       /\ \A k \in 1 .. n : buffer'[k] = buffer[k]
       /\ buffer'[n + 1] = a /\ buffer'[n + 2] = b /\ buffer'[n + 3] = c
       /\ EndOf(buffer') = Behind(c)
       /\ Named(buffer') = Named(buffer) \cup {n + 1}
       /\ Cardinality(Named(buffer')) = Cardinality(Named(buffer)) + 1
       /\ Cardinality(Indices("file", buffer')) = Cardinality(Indices("file", buffer))
       /\ \A k \in 1 .. n : FilesIn(buffer', k) = FilesIn(buffer, k)
       /\ FilesIn(buffer', n + 1) = Cardinality(Indices("file", buffer))
       /\ \A k \in 1 .. n :
            /\ Cardinality(After(buffer, k)) \in Nat
            /\ Cardinality(After(buffer', k)) = Cardinality(After(buffer, k)) +
                 (IF FilesIn(buffer, k) = Cardinality(Indices("file", buffer)) THEN 1 ELSE 0)
       /\ Cardinality(After(buffer', n + 1)) = 0
  <2> DEFINE t == buffer \o <<a, b, c>>
  <2>1. t = buffer'
    BY <1>11
  <2>2. /\ n \in Nat /\ Len(t) = n + 3
        /\ \A k \in 1 .. n : t[k] = buffer[k]
        /\ t[n + 1] = a /\ t[n + 2] = b /\ t[n + 3] = c
        /\ EndOf(t) = Behind(c)
        /\ Named(t) = Named(buffer) \cup {n + 1}
        /\ Cardinality(Named(t)) = Cardinality(Named(buffer)) + 1
        /\ Cardinality(Indices("file", t)) = Cardinality(Indices("file", buffer))
        /\ \A k \in 1 .. n : FilesIn(t, k) = FilesIn(buffer, k)
        /\ FilesIn(t, n + 1) = Cardinality(Indices("file", buffer))
        /\ \A k \in 1 .. n :
             /\ Cardinality(After(buffer, k)) \in Nat
             /\ Cardinality(After(t, k)) = Cardinality(After(buffer, k)) +
                  (IF FilesIn(buffer, k) = Cardinality(Indices("file", buffer)) THEN 1 ELSE 0)
        /\ Cardinality(After(t, n + 1)) = 0
    BY <1>14, <1>15, FolderAppended DEF n
  <2> HIDE DEF t
  <2> QED
    BY <2>1, <2>2
<1>17. EntriesOK(buffer')
  BY <1>2, <1>8, <1>9, <1>10, <1>11, <1>14, FolderEntriesOK DEF Three
<1>18. Homes' = Homes
  BY <1>1 DEF Homes
<1>19. Left = m /\ Left' = m - 1
  <2>1. Left = m
    BY <1>1, <1>5 DEF Left, X, F
  <2>2. Missing(F)' = X \ {dir}
    <3>1. F' = F
      BY <1>1 DEF F, File
    <3>2. Missing(F)' = {d \in Ancestry(F) \cup {Root} : d \notin DOMAIN written'}
      BY <3>1 DEF Missing
    <3>3. X = {d \in Ancestry(F) \cup {Root} : d \notin DOMAIN written}
      BY DEF X, Missing
    <3> QED
      BY <1>12, <3>2, <3>3
  <2>3. IsFiniteSet(X)
    BY <1>2, <1>4, FS_Subset
  <2>4. Cardinality(X \ {dir}) = m - 1
    BY <1>5, <2>3, FS_RemoveElement
  <2>5. F' = F
    BY <1>1 DEF F, File
  <2> QED
    BY <1>1, <2>1, <2>2, <2>4, <2>5 DEF Left, F
<1>20. SaveInv'
  BY <1>1 DEF IInv, SaveInv, Saving
<1>21. ArchiveInv' /\ ReadInv'
  BY <1>1, <1>17, ArchiveKept, ReadKept DEF IInv
<1>22. FilesOK'
  BY <1>1 DEF IInv, FilesOK
<1>23. WriteInv'
  <2>1. PICK w : /\ Weighs(w, Len(order)) /\ Planned(Len(order), w)
                 /\ EndOf(buffer) = HeaderSize + EntryBlockSize
                                     + 3 * EntryBlockSize * Cardinality(Made) + w[next - 1]
    BY <1>1, <1>8 DEF IInv, WriteInv
  <2>2. Weighs(w, Len(order))' /\ Planned(Len(order), w)'
    BY <1>1, <1>18, <2>1 DEF Weighs, Planned, AllHome
  <2>3. EndOf(buffer') = HeaderSize + EntryBlockSize
                           + 3 * EntryBlockSize * Cardinality(Made') + w[next' - 1]
    <3> DEFINE x == Cardinality(Made)
               y == w[next - 1]
    <3>1. x \in Nat /\ y \in Nat /\ Cardinality(Made') = x + 1 /\ w[next' - 1] = y
      <4>1. next - 1 \in 0 .. Len(order)
        BY <1>2
      <4> QED
        BY <1>1, <1>2, <1>13, <2>1, <4>1 DEF Weighs
    <3>2. at = 24 + 145 + 435 * x + y
      BY <1>9, <2>1 DEF HeaderSize, EntryBlockSize
    <3>3. EndOf(buffer') = at + 435
      BY <1>10, <1>16 DEF Three
    <3> HIDE DEF x, y
    <3>4. EndOf(buffer') = 24 + 145 + 435 * (x + 1) + y
      BY <1>9, <3>1, <3>2, <3>3
    <3> QED
      BY <3>1, <3>4 DEF HeaderSize, EntryBlockSize
  <2>4. /\ Made' \subseteq dirs' /\ Root \in DOMAIN written' /\ written'[Root] = HeaderSize
        /\ buffer' # <<>>
    <3>1. buffer' # <<>>
      BY <1>16
    <3> QED
      BY <1>1, <1>3, <1>6, <1>8, <1>12, <1>13, <3>1
  <2>5. \A d \in Made' : Len(d) > 1 => Front(d) \in Made'
    BY <1>3, <1>5, <1>13
  <2>6. \A d \in DOMAIN written' : written'[d] \in Nat
    <3>1. at + 145 \in Nat
      BY <1>9
    <3> QED
      BY <1>3, <1>12, <3>1
  <2>7. /\ Cardinality(Indices("file", buffer')) = next' - 1
        /\ Cardinality(Named(buffer')) = Cardinality(Made')
    BY <1>1, <1>3, <1>13, <1>16
  <2>8. \A j \in 1 .. next' - 1 : Homes'[j] # NoFolder /\ Ancestry(Homes'[j]) \subseteq Made'
    BY <1>1, <1>3, <1>13, <1>18
  <2>9. \E v : /\ Weighs(v, Len(order))' /\ Planned(Len(order), v)'
               /\ buffer' # <<>> =>
                    EndOf(buffer') = HeaderSize + EntryBlockSize
                                       + 3 * EntryBlockSize * Cardinality(Made') + v[next' - 1]
    BY <2>2, <2>3
  <2> QED
    BY <2>4, <2>5, <2>6, <2>7, <2>8, <2>9 DEF WriteInv
<1> DEFINE t == buffer'
           rest == m - 1
<1>25. rest \in Nat /\ Len(F) \in Nat
  BY <1>2, <1>5 DEF IsHome
<1>26. ASSUME NEW k \in Named(buffer)
       PROVE  FolderIn(t, Homes, next, rest, k) = FolderIn(buffer, Homes, next, m, k)
  <2> DEFINE i == FilesIn(buffer, k) + 1
             x == Cardinality(After(buffer, k))
             y == Cardinality(After(t, k))
  <2>1. k \in 1 .. n
    BY DEF Named, Indices, n
  <2>2. FilesIn(t, k) + 1 = i
    BY <1>16, <2>1
  <2>3. FilesIn(buffer, k) \in Nat
    BY <1>15, IndicesFinite DEF FilesIn, Indices
  <2>4. FilesIn(buffer, k) = Cardinality(Indices("file", buffer)) <=> i = next
    BY <1>2, <1>3, <2>3
  <2>5. x \in Nat /\ y = x + (IF i = next THEN 1 ELSE 0)
    BY <1>16, <2>1, <2>4
  <2>6. /\ FolderIn(t, Homes, next, rest, k) =
              SubSeq(Homes[i], 1, Len(Homes[i]) - y - (IF i = next THEN rest ELSE 0))
        /\ FolderIn(buffer, Homes, next, m, k) =
              SubSeq(Homes[i], 1, Len(Homes[i]) - x - (IF i = next THEN m ELSE 0))
    BY <2>2 DEF FolderIn
  <2> HIDE DEF i, x, y, t
  <2>7. CASE i = next
    <3>1. Homes[i] = F /\ y = x + 1
      BY <1>2, <2>5, <2>7
    <3>2. Len(F) - y - rest = Len(F) - x - m
      BY <1>5, <1>25, <2>5, <3>1
    <3> QED
      BY <2>6, <2>7, <3>1, <3>2
  <2>8. CASE i # next
    <3>1. y = x
      BY <2>5, <2>8
    <3> QED
      BY <2>6, <2>8, <3>1
  <2> QED
    BY <2>7, <2>8
<1>27. FolderIn(t, Homes, next, rest, n + 1) = dir
  <2>1. FilesIn(t, n + 1) + 1 = next /\ Cardinality(After(t, n + 1)) = 0
    BY <1>2, <1>3, <1>16
  <2>2. FolderIn(t, Homes, next, rest, n + 1) = SubSeq(F, 1, Len(F) - 0 - rest)
    BY <1>2, <2>1 DEF FolderIn
  <2>3. Len(F) - 0 - rest = Len(F) - m + 1
    BY <1>5, <1>25
  <2> QED
    BY <1>5, <2>2, <2>3 DEF Upper
<1>24. LinkInv'
  <2>1. /\ \A k \in Named(buffer) :
            /\ FilesIn(buffer, k) + 1 <= next /\ FilesIn(buffer, k) + 1 <= Len(order)
            /\ FolderIn(buffer, Homes, next, m, k) \in Made
            /\ written[FolderIn(buffer, Homes, next, m, k)] = buffer[k].folder
            /\ LinkedUp(buffer, Homes, next, m, k)
        /\ \A d \in Made : \E k \in Named(buffer) : FolderIn(buffer, Homes, next, m, k) = d
    BY <1>1, <1>19 DEF IInv, LinkInv
  <2>2. \A k \in Named(buffer) : k \in 1 .. n
    BY DEF Named, Indices, n
  <2>4. \A k \in Named(buffer) :
            FolderIn(t, Homes, next, rest, k) = FolderIn(buffer, Homes, next, m, k)
    BY <1>26
  <2>5. FolderIn(t, Homes, next, rest, n + 1) = dir
    BY <1>27
  <2>6. \A k \in 1 .. Len(buffer) : t[k] = buffer[k]
    BY <1>16 DEF n
  <2> HIDE DEF t, rest
  <2>7. ASSUME NEW k \in Named(buffer) PROVE LinkedUp(t, Homes, next, rest, k)
    <3>1. LinkedUp(buffer, Homes, next, m, k)
      BY <2>1
    <3> QED
      BY <1>15, <2>4, <2>6, <3>1, LinkedUpKept
  <2>8. LinkedUp(t, Homes, next, rest, n + 1)
    <3>1. t[(n + 1) + 2].folder = ParentOffset(dir)
      <4>1. (n + 1) + 2 = n + 3
        BY <1>16
      <4> QED
        BY <1>10, <1>16, <4>1 DEF Three, t
    <3>2. CASE Len(dir) > 1
      <4>1. ParentOffset(dir) = written[Front(dir)] /\ Front(dir) \in Made
        BY <1>5, <3>2 DEF ParentOffset, ParentOf
      <4>2. PICK k \in Named(buffer) : FolderIn(buffer, Homes, next, m, k) = Front(dir)
        BY <2>1, <4>1
      <4>3. written[Front(dir)] = buffer[k].folder
        BY <2>1, <4>2
      <4>4. /\ k + 1 \in 1 .. n /\ k + 1 # 1 /\ (k + 1) - 1 = k
            /\ IsFolder(buffer[k + 1], ".") /\ buffer[k + 1].at = buffer[k].folder
        <5>1. k \in 1 .. n /\ k + 2 \in 1 .. n
          BY <1>15, <2>2 DEF Shaped, n
        <5> QED
          BY <1>15, <1>16, <5>1 DEF Shaped
      <4>5. /\ k + 1 \in 1 .. (n + 1) - 1 /\ t[k + 1] = buffer[k + 1]
        BY <1>16, <2>6, <4>4 DEF n
      <4>6. FolderIn(t, Homes, next, rest, (k + 1) - 1) = Front(dir)
        BY <2>4, <4>2, <4>4
      <4> QED
        BY <2>5, <3>1, <4>1, <4>3, <4>4, <4>5, <4>6 DEF LinkedUp
    <3>3. CASE ~ (Len(dir) > 1)
      <4>1. ParentOffset(dir) = HeaderSize
        BY <1>8, <3>3 DEF ParentOffset, ParentOf
      <4>2. /\ 1 \in 1 .. n /\ IsFolder(buffer[1], ".") /\ buffer[1].at = HeaderSize
        <5>1. 1 \in 1 .. n
          BY <1>8, <1>15, <1>16 DEF n
        <5> QED
          BY <1>8, <1>15, <5>1 DEF Shaped, Contiguous, n
      <4>3. 1 \in 1 .. (n + 1) - 1 /\ t[1] = buffer[1]
        BY <1>16, <2>6, <4>2 DEF n
      <4>4. Len(dir) <= 1
        <5>1. Len(dir) \in Nat
          BY <1>6 DEF IsHome
        <5> QED
          BY <3>3, <5>1
      <4> QED
        BY <2>5, <3>1, <4>1, <4>2, <4>3, <4>4 DEF LinkedUp
    <3> QED
      BY <3>2, <3>3
  <2>9. ASSUME NEW k \in Named(t)
        PROVE  /\ FilesIn(t, k) + 1 <= next /\ FilesIn(t, k) + 1 <= Len(order)
               /\ FolderIn(t, Homes, next, rest, k) \in Made'
               /\ written'[FolderIn(t, Homes, next, rest, k)] = t[k].folder
               /\ LinkedUp(t, Homes, next, rest, k)
    <3>1. CASE k \in Named(buffer)
      <4>1. k \in 1 .. n /\ FilesIn(t, k) = FilesIn(buffer, k) /\ t[k] = buffer[k]
        BY <1>16, <2>2, <3>1 DEF t
      <4>2. FolderIn(t, Homes, next, rest, k) = FolderIn(buffer, Homes, next, m, k)
        BY <2>4, <3>1
      <4>3. FolderIn(buffer, Homes, next, m, k) \in DOMAIN written
        BY <2>1, <3>1 DEF Made
      <4> QED
        BY <1>12, <1>13, <2>1, <2>7, <3>1, <4>1, <4>2, <4>3
    <3>2. CASE k = n + 1
      <4>1. FilesIn(t, k) + 1 = next /\ t[k] = a
        BY <1>2, <1>3, <1>16, <3>2 DEF t
      <4>2. written'[dir] = a.folder /\ dir \in Made'
        BY <1>10, <1>12, <1>13 DEF Three
      <4> QED
        BY <1>2, <2>5, <2>8, <3>2, <4>1, <4>2
    <3> QED
      BY <1>16, <3>1, <3>2 DEF t
  <2>10. ASSUME NEW d \in Made'
         PROVE  \E k \in Named(t) : FolderIn(t, Homes, next, rest, k) = d
    <3>1. Named(t) = Named(buffer) \cup {n + 1}
      BY <1>16 DEF t
    <3> QED
      BY <1>13, <2>1, <2>4, <2>5, <3>1
  <2>11. PICK u : u = Left'
    OBVIOUS
  <2>12. u = rest
    BY <1>19, <2>11 DEF rest
  <2> QED
    BY <1>1, <1>18, <2>9, <2>10, <2>11, <2>12 DEF LinkInv, t
<1>28. FolderAdded(dir, a)
  <2>1. Indices("file", buffer') = Indices("file", buffer)
    <3>1. Indices("file", buffer') = {k \in 1 .. n + 3 : buffer'[k].type = "file"}
      BY <1>16 DEF Indices
    <3>2. Indices("file", buffer) = {k \in 1 .. n : buffer[k].type = "file"}
      BY DEF Indices, n
    <3>3. /\ buffer'[n + 1].type # "file" /\ buffer'[n + 2].type # "file"
          /\ buffer'[n + 3].type # "file"
      BY <1>14, <1>16 DEF IsNamed
    <3>4. \A k \in 1 .. n + 3 : k \in 1 .. n \/ k \in {n + 1, n + 2, n + 3}
      BY <1>16
    <3>5. 1 .. n \subseteq 1 .. n + 3
      BY <1>16
    <3> QED
      BY <1>16, <3>1, <3>2, <3>3, <3>4, <3>5
  <2>2. FilesIn(buffer', n + 1) = next - 1
    BY <1>3, <1>16
  <2>3. /\ FolderIn(buffer', Homes, next, Left', n + 1) = dir
        /\ \A k \in Named(buffer) :
              FolderIn(buffer', Homes, next, Left', k) = FolderIn(buffer, Homes, next, Left, k)
    <3>1. PICK u : u = Left'
      OBVIOUS
    <3>2. u = rest /\ Left = m
      BY <1>19, <3>1 DEF rest
    <3> QED
      BY <1>26, <1>27, <3>1, <3>2 DEF t
  <2>4. /\ dir \in Ancestry(File.folder) /\ dir \notin Made
        /\ \A x \in Ancestry(File.folder) \ Made : Len(dir) <= Len(x)
    BY <1>4, <1>5, <1>6 DEF F, X
  <2>5. /\ a.at = EndOf(buffer) /\ a.name = NameOf(dir)
        /\ a.end = IF a.name = "DATA" THEN 0 ELSE EndOf(buffer) + 435 + EntrySize(dir)
    BY <1>9, <1>10 DEF Three
  <2> QED
    BY <1>8, <1>13, <1>16, <2>1, <2>2, <2>3, <2>4, <2>5 DEF FolderAdded, n
<1> QED
  BY <1>1, <1>20, <1>21, <1>22, <1>23, <1>24, <1>28 DEF IInv

LEMMA InvWriteFolder == ASSUME IInv, WriteFolder PROVE IInv'
  BY WriteRoot, WriteNamed

-----------------------------------------------------------------------------
(* The reader                                                              *)

LEMMA AroundEntry ==
    ASSUME NEW s, EntriesOK(s), NEW k \in 1 .. Len(s)
    PROVE  /\ s[k] \in EntryType /\ Len(s) \in Nat
           /\ IsFolder(s[1], ".") /\ s[1].folder = HeaderSize
           /\ \A j \in Named(s) :
                /\ j \in 1 .. Len(s) /\ j > 1 /\ s[j].name \in Parts
                /\ s[j].type = "folder" /\ s[j].name \notin {".", ".."}
                /\ j + 1 \in 1 .. Len(s) /\ s[j].folder = s[j + 1].at
                /\ k = j + 1 => IsFolder(s[k], ".")
                /\ k = j + 2 => IsFolder(s[k], "..")
                /\ s[j].folder > HeaderSize /\ s[j].folder \in Nat
<1>1. s \in Seq(EntryType) /\ Contiguous(s) /\ Shaped(s)
  BY DEF EntriesOK
<1>2. /\ s[k] \in EntryType /\ Len(s) \in Nat /\ 1 \in 1 .. Len(s)
      /\ s[1] \in EntryType /\ s # <<>>
  BY <1>1
<1>3. IsFolder(s[1], ".") /\ s[1].folder = HeaderSize
  BY <1>1, <1>2 DEF Shaped, Contiguous
<1>4. ASSUME NEW j \in Named(s)
      PROVE  /\ j \in 1 .. Len(s) /\ j > 1 /\ s[j].name \in Parts
             /\ s[j].type = "folder" /\ s[j].name \notin {".", ".."}
             /\ j + 1 \in 1 .. Len(s) /\ s[j].folder = s[j + 1].at
             /\ k = j + 1 => IsFolder(s[k], ".")
             /\ k = j + 2 => IsFolder(s[k], "..")
             /\ s[j].folder > HeaderSize /\ s[j].folder \in Nat
  <2>1. /\ j \in 1 .. Len(s) /\ s[j].type = "folder" /\ s[j].name \notin {".", ".."}
    BY DEF Named, Indices
  <2>2. /\ j > 1 /\ j + 2 \in 1 .. Len(s) /\ s[j].name \in Parts
        /\ IsFolder(s[j + 1], ".") /\ s[j + 1].at = s[j].folder /\ IsFolder(s[j + 2], "..")
    BY <1>1 DEF Shaped
  <2>3. j + 1 \in 1 .. Len(s) /\ 1 < j + 1
    BY <1>2, <2>1, <2>2
  <2>4. Behind(s[1]) <= s[j + 1].at
    BY <1>1, <1>2, <2>3, Ascending
  <2>5. Behind(s[1]) \in Nat /\ Behind(s[1]) >= s[1].at + 145 /\ s[1].at = HeaderSize
    BY <1>1, <1>2, EntryFacts DEF Contiguous
  <2>6. s[j + 1].at \in Nat
    BY <1>1, <2>3, EntryFacts
  <2>7. s[j].folder > HeaderSize
    BY <2>2, <2>4, <2>5, <2>6 DEF HeaderSize
  <2> QED
    BY <2>1, <2>2, <2>3, <2>6, <2>7
<1> QED
  BY <1>2, <1>3, <1>4

\* The position says which entry the reader stands at.
LEMMA StandsThere ==
    ASSUME NEW s, EntriesOK(s), NEW k \in 1 .. Len(s), NEW m \in 1 .. Len(s) + 1,
           NEW fs, NEW cur, Standing(s, m, s[k].at, fs, cur)
    PROVE  m = k
<1>1. s \in Seq(EntryType) /\ Contiguous(s) /\ Len(s) \in Nat
  BY DEF EntriesOK
<1>2. \A i \in 1 .. Len(s) : s[i].at \in Nat /\ Behind(s[i]) \in Nat /\ Behind(s[i]) >= s[i].at + 145
  BY <1>1, EntryFacts
<1>3. \A i, j \in 1 .. Len(s) : i < j => Behind(s[i]) <= s[j].at
  BY <1>1, Ascending
<1>4. s[k].at = IF m = 1 THEN HeaderSize ELSE Behind(s[m - 1])
  BY DEF Standing
<1>5. CASE m < k
  <2>1. m \in 1 .. Len(s)
    BY <1>1, <1>5
  <2>2. s[m].at = s[k].at
    BY <1>1, <1>4, <2>1 DEF Contiguous
  <2>3. Behind(s[m]) <= s[k].at
    BY <1>3, <1>5, <2>1
  <2> QED
    BY <1>2, <2>1, <2>2, <2>3
<1>6. CASE m > k
  <2>1. m - 1 \in 1 .. Len(s) /\ m # 1 /\ k <= m - 1
    BY <1>1, <1>6
  <2>2. s[k].at = Behind(s[m - 1])
    BY <1>4, <2>1
  <2>3. CASE k = m - 1
    BY <1>2, <2>1, <2>2, <2>3
  <2>4. CASE k # m - 1
    <3>1. Behind(s[k]) <= s[m - 1].at
      BY <1>3, <2>1, <2>4
    <3>2. /\ s[k].at \in Nat /\ Behind(s[k]) \in Nat /\ Behind(s[k]) > s[k].at
          /\ s[m - 1].at \in Nat /\ Behind(s[m - 1]) \in Nat /\ Behind(s[m - 1]) > s[m - 1].at
      BY <1>2, <2>1
    <3> QED
      BY ONLY <2>2, <3>1, <3>2
  <2> QED
    BY <2>3, <2>4
<1> QED
  BY <1>5, <1>6

LEMMA PlacesNext ==
    ASSUME NEW s, NEW k \in Nat, k > 0
    PROVE  /\ k = 1 \/ k \in Named(s) => Places(s, k + 1) = Places(s, k) \cup {s[k].folder}
           /\ k # 1 /\ k \notin Named(s) => Places(s, k + 1) = Places(s, k)
<1> DEFINE T(m) == {x \in 1 .. m - 1 : x = 1 \/ x \in Named(s)}
<1>1. /\ k = 1 \/ k \in Named(s) => T(k + 1) = T(k) \cup {k}
      /\ k # 1 /\ k \notin Named(s) => T(k + 1) = T(k)
  OBVIOUS
<1>2. \A m : Places(s, m) = {s[j].folder : j \in T(m)}
  BY DEF Places
<1> HIDE DEF T
<1>3. ASSUME k = 1 \/ k \in Named(s)
      PROVE  Places(s, k + 1) = Places(s, k) \cup {s[k].folder}
  <2>1. Places(s, k + 1) = {s[j].folder : j \in T(k) \cup {k}}
    BY <1>1, <1>2, <1>3
  <2> QED
    BY <1>2, <2>1
<1> QED
  BY <1>1, <1>2, <1>3

\* The folders behind which the reader is have their paths, except the one it enters.
LEMMA PathsKnown ==
    ASSUME NEW s, EntriesOK(s), NEW k \in 1 .. Len(s), NEW pos, NEW fs, NEW cur,
           Standing(s, k, pos, fs, cur), ~ IsFolder(s[k], "."), ~ IsFolder(s[k], "..")
    PROVE  \A i \in 1 .. Len(fs) : fs[i].path \in Seq(Parts)
<1>1. \A j \in Named(s) : k # j + 1 /\ k # j + 2
  BY AroundEntry
<1> QED
  BY <1>1 DEF Standing, Entering

LEMMA PastFile ==
    ASSUME NEW s, EntriesOK(s), NEW k \in 1 .. Len(s), NEW pos, NEW fs, NEW cur,
           Standing(s, k, pos, fs, cur), s[k].type = "file", NEW into \in OffsetsIn(fs)
    PROVE  Standing(s, k + 1, Behind(s[k]), fs, into)
<1>1. /\ k # 1 /\ k \notin Named(s) /\ k \in Nat /\ k > 0
      /\ ~ IsFolder(s[k], ".") /\ ~ IsFolder(s[k], "..")
  BY AroundEntry DEF IsFolder
<1>2. \A i \in 1 .. Len(fs) : fs[i].path \in Seq(Parts)
  BY <1>1, PathsKnown
<1>3. Places(s, k + 1) = Places(s, k)
  BY <1>1, PlacesNext
<1>4. \A j \in Named(s) : k + 1 \notin {j + 1, j + 2}
  <2>1. \A j \in Named(s) : j \in Nat /\ k # j + 1 /\ k # j
    BY <1>1, AroundEntry
  <2> QED
    BY <1>1, <2>1
<1>5. k + 1 # 1 /\ (k + 1) - 1 = k
  BY <1>1
<1> QED
  BY <1>2, <1>3, <1>4, <1>5 DEF Standing

\* The folder that is entered gets its path later.
LEMMA PastFolder ==
    ASSUME NEW s, EntriesOK(s), NEW k \in Named(s), NEW pos, NEW fs, NEW cur,
           Standing(s, k, pos, fs, cur),
           NEW e \in FolderType, e.at = s[k].folder, e.name = s[k].name,
           NEW gs, gs = IF \E i \in 1 .. Len(fs) : fs[i].at = s[k].folder THEN fs
                        ELSE Append(fs, e)
    PROVE  Standing(s, k + 1, Behind(s[k]), gs, s[k].folder)
<1>1. /\ k \in 1 .. Len(s) /\ k # 1 /\ k \in Nat /\ k > 0
      /\ ~ IsFolder(s[k], ".") /\ ~ IsFolder(s[k], "..") /\ s[k].name \in Parts
  <2>1. k \in 1 .. Len(s)
    BY DEF Named, Indices
  <2> QED
    BY <2>1, AroundEntry DEF IsFolder
<1>2. \A i \in 1 .. Len(fs) : fs[i].path \in Seq(Parts)
  BY <1>1, PathsKnown
<1>3. Places(s, k + 1) = Places(s, k) \cup {s[k].folder}
  BY <1>1, PlacesNext
<1>4. \A j \in Named(s) : k + 1 \in {j + 1, j + 2} => j = k
  <2> SUFFICES ASSUME NEW j \in Named(s), k + 1 \in {j + 1, j + 2} PROVE j = k
    OBVIOUS
  <2>1. j \in Nat /\ k # j + 1
    BY <1>1, AroundEntry DEF IsFolder
  <2> QED
    BY <1>1, <2>1
<1>5. k + 1 # 1 /\ (k + 1) - 1 = k /\ k + 1 > 1 /\ Entering(s, k + 1, s[k].folder)
  BY <1>1 DEF Entering
<1>6. /\ fs \in Seq(FolderType) /\ OffsetsIn(fs) = Places(s, k)
      /\ \A i, j \in 1 .. Len(fs) : fs[i].at = fs[j].at => i = j
      /\ \A i \in 1 .. Len(fs) : fs[i].name \in Parts \/ fs[i].at = HeaderSize
  BY DEF Standing
<1>7. CASE \E i \in 1 .. Len(fs) : fs[i].at = s[k].folder
  <2>1. gs = fs /\ s[k].folder \in OffsetsIn(fs)
    BY <1>7 DEF OffsetsIn
  <2>2. Places(s, k + 1) = OffsetsIn(gs)
    BY <1>3, <1>6, <2>1
  <2> QED
    BY <1>2, <1>4, <1>5, <1>6, <2>1, <2>2 DEF Standing
<1>8. CASE ~ \E i \in 1 .. Len(fs) : fs[i].at = s[k].folder
  <2>1. /\ gs \in Seq(FolderType) /\ Len(gs) = Len(fs) + 1 /\ Len(fs) \in Nat
        /\ \A i \in 1 .. Len(fs) : gs[i] = fs[i]
        /\ gs[Len(fs) + 1] = e
    BY <1>6, <1>8
  <2>2. \A i \in 1 .. Len(gs) : i # Len(fs) + 1 => i \in 1 .. Len(fs) /\ gs[i] = fs[i]
    BY <2>1
  <2>3. OffsetsIn(gs) = OffsetsIn(fs) \cup {s[k].folder}
    <3>1. \A i \in 1 .. Len(fs) : i \in 1 .. Len(gs)
      BY <2>1
    <3>2. Len(fs) + 1 \in 1 .. Len(gs)
      BY <2>1
    <3> QED
      BY <2>1, <2>2, <3>1, <3>2 DEF OffsetsIn
  <2>4. \A i, j \in 1 .. Len(gs) : gs[i].at = gs[j].at => i = j
    BY <1>6, <1>8, <2>1, <2>2
  <2>5. ASSUME NEW i \in 1 .. Len(gs)
        PROVE  /\ gs[i].path \in Seq(Parts) \/ Entering(s, k + 1, gs[i].at)
               /\ gs[i].name \in Parts \/ gs[i].at = HeaderSize
    <3>1. CASE i = Len(fs) + 1
      BY <1>1, <1>5, <2>1, <3>1
    <3>2. CASE i # Len(fs) + 1
      BY <1>2, <1>6, <2>2, <3>2
    <3> QED
      BY <3>1, <3>2
  <2> QED
    BY <1>3, <1>4, <1>5, <1>6, <2>1, <2>3, <2>4, <2>5 DEF Standing
<1> QED
  BY <1>7, <1>8

\* The root is registered, and the "." of another folder changes nothing.
LEMMA PastRoot ==
    ASSUME NEW s, EntriesOK(s), s # <<>>, NEW pos, NEW fs, NEW cur, Standing(s, 1, pos, fs, cur),
           NEW e \in FolderType, e.at = HeaderSize, e.path = <<>>
    PROVE  Standing(s, 2, Behind(s[1]), Append(fs, e), HeaderSize)
<1>1. Len(s) \in Nat /\ 1 \in 1 .. Len(s) /\ s[1].folder = HeaderSize
  <2>1. s \in Seq(EntryType)
    BY DEF EntriesOK
  <2>2. Len(s) \in Nat /\ 1 \in 1 .. Len(s)
    BY <2>1
  <2> QED
    BY <2>2, AroundEntry
<1>2. Places(s, 1) = {}
  BY DEF Places
<1>3. Places(s, 2) = {HeaderSize}
  <2>1. Places(s, 1 + 1) = Places(s, 1) \cup {s[1].folder}
    BY PlacesNext
  <2> QED
    BY <1>1, <1>2, <2>1
<1>4. fs = <<>>
  <2>1. fs \in Seq(FolderType) /\ OffsetsIn(fs) = {}
    BY <1>2 DEF Standing
  <2>2. Len(fs) = 0
    <3>1. Len(fs) # 0 => 1 \in 1 .. Len(fs)
      BY <2>1
    <3> QED
      BY <2>1, <3>1 DEF OffsetsIn
  <2> QED
    BY <2>1, <2>2
<1>5. /\ Append(fs, e) \in Seq(FolderType) /\ Len(Append(fs, e)) = 1 /\ Append(fs, e)[1] = e
  BY <1>4
<1>6. OffsetsIn(Append(fs, e)) = {HeaderSize}
  BY <1>5 DEF OffsetsIn
<1>7. \A j \in Named(s) : 2 \notin {j + 1, j + 2}
  <2>1. \A j \in Named(s) : j \in Nat /\ j > 1
    BY <1>1, AroundEntry
  <2> QED
    BY <2>1
<1>8. e.path \in Seq(Parts)
  OBVIOUS
<1> QED
  BY <1>3, <1>5, <1>6, <1>7, <1>8 DEF Standing

LEMMA PastDot ==
    ASSUME NEW s, EntriesOK(s), NEW k \in 1 .. Len(s), NEW pos, NEW fs, NEW cur,
           Standing(s, k, pos, fs, cur), IsFolder(s[k], "."), k # 1
    PROVE  Standing(s, k + 1, Behind(s[k]), fs, cur)
<1>1. k - 1 \in Named(s)
  BY DEF EntriesOK, Shaped
<1>2. k \notin Named(s) /\ k - 2 \notin Named(s) /\ k \in Nat /\ k > 1
  <2>1. k \in Nat /\ k > 1 /\ k \notin Named(s)
    BY AroundEntry DEF IsFolder
  <2>2. ASSUME k - 2 \in Named(s) PROVE FALSE
    <3>1. k = (k - 2) + 2
      BY <2>1
    <3> QED
      BY <2>2, <3>1, AroundEntry DEF IsFolder
  <2> QED
    BY <2>1, <2>2
<1>3. Places(s, k + 1) = Places(s, k)
  BY <1>2, PlacesNext
<1>4. \A j \in Named(s) : /\ j \in Nat /\ (k \in {j + 1, j + 2} => j = k - 1)
                          /\ (k + 1 \in {j + 1, j + 2} => j = k - 1)
  <2>1. \A j \in Named(s) : j \in Nat
    BY AroundEntry
  <2>2. \A j \in Named(s) : j # k /\ j # k - 2
    BY <1>2
  <2> QED
    BY <1>2, <2>1, <2>2
<1>5. k + 1 = (k - 1) + 2 /\ k = (k - 1) + 1 /\ k + 1 # 1 /\ (k + 1) - 1 = k /\ k + 1 > 1
  BY <1>2
<1>6. /\ fs \in Seq(FolderType) /\ OffsetsIn(fs) = Places(s, k) /\ cur \in OffsetsIn(fs)
      /\ \A i, j \in 1 .. Len(fs) : fs[i].at = fs[j].at => i = j
      /\ \A j \in Named(s) : k \in {j + 1, j + 2} => cur = s[j].folder
      /\ \A i \in 1 .. Len(fs) :
          /\ fs[i].path \in Seq(Parts) \/ Entering(s, k, fs[i].at)
          /\ fs[i].name \in Parts \/ fs[i].at = HeaderSize
  BY <1>2 DEF Standing
<1>7. \A j \in Named(s) : k + 1 \in {j + 1, j + 2} => cur = s[j].folder
  BY <1>1, <1>4, <1>5, <1>6
<1>8. \A offset : Entering(s, k, offset) => Entering(s, k + 1, offset)
  BY <1>1, <1>4, <1>5 DEF Entering
<1> QED
  BY <1>3, <1>5, <1>6, <1>7, <1>8 DEF Standing

\* At a ".." the folder is registered, and so is its parent, which has its path.
LEMMA ParentKnown ==
    ASSUME NEW s, EntriesOK(s), NEW k \in 1 .. Len(s), NEW pos, NEW fs, NEW cur,
           Standing(s, k, pos, fs, cur), IsFolder(s[k], ".."),
           NEW j \in 1 .. k - 3, IsFolder(s[j], "."), s[j].at = s[k].folder
    PROVE  /\ k > 2 /\ k - 2 \in Named(s) /\ cur = s[k - 2].folder
           /\ \E i \in 1 .. Len(fs) : fs[i].at = cur
           /\ \E i \in 1 .. Len(fs) : fs[i].at = s[k].folder
           /\ \A i \in 1 .. Len(fs) :
                /\ fs[i].at = cur => fs[i].name \in Parts
                /\ fs[i].at = s[k].folder => fs[i].path \in Seq(Parts)
                /\ fs[i].at # cur => fs[i].path \in Seq(Parts)
<1>1. s \in Seq(EntryType) /\ Contiguous(s) /\ Shaped(s) /\ Len(s) \in Nat
  BY DEF EntriesOK
<1>2. k > 2 /\ k - 2 \in Named(s) /\ k \in Nat
  BY <1>1 DEF Shaped
<1>3. k = (k - 2) + 2
  BY <1>2
<1>4. cur = s[k - 2].folder
  BY <1>2, <1>3 DEF Standing
<1>5. /\ k - 2 \in 1 .. Len(s) /\ k - 1 \in 1 .. Len(s) /\ s[k - 2].folder = s[k - 1].at
      /\ cur > HeaderSize /\ cur \in Nat
  <2>1. (k - 2) + 1 = k - 1
    BY <1>2
  <2> QED
    BY <1>2, <1>4, <2>1, AroundEntry
<1>6. \A i \in Named(s) : k \in {i + 1, i + 2} => i = k - 2
  <2> SUFFICES ASSUME NEW i \in Named(s), k \in {i + 1, i + 2} PROVE i = k - 2
    OBVIOUS
  <2>1. i \in Nat /\ k # i + 1
    BY AroundEntry DEF IsFolder
  <2> QED
    BY <1>2, <2>1
<1>7. j \in 1 .. Len(s) /\ j < k - 1 /\ s[j].folder = s[j].at /\ (j = 1 \/ j - 1 \in Named(s))
  <2>1. j \in 1 .. Len(s) /\ j < k - 1
    BY <1>1, <1>2
  <2> QED
    BY <1>1, <2>1 DEF Shaped
<1>8. s[k].folder \in Places(s, k)
  <2>1. CASE j = 1
    <3>1. 1 \in {x \in 1 .. k - 1 : x = 1 \/ x \in Named(s)} /\ s[k].folder = s[1].folder
      BY <1>2, <1>7, <2>1
    <3> QED
      BY <3>1 DEF Places
  <2>2. CASE j # 1
    <3>1. j - 1 \in Named(s) /\ j - 1 \in 1 .. k - 1
      BY <1>2, <1>7, <2>2
    <3>2. s[j - 1].folder = s[j].at
      <4>1. (j - 1) + 1 = j
        BY <1>2
      <4> QED
        BY <3>1, <4>1, AroundEntry
    <3> QED
      BY <3>1, <3>2 DEF Places
  <2> QED
    BY <2>1, <2>2
<1>9. s[k].folder # cur
  <2>1. Behind(s[j]) <= s[k - 1].at
    BY <1>1, <1>5, <1>7, Ascending
  <2>2. Behind(s[j]) \in Nat /\ s[j].at \in Nat /\ Behind(s[j]) >= s[j].at + 145
    BY <1>1, <1>7, EntryFacts
  <2> QED
    BY <1>4, <1>5, <2>1, <2>2
<1>10. /\ OffsetsIn(fs) = Places(s, k) /\ cur \in OffsetsIn(fs)
       /\ \A i \in 1 .. Len(fs) :
            /\ fs[i].path \in Seq(Parts) \/ Entering(s, k, fs[i].at)
            /\ fs[i].name \in Parts \/ fs[i].at = HeaderSize
  <2>1. k > 1
    BY <1>2
  <2> QED
    BY <2>1 DEF Standing
<1>11. \A i \in 1 .. Len(fs) : fs[i].at # cur => fs[i].path \in Seq(Parts)
  BY <1>4, <1>6, <1>10 DEF Entering
<1>12. cur # HeaderSize
  BY <1>5 DEF HeaderSize
<1> QED
  BY <1>2, <1>4, <1>8, <1>9, <1>10, <1>11, <1>12 DEF OffsetsIn

LEMMA ExceptFacts ==
    ASSUME NEW S, NEW fs \in Seq(S), NEW i \in 1 .. Len(fs), NEW f \in S,
           NEW gs, gs = [fs EXCEPT ![i] = f]
    PROVE  /\ gs \in Seq(S) /\ Len(gs) = Len(fs)
           /\ \A x \in 1 .. Len(fs) : gs[x] = IF x = i THEN f ELSE fs[x]
  OBVIOUS

LEMMA PastDotDot ==
    ASSUME NEW s, EntriesOK(s), NEW k \in 1 .. Len(s), NEW pos, NEW fs, NEW cur,
           Standing(s, k, pos, fs, cur), IsFolder(s[k], ".."),
           NEW i \in 1 .. Len(fs), fs[i].at = cur, fs[i].name \in Parts,
           NEW p \in 1 .. Len(fs), fs[p].path \in Seq(Parts),
           k > 2, \A x \in 1 .. Len(fs) : fs[x].at # cur => fs[x].path \in Seq(Parts),
           NEW path, path = TrimParts(Append(fs[p].path, fs[i].name)),
           NEW e, e = [fs[i] EXCEPT !.path = path], NEW gs, gs = [fs EXCEPT ![i] = e]
    PROVE  Standing(s, k + 1, Behind(s[k]), gs, cur)
<1>1. k \in Nat
  BY AroundEntry
<1>2. path \in Seq(Parts)
  <2>1. Append(fs[p].path, fs[i].name) \in Seq(Parts)
    OBVIOUS
  <2> QED
    BY <2>1, TrimmedParts
<1>3. /\ fs \in Seq(FolderType) /\ OffsetsIn(fs) = Places(s, k) /\ cur \in OffsetsIn(fs)
      /\ \A x, y \in 1 .. Len(fs) : fs[x].at = fs[y].at => x = y
      /\ \A x \in 1 .. Len(fs) : fs[x].name \in Parts \/ fs[x].at = HeaderSize
  BY <1>1 DEF Standing
<1>4. fs[i] \in FolderType
  BY <1>3
<1>5. e \in FolderType /\ e.at = fs[i].at /\ e.name = fs[i].name /\ e.path = path
  BY <1>2, <1>4 DEF FolderType
<1>6. fs \in Seq(FolderType)
  BY <1>3
<1>7. /\ gs \in Seq(FolderType) /\ Len(gs) = Len(fs)
      /\ \A x \in 1 .. Len(fs) : gs[x] = IF x = i THEN e ELSE fs[x]
  BY <1>5, <1>6, ExceptFacts
<1>8. \A x \in 1 .. Len(fs) : /\ gs[x].at = fs[x].at /\ gs[x].name = fs[x].name
                              /\ gs[x].path \in Seq(Parts)
  <2> SUFFICES ASSUME NEW x \in 1 .. Len(fs)
               PROVE  /\ gs[x].at = fs[x].at /\ gs[x].name = fs[x].name
                      /\ gs[x].path \in Seq(Parts)
    OBVIOUS
  <2>1. CASE x = i
    BY <1>2, <1>5, <1>7, <2>1
  <2>2. CASE x # i
    <3>1. fs[x].at # cur
      BY <1>3, <2>2
    <3> QED
      BY <1>1, <1>7, <2>2, <3>1
  <2> QED
    BY <2>1, <2>2
<1>9. OffsetsIn(gs) = OffsetsIn(fs)
  BY <1>7, <1>8 DEF OffsetsIn
<1>10. Places(s, k + 1) = Places(s, k)
  <2>1. k # 1 /\ k > 0 /\ k \notin Named(s)
    BY <1>1, AroundEntry DEF IsFolder
  <2> QED
    BY <1>1, <2>1, PlacesNext
<1>11. \A x \in Named(s) : k + 1 \notin {x + 1, x + 2}
  <2> SUFFICES ASSUME NEW x \in Named(s), k + 1 \in {x + 1, x + 2} PROVE FALSE
    OBVIOUS
  <2>1. /\ x \in 1 .. Len(s) /\ s[x].name \notin {".", ".."}
        /\ k = x + 1 => IsFolder(s[k], ".")
    BY AroundEntry, Zenon
  <2>2. x \in Nat /\ k # x + 1 /\ k # x
    BY <2>1 DEF IsFolder
  <2> QED
    BY <1>1, <2>2
<1>12. k + 1 # 1 /\ (k + 1) - 1 = k
  BY <1>1
<1> QED
  BY <1>3, <1>7, <1>8, <1>9, <1>10, <1>11, <1>12 DEF Standing

\* A step that reads entry k: what the reader keeps is enough.
LEMMA ReadStep ==
    ASSUME IInv, pc = "reading", pc' \in {"reading", "threw"},
           UNCHANGED <<saveVars, archive, opened, saves>>, FilesOK',
           NEW k \in 1 .. Len(archive.entries),
           position' = 0 \/ position' = Behind(archive.entries[k]),
           Standing(archive.entries, k + 1, Behind(archive.entries[k]), folders', current')
    PROVE  IInv'
<1>1. ~ Saving /\ ~ Saving' /\ pc' # "planning" /\ pc' # "writing"
  BY DEF Saving
<1>2. SaveInv' /\ WriteInv' /\ LinkInv'
  BY <1>1, Idle, NoSave DEF IInv, saveVars
<1>3. ArchiveInv'
  BY ArchiveKept DEF IInv, saveVars, ArchiveInv
<1>4. /\ EntriesOK(archive.entries) /\ Len(archive.entries) \in Nat
      /\ EndOf(archive.entries) \in Nat /\ EndOf(archive.entries) >= HeaderSize
      /\ Behind(archive.entries[k]) \in HeaderSize .. EndOf(archive.entries)
  <2>1. /\ archive.entries \in Seq(EntryType) /\ Contiguous(archive.entries)
        /\ EntriesOK(archive.entries)
    BY DEF IInv, ArchiveInv, EntriesOK
  <2>2. archive.entries[k] \in EntryType
    BY <2>1
  <2>3. /\ archive.entries[k].at >= HeaderSize /\ Behind(archive.entries[k]) <= EndOf(archive.entries)
        /\ EndOf(archive.entries) \in Nat /\ EndOf(archive.entries) >= HeaderSize
    BY <2>1, Ascending
  <2>4. /\ archive.entries[k].at \in Nat /\ Behind(archive.entries[k]) \in Nat
        /\ Behind(archive.entries[k]) >= archive.entries[k].at + 145
    BY <2>2, EntryFacts
  <2> QED
    BY <2>1, <2>3, <2>4 DEF HeaderSize
<1>5. ReadInv'
  <2>1. k + 1 \in 1 .. Len(archive.entries) + 1 /\ k + 1 > 1
    BY <1>4
  <2>2. folders' \in Seq(FolderType) /\ current' \in OffsetsIn(folders')
    BY <2>1 DEF Standing
  <2>3. position' \in {0} \cup HeaderSize .. EndOf(archive.entries)
    BY <1>4
  <2>4. position' = 0 \/ Standing(archive.entries, k + 1, position', folders', current')
    OBVIOUS
  <2> QED
    BY <2>1, <2>2, <2>3, <2>4 DEF ReadInv, ReaderAt, OffsetsIn
<1> QED
  BY <1>2, <1>3, <1>5 DEF IInv

LEMMA ReadsThere ==
    ASSUME IInv, NEW k \in 1 .. Len(archive.entries), Reads(archive.entries[k])
    PROVE  /\ pc = "reading" /\ EntriesOK(archive.entries)
           /\ Standing(archive.entries, k, position, folders, current)
<1>1. /\ pc = "reading" /\ EntriesOK(archive.entries) /\ position = archive.entries[k].at
      /\ archive.entries \in Seq(EntryType) /\ Contiguous(archive.entries)
  BY DEF Reads, IInv, ArchiveInv, EntriesOK
<1>2. position # 0
  <2>1. archive.entries[k] \in EntryType
    BY <1>1
  <2>2. archive.entries[k].at >= HeaderSize /\ archive.entries[k].at \in Nat
    BY <1>1, <2>1, Ascending, EntryFacts
  <2> QED
    BY <1>1, <2>2 DEF HeaderSize
<1>3. PICK m \in 1 .. Len(archive.entries) + 1 : ReaderAt(m)
  BY <1>1, <1>2 DEF IInv, ReadInv
<1>4. Standing(archive.entries, m, archive.entries[k].at, folders, current)
  BY <1>1, <1>3 DEF ReaderAt
<1>5. m = k
  BY <1>1, <1>4, StandsThere
<1> QED
  BY <1>1, <1>4, <1>5

LEMMA StandsInFolder ==
    ASSUME NEW s, EntriesOK(s), NEW k \in 1 .. Len(s), NEW pos, NEW fs, NEW cur,
           Standing(s, k, pos, fs, cur), k # 1
    PROVE  cur # 0 /\ cur \in OffsetsIn(fs)
<1>1. k > 1
  BY AroundEntry
<1>2. cur \in OffsetsIn(fs) /\ OffsetsIn(fs) = Places(s, k)
  BY <1>1 DEF Standing
<1>3. s[1].folder = HeaderSize /\ \A j \in Named(s) : s[j].folder > HeaderSize /\ s[j].folder \in Nat
  BY AroundEntry
<1>4. s[1].folder # 0 /\ \A j \in Named(s) : s[j].folder # 0
  BY <1>3 DEF HeaderSize
<1> QED
  BY <1>2, <1>4 DEF Places

LEMMA InvReadDot ==
    ASSUME IInv, NEW k \in 1 .. Len(archive.entries), ReadDot(archive.entries[k])
    PROVE  IInv'
<1> DEFINE s == archive.entries
           e == s[k]
           root == [at |-> e.folder, name |-> e.name, path |-> <<>>]
<1>1. /\ pc = "reading" /\ EntriesOK(s) /\ Standing(s, k, position, folders, current)
  BY ReadsThere DEF ReadDot
<1>2. /\ IsFolder(e, ".") /\ pc' = pc /\ position' = Behind(e)
      /\ IF current = 0
           THEN folders' = Append(folders, root) /\ current' = e.folder
           ELSE UNCHANGED <<folders, current>>
      /\ UNCHANGED <<files, saveVars, archive, opened, saves>>
  BY DEF ReadDot, IsFolder
<1>3. FilesOK'
  BY <1>2 DEF IInv, FilesOK
<1> HIDE DEF s, e
<1>4. k \in 1 .. Len(s) /\ e = s[k]
  BY DEF s, e
<1>5. Standing(s, k + 1, Behind(e), folders', current')
  <2>1. CASE k = 1
    <3>1. current = 0 /\ Standing(s, 1, position, folders, current)
      BY <1>1, <2>1 DEF Standing
    <3>2. folders' = Append(folders, root) /\ current' = e.folder
      BY <1>2, <3>1
    <3>3. e.folder = HeaderSize /\ e.name = "."
      BY <1>1, <1>2, <1>4, <2>1, AroundEntry DEF IsFolder
    <3>4. root \in FolderType /\ root.at = HeaderSize /\ root.path = <<>>
      <4>1. HeaderSize \in Nat /\ <<>> \in Seq(Parts)
        BY DEF HeaderSize
      <4> QED
        BY <3>3, <4>1 DEF FolderType
    <3> HIDE DEF root
    <3>5. Standing(s, 2, Behind(s[1]), Append(folders, root), HeaderSize)
      <4>1. s # <<>>
        BY <1>4
      <4> QED
        BY <1>1, <3>1, <3>4, <4>1, PastRoot
    <3> QED
      BY <1>4, <2>1, <3>2, <3>3, <3>5
  <2>2. CASE k # 1
    <3>1. current # 0
      BY <1>1, <1>4, <2>2, StandsInFolder
    <3>2. folders' = folders /\ current' = current
      BY <1>2, <3>1
    <3>3. Standing(s, k + 1, Behind(s[k]), folders, current)
      BY <1>1, <1>2, <1>4, <2>2, PastDot
    <3> QED
      BY <1>4, <3>2, <3>3
  <2> QED
    BY <2>1, <2>2
<1> QED
  BY <1>1, <1>2, <1>3, <1>5, ReadStep DEF s, e

LEMMA InvReadFolder ==
    ASSUME IInv, NEW k \in 1 .. Len(archive.entries), ReadFolder(archive.entries[k])
    PROVE  IInv'
<1> DEFINE s == archive.entries
           e == s[k]
           new == [at |-> e.folder, name |-> e.name, path |-> NoFolder]
<1>1. /\ pc = "reading" /\ EntriesOK(s) /\ Standing(s, k, position, folders, current)
  BY ReadsThere DEF ReadFolder
<1>2. /\ e.type = "folder" /\ e.name \notin {".", ".."} /\ pc' = pc /\ position' = Behind(e)
      /\ folders' = IF Registered(e.folder) THEN folders ELSE Append(folders, new)
      /\ current' = e.folder
      /\ UNCHANGED <<files, saveVars, archive, opened, saves>>
  BY DEF ReadFolder
<1>3. FilesOK'
  BY <1>2 DEF IInv, FilesOK
<1>4. k \in Named(s)
  BY <1>2 DEF Named, Indices
<1> HIDE DEF s, e
<1>5. k \in 1 .. Len(s) /\ e = s[k]
  BY DEF s, e
<1>6. new \in FolderType /\ new.at = s[k].folder /\ new.name = s[k].name
  <2>1. s[k].name \in Parts /\ s[k].folder \in Nat
    BY <1>1, <1>4, <1>5, AroundEntry
  <2> QED
    BY <1>5, <2>1 DEF FolderType
<1> HIDE DEF new
<1>7. folders' = IF \E i \in 1 .. Len(folders) : folders[i].at = s[k].folder THEN folders
                 ELSE Append(folders, new)
  BY <1>2, <1>5 DEF Registered
<1>8. PICK gs : gs = folders'
  OBVIOUS
<1>9. Standing(s, k + 1, Behind(s[k]), gs, s[k].folder)
  BY <1>1, <1>4, <1>6, <1>7, <1>8, PastFolder
<1>10. Standing(s, k + 1, Behind(e), folders', current')
  BY <1>2, <1>5, <1>8, <1>9
<1> QED
  BY <1>1, <1>2, <1>3, <1>10, ReadStep DEF s, e

LEMMA InvReadDotDot ==
    ASSUME IInv, NEW k \in 1 .. Len(archive.entries), ReadDotDot(archive.entries[k])
    PROVE  IInv'
<1> DEFINE s == archive.entries
           e == s[k]
           i == IndexOf(current)
           p == IndexOf(e.folder)
           path == TrimParts(Append(folders[p].path, folders[i].name))
           f == [folders[i] EXCEPT !.path = path]
<1>1. /\ pc = "reading" /\ EntriesOK(s) /\ Standing(s, k, position, folders, current)
  BY ReadsThere DEF ReadDotDot
<1>2. /\ IsFolder(e, "..") /\ pc' = pc /\ position' = Behind(e)
      /\ folders' = IF Registered(e.folder) THEN [folders EXCEPT ![i].path = path] ELSE folders
      /\ current' = current
      /\ UNCHANGED <<files, saveVars, archive, opened, saves>>
  BY DEF ReadDotDot, IsFolder
<1>3. FilesOK'
  BY <1>2 DEF IInv, FilesOK
<1>4. PICK j \in 1 .. k - 3 : IsFolder(s[j], ".") /\ s[j].at = s[k].folder
  <2>1. k - 2 \in Named(s) /\ k \in Nat /\ k > 2
    BY <1>1, <1>2 DEF EntriesOK, Shaped
  <2>2. LinkedUp(s, PlanHomes, 0, 0, k - 2)
    BY <2>1 DEF IInv, ArchiveInv
  <2>3. (k - 2) - 1 = k - 3 /\ (k - 2) + 2 = k
    BY <2>1
  <2> QED
    BY <2>2, <2>3 DEF LinkedUp
<1> HIDE DEF s, e
<1>5. k \in 1 .. Len(s) /\ e = s[k] /\ IsFolder(s[k], "..")
  BY <1>2 DEF s, e
<1>6. /\ k > 2
      /\ \E x \in 1 .. Len(folders) : folders[x].at = current
      /\ \E x \in 1 .. Len(folders) : folders[x].at = s[k].folder
      /\ \A x \in 1 .. Len(folders) :
           /\ folders[x].at = current => folders[x].name \in Parts
           /\ folders[x].at = s[k].folder => folders[x].path \in Seq(Parts)
           /\ folders[x].at # current => folders[x].path \in Seq(Parts)
  BY <1>1, <1>4, <1>5, ParentKnown
<1>7. /\ i \in 1 .. Len(folders) /\ folders[i].at = current
      /\ p \in 1 .. Len(folders) /\ folders[p].at = s[k].folder
  BY <1>5, <1>6 DEF IndexOf
<1>8. folders' = [folders EXCEPT ![i] = f]
  <2>1. Registered(e.folder)
    BY <1>5, <1>6 DEF Registered
  <2>2. folders \in Seq(FolderType)
    BY <1>1 DEF Standing
  <2>3. folders' = [folders EXCEPT ![i].path = path]
    BY <1>2, <2>1
  <2> HIDE DEF i, p, path
  <2> QED
    BY <1>7, <2>2, <2>3
<1>9. PICK gs : gs = folders'
  OBVIOUS
<1>10. Standing(s, k + 1, Behind(s[k]), gs, current)
  <2>1. gs = [folders EXCEPT ![i] = f] /\ f = [folders[i] EXCEPT !.path = path]
        /\ path = TrimParts(Append(folders[p].path, folders[i].name))
    BY <1>8, <1>9
  <2>2. folders[i].name \in Parts /\ folders[p].path \in Seq(Parts)
    BY <1>6, <1>7
  <2> HIDE DEF i, p, path, f
  <2> QED
    BY <1>1, <1>5, <1>6, <1>7, <2>1, <2>2, PastDotDot
<1>11. Standing(s, k + 1, Behind(e), folders', current')
  BY <1>2, <1>5, <1>9, <1>10
<1> QED
  BY <1>1, <1>2, <1>3, <1>11, ReadStep DEF s, e

\* A file is read into the folder the reader stands in.
LEMMA InvReadFile ==
    ASSUME IInv, NEW k \in 1 .. Len(archive.entries), ReadFile(archive.entries[k])
    PROVE  IInv'
<1> DEFINE s == archive.entries
           e == s[k]
           path == TrimParts(Append(CurrentPath, e.name))
           data == IF e.damage = "checksum" THEN WrongData ELSE e.data
           f == [NewFile(path, data) EXCEPT !.packed = e.packed]
<1>1. /\ pc = "reading" /\ EntriesOK(s) /\ Standing(s, k, position, folders, current)
  BY ReadsThere DEF ReadFile
<1>2. /\ e.type = "file" /\ pc' \in {"reading", "threw"}
      /\ files' \in {files, Append(files, f)}
      /\ position' \in {e.end, Behind(e)}
      /\ current' \in {current, Upwards}
      /\ UNCHANGED <<saveVars, archive, folders, opened, saves>>
  <2>1. /\ e.type = "file"
        /\ IF \E i \in 1 .. Len(files) : files[i].path = path
             THEN pc' = "threw" /\ UNCHANGED files
             ELSE files' = Append(files, f) /\ UNCHANGED pc
        /\ position' = IF e.damage = "checksum" THEN e.end ELSE Behind(e)
        /\ current' = IF position' # e.end THEN Upwards ELSE current
        /\ UNCHANGED <<saveVars, archive, folders, opened, saves>>
    BY DEF ReadFile
  <2> HIDE DEF s, e, path, data, f
  <2> QED
    BY <1>1, <2>1
<1> HIDE DEF s, e
<1>3. /\ k \in 1 .. Len(s) /\ e = s[k] /\ e \in EntryType /\ s[k].type = "file"
      /\ e.name \in Words /\ e.packed # 0 /\ e.end \in {0, Behind(e)} /\ k # 1
      /\ ~ IsFolder(s[k], ".") /\ ~ IsFolder(s[k], "..")
  <2>1. k \in 1 .. Len(s) /\ e = s[k] /\ s[k].type = "file"
    BY <1>2 DEF s, e
  <2>2. e \in EntryType /\ k # 1 /\ ~ IsFolder(s[k], ".") /\ ~ IsFolder(s[k], "..")
    BY <1>1, <2>1, AroundEntry DEF IsFolder
  <2> QED
    BY <1>1, <2>1, <2>2 DEF EntriesOK, Shaped
<1>4. /\ \A i \in 1 .. Len(folders) : folders[i].path \in Seq(Parts)
      /\ current \in OffsetsIn(folders) /\ folders \in Seq(FolderType)
  BY <1>1, <1>3, PathsKnown, StandsInFolder DEF Standing
<1>5. CurrentPath \in Seq(Parts)
  <2>1. IndexOf(current) \in 1 .. Len(folders)
    BY <1>4 DEF OffsetsIn, IndexOf
  <2> QED
    BY <1>4, <2>1 DEF CurrentPath
<1>6. Upwards \in OffsetsIn(folders)
  <2> DEFINE parent == IF Len(CurrentPath) > 1 THEN Front(CurrentPath) ELSE <<>>
             there == {i \in 1 .. Len(folders) : folders[i].path = parent}
  <2>1. Upwards = IF there = {} THEN current ELSE folders[Min(there)].at
    BY DEF Upwards
  <2>2. there \subseteq 1 .. Len(folders) /\ Len(folders) \in Nat
    BY <1>4
  <2> HIDE DEF there, parent
  <2>3. there # {} => Min(there) \in 1 .. Len(folders)
    BY <2>2, MinMaxOf
  <2> QED
    BY <1>4, <2>1, <2>3 DEF OffsetsIn
<1>7. FileOK(f)
  <2> DEFINE whole == Append(CurrentPath, e.name)
  <2>1. e.name \in Parts /\ IsPart(e.name)
    BY <1>3 DEF Words
  <2>2. whole \in Seq(Parts) /\ whole # <<>> /\ Last(whole) = e.name
    BY <1>5, <2>1, AppendFacts
  <2> HIDE DEF whole
  <2>3. TrimParts(whole) \in Seq(Parts) /\ TrimParts(whole) # <<>> /\ Last(TrimParts(whole)) = e.name
    BY <2>1, <2>2, TrimmedParts
  <2>4. path = TrimParts(whole)
    BY DEF whole
  <2>5. data \in Data \cup {WrongData} /\ e.packed \in Nat /\ e.packed # 0
    BY <1>3 DEF EntryType
  <2> HIDE DEF path, data
  <2> QED
    BY <2>1, <2>3, <2>4, <2>5, NewFileOK
<1> HIDE DEF path, data, f
<1>8. FilesOK'
  <2>1. files \in Seq(FileType) /\ \A i \in 1 .. Len(files) : FileOK(files[i])
    BY DEF IInv, FilesOK
  <2>2. /\ Append(files, f) \in Seq(FileType)
        /\ \A i \in 1 .. Len(Append(files, f)) : FileOK(Append(files, f)[i])
    BY <1>7, <2>1, FilesAppendedOK
  <2>3. files' \in Seq(FileType) /\ \A i \in 1 .. Len(files') : FileOK(files'[i])
    BY <1>2, <2>1, <2>2
  <2> QED
    BY <2>3 DEF FilesOK
<1>9. PICK into \in OffsetsIn(folders) : into = current'
  BY <1>2, <1>4, <1>6
<1>10. Standing(s, k + 1, Behind(e), folders', current')
  <2>1. Standing(s, k + 1, Behind(s[k]), folders, into)
    BY <1>1, <1>3, PastFile
  <2> QED
    BY <1>2, <1>3, <1>9, <2>1
<1>11. position' = 0 \/ position' = Behind(e)
  BY <1>2, <1>3
<1> QED
  BY <1>1, <1>2, <1>8, <1>10, <1>11, ReadStep DEF s, e

LEMMA InvSkipFile ==
    ASSUME IInv, NEW k \in 1 .. Len(archive.entries), SkipFile(archive.entries[k])
    PROVE  IInv'
<1> DEFINE s == archive.entries
           e == s[k]
<1>1. /\ pc = "reading" /\ EntriesOK(s) /\ Standing(s, k, position, folders, current)
  BY ReadsThere DEF SkipFile
<1>2. /\ e.type = "file" /\ position' = e.end
      /\ UNCHANGED <<pc, files, saveVars, archive, folders, current, opened, saves>>
  BY DEF SkipFile
<1> HIDE DEF s, e
<1>3. k \in 1 .. Len(s) /\ e = s[k] /\ s[k].type = "file" /\ k # 1
  <2>1. k \in 1 .. Len(s) /\ e = s[k] /\ s[k].type = "file"
    BY <1>2 DEF s, e
  <2> QED
    BY <1>1, <2>1, AroundEntry DEF IsFolder
<1>4. e.end \in {0, Behind(e)}
  BY <1>1, <1>3 DEF EntriesOK, Shaped
<1>5. Standing(s, k + 1, Behind(s[k]), folders, current)
  BY <1>1, <1>3, StandsInFolder, PastFile
<1>6. Standing(s, k + 1, Behind(e), folders', current')
  BY <1>2, <1>3, <1>5
<1>7. FilesOK'
  BY <1>2 DEF IInv, FilesOK
<1> QED
  BY <1>1, <1>2, <1>4, <1>6, <1>7, ReadStep DEF s, e

-----------------------------------------------------------------------------
(* The theorems                                                            *)

LEMMA InvNext == ASSUME IInv, [Next]_vars PROVE IInv'
<1>1. CASE \E path \in Paths, data \in Data : AddFile(path, data)
  BY <1>1, InvAddFile
<1>2. CASE NewDisk
  BY <1>2, InvNewDisk
<1>3. CASE SaveBegin
  BY <1>3, InvSaveBegin
<1>4. CASE SaveStep
  BY <1>4, InvPlanFile, InvPlanEnd, InvWriteFolder, InvWriteFile, InvSaveThrows, InvSaveEnd
     DEF SaveStep
<1>5. CASE \E k \in 1 .. Len(archive.entries), how \in {"packed", "checksum"} : Damage(k, how)
  BY <1>5, InvDamage
<1>6. CASE OpenBegin
  BY <1>6, InvOpenBegin
<1>7. CASE OpenStep
  <2>1. CASE ReadHeaderAgain \/ OpenEnd
    BY <2>1, InvOpenOver
  <2>2. ASSUME NEW k \in 1 .. Len(archive.entries), ReadEntry(archive.entries[k]) PROVE IInv'
    <3>1. CASE ReadDot(archive.entries[k])
      BY <3>1, InvReadDot
    <3>2. CASE ReadDotDot(archive.entries[k])
      BY <3>2, InvReadDotDot
    <3>3. CASE ReadFolder(archive.entries[k])
      BY <3>3, InvReadFolder
    <3>4. CASE ReadFile(archive.entries[k])
      BY <3>4, InvReadFile
    <3>5. CASE SkipFile(archive.entries[k])
      BY <3>5, InvSkipFile
    <3> QED
      BY <2>2, <3>1, <3>2, <3>3, <3>4, <3>5 DEF ReadEntry
  <2> QED
    BY <1>7, <2>1, <2>2 DEF OpenStep
<1>8. CASE Extract
  BY <1>8, InvExtract
<1>9. CASE UNCHANGED vars
  BY <1>9, InvStutter
<1> QED
  BY <1>1, <1>2, <1>3, <1>4, <1>5, <1>6, <1>7, <1>8, <1>9 DEF Next

\* The invariant holds in every state.
THEOREM Invariant == Spec => []IInv
<1>1. Init => IInv
  BY InvInit
<1>2. IInv /\ [Next]_vars => IInv'
  BY InvNext
<1> QED
  BY <1>1, <1>2, PTL DEF Spec

\* The variables keep their types, and the counters their bounds.
THEOREM TypesKept == Spec => []TypeOK
<1>1. ASSUME IInv PROVE TypeOK
  <2>1. /\ pc \in {"ready", "planning", "writing", "reading", "threw"}
        /\ files \in Seq(FileType) /\ archive.plan \in Seq(FileType)
        /\ header \in [files: Nat, folders: Nat, size: Nat]
        /\ buffer \in Seq(EntryType) /\ archive.entries \in Seq(EntryType)
        /\ position \in {0} \cup HeaderSize .. EndOf(archive.entries)
        /\ current \in {0} \cup {folders[i].at : i \in 1 .. Len(folders)}
        /\ opened \in {"not", "true", "false"} /\ saves \in 0 .. MaxSaves
    BY <1>1 DEF IInv, FilesOK, ArchiveInv, EntriesOK, SaveInv, ReadInv
  <2>2. /\ order \in Seq(1 .. Len(files)) /\ next \in 1 .. Len(order) + 1
        /\ \A d \in dirs : IsHome(d)
    <3>1. CASE Saving
      BY <1>1, <3>1 DEF IInv, SaveInv
    <3>2. CASE ~ Saving
      <4>1. order = <<>> /\ next = 1 /\ dirs = {}
        BY <1>1, <3>2 DEF IInv, SaveInv
      <4>2. Len(<<>>) = 0 /\ <<>> \in Seq(1 .. Len(files))
        OBVIOUS
      <4> QED
        BY <4>1, <4>2
    <3> QED
      BY <3>1, <3>2
  <2>3. dirs \subseteq Seq(Parts)
    BY <2>2 DEF IsHome
  <2>4. DOMAIN written \subseteq Seq(Parts) \cup {Root} /\ \A d \in DOMAIN written : written[d] \in Nat
    <3>1. CASE pc = "writing"
      <4>1. Made \subseteq dirs /\ \A d \in DOMAIN written : written[d] \in Nat
        BY <1>1, <3>1 DEF IInv, WriteInv
      <4> QED
        BY <2>3, <4>1 DEF Made
    <3>2. CASE pc # "writing"
      <4>1. written = <<>>
        BY <1>1, <3>2 DEF IInv, SaveInv, Saving
      <4> QED
        BY <4>1
    <3> QED
      BY <3>1, <3>2
  <2> QED
    BY <2>1, <2>2, <2>3, <2>4 DEF TypeOK
<1> QED
  BY <1>1, Invariant, PTL

\* The header of an archive counts its files and its folders, and its size is the length
\* of the archive without the entry of the root, for every set of files that is saved.
THEOREM HeaderCounts == Spec => []HeaderTrue
<1>1. IInv => HeaderTrue
  BY DEF IInv, ArchiveInv
<1> QED
  BY <1>1, Invariant, PTL

LEMMA FolderOfIs ==
    ASSUME ArchiveInv, NEW k \in Named(archive.entries)
    PROVE  FolderOf(k) = FolderIn(archive.entries, PlanHomes, 0, 0, k)
<1> DEFINE s == archive.entries
           i == FilesBefore(k) + 1
           m == Cardinality({j \in Named(s) : j > k /\ FilesBefore(j) = i - 1})
           d == archive.plan[i].folder
<1>1. s \in Seq(EntryType) /\ archive.plan \in Seq(FileType)
  BY DEF ArchiveInv, EntriesOK
<1>2. \A j : FilesBefore(j) = FilesIn(s, j)
  BY DEF FilesBefore, FilesIn
<1>3. FilesBefore(k) \in Nat
  BY <1>1, <1>2, IndicesFinite DEF FilesIn, Indices
<1>4. i - 1 = FilesIn(s, k) /\ i = FilesIn(s, k) + 1 /\ i # 0
  BY <1>2, <1>3
<1>5. {j \in Named(s) : j > k /\ FilesBefore(j) = i - 1} = After(s, k)
  BY <1>2, <1>4 DEF After
<1>6. m = Cardinality(After(s, k)) /\ m \in Nat
  <2>1. After(s, k) \subseteq 1 .. Len(s)
    BY DEF After, Named, Indices
  <2> QED
    BY <1>1, <1>5, <2>1, IndicesFinite
<1>7. i \in 1 .. Len(archive.plan)
  <2>1. FilesIn(s, k) + 1 <= Len(archive.plan)
    BY DEF ArchiveInv
  <2> QED
    BY <1>1, <1>2, <1>3, <2>1
<1>8. PlanHomes[i] = d /\ Len(d) \in Nat
  <2>1. PlanHomes[i] = d
    BY <1>7 DEF PlanHomes
  <2>2. archive.plan[i] \in FileType
    BY <1>1, <1>7
  <2>3. d \in Seq(Parts) \cup {NoFolder}
    BY <2>2 DEF FileType
  <2>4. Len(NoFolder) \in Nat
    BY DEF NoFolder
  <2> QED
    BY <2>1, <2>3, <2>4
<1>9. FolderOf(k) = SubSeq(d, 1, Len(d) - m)
  BY DEF FolderOf
<1>10. FolderIn(s, PlanHomes, 0, 0, k) = SubSeq(d, 1, Len(d) - m - 0)
  <2> HIDE DEF s, m, d
  <2>1. PlanHomes[FilesIn(s, k) + 1] = d /\ FilesIn(s, k) + 1 # 0
    BY <1>4, <1>8
  <2> QED
    BY <1>6, <2>1 DEF FolderIn
<1>11. Len(d) - m - 0 = Len(d) - m
  BY <1>6, <1>8
<1> QED
  BY <1>9, <1>10, <1>11

\* The entries lie one behind the other, "." points to its folder, ".." to the "." of the
\* parent, which was written earlier, and a file ends behind its data or at 0.
THEOREM FoldersLinked == Spec => []FolderLinks
<1>1. ASSUME IInv PROVE FolderLinks
  <2> DEFINE s == archive.entries
  <2>1. ArchiveInv /\ s \in Seq(EntryType) /\ Contiguous(s) /\ Shaped(s) /\ Len(s) \in Nat
    BY <1>1 DEF IInv, ArchiveInv, EntriesOK
  <2>2. ASSUME NEW k \in 1 .. Len(s) PROVE s[k].at = EndOf(SubSeq(s, 1, k - 1))
    <3> DEFINE r == SubSeq(s, 1, k - 1)
    <3>1. /\ r \in Seq(EntryType) /\ Len(r) = k - 1
          /\ \A x \in 1 .. k - 1 : r[x] = s[x]
      BY <2>1, <2>2
    <3>2. CASE k = 1
      <4>1. r = <<>>
        BY <3>1, <3>2
      <4> QED
        BY <2>1, <3>2, <4>1 DEF EndOf, Contiguous
    <3>3. CASE k # 1
      <4>1. k - 1 \in 1 .. k - 1 /\ r # <<>>
        BY <2>2, <3>1, <3>3
      <4>2. Last(r) = s[k - 1]
        BY <3>1, <4>1 DEF Last
      <4>3. s[k].at = Behind(s[k - 1])
        BY <2>1, <2>2, <3>3 DEF Contiguous
      <4> QED
        BY <4>1, <4>2, <4>3 DEF EndOf
    <3> QED
      BY <3>2, <3>3
  <2>3. ASSUME NEW k \in Named(s)
        PROVE  /\ s[k + 1].name = "." /\ s[k + 1].at = s[k].folder
               /\ s[k + 2].name = ".."
               /\ \E j \in 1 .. k - 1 :
                    /\ s[j].name = "." /\ s[j].at = s[k + 2].folder
                    /\ IF j = 1 THEN Len(FolderOf(k)) <= 1
                       ELSE FolderOf(j - 1) = Front(FolderOf(k))
    <3>1. /\ IsFolder(s[k + 1], ".") /\ s[k + 1].at = s[k].folder /\ IsFolder(s[k + 2], "..")
          /\ k \in 1 .. Len(s)
      BY <2>1, <2>3 DEF Shaped, Named, Indices
    <3>2. PICK j \in 1 .. k - 1 :
            /\ IsFolder(s[j], ".") /\ s[j].at = s[k + 2].folder
            /\ IF j = 1 THEN Len(FolderIn(s, PlanHomes, 0, 0, k)) <= 1
               ELSE FolderIn(s, PlanHomes, 0, 0, j - 1) = Front(FolderIn(s, PlanHomes, 0, 0, k))
      BY <2>1, <2>3 DEF ArchiveInv, LinkedUp
    <3>3. FolderOf(k) = FolderIn(s, PlanHomes, 0, 0, k)
      BY <2>1, <2>3, FolderOfIs
    <3>4. j # 1 => j - 1 \in Named(s)
      <4>1. j \in 1 .. Len(s)
        BY <2>1, <3>1
      <4> QED
        BY <2>1, <3>2, <4>1 DEF Shaped
    <3>5. j # 1 => FolderOf(j - 1) = FolderIn(s, PlanHomes, 0, 0, j - 1)
      BY <2>1, <3>4, FolderOfIs
    <3> QED
      BY <3>1, <3>2, <3>3, <3>5 DEF IsFolder
  <2>4. ASSUME NEW k \in 1 .. Len(s)
        PROVE  /\ s[k].name = "." => s[k].folder = s[k].at
               /\ s[k].type = "file" => s[k].end \in {0, Behind(s[k])}
    <3>1. s[k].type \in {"file", "folder"}
      BY <2>1, EntryFacts
    <3>2. s[k].type = "file" => s[k].name # "." /\ s[k].end \in {0, Behind(s[k])}
      BY <2>1, PartsAssumption DEF Shaped, Words
    <3>3. s[k].type = "folder" /\ s[k].name = "." => s[k].folder = s[k].at
      BY <2>1 DEF Shaped, IsFolder
    <3> QED
      BY <3>1, <3>2, <3>3
  <2> QED
    BY <2>2, <2>3, <2>4 DEF FolderLinks
<1> QED
  BY <1>1, Invariant, PTL

-----------------------------------------------------------------------------
(* Where folders begin and end                                             *)

\* The folders of the first n files and of all above them.
Upto(homes, n) == UNION {Ancestry(homes[j]) : j \in 1 .. n}

\* Subfolders, among the folders all.
Inner(all, d) == IF d = <<>> THEN {} ELSE {a \in all : IsStrictPrefix(d, a)}

\* The files below a folder.
Within(homes, all, d) == {j \in 1 .. Len(homes) : homes[j] \in Inner(all, d) \cup {d}}

\* A folder lies above another, or is it, when the one is a prefix of the other.
LEMMA AncestryPrefix ==
    ASSUME NEW h, IsHome(h), NEW d, IsHome(d), d # <<>>
    PROVE  d \in Ancestry(h) <=> d = h \/ IsStrictPrefix(d, h)
<1>1. CASE h = <<>>
  <2>1. Ancestry(h) = {<<>>}
    BY <1>1 DEF Ancestry
  <2>2. ~ IsStrictPrefix(d, h)
    <3>1. Len(d) \in Nat /\ Len(d) > 0 /\ Len(h) = 0
      BY <1>1 DEF IsHome
    <3> QED
      BY <3>1 DEF IsStrictPrefix, IsPrefix
  <2> QED
    BY <1>1, <2>1, <2>2
<1>2. CASE h # <<>>
  <2>1. h \in Seq(Words) /\ Ancestry(h) = {Upper(h, i) : i \in 1 .. Len(h)} /\ Len(h) \in Nat
    BY <1>2, AncestryIs
  <2>2. d \in Seq(Words) /\ Len(d) \in Nat /\ Len(d) > 0
    BY AncestryIs
  <2>3. ASSUME d \in Ancestry(h) PROVE d = h \/ IsStrictPrefix(d, h)
    <3>1. PICK i \in 1 .. Len(h) : d = Upper(h, i)
      BY <2>1, <2>3
    <3>2. i \in 0 .. Len(h)
      BY <2>1
    <3>3. Len(d) = i
      BY <2>1, <3>1, <3>2, UpperFacts
    <3>4. SubSeq(d, 1, Len(d)) = SubSeq(h, 1, Len(d)) /\ Len(d) <= Len(h)
      <4>1. SubSeq(d, 1, Len(d)) = d
        BY <2>2, UpperFacts DEF Upper
      <4> QED
        BY <2>1, <3>1, <3>3, <4>1 DEF Upper
    <3> QED
      BY <3>4 DEF IsStrictPrefix, IsPrefix
  <2>4. ASSUME IsStrictPrefix(d, h) PROVE d \in Ancestry(h)
    <3>1. Len(d) <= Len(h) /\ SubSeq(d, 1, Len(d)) = SubSeq(h, 1, Len(d))
      BY <2>4 DEF IsStrictPrefix, IsPrefix
    <3>2. SubSeq(d, 1, Len(d)) = d
      <4>1. Len(d) \in 0 .. Len(d)
        BY <2>2
      <4> QED
        BY <2>2, <4>1, UpperFacts DEF Upper
    <3>3. d = Upper(h, Len(d)) /\ Len(d) \in 1 .. Len(h)
      BY <2>1, <2>2, <3>1, <3>2 DEF Upper
    <3> QED
      BY <2>1, <3>3
  <2>5. h \in Ancestry(h)
    BY AncestryFacts DEF IsHome
  <2> QED
    BY <2>3, <2>4, <2>5
<1> QED
  BY <1>1, <1>2

\* What lies above a folder that lies above h lies above h; two folders above h lie
\* one above the other.
LEMMA AncestryChain ==
    ASSUME NEW h, IsHome(h), NEW d \in Ancestry(h)
    PROVE  /\ IsHome(d) /\ Ancestry(d) \subseteq Ancestry(h)
           /\ \A a \in Ancestry(h) : a \in Ancestry(d) \/ d \in Ancestry(a)
           /\ \A a \in Ancestry(h) : Len(a) < Len(d) => a \in Ancestry(d)
           /\ \A a \in Ancestry(h) : Len(a) = Len(d) => a = d
           /\ d = <<>> => h = <<>>
           /\ Len(d) <= Len(h)
<1>1. CASE h = <<>>
  <2>1. Ancestry(h) = {<<>>}
    BY <1>1 DEF Ancestry
  <2>2. d = h
    BY <1>1, <2>1
  <2> QED
    BY <1>1, <2>1, <2>2
<1>2. CASE h # <<>>
  <2>1. h \in Seq(Words) /\ Ancestry(h) = {Upper(h, i) : i \in 1 .. Len(h)} /\ Len(h) \in Nat
    BY <1>2, AncestryIs
  <2>2. \A i \in 1 .. Len(h) : /\ IsHome(Upper(h, i)) /\ Upper(h, i) # <<>>
                              /\ Len(Upper(h, i)) = i
    BY <2>1, UpperFacts
  <2>3. ASSUME NEW i \in 1 .. Len(h), NEW j \in 1 .. Len(h), j <= i
        PROVE  Upper(h, j) \in Ancestry(Upper(h, i))
    <3>1. PICK u : u = Upper(h, i)
      OBVIOUS
    <3>2. IsHome(u) /\ u # <<>> /\ Len(u) = i
      BY <2>2, <3>1
    <3>3. Ancestry(u) = {Upper(u, x) : x \in 1 .. Len(u)}
      BY <3>2, AncestryIs
    <3>4. Upper(u, j) = Upper(h, j)
      BY <2>1, <2>3, <3>1 DEF Upper
    <3>5. j \in 1 .. Len(u)
      BY <2>3, <3>2
    <3> QED
      BY <3>1, <3>3, <3>4, <3>5
  <2>4. PICK i \in 1 .. Len(h) : d = Upper(h, i)
    BY <2>1
  <2>5. Ancestry(d) \subseteq Ancestry(h)
    <3>1. IsHome(d) /\ d # <<>> /\ Len(d) = i
      BY <2>2, <2>4
    <3>2. Ancestry(d) = {Upper(d, x) : x \in 1 .. Len(d)}
      BY <3>1, AncestryIs
    <3>3. ASSUME NEW x \in 1 .. Len(d) PROVE Upper(d, x) \in Ancestry(h)
      <4>1. x \in 1 .. i /\ x \in 1 .. Len(h)
        BY <2>1, <3>1
      <4>2. Upper(d, x) = Upper(h, x)
        BY <2>1, <2>4, <4>1 DEF Upper
      <4> QED
        BY <2>1, <4>1, <4>2
    <3> QED
      BY <3>2, <3>3
  <2>6. ASSUME NEW a \in Ancestry(h)
        PROVE  /\ a \in Ancestry(d) \/ d \in Ancestry(a)
               /\ Len(a) < Len(d) => a \in Ancestry(d)
               /\ Len(a) = Len(d) => a = d
    <3>1. PICK j \in 1 .. Len(h) : a = Upper(h, j)
      BY <2>1
    <3>2. Len(a) = j /\ Len(d) = i
      BY <2>2, <2>4, <3>1
    <3>3. j <= i => a \in Ancestry(d)
      BY <2>3, <2>4, <3>1
    <3>4. i <= j => d \in Ancestry(a)
      BY <2>3, <2>4, <3>1
    <3> QED
      BY <2>4, <3>1, <3>2, <3>3, <3>4
  <2> QED
    BY <2>2, <2>4, <2>5, <2>6
<1> QED
  BY <1>1, <1>2

\* The files below a folder are the ones that have it above them.
LEMMA BelowIs ==
    ASSUME NEW h, IsHome(h), NEW d, IsHome(d)
    PROVE  /\ h = d \/ (d # <<>> /\ IsStrictPrefix(d, h)) <=> d \in Ancestry(h)
           /\ h \in Ancestry(h)
<1>1. h \in Ancestry(h)
  BY AncestryFacts DEF IsHome
<1>2. CASE d = <<>>
  <2>1. d \in Ancestry(h) => h = <<>>
    BY <1>2, AncestryChain
  <2> QED
    BY <1>1, <1>2, <2>1
<1>3. CASE d # <<>>
  BY <1>1, <1>3, AncestryPrefix
<1> QED
  BY <1>1, <1>2, <1>3

\* The sum over an interval is the sum over its two parts.
LEMMA WeightSplit ==
    ASSUME NEW fs, NEW a \in Nat, a > 0, NEW n \in Nat, NEW b \in 0 .. n, a <= b + 1,
           \A i \in 1 .. n : fs[i].packed \in Nat
    PROVE  /\ Weight(fs, 1 .. b) = Weight(fs, 1 .. a - 1) + Weight(fs, a .. b)
           /\ Weight(fs, 1 .. a - 1) \in Nat /\ Weight(fs, a .. b) \in Nat
<1> DEFINE Split(c) == Weight(fs, 1 .. c) = Weight(fs, 1 .. a - 1) + Weight(fs, a .. c)
           T == {c \in Nat : c >= a - 1 /\ c <= n /\ ~ Split(c)}
<1>1. ASSUME NEW x \in Nat, x > 0, NEW c \in Nat, x <= c + 1, c <= n
      PROVE  Weight(fs, x .. c) \in Nat
  <2>1. IsFiniteSet(x .. c) /\ \A i \in x .. c : fs[i].packed \in Nat
    <3>1. \A i \in x .. c : i \in 1 .. n
      BY <1>1
    <3>2. IsFiniteSet(x .. c)
      BY FS_Interval
    <3> QED
      BY <3>1, <3>2
  <2> QED
    BY <2>1, WeightFacts
<1>2. Weight(fs, 1 .. a - 1) \in Nat
  <2>1. a - 1 \in Nat /\ 1 <= (a - 1) + 1 /\ a - 1 <= n
    OBVIOUS
  <2> QED
    BY <1>1, <2>1
<1>3. Weight(fs, a .. b) \in Nat
  BY <1>1
<1>4. T = {}
  <2> SUFFICES ASSUME T # {} PROVE FALSE
    OBVIOUS
  <2>1. PICK c \in T : \A x \in T : c <= x
    <3>1. T \subseteq Nat
      OBVIOUS
    <3> HIDE DEF T
    <3> QED
      BY <3>1, LeastNumber
  <2>2. c \in Nat /\ c >= a - 1 /\ c <= n /\ ~ Split(c)
    OBVIOUS
  <2>3. CASE c = a - 1
    <3>1. a .. c = {}
      BY <2>3
    <3>2. Weight(fs, a .. c) = 0
      BY <3>1, FS_EmptySet, WeightFacts
    <3> QED
      BY <1>2, <2>2, <2>3, <3>2
  <2>4. CASE c # a - 1
    <3>1. PICK x \in Nat : c = x + 1 /\ x >= a - 1 /\ x <= n
      <4>1. c - 1 \in Nat /\ c = (c - 1) + 1 /\ c - 1 >= a - 1 /\ c - 1 <= n
        BY <2>2, <2>4
      <4> QED
        BY <4>1
    <3>2. Split(x)
      <4>1. x \notin T
        BY <2>1, <3>1
      <4> QED
        BY <3>1, <4>1
    <3>3. \A i \in 1 .. x + 1 : fs[i].packed \in Nat
      BY <2>2, <3>1
    <3>4. \A i \in a .. x + 1 : fs[i].packed \in Nat
      BY <3>3
    <3>5. Weight(fs, 1 .. x + 1) = EntryBlockSize + fs[x + 1].packed + Weight(fs, 1 .. x)
      BY <3>1, <3>3, WeightNext
    <3>6. /\ Weight(fs, a .. x + 1) = EntryBlockSize + fs[x + 1].packed + Weight(fs, a .. x)
          /\ Weight(fs, a .. x) \in Nat
      BY <3>1, <3>4, WeightNext
    <3>7. EntryBlockSize + fs[x + 1].packed \in Nat
      BY <3>1, <3>3 DEF EntryBlockSize
    <3> HIDE DEF T
    <3> QED
      BY <1>2, <2>2, <3>1, <3>2, <3>5, <3>6, <3>7
  <2> QED
    BY <2>3, <2>4
<1>5. Split(b)
  <2>1. b \in Nat /\ b >= a - 1 /\ b <= n
    OBVIOUS
  <2> QED
    BY <1>4, <2>1
<1> QED
  BY <1>2, <1>3, <1>5

\* d is written in front of the i-th file, and the files below it, B, lie together.
Spans(n, homes, all, i, d, B) ==
    /\ n \in Nat /\ Len(homes) = n /\ \A j \in 1 .. n : IsHome(homes[j])
    /\ all = Upto(homes, n) /\ IsFiniteSet(all)
    /\ i \in 1 .. n /\ d \in Ancestry(homes[i]) /\ d \notin Upto(homes, i - 1)
    /\ B = {j \in 1 .. n : homes[j] = d \/ (d # <<>> /\ IsStrictPrefix(d, homes[j]))}
    /\ Max(B) - Min(B) + 1 = Cardinality(B)

\* The folders of the files up to the last one below d: the ones in front of d, d itself
\* and the ones in it.
Spanned(n, homes, all, i, d, last) ==
    LET front == Upto(homes, i - 1) \cup (Ancestry(d) \ {d})
    IN  /\ last \in i .. n /\ Within(homes, all, d) = i .. last
        /\ Cardinality(front) \in Nat /\ Cardinality(Inner(all, d)) \in Nat
        /\ Cardinality(Upto(homes, last)) = Cardinality(front) + 1 + Cardinality(Inner(all, d))

LEMMA FolderSpan ==
    ASSUME NEW n, NEW homes, NEW all, NEW i, NEW d, NEW B, Spans(n, homes, all, i, d, B)
    PROVE  Spanned(n, homes, all, i, d, Max(B))
<1>0. /\ n \in Nat /\ Len(homes) = n /\ \A j \in 1 .. n : IsHome(homes[j])
      /\ all = Upto(homes, n) /\ IsFiniteSet(all)
      /\ i \in 1 .. n /\ d \in Ancestry(homes[i]) /\ d \notin Upto(homes, i - 1)
      /\ B = {j \in 1 .. n : homes[j] = d \/ (d # <<>> /\ IsStrictPrefix(d, homes[j]))}
      /\ Max(B) - Min(B) + 1 = Cardinality(B)
  BY DEF Spans
<1> USE <1>0
<1> DEFINE front == Upto(homes, i - 1) \cup (Ancestry(d) \ {d})
           in == Inner(all, d)
<1>1. IsHome(d) /\ IsHome(homes[i]) /\ Ancestry(d) \subseteq Ancestry(homes[i])
  BY AncestryChain
<1>2. B = {j \in 1 .. n : d \in Ancestry(homes[j])}
  BY <1>1, BelowIs
<1>3. i \in B /\ \A j \in B : j >= i
  <2>1. ASSUME NEW j \in B, ~ (j >= i) PROVE FALSE
    <3>1. j \in 1 .. i - 1 /\ d \in Ancestry(homes[j])
      BY <1>2, <2>1
    <3> QED
      BY <3>1 DEF Upto
  <2> QED
    BY <1>2, <2>1
<1>4. PICK last : last = Max(B)
  OBVIOUS
<1>5. Min(B) = i /\ last \in i .. n /\ \A j \in B : j \in i .. last
  <2>1. B \subseteq 1 .. n /\ B # {}
    BY <1>2, <1>3
  <2>2. Min(B) \in B /\ Max(B) \in B /\ \A x \in B : Min(B) <= x /\ x <= Max(B)
    BY <2>1, MinMaxOf
  <2>3. Min(B) <= i /\ Min(B) >= i /\ Min(B) \in 1 .. n /\ last \in 1 .. n /\ last >= i
    BY <1>3, <1>4, <2>1, <2>2
  <2>4. Min(B) = i
    BY <2>3
  <2> QED
    BY <1>3, <1>4, <2>1, <2>2, <2>3, <2>4
<1>6. B = i .. last
  <2>1. IsFiniteSet(i .. last) /\ Cardinality(i .. last) = last - i + 1
    <3>1. i \in Int /\ last \in Int /\ ~ (i > last)
      BY <1>5
    <3> QED
      BY <3>1, FS_Interval
  <2>2. B \in SUBSET (i .. last)
    BY <1>5
  <2>3. Cardinality(B) = Cardinality(i .. last)
    BY <1>4, <1>5, <2>1
  <2> QED
    BY <2>1, <2>2, <2>3, FS_Subset
<1>7. Within(homes, all, d) = i .. last
  <2>1. ASSUME NEW j \in 1 .. n
        PROVE  homes[j] \in in \cup {d} <=> homes[j] = d \/ (d # <<>> /\ IsStrictPrefix(d, homes[j]))
    <3>1. homes[j] \in all
      BY <1>1, BelowIs DEF Upto
    <3> QED
      BY <3>1 DEF Inner
  <2>2. Within(homes, all, d) = {j \in 1 .. n : homes[j] \in in \cup {d}}
    BY DEF Within
  <2> HIDE DEF in
  <2> QED
    BY <1>6, <2>1, <2>2
<1>8. \A a \in in : d # <<>> /\ IsStrictPrefix(d, a) /\ IsHome(a) /\ d \in Ancestry(a) /\ a # d
                    /\ \E j \in i .. last : a \in Ancestry(homes[j])
  <2> SUFFICES ASSUME NEW a \in in
               PROVE  /\ d # <<>> /\ IsStrictPrefix(d, a) /\ IsHome(a) /\ d \in Ancestry(a) /\ a # d
                      /\ \E j \in i .. last : a \in Ancestry(homes[j])
    OBVIOUS
  <2>1. d # <<>> /\ a \in all /\ IsStrictPrefix(d, a)
    BY DEF Inner
  <2>2. PICK j \in 1 .. n : a \in Ancestry(homes[j])
    BY <2>1 DEF Upto
  <2>3. IsHome(a) /\ Ancestry(a) \subseteq Ancestry(homes[j])
    BY <2>2, AncestryChain
  <2>4. d \in Ancestry(a)
    BY <1>1, <2>1, <2>3, AncestryPrefix
  <2>5. j \in i .. last
    BY <1>2, <1>6, <2>3, <2>4
  <2>6. a # d
    BY <2>1 DEF IsStrictPrefix
  <2> QED
    BY <2>1, <2>2, <2>3, <2>4, <2>5, <2>6
<1>9. Upto(homes, last) = (front \cup {d}) \cup in
  <2>1. ASSUME NEW a \in Upto(homes, last) PROVE a \in (front \cup {d}) \cup in
    <3>1. PICK j \in 1 .. last : a \in Ancestry(homes[j])
      BY DEF Upto
    <3>2. j \in 1 .. n
      BY <1>5, <3>1
    <3>3. CASE j < i
      <4>1. j \in 1 .. i - 1
        BY <1>5, <3>1, <3>3
      <4> QED
        BY <3>1, <4>1 DEF Upto
    <3>4. CASE ~ (j < i)
      <4>1. d \in Ancestry(homes[j])
        <5>1. j \in i .. last
          BY <1>5, <3>1, <3>4
        <5> QED
          BY <1>2, <1>6, <5>1
      <4>2. a \in Ancestry(d) \/ d \in Ancestry(a)
        BY <3>1, <3>2, <4>1, AncestryChain
      <4>3. IsHome(a) /\ a \in all
        BY <3>1, <3>2, AncestryChain DEF Upto
      <4>4. CASE d \in Ancestry(a)
        <5>1. a = d \/ (d # <<>> /\ IsStrictPrefix(d, a))
          BY <1>1, <4>3, <4>4, BelowIs
        <5> QED
          BY <4>3, <5>1 DEF Inner
      <4> QED
        BY <4>2, <4>4
    <3> QED
      BY <3>3, <3>4
  <2>2. ASSUME NEW a \in (front \cup {d}) \cup in PROVE a \in Upto(homes, last)
    <3>1. CASE a \in Upto(homes, i - 1)
      <4>1. PICK j \in 1 .. i - 1 : a \in Ancestry(homes[j])
        BY <3>1 DEF Upto
      <4>2. j \in 1 .. last
        BY <1>5, <4>1
      <4> QED
        BY <4>1, <4>2 DEF Upto
    <3>2. CASE a \in Ancestry(d) \cup {d}
      <4>1. a \in Ancestry(homes[i]) /\ i \in 1 .. last
        BY <1>1, <1>5, <3>2
      <4> QED
        BY <4>1 DEF Upto
    <3>3. CASE a \in in
      <4>1. PICK j \in i .. last : a \in Ancestry(homes[j])
        BY <1>8, <3>3
      <4>2. j \in 1 .. last
        BY <4>1
      <4> QED
        BY <4>1, <4>2 DEF Upto
    <3> QED
      BY <2>2, <3>1, <3>2, <3>3
  <2> QED
    BY <2>1, <2>2
<1>10. d \notin front
  OBVIOUS
<1>11. (front \cup {d}) \cap in = {}
  <2> SUFFICES ASSUME NEW a \in in, a \in front \cup {d} PROVE FALSE
    OBVIOUS
  <2>1. IsHome(a) /\ d \in Ancestry(a) /\ a # d
    BY <1>8
  <2>2. CASE a \in Upto(homes, i - 1)
    <3>1. PICK j \in 1 .. i - 1 : a \in Ancestry(homes[j])
      BY <2>2 DEF Upto
    <3>2. j \in 1 .. n
      BY <3>1
    <3>3. d \in Ancestry(homes[j])
      BY <2>1, <3>1, <3>2, AncestryChain
    <3> QED
      BY <3>1, <3>3 DEF Upto
  <2>3. CASE a \in Ancestry(d)
    <3>1. Len(a) <= Len(d) /\ Len(d) <= Len(a) /\ Len(a) \in Nat /\ Len(d) \in Nat
      BY <1>1, <2>1, <2>3, AncestryChain DEF IsHome
    <3>2. Len(a) = Len(d)
      BY <3>1
    <3>3. d \in Ancestry(d)
      BY <1>1, BelowIs
    <3> QED
      BY <1>1, <2>1, <2>3, <3>2, <3>3, AncestryChain
  <2> QED
    BY <2>1, <2>2, <2>3
<1>12. IsFiniteSet(Upto(homes, last))
  <2>1. Upto(homes, last) \subseteq all
    <3>1. \A j \in 1 .. last : j \in 1 .. n
      BY <1>5
    <3> QED
      BY <3>1 DEF Upto
  <2> QED
    BY <2>1, FS_Subset
<1>13. IsFiniteSet(front) /\ IsFiniteSet(in)
  BY <1>9, <1>12, FS_Subset
<1> HIDE DEF front, in
<1>14. /\ Cardinality(front) \in Nat /\ Cardinality(in) \in Nat
       /\ IsFiniteSet(front \cup {d}) /\ Cardinality(front \cup {d}) = Cardinality(front) + 1
  BY <1>10, <1>13, FS_CardinalityType, FS_AddElement
<1>15. Cardinality(Upto(homes, last)) = Cardinality(front \cup {d}) + Cardinality(in)
  <2>1. /\ Cardinality((front \cup {d}) \cup in) =
              Cardinality(front \cup {d}) + Cardinality(in) - Cardinality((front \cup {d}) \cap in)
    BY <1>13, <1>14, FS_Union
  <2>2. Cardinality((front \cup {d}) \cap in) = 0
    BY <1>11, FS_EmptySet
  <2> QED
    BY <1>9, <1>14, <2>1, <2>2
<1>16. /\ last \in i .. n /\ Within(homes, all, d) = i .. last
       /\ Cardinality(Upto(homes, last)) = Cardinality(front) + 1 + Cardinality(in)
  BY <1>5, <1>7, <1>14, <1>15
<1>17. /\ front = Upto(homes, i - 1) \cup (Ancestry(d) \ {d}) /\ in = Inner(all, d)
  BY DEF front, in
<1> QED
  BY ONLY <1>4, <1>14, <1>16, <1>17 DEF Spanned

\* What the files take, in the order they are written and in the archive.
Packs     == [j \in 1 .. Len(order) |-> [packed |-> files[order[j]].packed]]
PlanPacks == [j \in 1 .. Len(archive.plan) |-> [packed |-> archive.plan[j].packed]]

\* The entry e is the one of the folder d, written in front of the i-th file.
PlacedAt(e, homes, packs, all, i, d) ==
    /\ d \in Ancestry(homes[i]) /\ d \notin Upto(homes, i - 1)
    /\ e.at = HeaderSize + EntryBlockSize
                + 3 * EntryBlockSize * Cardinality(Upto(homes, i - 1) \cup (Ancestry(d) \ {d}))
                + Weight(packs, 1 .. i - 1)
    /\ e.end = IF e.name = "DATA" THEN 0
               ELSE e.at + 3 * EntryBlockSize
                      + 3 * EntryBlockSize * Cardinality(Inner(all, d))
                      + Weight(packs, Within(homes, all, d))

FolderPlaced(s, homes, packs, all, n, left, k) ==
    PlacedAt(s[k], homes, packs, all, FilesIn(s, k) + 1, FolderIn(s, homes, n, left, k))

\* Where the i-th file ends.
FileEnd(homes, packs, i) ==
    HeaderSize + EntryBlockSize + 3 * EntryBlockSize * Cardinality(Upto(homes, i))
      + Weight(packs, 1 .. i)

FilesPlaced(s, homes, packs, m) ==
    /\ \A k \in Indices("file", s) : Behind(s[k]) = FileEnd(homes, packs, FilesIn(s, k) + 1)
    /\ \A i \in 1 .. m : \E k \in Indices("file", s) : FilesIn(s, k) = i - 1

\* Save writes every file, and a folder in front of the first file below it.
WriteEnds ==
    /\ Saving => \A i \in 1 .. Len(files) : \E j \in 1 .. Len(order) : order[j] = i
    /\ pc = "writing" =>
        /\ \A a \in Made : /\ Ancestry(a) \subseteq Made
                           /\ \E j \in 1 .. next : j <= Len(order) /\ a \in Ancestry(Homes[j])
        /\ \A k \in Named(buffer) : FolderPlaced(buffer, Homes, Packs, dirs, next, Left, k)
        /\ FilesPlaced(buffer, Homes, Packs, next - 1)

ArchiveEnds ==
    LET s   == archive.entries
        n   == Len(archive.plan)
        all == Upto(PlanHomes, n)
    IN  /\ \A j \in 1 .. n : IsHome(PlanHomes[j])
        /\ IsFiniteSet(all)
        /\ \A k \in Named(s) : FolderPlaced(s, PlanHomes, PlanPacks, all, 0, 0, k)
        /\ FilesPlaced(s, PlanHomes, PlanPacks, n)

EInv == WriteEnds /\ ArchiveEnds

LEMMA EndsInit == Init => EInv
<1> SUFFICES ASSUME Init PROVE EInv
  OBVIOUS
<1>1. ~ Saving /\ pc # "writing" /\ archive.plan = <<>> /\ archive.entries = <<>>
  BY DEF Init, Saving, NoArchive
<1>2. WriteEnds
  BY <1>1 DEF WriteEnds
<1>3. /\ Upto(PlanHomes, Len(archive.plan)) = {} /\ Len(archive.plan) = 0 /\ Named(archive.entries) = {}
      /\ Indices("file", archive.entries) = {}
  BY <1>1 DEF Upto, Named, Indices
<1>4. ArchiveEnds
  <2>1. IsFiniteSet(Upto(PlanHomes, Len(archive.plan)))
    BY <1>3, FS_EmptySet
  <2>2. 1 .. Len(archive.plan) = {}
    BY <1>3
  <2>3. FilesPlaced(archive.entries, PlanHomes, PlanPacks, Len(archive.plan))
    BY <1>3, <2>2 DEF FilesPlaced
  <2> QED
    BY <1>3, <2>1, <2>2, <2>3 DEF ArchiveEnds
<1> QED
  BY <1>2, <1>4 DEF EInv

LEMMA ArchiveEndsKept ==
    ASSUME ArchiveEnds, archive' = archive
    PROVE  ArchiveEnds'
<1>1. PlanHomes' = PlanHomes /\ PlanPacks' = PlanPacks
  BY DEF PlanHomes, PlanPacks
<1> QED
  BY <1>1 DEF ArchiveEnds

\* A step outside Save that leaves the archive alone.
LEMMA EndsIdle ==
    ASSUME EInv, ~ Saving', archive' = archive
    PROVE  EInv'
<1>1. WriteEnds'
  BY DEF WriteEnds, Saving
<1>2. ArchiveEnds'
  BY ArchiveEndsKept DEF EInv
<1> QED
  BY <1>1, <1>2 DEF EInv

LEMMA PacksAre ==
    ASSUME IInv, Saving
    PROVE  /\ Len(order) \in Nat /\ Len(Packs) = Len(order)
           /\ \A j \in 1 .. Len(order) : /\ order[j] \in 1 .. Len(files)
                                         /\ Packs[j].packed = files[order[j]].packed
                                         /\ Packs[j].packed \in Nat
<1>1. order \in Seq(1 .. Len(files)) /\ files \in Seq(FileType)
  BY DEF IInv, SaveInv, FilesOK
<1>2. ASSUME NEW j \in 1 .. Len(order)
      PROVE  /\ order[j] \in 1 .. Len(files) /\ Packs[j].packed = files[order[j]].packed
             /\ Packs[j].packed \in Nat
  <2>1. order[j] \in 1 .. Len(files)
    BY <1>1
  <2>2. files[order[j]] \in FileType
    BY <1>1, <2>1
  <2> QED
    BY <2>1, <2>2 DEF Packs, FileType
<1> QED
  BY <1>1, <1>2 DEF Packs

\* The scales of Save show the sums.
LEMMA WeighsIs ==
    ASSUME IInv, Saving, NEW w, Weighs(w, Len(order)), NEW n \in 0 .. Len(order)
    PROVE  w[n] = Weight(Packs, 1 .. n) /\ w[n] \in Nat
<1> DEFINE L == Len(order)
           T == {m \in 0 .. L : w[m] # Weight(Packs, 1 .. m)}
<1>1. /\ L \in Nat
      /\ \A j \in 1 .. L : Packs[j].packed = files[order[j]].packed /\ Packs[j].packed \in Nat
  BY PacksAre
<1>2. /\ w[0] = 0 /\ \A j \in 0 .. L : w[j] \in Nat
      /\ \A j \in 1 .. L : w[j] = w[j - 1] + EntryBlockSize + files[order[j]].packed
  BY DEF Weighs
<1> HIDE DEF L
<1>3. T = {}
  <2> SUFFICES ASSUME T # {} PROVE FALSE
    OBVIOUS
  <2>1. PICK m \in T : \A x \in T : m <= x
    <3>1. T \subseteq Nat
      BY <1>1
    <3> HIDE DEF T
    <3> QED
      BY <3>1, LeastNumber
  <2>2. m \in 0 .. L /\ w[m] # Weight(Packs, 1 .. m)
    OBVIOUS
  <2>3. CASE m = 0
    <3>1. 1 .. m = {}
      BY <2>3
    <3>2. Weight(Packs, 1 .. m) = 0
      BY <3>1, FS_EmptySet, WeightFacts
    <3> QED
      BY <1>2, <2>2, <2>3, <3>2
  <2>4. CASE m # 0
    <3>1. PICK x \in 0 .. L : m = x + 1 /\ x \in Nat
      <4>1. m - 1 \in 0 .. L /\ m = (m - 1) + 1 /\ m - 1 \in Nat
        BY <1>1, <2>2, <2>4
      <4> QED
        BY <4>1
    <3>2. w[x] = Weight(Packs, 1 .. x)
      <4>1. x \notin T
        BY <1>1, <2>1, <3>1
      <4> QED
        BY <4>1
    <3>3. \A i \in 1 .. x + 1 : Packs[i].packed \in Nat
      BY <1>1, <2>2, <3>1
    <3>4. Weight(Packs, 1 .. x + 1) = EntryBlockSize + Packs[x + 1].packed + Weight(Packs, 1 .. x)
      BY <3>1, <3>3, WeightNext
    <3>5. x + 1 \in 1 .. L /\ (x + 1) - 1 = x
      BY <1>1, <2>2, <3>1
    <3>6. /\ w[x + 1] = w[x] + EntryBlockSize + Packs[x + 1].packed
          /\ w[x] \in Nat /\ Packs[x + 1].packed \in Nat
      BY <1>1, <1>2, <3>5
    <3> HIDE DEF T
    <3> QED
      BY <2>2, <3>1, <3>2, <3>4, <3>6 DEF EntryBlockSize
  <2> QED
    BY <2>3, <2>4
<1> QED
  BY <1>2, <1>3 DEF L

\* Where the entries end that Save has written.
LEMMA WritingEnd ==
    ASSUME IInv, pc = "writing", buffer # <<>>
    PROVE  /\ EndOf(buffer) = HeaderSize + EntryBlockSize
                                + 3 * EntryBlockSize * Cardinality(Made)
                                + Weight(Packs, 1 .. next - 1)
           /\ Weight(Packs, 1 .. next - 1) \in Nat
<1>1. Saving
  BY DEF Saving
<1>2. PICK w : /\ Weighs(w, Len(order))
               /\ EndOf(buffer) = HeaderSize + EntryBlockSize
                                     + 3 * EntryBlockSize * Cardinality(Made) + w[next - 1]
  BY DEF IInv, WriteInv
<1>3. next - 1 \in 0 .. Len(order)
  <2>1. next \in 1 .. Len(order) + 1 /\ Len(order) \in Nat
    BY <1>1, PacksAre DEF IInv, SaveInv
  <2> QED
    BY <2>1
<1>4. w[next - 1] = Weight(Packs, 1 .. next - 1) /\ w[next - 1] \in Nat
  BY <1>1, <1>2, <1>3, WeighsIs
<1> QED
  BY <1>2, <1>4

LEMMA EndsSaveBegin == ASSUME IInv, EInv, SaveBegin PROVE EInv'
<1>1. pc' = "planning" /\ files' = files /\ archive' = archive
  BY DEF SaveBegin
<1>2. PICK n \in Nat : n = Len(files)
  BY DEF IInv, FilesOK
<1>3. order' \in Injection(1 .. n, 1 .. n) /\ order' \in [1 .. n -> 1 .. n]
  <2>1. Cardinality(1 .. n) = n
    <3>1. PICK m : m = Cardinality(1 .. n)
      OBVIOUS
    <3>2. m = IF 1 > n THEN 0 ELSE n - 1 + 1
      BY <3>1, FS_Interval
    <3> QED
      BY <3>1, <3>2
  <2>2. order' \in SetToSeqs(1 .. n)
    BY <1>2 DEF SaveBegin
  <2>3. order' \in [1 .. n -> 1 .. n] /\ \A i, j \in 1 .. n : i # j => order'[i] # order'[j]
    BY <2>1, <2>2 DEF SetToSeqs
  <2> QED
    BY <2>3 DEF Injection, IsInjective
<1>4. order' \in Surjection(1 .. n, 1 .. n)
  <2>1. IsFiniteSet(1 .. n)
    BY FS_Interval
  <2> QED
    BY <1>3, <2>1, FS_Injection
<1>5. Len(order') = n
  BY <1>3
<1>6. \A i \in 1 .. n : \E j \in 1 .. n : order'[j] = i
  BY <1>4 DEF Surjection
<1>7. WriteEnds'
  BY <1>1, <1>2, <1>5, <1>6 DEF WriteEnds
<1> QED
  BY <1>1, <1>7, ArchiveEndsKept DEF EInv

LEMMA EndsPlanFile == ASSUME IInv, EInv, PlanFile PROVE EInv'
<1>1. pc = "planning" /\ pc' = "planning" /\ order' = order /\ archive' = archive
  BY DEF PlanFile
<1>2. Len(files') = Len(files)
  <2>1. PICK f : files' = [files EXCEPT ![order[next]] = f]
    BY DEF PlanFile
  <2> QED
    BY <2>1 DEF IInv, FilesOK
<1>3. WriteEnds'
  BY <1>1, <1>2 DEF WriteEnds, EInv, Saving
<1> QED
  BY <1>1, <1>3, ArchiveEndsKept DEF EInv

LEMMA EndsPlanEnd == ASSUME IInv, EInv, PlanEnd PROVE EInv'
<1>1. /\ pc = "planning" /\ pc' = "writing" /\ next' = 1
      /\ UNCHANGED <<files, order, written, buffer, archive>>
  BY DEF PlanEnd
<1>2. written' = <<>> /\ buffer' = <<>>
  BY <1>1 DEF IInv, SaveInv
<1>3. /\ Made' = {} /\ Named(buffer') = {} /\ Indices("file", buffer') = {}
      /\ 1 .. next' - 1 = {}
  BY <1>1, <1>2 DEF Made, Named, Indices
<1>4. FilesPlaced(buffer, Homes, Packs, next - 1)'
  BY <1>3 DEF FilesPlaced
<1>5. WriteEnds'
  BY <1>1, <1>3, <1>4 DEF WriteEnds, EInv, Saving
<1> QED
  BY <1>1, <1>5, ArchiveEndsKept DEF EInv

\* The size of a folder is the weight of the files below it.
LEMMA EntrySizeIs ==
    ASSUME IInv, EInv, Saving, NEW dir
    PROVE  EntrySize(dir) = 3 * EntryBlockSize * Cardinality(Inner(dirs, dir))
                              + Weight(Packs, Within(Homes, dirs, dir))
<1> DEFINE all == Inner(dirs, dir) \cup {dir}
           held == {i \in 1 .. Len(files) : files[i].folder \in all}
           in == Within(Homes, dirs, dir)
<1>1. Subfolders(dir) = Inner(dirs, dir)
  BY DEF Subfolders, Inner
<1>2. EntrySize(dir) = 3 * EntryBlockSize * Cardinality(Inner(dirs, dir)) + Weight(files, held)
  BY <1>1 DEF EntrySize, Weight
<1>3. /\ Len(order) \in Nat
      /\ \A j \in 1 .. Len(order) : /\ order[j] \in 1 .. Len(files)
                                    /\ Packs[j].packed = files[order[j]].packed
                                    /\ Packs[j].packed \in Nat
      /\ \A i, j \in 1 .. Len(order) : i # j => order[i] # order[j]
      /\ \A i \in 1 .. Len(files) : \E j \in 1 .. Len(order) : order[j] = i
      /\ Len(Homes) = Len(order)
  BY PacksAre DEF IInv, SaveInv, EInv, WriteEnds, Homes
<1>4. in = {j \in 1 .. Len(order) : files[order[j]].folder \in all}
  BY <1>3 DEF Within, Homes
<1>5. IsFiniteSet(in)
  <2>1. in \in SUBSET (1 .. Len(order)) /\ IsFiniteSet(1 .. Len(order))
    BY <1>3, <1>4, FS_Interval
  <2> QED
    BY <2>1, FS_Subset
<1>6. held = {order[j] : j \in in}
  <2> HIDE DEF all
  <2>1. ASSUME NEW i \in held PROVE i \in {order[j] : j \in in}
    <3>1. PICK j \in 1 .. Len(order) : order[j] = i
      BY <1>3
    <3>2. j \in in
      BY <1>4, <3>1
    <3> QED
      BY <3>1, <3>2
  <2>2. ASSUME NEW j \in in PROVE order[j] \in held
    BY <1>3, <1>4
  <2> QED
    BY <2>1, <2>2
<1>7. PICK p, q : p = order /\ q = Packs
  OBVIOUS
<1> HIDE DEF in, held
<1>8. /\ \A j \in in : q[j].packed \in Nat /\ files[p[j]].packed = q[j].packed
      /\ \A i, j \in in : p[i] = p[j] => i = j
  BY <1>3, <1>4, <1>7
<1>9. Weight(files, {p[j] : j \in in}) = Weight(q, in)
  BY <1>5, <1>8, WeightMapped
<1> QED
  BY <1>2, <1>6, <1>7, <1>9 DEF in

LEMMA EndsWriteRoot ==
    ASSUME IInv, EInv, WriteFolder, Root \notin DOMAIN written PROVE EInv'
<1>1. /\ pc = "writing" /\ pc' = "writing" /\ UNCHANGED <<files, order, archive>>
  BY DEF WriteFolder
<1>2. /\ Made' = {} /\ Named(buffer') = {} /\ Indices("file", buffer') = {}
      /\ 1 .. next' - 1 = {}
  BY WriteRoot
<1>3. FilesPlaced(buffer, Homes, Packs, next - 1)'
  BY <1>2 DEF FilesPlaced
<1>4. WriteEnds'
  BY <1>1, <1>2, <1>3 DEF WriteEnds, EInv, Saving
<1> QED
  BY <1>1, <1>4, ArchiveEndsKept DEF EInv

LEMMA EndsWriteNamed ==
    ASSUME IInv, EInv, WriteFolder, Root \in DOMAIN written PROVE EInv'
<1>1. /\ pc = "writing" /\ pc' = "writing" /\ next <= Len(order) /\ File.folder # NoFolder
      /\ UNCHANGED <<files, order, next, dirs, archive>>
  BY DEF WriteFolder
<1>2. PICK dir, a : FolderAdded(dir, a)
  BY WriteNamed
<1>3. PICK F, n : F = File.folder /\ n = Len(buffer)
  OBVIOUS
<1>4. /\ dir \in Ancestry(F) /\ dir \notin Made /\ Made' = Made \cup {dir}
      /\ \A x \in Ancestry(F) \ Made : Len(dir) <= Len(x)
      /\ n \in Nat /\ buffer'[n + 1] = a /\ buffer # <<>>
      /\ Named(buffer') = Named(buffer) \cup {n + 1}
      /\ Indices("file", buffer') = Indices("file", buffer)
      /\ \A k \in 1 .. n : buffer'[k] = buffer[k] /\ FilesIn(buffer', k) = FilesIn(buffer, k)
      /\ FilesIn(buffer', n + 1) = next - 1
      /\ FolderIn(buffer', Homes, next, Left', n + 1) = dir
      /\ \A k \in Named(buffer) :
            FolderIn(buffer', Homes, next, Left', k) = FolderIn(buffer, Homes, next, Left, k)
      /\ a.at = EndOf(buffer)
      /\ a.end = IF a.name = "DATA" THEN 0 ELSE EndOf(buffer) + 435 + EntrySize(dir)
  BY <1>2, <1>3 DEF FolderAdded
<1>5. /\ next \in 1 .. Len(order) /\ Len(order) \in Nat /\ Homes[next] = F /\ IsHome(F)
      /\ \A d \in Made : IsHome(d)
      /\ EndOf(buffer) \in Nat
  BY <1>1, <1>3, Writing
<1>6. /\ \A x \in Made : /\ Ancestry(x) \subseteq Made
                         /\ \E j \in 1 .. next : j <= Len(order) /\ x \in Ancestry(Homes[j])
      /\ \A k \in Named(buffer) : FolderPlaced(buffer, Homes, Packs, dirs, next, Left, k)
      /\ FilesPlaced(buffer, Homes, Packs, next - 1)
      /\ \A i \in 1 .. Len(files) : \E j \in 1 .. Len(order) : order[j] = i
  BY <1>1 DEF EInv, WriteEnds, Saving
<1>7. /\ IsHome(dir) /\ Ancestry(dir) \subseteq Ancestry(F)
      /\ \A x \in Ancestry(F) : x \in Ancestry(dir) \/ dir \in Ancestry(x)
  BY <1>4, <1>5, AncestryChain
<1>8. Ancestry(dir) \ {dir} \subseteq Made
  <2> SUFFICES ASSUME NEW x \in Ancestry(dir), x # dir, x \notin Made PROVE FALSE
    OBVIOUS
  <2>1. Len(dir) <= Len(x)
    BY <1>4, <1>7
  <2>2. IsHome(x) /\ Len(x) <= Len(dir) /\ dir \in Ancestry(dir)
    BY <1>7, AncestryChain, BelowIs
  <2>3. Len(x) = Len(dir)
    BY <1>7, <2>1, <2>2 DEF IsHome
  <2> QED
    BY <1>7, <2>2, <2>3, AncestryChain
<1>9. Upto(Homes, next - 1) \subseteq Made
  BY <1>1 DEF IInv, WriteInv, Upto
<1>10. Made = Upto(Homes, next - 1) \cup (Ancestry(dir) \ {dir})
  <2> SUFFICES ASSUME NEW x \in Made
               PROVE  x \in Upto(Homes, next - 1) \cup (Ancestry(dir) \ {dir})
    BY <1>8, <1>9
  <2>1. PICK j \in 1 .. next : x \in Ancestry(Homes[j])
    BY <1>6
  <2>2. CASE j # next
    <3>1. j \in 1 .. next - 1
      BY <1>5, <2>2
    <3> QED
      BY <2>1, <3>1 DEF Upto
  <2>3. CASE j = next
    <3>1. x \in Ancestry(F)
      BY <1>5, <2>1, <2>3
    <3>2. dir \notin Ancestry(x)
      BY <1>4, <1>6
    <3>3. x # dir
      BY <1>4
    <3> QED
      BY <1>7, <3>1, <3>2, <3>3
  <2> QED
    BY <2>2, <2>3
<1>11. Homes' = Homes /\ Packs' = Packs
  BY <1>1 DEF Homes, Packs
<1>12. ASSUME NEW x \in Made'
       PROVE  /\ Ancestry(x) \subseteq Made'
              /\ \E j \in 1 .. next : j <= Len(order) /\ x \in Ancestry(Homes[j])
  <2>1. CASE x \in Made
    BY <1>4, <1>6, <2>1
  <2>2. CASE x = dir
    <3>1. Ancestry(x) \subseteq Made'
      BY <1>4, <1>8, <2>2
    <3>2. next \in 1 .. next /\ next <= Len(order) /\ x \in Ancestry(Homes[next])
      BY <1>4, <1>5, <2>2
    <3> QED
      BY <3>1, <3>2
  <2> QED
    BY <1>4, <2>1, <2>2
<1>13. PlacedAt(a, Homes, Packs, dirs, next, dir)
  <2> DEFINE x == Cardinality(Made)
             y == Weight(Packs, 1 .. next - 1)
             in == Cardinality(Inner(dirs, dir))
             z == Weight(Packs, Within(Homes, dirs, dir))
  <2>1. EndOf(buffer) = HeaderSize + EntryBlockSize + 3 * EntryBlockSize * x + y
    BY <1>1, <1>4, WritingEnd
  <2>2. x = Cardinality(Upto(Homes, next - 1) \cup (Ancestry(dir) \ {dir}))
    BY <1>10
  <2>3. EntrySize(dir) = 3 * EntryBlockSize * in + z
    BY <1>1, EntrySizeIs DEF Saving
  <2>4. dir \notin Upto(Homes, next - 1) /\ dir \in Ancestry(Homes[next])
    BY <1>4, <1>5, <1>9
  <2>5. in \in Nat /\ z \in Nat
    <3>1. IsFiniteSet(dirs) /\ Inner(dirs, dir) \in SUBSET dirs
      BY <1>1, Writing DEF Inner
    <3>2. in \in Nat
      BY <3>1, FS_Subset, FS_CardinalityType
    <3>3. /\ Len(Homes) = Len(order)
          /\ \A j \in 1 .. Len(order) : Packs[j].packed \in Nat
      BY <1>1, <1>5, PacksAre DEF Saving, Homes
    <3>4. /\ Within(Homes, dirs, dir) \in SUBSET (1 .. Len(order))
          /\ IsFiniteSet(1 .. Len(order))
      BY <1>5, <3>3, FS_Interval DEF Within
    <3>5. IsFiniteSet(Within(Homes, dirs, dir))
      BY <3>4, FS_Subset
    <3>6. \A j \in Within(Homes, dirs, dir) : Packs[j].packed \in Nat
      BY <3>3, <3>4
    <3> QED
      BY <3>2, <3>5, <3>6, WeightFacts
  <2> HIDE DEF x, y, z, in
  <2>6. a.at = HeaderSize + EntryBlockSize + 3 * EntryBlockSize * x + y
    BY <1>4, <2>1
  <2>7. a.end = IF a.name = "DATA" THEN 0
                ELSE a.at + 3 * EntryBlockSize + 3 * EntryBlockSize * in + z
    BY <1>4, <1>5, <2>3, <2>5 DEF EntryBlockSize
  <2> QED
    BY <2>2, <2>4, <2>6, <2>7 DEF PlacedAt, x, y, z, in
<1>14. ASSUME NEW k \in Named(buffer')
       PROVE  FolderPlaced(buffer', Homes, Packs, dirs, next, Left', k)
  <2>1. CASE k \in Named(buffer)
    <3>1. k \in 1 .. n
      BY <1>3, <2>1 DEF Named, Indices
    <3> QED
      BY <1>4, <1>6, <2>1, <3>1 DEF FolderPlaced
  <2>2. CASE k = n + 1
    <3>1. FilesIn(buffer', k) + 1 = next
      BY <1>4, <1>5, <2>2
    <3> QED
      BY <1>4, <1>13, <2>2, <3>1 DEF FolderPlaced
  <2> QED
    BY <1>4, <2>1, <2>2
<1>15. FilesPlaced(buffer', Homes, Packs, next - 1)
  <2>1. \A k \in Indices("file", buffer) : k \in 1 .. n
    BY <1>3 DEF Indices
  <2> QED
    BY <1>4, <1>6, <2>1 DEF FilesPlaced
<1>16. WriteEnds'
  BY <1>1, <1>6, <1>11, <1>12, <1>14, <1>15 DEF WriteEnds
<1> QED
  BY <1>1, <1>16, ArchiveEndsKept DEF EInv

LEMMA EndsWriteFile == ASSUME IInv, EInv, WriteFile PROVE EInv'
<1>1. /\ pc = "writing" /\ pc' = "writing" /\ next <= Len(order) /\ File.folder # NoFolder
      /\ Missing(File.folder) = {} /\ next' = next + 1
      /\ UNCHANGED <<order, dirs, archive>>
  BY DEF WriteFile
<1>2. PICK e : FileAdded(e)
  BY InvWriteFile
<1>3. PICK n : n = Len(buffer)
  OBVIOUS
<1>4. /\ n \in Nat /\ buffer'[n + 1] = e
      /\ Named(buffer') = Named(buffer)
      /\ Indices("file", buffer') = Indices("file", buffer) \cup {n + 1}
      /\ \A k \in 1 .. n : buffer'[k] = buffer[k] /\ FilesIn(buffer', k) = FilesIn(buffer, k)
      /\ FilesIn(buffer', n + 1) = next - 1
      /\ \A k \in Named(buffer) :
            FolderIn(buffer', Homes, next + 1, Left', k) = FolderIn(buffer, Homes, next, Left, k)
      /\ Behind(e) = EndOf(buffer) + EntryBlockSize + File.packed /\ buffer # <<>>
      /\ Homes' = Homes /\ Made' = Made /\ Len(files') = Len(files)
      /\ \A j \in 1 .. Len(order) : files'[order[j]].packed = files[order[j]].packed
  BY <1>2, <1>3 DEF FileAdded
<1>5. /\ next \in 1 .. Len(order) /\ Len(order) \in Nat
      /\ Homes[next] = File.folder /\ IsHome(File.folder)
      /\ \A x \in Ancestry(File.folder) : x # Root
  BY <1>1, Writing
<1>6. /\ \A x \in Made : /\ Ancestry(x) \subseteq Made
                         /\ \E j \in 1 .. next : j <= Len(order) /\ x \in Ancestry(Homes[j])
      /\ \A k \in Named(buffer) : FolderPlaced(buffer, Homes, Packs, dirs, next, Left, k)
      /\ FilesPlaced(buffer, Homes, Packs, next - 1)
      /\ \A i \in 1 .. Len(files) : \E j \in 1 .. Len(order) : order[j] = i
  BY <1>1 DEF EInv, WriteEnds, Saving
<1>7. Packs' = Packs
  BY <1>1, <1>4 DEF Packs
<1>8. Made = Upto(Homes, next)
  <2>1. Ancestry(File.folder) \subseteq Made
    BY <1>1, <1>5 DEF Missing, Made
  <2>2. ASSUME NEW x \in Upto(Homes, next) PROVE x \in Made
    <3>1. PICK j \in 1 .. next : x \in Ancestry(Homes[j])
      BY DEF Upto
    <3>2. CASE j = next
      BY <1>5, <2>1, <3>1, <3>2
    <3>3. CASE j # next
      <4>1. j \in 1 .. next - 1
        BY <1>5, <3>3
      <4> QED
        BY <1>1, <3>1, <4>1 DEF IInv, WriteInv
    <3> QED
      BY <3>2, <3>3
  <2>3. ASSUME NEW x \in Made PROVE x \in Upto(Homes, next)
    BY <1>6 DEF Upto
  <2> QED
    BY <2>2, <2>3
<1>9. Behind(e) = FileEnd(Homes, Packs, next)
  <2> DEFINE x == 3 * EntryBlockSize * Cardinality(Made)
             y == Weight(Packs, 1 .. next - 1)
             p == Packs[next].packed
  <2>1. EndOf(buffer) = HeaderSize + EntryBlockSize + x + y /\ y \in Nat
    BY <1>1, <1>4, WritingEnd
  <2>2. /\ File.packed = p
        /\ \A j \in 1 .. Len(order) : Packs[j].packed \in Nat
    BY <1>1, <1>5, PacksAre DEF Saving, File
  <2>3. Weight(Packs, 1 .. next) = EntryBlockSize + p + y
    <3>1. PICK b \in Nat : b = next - 1
      BY <1>5
    <3>2. \A j \in 1 .. b + 1 : Packs[j].packed \in Nat
      BY <1>5, <2>2, <3>1
    <3>3. Weight(Packs, 1 .. b + 1) = EntryBlockSize + Packs[b + 1].packed + Weight(Packs, 1 .. b)
      BY <3>2, WeightNext
    <3>4. b + 1 = next
      BY <1>5, <3>1
    <3> QED
      BY <3>1, <3>3, <3>4
  <2>4. p \in Nat /\ x \in Int
    <3>1. p \in Nat
      BY <1>5, <2>2
    <3>2. Cardinality(Made) \in Nat
      BY <1>1, Writing
    <3> QED
      BY <3>1, <3>2 DEF EntryBlockSize
  <2>5. FileEnd(Homes, Packs, next) = HeaderSize + EntryBlockSize + x + Weight(Packs, 1 .. next)
    BY <1>8 DEF FileEnd
  <2> HIDE DEF x, y, p
  <2> QED
    BY <1>4, <2>1, <2>2, <2>3, <2>4, <2>5 DEF HeaderSize, EntryBlockSize
<1>10. \A k \in Indices("file", buffer) : k \in 1 .. n
  BY <1>3 DEF Indices
<1>11. FilesPlaced(buffer', Homes, Packs, next)
  <2>1. ASSUME NEW k \in Indices("file", buffer')
        PROVE  Behind(buffer'[k]) = FileEnd(Homes, Packs, FilesIn(buffer', k) + 1)
    <3>1. CASE k \in Indices("file", buffer)
      <4>1. /\ buffer'[k] = buffer[k] /\ FilesIn(buffer', k) = FilesIn(buffer, k)
            /\ Behind(buffer[k]) = FileEnd(Homes, Packs, FilesIn(buffer, k) + 1)
        BY <1>4, <1>6, <1>10, <3>1 DEF FilesPlaced
      <4> QED
        BY <4>1
    <3>2. CASE k = n + 1
      <4>1. FilesIn(buffer', k) + 1 = next
        BY <1>4, <1>5, <3>2
      <4> QED
        BY <1>4, <1>9, <3>2, <4>1
    <3> QED
      BY <1>4, <3>1, <3>2
  <2>2. ASSUME NEW i \in 1 .. next
        PROVE  \E k \in Indices("file", buffer') : FilesIn(buffer', k) = i - 1
    <3>1. CASE i = next
      BY <1>4, <3>1
    <3>2. CASE i # next
      <4>1. i \in 1 .. next - 1
        BY <1>5, <3>2
      <4>2. PICK k \in Indices("file", buffer) : FilesIn(buffer, k) = i - 1
        BY <1>6, <4>1 DEF FilesPlaced
      <4> QED
        BY <1>4, <1>10, <4>2
    <3> QED
      BY <3>1, <3>2
  <2> QED
    BY <2>1, <2>2 DEF FilesPlaced
<1>12. ASSUME NEW k \in Named(buffer')
       PROVE  FolderPlaced(buffer', Homes, Packs, dirs, next + 1, Left', k)
  <2>1. k \in Named(buffer) /\ k \in 1 .. n
    BY <1>3, <1>4 DEF Named, Indices
  <2> QED
    BY <1>4, <1>6, <2>1 DEF FolderPlaced
<1>13. ASSUME NEW x \in Made'
       PROVE  /\ Ancestry(x) \subseteq Made'
              /\ \E j \in 1 .. next + 1 : j <= Len(order) /\ x \in Ancestry(Homes[j])
  <2>1. x \in Made /\ Made' = Made
    BY <1>4
  <2>2. PICK j \in 1 .. next : j <= Len(order) /\ x \in Ancestry(Homes[j])
    BY <1>6, <2>1
  <2>3. j \in 1 .. next + 1
    BY <1>5
  <2> QED
    BY <1>6, <2>1, <2>2, <2>3
<1>14. FilesPlaced(buffer, Homes, Packs, next - 1)'
  <2>1. next' - 1 = next
    BY <1>1, <1>5
  <2> QED
    BY <1>4, <1>7, <1>11, <2>1
<1>15. WriteEnds'
  BY <1>1, <1>4, <1>6, <1>7, <1>12, <1>13, <1>14 DEF WriteEnds
<1> QED
  BY <1>1, <1>15, ArchiveEndsKept DEF EInv

LEMMA EndsSaveEnd == ASSUME IInv, EInv, SaveEnd PROVE EInv'
<1> DEFINE plan == [k \in 1 .. Len(order) |-> files[order[k]]]
<1>1. /\ pc = "writing" /\ pc' = "ready" /\ next > Len(order)
      /\ archive' = [files |-> header.files, folders |-> header.folders, size |-> header.size,
                     entries |-> buffer, plan |-> plan]
  BY DEF SaveEnd
<1>2. /\ order \in Seq(1 .. Len(files)) /\ next \in 1 .. Len(order) + 1 /\ IsFiniteSet(dirs)
  BY <1>1 DEF IInv, SaveInv, Saving
<1>3. next - 1 = Len(order) /\ Len(order) \in Nat /\ next # 0
  BY <1>1, <1>2
<1>4. archive'.entries = buffer /\ archive'.plan = plan
  BY <1>1
<1>5. Len(plan) = Len(order)
  BY <1>3
<1>6. PlanHomes' = Homes /\ PlanPacks' = Packs
  BY <1>4, <1>5 DEF PlanHomes, Homes, PlanPacks, Packs
<1> HIDE DEF plan
<1>7. /\ Made \subseteq dirs
      /\ \A j \in 1 .. Len(order) : Homes[j] # NoFolder /\ Ancestry(Homes[j]) \subseteq Made
  BY <1>1, <1>3 DEF IInv, WriteInv
<1>8. Upto(Homes, Len(order)) = dirs
  <2>1. PICK w : Planned(Len(order), w)
    BY <1>1 DEF IInv, WriteInv
  <2>2. \A d \in dirs : \E j \in 1 .. Len(order) : d \in Ancestry(Homes[j])
    BY <1>7, <2>1 DEF Planned, AllHome
  <2> QED
    BY <1>7, <2>2 DEF Upto
<1>9. ASSUME NEW j \in 1 .. Len(order) PROVE IsHome(Homes[j])
  <2>1. order[j] \in 1 .. Len(files) /\ Homes[j] = files[order[j]].folder
    BY <1>2 DEF Homes
  <2> QED
    BY <1>7, <2>1 DEF IInv, FilesOK, FileOK
<1>10. /\ \A k \in Named(buffer) : FolderPlaced(buffer, Homes, Packs, dirs, next, Left, k)
       /\ FilesPlaced(buffer, Homes, Packs, Len(order))
  BY <1>1, <1>3 DEF EInv, WriteEnds
<1>11. ASSUME NEW k \in Named(buffer) PROVE FolderPlaced(buffer, Homes, Packs, dirs, 0, 0, k)
  <2>1. Left = 0
    BY <1>1, <1>2 DEF Left
  <2>2. FolderIn(buffer, Homes, next, 0, k) = FolderIn(buffer, Homes, 0, 0, k)
    BY DEF FolderIn
  <2> QED
    BY <1>10, <2>1, <2>2 DEF FolderPlaced
<1>12. ArchiveEnds'
  BY <1>2, <1>4, <1>5, <1>6, <1>8, <1>9, <1>10, <1>11 DEF ArchiveEnds
<1>13. WriteEnds'
  BY <1>1 DEF WriteEnds, Saving
<1> QED
  BY <1>12, <1>13 DEF EInv

LEMMA EndsDamage ==
    ASSUME IInv, EInv, NEW k \in 1 .. Len(archive.entries), NEW how \in {"packed", "checksum"},
           Damage(k, how)
    PROVE  EInv'
<1> DEFINE s == archive.entries
           t == [s EXCEPT ![k].damage = how]
<1>1. pc' = "ready" /\ archive' = [archive EXCEPT !.entries[k].damage = how]
  BY DEF Damage
<1>2. /\ archive \in [files: Nat, folders: Nat, size: Nat,
                      entries: Seq(EntryType), plan: Seq(FileType)]
      /\ s \in Seq(EntryType)
  BY DEF IInv, ArchiveInv, EntriesOK
<1>3. archive'.entries = t /\ archive'.plan = archive.plan
  BY <1>1, <1>2
<1>4. t \in Seq(EntryType) /\ Len(t) = Len(s) /\ \A i \in 1 .. Len(s) : Alike(t[i], s[i])
  <2>1. [s[k] EXCEPT !.damage = how] \in EntryType /\ Alike([s[k] EXCEPT !.damage = how], s[k])
    <3>1. s[k] \in EntryType
      BY <1>2
    <3> QED
      BY <3>1 DEF EntryType, Alike
  <2>2. /\ t \in Seq(EntryType) /\ Len(t) = Len(s)
        /\ \A i \in 1 .. Len(s) : t[i] = IF i = k THEN [s[k] EXCEPT !.damage = how] ELSE s[i]
    BY <1>2, <2>1
  <2>3. \A i \in 1 .. Len(s) : Alike(s[i], s[i])
    BY DEF Alike
  <2> QED
    BY <2>1, <2>2, <2>3
<1> HIDE DEF t
<1>5. /\ \A type : Indices(type, t) = Indices(type, s)
      /\ Named(t) = Named(s)
      /\ \A i : FilesIn(t, i) = FilesIn(s, i) /\ After(t, i) = After(s, i)
  BY <1>2, <1>4, AlikeFacts
<1>6. PlanHomes' = PlanHomes /\ PlanPacks' = PlanPacks
  BY <1>3 DEF PlanHomes, PlanPacks
<1> PICK all : all = Upto(PlanHomes, Len(archive.plan))
  OBVIOUS
<1>7. /\ \A j \in 1 .. Len(archive.plan) : IsHome(PlanHomes[j])
      /\ IsFiniteSet(all)
      /\ \A i \in Named(s) : FolderPlaced(s, PlanHomes, PlanPacks, all, 0, 0, i)
      /\ FilesPlaced(s, PlanHomes, PlanPacks, Len(archive.plan))
  BY DEF EInv, ArchiveEnds
<1>8. ASSUME NEW i \in Named(t) PROVE FolderPlaced(t, PlanHomes, PlanPacks, all, 0, 0, i)
  <2>1. i \in Named(s) /\ i \in 1 .. Len(s)
    BY <1>5 DEF Named, Indices
  <2>2. FolderIn(t, PlanHomes, 0, 0, i) = FolderIn(s, PlanHomes, 0, 0, i)
    BY <1>5 DEF FolderIn
  <2>3. t[i].at = s[i].at /\ t[i].end = s[i].end /\ t[i].name = s[i].name
    BY <1>4, <2>1 DEF Alike
  <2> QED
    BY <1>5, <1>7, <2>1, <2>2, <2>3 DEF FolderPlaced, PlacedAt
<1>9. FilesPlaced(t, PlanHomes, PlanPacks, Len(archive.plan))
  <2>1. \A i \in Indices("file", s) : Behind(t[i]) = Behind(s[i])
    BY <1>4 DEF Indices, Alike, Behind
  <2> QED
    BY <1>5, <1>7, <2>1 DEF FilesPlaced
<1>10. ArchiveEnds'
  BY <1>3, <1>6, <1>7, <1>8, <1>9 DEF ArchiveEnds
<1>11. WriteEnds'
  BY <1>1 DEF WriteEnds, Saving
<1> QED
  BY <1>10, <1>11 DEF EInv

LEMMA EndsNext == ASSUME IInv, EInv, [Next]_vars PROVE EInv'
<1>1. CASE SaveBegin
  BY <1>1, EndsSaveBegin
<1>2. CASE SaveStep
  <2>1. CASE SaveThrows
    <3>1. ~ Saving' /\ archive' = archive
      BY <2>1 DEF SaveThrows, Saving
    <3> QED
      BY <3>1, EndsIdle
  <2> QED
    BY <1>2, <2>1, EndsPlanFile, EndsPlanEnd, EndsWriteRoot, EndsWriteNamed, EndsWriteFile,
       EndsSaveEnd DEF SaveStep
<1>3. CASE \E k \in 1 .. Len(archive.entries), how \in {"packed", "checksum"} : Damage(k, how)
  BY <1>3, EndsDamage
<1>4. CASE \/ \E path \in Paths, data \in Data : AddFile(path, data)
           \/ NewDisk \/ OpenBegin \/ OpenStep \/ Extract
  <2>1. ~ Saving' /\ archive' = archive
    BY <1>4 DEF AddFile, NewDisk, OpenBegin, OpenStep, ReadHeaderAgain, OpenEnd, ReadEntry,
                Reads, ReadDot, ReadDotDot, ReadFolder, ReadFile, SkipFile, Extract, Saving
  <2> QED
    BY <2>1, EndsIdle
<1>5. CASE UNCHANGED vars
  <2>1. /\ UNCHANGED <<pc, files, order, next, dirs, written, buffer, archive>>
    BY <1>5 DEF vars, saveVars
  <2>2. /\ Homes' = Homes /\ Packs' = Packs /\ Made' = Made /\ Left' = Left
    BY <2>1 DEF Homes, Packs, Made, Left, File, Missing
  <2>3. WriteEnds'
    BY <2>1, <2>2 DEF EInv, WriteEnds, Saving
  <2> QED
    BY <2>1, <2>3, ArchiveEndsKept DEF EInv
<1> QED
  BY <1>1, <1>2, <1>3, <1>4, <1>5 DEF Next

\* Save writes each folder in front of the first file below it.
THEOREM EndsInvariant == Spec => [](IInv /\ EInv)
<1>1. Init => IInv /\ EInv
  BY InvInit, EndsInit
<1>2. (IInv /\ EInv) /\ [Next]_vars => (IInv /\ EInv)'
  BY InvNext, EndsNext
<1> QED
  BY <1>1, <1>2, PTL DEF Spec

\* The end offset of a folder, computed before anything below it is written, is where the
\* last file below it ends, when the order keeps the files below it together.
THEOREM FoldersEndRight == Spec => []FolderEnds
<1>1. ASSUME IInv, EInv PROVE FolderEnds
  <2> DEFINE s == archive.entries
             n == Len(archive.plan)
             homes == PlanHomes
             packs == PlanPacks
             all == Upto(homes, n)
  <2>1. /\ ArchiveInv /\ ArchiveEnds /\ n \in Nat /\ Len(homes) = n
        /\ \A j \in 1 .. n : homes[j] = archive.plan[j].folder
        /\ \A j \in 1 .. n : packs[j].packed \in Nat
    <3>1. archive.plan \in Seq(FileType)
      BY <1>1 DEF IInv, ArchiveInv
    <3>2. \A j \in 1 .. n : archive.plan[j] \in FileType
      BY <3>1
    <3>3. \A j \in 1 .. n : archive.plan[j].packed \in Nat
      BY <3>2 DEF FileType
    <3> QED
      BY <1>1, <3>1, <3>3 DEF IInv, EInv, PlanHomes, PlanPacks
  <2> SUFFICES ASSUME NEW k \in Named(s)
               PROVE  LET dir   == FolderOf(k)
                          below == {i \in 1 .. Len(archive.plan) :
                                      \/ archive.plan[i].folder = dir
                                      \/ dir # <<>> /\ IsStrictPrefix(dir, archive.plan[i].folder)}
                          last  == CHOOSE j \in Indices("file", s) : FilesBefore(j) = Max(below) - 1
                      IN  IF s[k].name = "DATA" THEN s[k].end = 0
                          ELSE Max(below) - Min(below) + 1 = Cardinality(below)
                                 => s[k].end = Behind(s[last])
    BY DEF FolderEnds
  <2>2. PICK d : d = FolderOf(k)
    OBVIOUS
  <2>3. PICK i : i = FilesIn(s, k) + 1
    OBVIOUS
  <2>4. PICK B : B = {j \in 1 .. n : homes[j] = d \/ (d # <<>> /\ IsStrictPrefix(d, homes[j]))}
    OBVIOUS
  <2>5. PICK last : last = CHOOSE j \in Indices("file", s) : FilesBefore(j) = Max(B) - 1
    OBVIOUS
  <2>6. B = {j \in 1 .. Len(archive.plan) :
                \/ archive.plan[j].folder = d
                \/ d # <<>> /\ IsStrictPrefix(d, archive.plan[j].folder)}
    BY <2>1, <2>4
  <2>7. PlacedAt(s[k], homes, packs, all, i, d)
    <3>1. FolderPlaced(s, homes, packs, all, 0, 0, k)
      BY <2>1 DEF ArchiveEnds
    <3>2. FolderOf(k) = FolderIn(s, homes, 0, 0, k)
      BY <2>1, FolderOfIs
    <3> QED
      BY <2>2, <2>3, <3>1, <3>2 DEF FolderPlaced
  <2>8. /\ i \in 1 .. n /\ \A j \in 1 .. n : IsHome(homes[j])
        /\ IsFiniteSet(all) /\ FilesPlaced(s, homes, packs, n)
    <3>1. FilesIn(s, k) \in Nat
      <4>1. s \in Seq(EntryType)
        BY <2>1 DEF ArchiveInv, EntriesOK
      <4> QED
        BY <4>1, IndicesFinite DEF FilesIn, Indices
    <3>2. i <= n
      BY <2>1, <2>3 DEF ArchiveInv
    <3> QED
      BY <2>1, <2>3, <3>1, <3>2 DEF ArchiveEnds
  <2>9. ASSUME s[k].name # "DATA", Max(B) - Min(B) + 1 = Cardinality(B)
        PROVE  s[k].end = Behind(s[last])
    <3> DEFINE front == Upto(homes, i - 1) \cup (Ancestry(d) \ {d})
               x == Cardinality(front)
               y == Cardinality(Inner(all, d))
               hi == Max(B)
               v == Weight(packs, 1 .. i - 1)
               w == Weight(packs, i .. hi)
    <3>1. /\ hi \in i .. n /\ Within(homes, all, d) = i .. hi
          /\ x \in Nat /\ y \in Nat
          /\ Cardinality(Upto(homes, hi)) = x + 1 + y
      <4>1. d \in Ancestry(homes[i]) /\ d \notin Upto(homes, i - 1)
        BY <2>7 DEF PlacedAt
      <4>2. Spans(n, homes, all, i, d, B)
        BY <2>1, <2>4, <2>8, <2>9, <4>1 DEF Spans
      <4>3. Spanned(n, homes, all, i, d, Max(B))
        BY <4>2, FolderSpan
      <4> QED
        BY <4>3 DEF Spanned
    <3>2. Weight(packs, 1 .. hi) = v + w /\ v \in Nat /\ w \in Nat
      <4>1. i \in Nat /\ i > 0 /\ hi \in 0 .. n /\ i <= hi + 1
        BY <2>1, <2>8, <3>1
      <4> HIDE DEF packs, n, hi
      <4> QED
        BY <2>1, <4>1, WeightSplit
    <3>3. /\ s[k].at = HeaderSize + EntryBlockSize + 3 * EntryBlockSize * x + v
          /\ s[k].end = s[k].at + 3 * EntryBlockSize + 3 * EntryBlockSize * y + w
      BY <2>7, <2>9, <3>1 DEF PlacedAt
    <3>4. last \in Indices("file", s) /\ FilesIn(s, last) = hi - 1
      <4>1. \A j : FilesBefore(j) = FilesIn(s, j)
        BY DEF FilesBefore, FilesIn
      <4>2. hi \in 1 .. n
        BY <2>8, <3>1
      <4>3. \E j \in Indices("file", s) : FilesBefore(j) = hi - 1
        BY <2>8, <4>1, <4>2 DEF FilesPlaced
      <4> QED
        BY <2>5, <4>1, <4>3
    <3>5. Behind(s[last]) = FileEnd(homes, packs, hi)
      <4>1. FilesIn(s, last) + 1 = hi
        <5>1. hi \in Nat
          BY <2>1, <2>8, <3>1
        <5> HIDE DEF hi
        <5> QED
          BY <3>4, <5>1
      <4> QED
        BY <2>8, <3>4, <4>1 DEF FilesPlaced
    <3>6. FileEnd(homes, packs, hi) = HeaderSize + EntryBlockSize + 3 * EntryBlockSize * (x + 1 + y) + (v + w)
      BY <3>1, <3>2 DEF FileEnd
    <3> HIDE DEF x, y, v, w, hi
    <3> QED
      BY <3>1, <3>2, <3>3, <3>5, <3>6 DEF HeaderSize, EntryBlockSize
  <2>10. s[k].name = "DATA" => s[k].end = 0
    BY <2>7 DEF PlacedAt
  <2> QED
    BY <2>2, <2>5, <2>6, <2>9, <2>10
<1> QED
  BY <1>1, EndsInvariant, PTL

-----------------------------------------------------------------------------
(* Save writes all its files or throws                                     *)

\* What the first loop of Save leaves in a file.
Settled(f) ==
    /\ f.folder # NoFolder <=> Plain(Directory(f.path))
    /\ f.folder # NoFolder => (f.packed # 0 <=> f.data # EmptyData)

Filled(s) == \A k \in Indices("file", s) : s[k].data # EmptyData

PackedOnly(fs) == \A i \in 1 .. Len(fs) : fs[i].packed # 0 => fs[i].data # EmptyData

\* Nothing is packed that is empty, and the second loop of Save meets what the first one
\* left, in a file whose packed data and folder may come from earlier calls.
PInv ==
    /\ PackedOnly(files) /\ Filled(buffer) /\ Filled(archive.entries)
    /\ Saving => Len(order) = Len(files)
    /\ pc = "planning" => \A j \in 1 .. next - 1 : Settled(files[order[j]])
    /\ pc = "writing" =>
        /\ \A j \in 1 .. Len(order) : Settled(files[order[j]])
        /\ \A j \in 1 .. next - 1 : files[order[j]].packed # 0

LEMMA PackInit == Init => PInv
<1> SUFFICES ASSUME Init PROVE PInv
  OBVIOUS
<1>1. pc = "ready" /\ files = <<>> /\ buffer = <<>> /\ archive.entries = <<>>
  BY DEF Init, NoArchive
<1>2. ~ Saving
  BY <1>1 DEF Saving
<1> QED
  BY <1>1, <1>2 DEF PInv, PackedOnly, Filled, Indices

\* A step outside Save that changes the entries in their damage only.
LEMMA PackIdle ==
    ASSUME PInv, ~ Saving', PackedOnly(files'), buffer' \in {buffer, <<>>},
           Filled(archive'.entries)
    PROVE  PInv'
<1>1. Filled(<<>>)
  BY DEF Filled, Indices
<1>2. Filled(buffer')
  BY <1>1 DEF PInv
<1> QED
  BY <1>2 DEF PInv, Saving

LEMMA PackSaveBegin == ASSUME IInv, PInv, SaveBegin PROVE PInv'
<1>1. pc' = "planning" /\ next' = 1 /\ buffer' = <<>> /\ UNCHANGED <<files, archive>>
  BY DEF SaveBegin
<1>2. Len(order') = Len(files)
  <2> DEFINE n == Len(files)
             m == Cardinality(1 .. n)
  <2>1. n \in Nat
    BY DEF IInv, FilesOK
  <2> HIDE DEF n
  <2>2. m = IF 1 > n THEN 0 ELSE n - 1 + 1
    BY ONLY <2>1, FS_Interval
  <2> HIDE DEF m
  <2>3. m = n
    BY ONLY <2>1, <2>2
  <2>4. order' \in SetToSeqs(1 .. n)
    BY DEF SaveBegin, n
  <2>5. order' \in [1 .. n -> 1 .. n]
    BY <2>3, <2>4 DEF SetToSeqs, m
  <2>6. Len(order') = n
    BY <2>1, <2>5
  <2> QED
    BY <2>6 DEF n
<1>3. Filled(buffer') /\ 1 .. next' - 1 = {}
  BY <1>1 DEF Filled, Indices
<1> QED
  BY <1>1, <1>2, <1>3 DEF PInv

\* What becomes of the file the first loop is at, when these directories were made.
FilePlanned(f, made) ==
    LET dir == Directory(f.path)
    IN  IF dir \in made \cup Ancestry(dir) THEN [Pack(f) EXCEPT !.folder = dir] ELSE f

LEMMA PlannedSettles ==
    ASSUME NEW f, FileOK(f), f.packed # 0 => f.data # EmptyData,
           NEW made, \A d \in made : IsHome(d)
    PROVE  /\ Settled(FilePlanned(f, made))
           /\ FilePlanned(f, made).packed # 0 => FilePlanned(f, made).data # EmptyData
<1> DEFINE dir == Directory(f.path)
           found == dir \in made \cup Ancestry(dir)
<1> PICK g : g = FilePlanned(f, made)
  OBVIOUS
<1> SUFFICES Settled(g) /\ (g.packed # 0 => g.data # EmptyData)
  OBVIOUS
<1>1. g = IF found THEN [Pack(f) EXCEPT !.folder = dir] ELSE f
  BY DEF FilePlanned
<1>2. /\ f.path \in Seq(Parts) /\ f.path # <<>>
      /\ f.packed \in Nat /\ (f.data \in Data \/ f.packed # 0)
      /\ f = [path |-> f.path, data |-> f.data, packed |-> f.packed, hasEnd |-> f.hasEnd,
              folder |-> f.folder]
      /\ f.folder # NoFolder => f.folder = dir /\ IsHome(dir)
  BY DEF FileOK, FileType
<1>3. dir \in Seq(Parts)
  BY <1>2, DirectoryType
<1>4. /\ \A a \in Ancestry(dir) : IsHome(a)
      /\ Plain(dir) => dir \in Ancestry(dir)
  BY <1>3, AncestryFacts
<1>5. found <=> Plain(dir)
  BY <1>4 DEF IsHome
<1>6. CASE found
  <2> DEFINE p == IF f.packed # 0 \/ f.data = EmptyData THEN f.packed ELSE PackedLength(f.data)
  <2>1. p # 0 <=> f.data # EmptyData
    BY <1>2, PackedAssumption
  <2>2. Pack(f) = [path |-> f.path, data |-> f.data, packed |-> p, hasEnd |-> f.hasEnd,
                   folder |-> f.folder]
    BY <1>2 DEF Pack
  <2> HIDE DEF p, dir
  <2>3. g = [path |-> f.path, data |-> f.data, packed |-> p, hasEnd |-> f.hasEnd, folder |-> dir]
    BY <1>1, <1>6, <2>2 DEF dir
  <2>4. dir # NoFolder
    BY <1>3, <1>5, <1>6, OtherFolders DEF IsHome
  <2> QED
    BY <1>5, <1>6, <2>1, <2>3, <2>4 DEF Settled, dir
<1>7. CASE ~ found
  <2>1. g = f /\ f.folder = NoFolder
    BY <1>1, <1>2, <1>5, <1>7 DEF IsHome
  <2> QED
    BY <1>5, <1>7, <2>1 DEF Settled
<1> QED
  BY <1>6, <1>7

LEMMA PackPlanFile == ASSUME IInv, PInv, PlanFile PROVE PInv'
<1> DEFINE i == order[next]
           f == files[i]
           g == FilePlanned(f, dirs)
<1>1. /\ pc = "planning" /\ pc' = "planning" /\ next <= Len(order) /\ next' = next + 1
      /\ files' = [files EXCEPT ![i] = g] /\ UNCHANGED <<order, buffer, archive>>
  <2> DEFINE dir == Directory(f.path)
             found == dir \in dirs \cup (Ancestry(dir) \ dirs)
  <2>1. files' = [files EXCEPT ![i] = IF found THEN [Pack(f) EXCEPT !.folder = dir] ELSE f]
    BY DEF PlanFile
  <2>2. found <=> dir \in dirs \cup Ancestry(dir)
    OBVIOUS
  <2>3. g = IF found THEN [Pack(f) EXCEPT !.folder = dir] ELSE f
    BY <2>2 DEF FilePlanned
  <2> HIDE DEF g, found, dir, f
  <2> QED
    BY <2>1, <2>3 DEF PlanFile
<1>2. /\ next \in 1 .. Len(order) /\ Len(order) \in Nat /\ i \in 1 .. Len(files) /\ FileOK(f)
      /\ \A j \in 1 .. Len(order) : order[j] \in 1 .. Len(files) /\ (j # next => order[j] # i)
  BY <1>1, FileAt DEF Saving
<1>3. \A d \in dirs : IsHome(d)
  BY <1>1 DEF IInv, SaveInv, Saving
<1>4. f.packed # 0 => f.data # EmptyData
  BY <1>2 DEF PInv, PackedOnly
<1>5. Settled(g) /\ (g.packed # 0 => g.data # EmptyData)
  BY <1>2, <1>3, <1>4, PlannedSettles
<1>6. files \in Seq(FileType)
  BY DEF IInv, FilesOK
<1> HIDE DEF g, f, i
<1>7. Len(files') = Len(files) /\ \A j \in 1 .. Len(files) : files'[j] = IF j = i THEN g ELSE files[j]
  BY <1>1, <1>6
<1>8. PackedOnly(files')
  BY <1>5, <1>7 DEF PInv, PackedOnly
<1>9. ASSUME NEW j \in 1 .. next' - 1 PROVE Settled(files'[order'[j]])
  <2>1. j \in 1 .. Len(order) /\ order'[j] = order[j] /\ (j = next \/ j \in 1 .. next - 1)
    BY <1>1, <1>2
  <2>2. CASE j = next
    BY <1>2, <1>5, <1>7, <2>1, <2>2 DEF i
  <2>3. CASE j # next
    <3>1. Settled(files[order[j]])
      BY <1>1, <2>1, <2>3 DEF PInv
    <3> QED
      BY <1>2, <1>7, <2>1, <2>3, <3>1
  <2> QED
    BY <2>2, <2>3
<1> QED
  BY <1>1, <1>7, <1>8, <1>9 DEF PInv, Saving

LEMMA PackPlanEnd == ASSUME IInv, PInv, PlanEnd PROVE PInv'
<1>1. /\ pc = "planning" /\ pc' = "writing" /\ next > Len(order) /\ next' = 1
      /\ UNCHANGED <<files, order, buffer, archive>>
  BY DEF PlanEnd
<1>2. next - 1 = Len(order)
  BY <1>1 DEF IInv, SaveInv, Saving
<1>3. 1 .. next' - 1 = {}
  BY <1>1
<1> QED
  BY <1>1, <1>2, <1>3 DEF PInv, Saving

LEMMA PackWriteFolder == ASSUME IInv, PInv, WriteFolder PROVE PInv'
<1>1. /\ pc = "writing" /\ pc' = "writing" /\ UNCHANGED <<files, order, next, archive>>
  BY DEF WriteFolder
<1>2. Filled(buffer')
  <2>1. CASE Root \notin DOMAIN written
    BY <2>1, WriteRoot DEF Filled
  <2>2. CASE Root \in DOMAIN written
    <3>1. PICK dir, a : FolderAdded(dir, a)
      BY <2>2, WriteNamed
    <3>2. /\ Indices("file", buffer') = Indices("file", buffer)
          /\ \A k \in 1 .. Len(buffer) : buffer'[k] = buffer[k]
      BY <3>1 DEF FolderAdded
    <3> QED
      BY <3>2 DEF PInv, Filled, Indices
  <2> QED
    BY <2>1, <2>2
<1> QED
  BY <1>1, <1>2 DEF PInv, Saving

\* Marking a file changes nothing of what is settled.
LEMMA PackMarked ==
    ASSUME IInv, PInv, pc = "writing", next <= Len(order),
           files' = [files EXCEPT ![order[next]] = Marked]
    PROVE  /\ Len(files') = Len(files) /\ PackedOnly(files')
           /\ \A j \in 1 .. Len(order) : /\ Settled(files'[order[j]])
                                         /\ files'[order[j]].packed = files[order[j]].packed
<1>1. order[next] \in 1 .. Len(files) /\ \A j \in 1 .. Len(order) : order[j] \in 1 .. Len(files)
  BY FileAt DEF Saving
<1>2. /\ Marked.folder = File.folder /\ Marked.packed = File.packed
      /\ Marked.path = File.path /\ Marked.data = File.data
  BY <1>1, MarkedOK DEF IInv
<1>3. /\ Len(files') = Len(files)
      /\ \A i \in 1 .. Len(files) : files'[i] = IF i = order[next] THEN Marked ELSE files[i]
  <2>1. files \in Seq(FileType)
    BY DEF IInv, FilesOK
  <2> QED
    BY <1>1, <2>1
<1>4. \A i \in 1 .. Len(files) : /\ files'[i].folder = files[i].folder
                                 /\ files'[i].packed = files[i].packed
                                 /\ files'[i].path = files[i].path
                                 /\ files'[i].data = files[i].data
  BY <1>1, <1>2, <1>3 DEF File
<1>5. PackedOnly(files')
  BY <1>3, <1>4 DEF PInv, PackedOnly
<1>6. ASSUME NEW j \in 1 .. Len(order)
      PROVE  Settled(files'[order[j]]) /\ files'[order[j]].packed = files[order[j]].packed
  <2>1. Settled(files[order[j]])
    BY DEF PInv
  <2> QED
    BY <1>1, <1>4, <2>1 DEF Settled
<1> QED
  BY <1>3, <1>5, <1>6

LEMMA PackWriteFile == ASSUME IInv, PInv, WriteFile PROVE PInv'
<1> DEFINE e == Entry("file", Name(File.path), EndOf(buffer), File.packed, 0,
                      EndOffset(Marked, EndOf(buffer)), File.data)
<1>1. /\ pc = "writing" /\ pc' = "writing" /\ next <= Len(order) /\ File.packed # 0
      /\ next' = next + 1 /\ files' = [files EXCEPT ![order[next]] = Marked]
      /\ buffer' = Append(buffer, e) /\ UNCHANGED <<order, archive>>
  BY DEF WriteFile
<1>2. /\ Len(files') = Len(files) /\ PackedOnly(files')
      /\ \A j \in 1 .. Len(order) : /\ Settled(files'[order[j]])
                                    /\ files'[order[j]].packed = files[order[j]].packed
  BY <1>1, PackMarked
<1>3. next \in 1 .. Len(order) /\ Len(order) \in Nat /\ order[next] \in 1 .. Len(files)
  BY <1>1, FileAt DEF Saving
<1>4. e.data # EmptyData
  <2>1. e.data = File.data
    BY DEF Entry
  <2> QED
    BY <1>1, <1>3, <2>1 DEF PInv, PackedOnly, File
<1> HIDE DEF e
<1>5. Filled(buffer')
  <2>1. buffer \in Seq(EntryType)
    BY DEF IInv, ArchiveInv, EntriesOK
  <2>2. /\ Len(buffer') = Len(buffer) + 1 /\ buffer'[Len(buffer) + 1] = e
        /\ \A k \in 1 .. Len(buffer) : buffer'[k] = buffer[k]
    BY <1>1, <2>1
  <2>3. ASSUME NEW k \in 1 .. Len(buffer) + 1, buffer'[k].type = "file"
        PROVE  buffer'[k].data # EmptyData
    <3>1. CASE k = Len(buffer) + 1
      BY <1>4, <2>2, <3>1
    <3>2. CASE k # Len(buffer) + 1
      <4>1. k \in 1 .. Len(buffer)
        BY <2>1, <3>2
      <4> QED
        BY <2>2, <2>3, <4>1 DEF PInv, Filled, Indices
    <3> QED
      BY <3>1, <3>2
  <2> QED
    BY <2>2, <2>3 DEF Filled, Indices
<1>6. ASSUME NEW j \in 1 .. next' - 1 PROVE files'[order'[j]].packed # 0
  <2>1. j \in 1 .. Len(order) /\ order'[j] = order[j] /\ (j = next \/ j \in 1 .. next - 1)
    BY <1>1, <1>3
  <2>2. files[order[j]].packed # 0
    BY <1>1, <2>1 DEF PInv, File
  <2> QED
    BY <1>2, <2>1, <2>2
<1> QED
  BY <1>1, <1>2, <1>5, <1>6 DEF PInv, Saving

LEMMA PackSaveThrows == ASSUME IInv, PInv, SaveThrows PROVE PInv'
<1>1. /\ pc = "writing" /\ pc' = "threw" /\ next <= Len(order) /\ buffer' = <<>>
      /\ files' = [files EXCEPT ![order[next]] = Marked] /\ archive' = archive
  BY DEF SaveThrows, SaveReturns
<1>2. PackedOnly(files')
  BY <1>1, PackMarked
<1>3. Filled(archive'.entries) /\ ~ Saving'
  BY <1>1 DEF PInv, Saving
<1> QED
  BY <1>1, <1>2, <1>3, PackIdle

LEMMA PackSaveEnd == ASSUME IInv, PInv, SaveEnd PROVE PInv'
<1>1. pc' = "ready" /\ archive'.entries = buffer /\ files' = files /\ buffer' = <<>>
  BY DEF SaveEnd, SaveReturns
<1>2. PackedOnly(files') /\ Filled(archive'.entries) /\ ~ Saving'
  BY <1>1 DEF PInv, Saving
<1> QED
  BY <1>1, <1>2, PackIdle

LEMMA PackDamage ==
    ASSUME IInv, PInv, NEW k \in 1 .. Len(archive.entries), NEW how \in {"packed", "checksum"},
           Damage(k, how)
    PROVE  PInv'
<1> DEFINE s == archive.entries
           t == [s EXCEPT ![k].damage = how]
<1>1. /\ pc' = "ready" /\ archive' = [archive EXCEPT !.entries[k].damage = how]
      /\ UNCHANGED <<files, buffer>>
  BY DEF Damage, saveVars
<1>2. archive \in [files: Nat, folders: Nat, size: Nat, entries: Seq(EntryType), plan: Seq(FileType)]
  BY DEF IInv, ArchiveInv
<1>3. archive'.entries = t /\ s \in Seq(EntryType)
  BY <1>1, <1>2
<1>4. /\ Len(t) = Len(s)
      /\ \A i \in 1 .. Len(s) : t[i] = IF i = k THEN [s[k] EXCEPT !.damage = how] ELSE s[i]
  BY <1>3
<1>5. s[k] \in EntryType
  BY <1>3
<1> HIDE DEF t
<1>6. \A i \in 1 .. Len(s) : t[i].type = s[i].type /\ t[i].data = s[i].data
  BY <1>4, <1>5 DEF EntryType
<1>7. Filled(t)
  BY <1>4, <1>6 DEF PInv, Filled, Indices
<1>8. ~ Saving' /\ PackedOnly(files')
  BY <1>1 DEF Saving, PInv
<1> QED
  BY <1>1, <1>3, <1>7, <1>8, PackIdle

LEMMA PackReadFile ==
    ASSUME IInv, PInv, NEW k \in 1 .. Len(archive.entries), ReadFile(archive.entries[k])
    PROVE  PInv'
<1> DEFINE e == archive.entries[k]
           path == TrimParts(Append(CurrentPath, e.name))
           data == IF e.damage = "checksum" THEN WrongData ELSE e.data
           f == [NewFile(path, data) EXCEPT !.packed = e.packed]
<1>1. /\ pc = "reading" /\ pc' \in {"reading", "threw"} /\ e.type = "file"
      /\ files' \in {files, Append(files, f)} /\ UNCHANGED <<buffer, archive>>
  <2>1. IF \E i \in 1 .. Len(files) : files[i].path = path
          THEN pc' = "threw" /\ UNCHANGED files
          ELSE files' = Append(files, f) /\ UNCHANGED pc
    BY DEF ReadFile
  <2> HIDE DEF e, path, data, f
  <2>2. pc = "reading" /\ archive.entries[k].type = "file" /\ UNCHANGED <<buffer, archive>>
    BY DEF ReadFile, Reads, saveVars
  <2> QED
    BY <2>1, <2>2 DEF e
<1>2. f.data # EmptyData
  <2>1. e.data # EmptyData
    BY <1>1 DEF PInv, Filled, Indices
  <2>2. data # EmptyData
    BY <2>1, DataAssumption
  <2> HIDE DEF data, path, e
  <2> QED
    BY <2>2 DEF NewFile
<1> HIDE DEF f
<1>3. PackedOnly(files')
  <2>1. files \in Seq(FileType)
    BY DEF IInv, FilesOK
  <2>2. /\ Len(Append(files, f)) = Len(files) + 1 /\ Append(files, f)[Len(files) + 1] = f
        /\ \A i \in 1 .. Len(files) : Append(files, f)[i] = files[i]
        /\ Len(files) \in Nat
    BY <2>1, LenProperties, AppendProperties
  <2>3. ASSUME NEW i \in 1 .. Len(files) + 1, Append(files, f)[i].packed # 0
        PROVE  Append(files, f)[i].data # EmptyData
    <3>1. CASE i = Len(files) + 1
      BY <1>2, <2>2, <3>1
    <3>2. CASE i # Len(files) + 1
      <4>1. i \in 1 .. Len(files)
        BY <2>2, <3>2
      <4> QED
        BY <2>2, <2>3, <4>1 DEF PInv, PackedOnly
    <3> QED
      BY <3>1, <3>2
  <2>4. PackedOnly(Append(files, f))
    BY <2>2, <2>3 DEF PackedOnly
  <2> QED
    BY <1>1, <2>4 DEF PInv
<1>4. ~ Saving' /\ Filled(archive'.entries)
  BY <1>1 DEF Saving, PInv
<1> QED
  BY <1>1, <1>3, <1>4, PackIdle

LEMMA PackAddFile ==
    ASSUME IInv, PInv, NEW path \in Paths, NEW data \in Data, AddFile(path, data)
    PROVE  PInv'
<1>1. /\ pc = "ready" /\ pc' = "ready" /\ files' \in {files, Append(files, NewFile(path, data))}
      /\ UNCHANGED <<buffer, archive>>
  BY DEF AddFile, saveVars
<1>2. PackedOnly(files')
  <2> DEFINE f == NewFile(path, data)
  <2>1. f.packed = 0
    BY DEF NewFile
  <2> HIDE DEF f
  <2>2. files \in Seq(FileType)
    BY DEF IInv, FilesOK
  <2>3. ASSUME NEW i \in 1 .. Len(Append(files, f)), Append(files, f)[i].packed # 0
        PROVE  Append(files, f)[i].data # EmptyData
    <3>1. i \in 1 .. Len(files) /\ Append(files, f)[i] = files[i]
      BY <2>1, <2>2, <2>3
    <3> QED
      BY <2>3, <3>1 DEF PInv, PackedOnly
  <2>4. PackedOnly(Append(files, f))
    BY <2>3 DEF PackedOnly
  <2> QED
    BY <1>1, <2>4 DEF PInv, f
<1>3. ~ Saving' /\ Filled(archive'.entries)
  BY <1>1 DEF Saving, PInv
<1> QED
  BY <1>1, <1>2, <1>3, PackIdle

LEMMA PackNext == ASSUME IInv, PInv, [Next]_vars PROVE PInv'
<1>1. CASE \E path \in Paths, data \in Data : AddFile(path, data)
  BY <1>1, PackAddFile
<1>2. CASE SaveBegin
  BY <1>2, PackSaveBegin
<1>3. CASE SaveStep
  BY <1>3, PackPlanFile, PackPlanEnd, PackWriteFolder, PackWriteFile, PackSaveThrows, PackSaveEnd
     DEF SaveStep
<1>4. CASE \E k \in 1 .. Len(archive.entries), how \in {"packed", "checksum"} : Damage(k, how)
  BY <1>4, PackDamage
<1>5. CASE \E k \in 1 .. Len(archive.entries) : ReadFile(archive.entries[k])
  BY <1>5, PackReadFile
<1>6. CASE NewDisk \/ OpenBegin
  <2>1. ~ Saving' /\ files' = <<>> /\ archive' = archive /\ buffer' \in {buffer, <<>>}
    BY <1>6 DEF NewDisk, OpenBegin, SaveReturns, saveVars, Saving
  <2>2. PackedOnly(files') /\ Filled(archive'.entries)
    BY <2>1 DEF PInv, PackedOnly
  <2> QED
    BY <2>1, <2>2, PackIdle
<1>7. CASE \/ ReadHeaderAgain \/ OpenEnd \/ Extract
           \/ \E k \in 1 .. Len(archive.entries) :
                \/ ReadDot(archive.entries[k]) \/ ReadDotDot(archive.entries[k])
                \/ ReadFolder(archive.entries[k]) \/ SkipFile(archive.entries[k])
  <2>1. ~ Saving' /\ UNCHANGED <<files, buffer, archive>>
    BY <1>7 DEF ReadHeaderAgain, OpenEnd, Extract, Reads, ReadDot, ReadDotDot, ReadFolder,
                SkipFile, saveVars, Saving
  <2>2. PackedOnly(files') /\ Filled(archive'.entries)
    BY <2>1 DEF PInv
  <2> QED
    BY <2>1, <2>2, PackIdle
<1>8. CASE OpenStep
  BY <1>5, <1>7, <1>8 DEF OpenStep, ReadEntry
<1>9. CASE UNCHANGED vars
  BY <1>9 DEF vars, saveVars, PInv, Saving
<1> QED
  BY <1>1, <1>2, <1>3, <1>4, <1>6, <1>7, <1>8, <1>9 DEF Next

\* Save throws at a file that cannot be packed, and comes to its end only if there is none.
LEMMA SavesAllOrThrows ==
    ASSUME IInv, EInv, PInv, Next, pc \in {"planning", "writing"}, pc' \in {"ready", "threw"}
    PROVE  IF \A i \in 1 .. Len(files) : Packable(files[i])
             THEN /\ pc' = "ready"
                  /\ Content(archive'.plan) = Content(files)
                  /\ Cardinality(Indices("file", archive'.entries)) = Len(files)
             ELSE pc' = "threw" /\ archive' = archive
<1>1. SaveThrows \/ SaveEnd
  BY DEF Next, AddFile, NewDisk, SaveBegin, SaveStep, PlanFile, PlanEnd, WriteFolder, WriteFile,
         Damage, OpenBegin, OpenStep, ReadHeaderAgain, OpenEnd, ReadEntry, Reads, ReadDot,
         ReadDotDot, ReadFolder, ReadFile, SkipFile, Extract
<1>2. CASE SaveThrows
  <2>1. /\ pc = "writing" /\ pc' = "threw" /\ next <= Len(order) /\ archive' = archive
        /\ File.folder = NoFolder \/ File.packed = 0
    BY <1>2 DEF SaveThrows
  <2>2. next \in 1 .. Len(order) /\ order[next] \in 1 .. Len(files) /\ File = files[order[next]]
    BY <2>1, FileAt DEF Saving
  <2>3. Settled(File)
    BY <2>1, <2>2 DEF PInv
  <2>4. ~ Packable(File)
    BY <2>1, <2>3 DEF Settled, Packable
  <2> QED
    BY <2>1, <2>2, <2>4
<1>3. CASE SaveEnd
  <2> DEFINE plan == [k \in 1 .. Len(order) |-> files[order[k]]]
  <2>1. /\ pc = "writing" /\ pc' = "ready" /\ next > Len(order)
        /\ archive'.plan = plan /\ archive'.entries = buffer
    BY <1>3 DEF SaveEnd
  <2>2. /\ order \in Seq(1 .. Len(files)) /\ Len(order) = Len(files) /\ Len(order) \in Nat
        /\ next - 1 = Len(order)
    BY <2>1 DEF IInv, SaveInv, PInv, Saving
  <2>3. \A i \in 1 .. Len(files) : \E j \in 1 .. Len(order) : order[j] = i
    BY <2>1 DEF EInv, WriteEnds, Saving
  <2>4. ASSUME NEW j \in 1 .. Len(order) PROVE Packable(files[order[j]])
    <3>1. Settled(files[order[j]]) /\ files[order[j]].packed # 0
      BY <2>1, <2>2 DEF PInv
    <3>2. files[order[j]].folder # NoFolder
      BY <2>1, <2>2 DEF IInv, WriteInv, Homes
    <3> QED
      BY <3>1, <3>2 DEF Settled, Packable
  <2>5. \A i \in 1 .. Len(files) : Packable(files[i])
    BY <2>3, <2>4
  <2>6. Content(plan) = Content(files)
    <3> DEFINE Told(i) == <<files[i].path, files[i].data>>
    <3>1. \A j \in 1 .. Len(order) : order[j] \in 1 .. Len(files)
      BY <2>2
    <3>2. files \in Seq(FileType)
      BY DEF IInv, FilesOK
    <3>3. Content(files) = {Told(i) : i \in 1 .. Len(files)}
      BY <3>2 DEF Content, Listing, Range
    <3>4. Content(plan) = {Told(order[j]) : j \in 1 .. Len(order)}
      BY DEF Content, Listing, Range
    <3> HIDE DEF Told
    <3> QED
      BY <2>3, <3>1, <3>3, <3>4
  <2>7. Cardinality(Indices("file", buffer)) = Len(files)
    BY <2>1, <2>2 DEF IInv, WriteInv
  <2> HIDE DEF plan
  <2> QED
    BY <2>1, <2>5, <2>6, <2>7
<1> QED
  BY <1>1, <1>2, <1>3

\* Save writes all its files, whatever the order and whatever earlier calls left in them,
\* or, if one of them cannot be packed, throws and leaves the archive as it was.
THEOREM SaveIsAllOrNothing == Spec => SaveAllOrNothing
<1>1. Init => PInv
  BY PackInit
<1>2. (IInv /\ PInv) /\ [Next]_vars => PInv'
  BY PackNext
<1>3. IInv /\ EInv /\ PInv /\ [Next]_vars =>
        [(pc \in {"planning", "writing"} /\ pc' \in {"ready", "threw"}) =>
           (IF \A i \in 1 .. Len(files) : Packable(files[i])
              THEN /\ pc' = "ready"
                   /\ Content(archive'.plan) = Content(files)
                   /\ Cardinality(Indices("file", archive'.entries)) = Len(files)
              ELSE pc' = "threw" /\ archive' = archive)]_vars
  BY SavesAllOrThrows
<1> QED
  BY <1>1, <1>2, <1>3, EndsInvariant, PTL DEF Spec, SaveAllOrNothing

=============================================================================
