--------------------------- MODULE VDiskReadProofs ---------------------------
(***************************************************************************)
(* Theorems about reading: whatever is packed, as Save orders it, Open     *)
(* gives back, each file under its path, and all but the damaged one when  *)
(* one is damaged.                                                         *)
(*                                                                         *)
(* An archive tells its files one by one in the order of Save, and its     *)
(* folders by name (ArchiveTold).  A reader in front of an entry knows the *)
(* folders it met, each at its place, and the files it passed, and where   *)
(* it stands behind a folder or a file is what the archive says (Knowing). *)
(* The path it puts a file in is that of the last folder or file in front  *)
(* of it, so this follows the archive only as far as its files lie the way *)
(* Regular wants them (Good).                                              *)
(***************************************************************************)
EXTENDS VDiskProofs

-----------------------------------------------------------------------------
(* What an archive says of its files, and what the reader makes of it      *)

\* The files in the order of Save.
Ordered == [j \in 1 .. Len(order) |-> files[order[j]]]

PathsDiffer(fs) == \A i, j \in 1 .. Len(fs) : i # j => fs[i].path # fs[j].path

\* The entries of the files fs, as far as a reader is concerned.
FilesTold(s, fs) ==
    \A k \in Indices("file", s) : LET i == FilesIn(s, k) + 1 IN
        /\ i \in 1 .. Len(fs)
        /\ s[k].name = Name(fs[i].path) /\ s[k].data = fs[i].data
        /\ s[k].end = 0 <=> EndOffset(fs[i], HeaderSize) = 0

\* The folders are told by name, and only a file is damaged.
FoldersTold(s, homes, n, left) ==
    /\ \A k \in Named(s) : s[k].name = NameOf(FolderIn(s, homes, n, left, k))
    /\ \A k \in 1 .. Len(s) : s[k].type = "folder" => s[k].damage = "none"

WriteTold ==
    pc = "writing" => FilesTold(buffer, Ordered) /\ FoldersTold(buffer, Homes, next, Left)

ArchiveTold ==
    LET s == archive.entries IN
    /\ PathsDiffer(archive.plan)
    /\ FilesTold(s, archive.plan) /\ FoldersTold(s, PlanHomes, 0, 0)
    /\ Cardinality(Indices("file", s)) = Len(archive.plan)
    /\ \A d \in Upto(PlanHomes, Len(archive.plan)) :
          \E k \in Named(s) : FolderIn(s, PlanHomes, 0, 0, k) = d

\* The folder that Regular wants the path of a file to name.
Wanted(plan, i) ==
    IF \E j \in 1 .. i - 1 : plan[i].folder \in Ancestry(plan[j].folder) THEN UpFrom(plan[i - 1])
    ELSE plan[i].folder

\* The first m files are as Regular wants them.
Good(plan, m) == \A i \in 1 .. m : Front(plan[i].path) = Wanted(plan, i)

\* The folder registered under this offset has this path.
LeadsTo(fs, offset, path) == \A x \in 1 .. Len(fs) : fs[x].at = offset => fs[x].path = path

\* The folders in front of entry k are registered under their names and, behind their
\* "..", with their paths.
FoldersKnown(s, homes, k, fs) ==
    /\ LeadsTo(fs, HeaderSize, <<>>)
    /\ \A j \in Named(s) :
        /\ \A x \in 1 .. Len(fs) : fs[x].at = s[j].folder => fs[x].name = s[j].name
        /\ j + 2 < k => LeadsTo(fs, s[j].folder, FolderIn(s, homes, 0, 0, j))

\* The files that a reader keeps of those in front of entry k.
Kept(s, plan, k) ==
    {<<plan[FilesIn(s, j) + 1].path, IF s[j].damage = "checksum" THEN WrongData ELSE s[j].data>> :
        j \in {x \in Indices("file", s) : x < k /\ s[x].damage # "packed"}}

FilesRead(s, plan, k, fs) ==
    LET m == FilesIn(s, k) IN
    /\ Good(plan, m) => Content(fs) = Kept(s, plan, k)
    /\ Damaged(s) = {} =>
        /\ Len(fs) = m /\ \A i \in 1 .. m : fs[i].data = plan[i].data
        /\ (\A i \in 1 .. m : fs[i].path = plan[i].path) <=> Good(plan, m)

\* What the reader knows at entry k, and where it stands behind a folder and behind a file.
Knowing(s, plan, homes, k, fs, ds, cur) ==
    /\ FoldersKnown(s, homes, k, ds)
    /\ k - 3 \in Named(s) => cur = s[k - 3].folder
    /\ k > 1 /\ s[k - 1].type = "file" /\ Good(plan, FilesIn(s, k)) =>
          LeadsTo(ds, cur, UpFrom(plan[FilesIn(s, k)]))
    /\ FilesRead(s, plan, k, fs)
    /\ \A j \in Indices("file", s) : j < k /\ s[j].damage # "none" => s[j].end # 0

\* An end offset of 0 has led the reader back to the header.
LedBack(s, plan, fs) ==
    \E k \in Indices("file", s) :
        /\ s[k].damage # "none" /\ s[k].end = 0
        /\ Good(plan, FilesIn(s, k) + 1) => Content(fs) = Kept(s, plan, k + 1)

ReadTold ==
    pc = "reading" =>
        /\ opened = "not"
        /\ \/ position = 0 /\ LedBack(archive.entries, archive.plan, files)
           \/ \E k \in 1 .. Len(archive.entries) + 1 :
                /\ ReaderAt(k)
                /\ Knowing(archive.entries, archive.plan, PlanHomes, k, files, folders, current)

RInv == PathsDiffer(files) /\ WriteTold /\ ArchiveTold /\ ReadTold

LEMMA ToldInit == Init => RInv
<1> SUFFICES ASSUME Init PROVE RInv
  OBVIOUS
<1>1. /\ pc = "ready" /\ files = <<>> /\ archive.plan = <<>> /\ archive.entries = <<>>
  BY DEF Init, NoArchive
<1>2. PathsDiffer(files) /\ WriteTold /\ ReadTold /\ PathsDiffer(archive.plan)
  BY <1>1 DEF PathsDiffer, WriteTold, ReadTold
<1>3. /\ Upto(PlanHomes, Len(archive.plan)) = {} /\ Named(archive.entries) = {}
      /\ Indices("file", archive.entries) = {} /\ Len(archive.plan) = 0
  BY <1>1 DEF Upto, Named, Indices
<1>4. Cardinality(Indices("file", archive.entries)) = 0
  BY <1>3, FS_EmptySet
<1>5. FilesTold(archive.entries, archive.plan) /\ FoldersTold(archive.entries, PlanHomes, 0, 0)
  BY <1>1, <1>3 DEF FilesTold, FoldersTold
<1>6. ArchiveTold
  BY <1>2, <1>3, <1>4, <1>5 DEF ArchiveTold
<1> QED
  BY <1>2, <1>6 DEF RInv

LEMMA ArchiveToldKept ==
    ASSUME ArchiveTold, archive' = archive
    PROVE  ArchiveTold'
<1>1. PlanHomes' = PlanHomes
  BY DEF PlanHomes
<1> QED
  BY <1>1 DEF ArchiveTold

\* A step that neither writes nor reads entries and leaves the archive alone.
LEMMA ToldIdle ==
    ASSUME RInv, pc' \notin {"writing", "reading"}, archive' = archive, PathsDiffer(files')
    PROVE  RInv'
  BY ArchiveToldKept DEF RInv, WriteTold, ReadTold

\* Save changes a file, and not its path.
LEMMA FileStays ==
    ASSUME FilesOK, PathsDiffer(files), NEW i \in 1 .. Len(files), NEW f,
           f.path = files[i].path, files' = [files EXCEPT ![i] = f]
    PROVE  PathsDiffer(files') /\ Len(files') = Len(files)
           /\ \A j \in 1 .. Len(files) : files'[j] = IF j = i THEN f ELSE files[j]
<1>1. /\ Len(files') = Len(files)
      /\ \A j \in 1 .. Len(files) : files'[j] = IF j = i THEN f ELSE files[j]
  BY DEF FilesOK
<1>2. \A j \in 1 .. Len(files) : files'[j].path = files[j].path
  BY <1>1
<1> QED
  BY <1>1, <1>2 DEF PathsDiffer

LEMMA PathsDifferAppended ==
    ASSUME NEW S, NEW fs \in Seq(S), NEW f, PathsDiffer(fs),
           \A i \in 1 .. Len(fs) : fs[i].path # f.path
    PROVE  PathsDiffer(Append(fs, f))
<1>1. /\ Len(Append(fs, f)) = Len(fs) + 1 /\ Len(fs) \in Nat
      /\ \A i \in 1 .. Len(fs) : Append(fs, f)[i] = fs[i]
      /\ Append(fs, f)[Len(fs) + 1] = f
  OBVIOUS
<1>2. \A i \in 1 .. Len(fs) + 1 : i \in 1 .. Len(fs) \/ i = Len(fs) + 1
  BY <1>1
<1> QED
  BY <1>1, <1>2 DEF PathsDiffer

LEMMA MarkedPath ==
    ASSUME IInv, Saving, next <= Len(order)
    PROVE  /\ order[next] \in 1 .. Len(files) /\ File = files[order[next]]
           /\ Marked.path = File.path /\ Marked.data = File.data
<1>1. order \in Seq(1 .. Len(files)) /\ next \in 1 .. Len(order) + 1 /\ files \in Seq(FileType)
  BY DEF IInv, SaveInv, FilesOK
<1>2. next \in 1 .. Len(order)
  BY <1>1
<1>3. order[next] \in 1 .. Len(files)
  BY <1>1, <1>2
<1>4. files[order[next]] \in FileType
  BY <1>1, <1>3
<1> QED
  BY <1>3, <1>4 DEF File, Marked, FileType

LEMMA ToldPlanFile == ASSUME IInv, RInv, PlanFile PROVE RInv'
<1>1. pc' = "planning" /\ archive' = archive /\ pc = "planning" /\ next <= Len(order)
  BY DEF PlanFile
<1>2. order[next] \in 1 .. Len(files)
  BY <1>1, MarkedPath DEF Saving
<1>3. files[order[next]] \in FileType
  BY <1>2 DEF IInv, FilesOK
<1>4. PICK f : files' = [files EXCEPT ![order[next]] = f] /\ f.path = files[order[next]].path
  <2>1. PICK dir : LET found == dir \in dirs \cup (Ancestry(dir) \ dirs)
                       f     == IF found THEN [Pack(files[order[next]]) EXCEPT !.folder = dir]
                                ELSE files[order[next]]
                   IN  files' = [files EXCEPT ![order[next]] = f]
    BY DEF PlanFile
  <2>2. [Pack(files[order[next]]) EXCEPT !.folder = dir].path = files[order[next]].path
    BY <1>3 DEF Pack, FileType
  <2> QED
    BY <2>1, <2>2
<1>5. PathsDiffer(files')
  BY <1>2, <1>4, FileStays DEF IInv, RInv
<1> QED
  BY <1>1, <1>5, ToldIdle

LEMMA ToldSaveThrows == ASSUME IInv, RInv, SaveThrows PROVE RInv'
<1>1. /\ pc = "writing" /\ pc' = "threw" /\ archive' = archive /\ next <= Len(order)
      /\ files' = [files EXCEPT ![order[next]] = Marked]
  BY DEF SaveThrows
<1>2. order[next] \in 1 .. Len(files) /\ Marked.path = files[order[next]].path
  BY <1>1, MarkedPath DEF Saving
<1>3. PathsDiffer(files')
  BY <1>1, <1>2, FileStays DEF IInv, RInv
<1> QED
  BY <1>1, <1>3, ToldIdle

LEMMA ToldAddFile ==
    ASSUME IInv, RInv, NEW path \in Paths, NEW data \in Data, AddFile(path, data)
    PROVE  RInv'
<1>1. pc' = "ready" /\ archive' = archive
  BY DEF AddFile
<1>2. /\ NewFile(path, data).path = path /\ files \in Seq(FileType)
      /\ files' = IF \E i \in 1 .. Len(files) : files[i].path = path THEN files
                  ELSE Append(files, NewFile(path, data))
  BY DEF NewFile, AddFile, IInv, FilesOK
<1>3. PathsDiffer(files')
  BY <1>2, PathsDifferAppended DEF RInv
<1> QED
  BY <1>1, <1>3, ToldIdle

LEMMA ToldPlanEnd == ASSUME IInv, RInv, PlanEnd PROVE RInv'
<1>1. /\ pc = "planning" /\ pc' = "writing" /\ UNCHANGED <<files, buffer, archive>>
  BY DEF PlanEnd
<1>2. buffer' = <<>>
  BY <1>1 DEF IInv, SaveInv
<1>3. Named(buffer') = {} /\ Indices("file", buffer') = {} /\ Len(buffer') = 0
  BY <1>2 DEF Named, Indices
<1>4. WriteTold'
  BY <1>3 DEF WriteTold, FilesTold, FoldersTold
<1> QED
  BY <1>1, <1>4, ArchiveToldKept DEF RInv, ReadTold

\* WriteFolder writes folders, and damages none.
LEMMA FolderUndamaged ==
    ASSUME IInv, WriteFolder, \A k \in 1 .. Len(buffer) : buffer[k].type = "folder" => buffer[k].damage = "none"
    PROVE  \A k \in 1 .. Len(buffer') : buffer'[k].type = "folder" => buffer'[k].damage = "none"
<1> DEFINE Sound(e) == e.type = "folder" => e.damage = "none"
<1>1. ASSUME NEW name, NEW at, NEW packed, NEW folder, NEW end
      PROVE  Sound(Entry("folder", name, at, packed, folder, end, EmptyData))
  BY DataAssumption DEF Entry
<1>2. PICK t : /\ buffer' = buffer \o t /\ t \in Seq({e : e \in {t[k] : k \in DOMAIN t}})
               /\ \A k \in 1 .. Len(t) : Sound(t[k])
  <2>1. PICK dir, at : \/ buffer' = buffer \o RootEntry(at)
                       \/ buffer' = buffer \o FolderEntries(dir, at)
    BY DEF WriteFolder
  <2>2. CASE buffer' = buffer \o RootEntry(at)
    <3> DEFINE a == Entry("folder", ".", at, 0, at, at + EntryBlockSize, EmptyData)
    <3>1. RootEntry(at) = <<a>> /\ Sound(a)
      BY <1>1 DEF RootEntry
    <3> HIDE DEF a, Sound
    <3>2. \A k \in 1 .. Len(<<a>>) : Sound(<<a>>[k])
      BY <3>1
    <3>3. <<a>> \in Seq({<<a>>[k] : k \in DOMAIN <<a>>})
      OBVIOUS
    <3> QED
      BY <2>2, <3>1, <3>2, <3>3
  <2>3. CASE buffer' = buffer \o FolderEntries(dir, at)
    <3>1. PICK a, b, c : FolderEntries(dir, at) = <<a, b, c>> /\ Sound(a) /\ Sound(b) /\ Sound(c)
      BY <1>1 DEF FolderEntries
    <3> HIDE DEF Sound
    <3>2. \A k \in 1 .. Len(<<a, b, c>>) : Sound(<<a, b, c>>[k])
      BY <3>1
    <3>3. <<a, b, c>> \in Seq({<<a, b, c>>[k] : k \in DOMAIN <<a, b, c>>})
      OBVIOUS
    <3> QED
      BY <2>3, <3>1, <3>2, <3>3
  <2> QED
    BY <2>1, <2>2, <2>3
<1>3. /\ Len(buffer) \in Nat /\ Len(t) \in Nat /\ Len(buffer') = Len(buffer) + Len(t)
      /\ \A k \in 1 .. Len(buffer') : IF k <= Len(buffer) THEN buffer'[k] = buffer[k]
                                      ELSE buffer'[k] = t[k - Len(buffer)]
  <2>1. buffer \in Seq(EntryType)
    BY DEF IInv, ArchiveInv, EntriesOK
  <2> QED
    BY <1>2, <2>1
<1>4. \A k \in 1 .. Len(buffer) : Sound(buffer[k])
  OBVIOUS
<1> HIDE DEF Sound
<1>5. ASSUME NEW k \in 1 .. Len(buffer') PROVE Sound(buffer'[k])
  <2>1. CASE k <= Len(buffer)
    <3>1. k \in 1 .. Len(buffer)
      BY <1>3, <2>1
    <3> QED
      BY <1>3, <1>4, <2>1, <3>1
  <2>2. CASE ~ (k <= Len(buffer))
    <3>1. k - Len(buffer) \in 1 .. Len(t)
      BY <1>3, <2>2
    <3> QED
      BY <1>2, <1>3, <2>2, <3>1
  <2> QED
    BY <2>1, <2>2
<1> QED
  BY <1>5 DEF Sound

LEMMA ToldWriteFolder == ASSUME IInv, RInv, WriteFolder PROVE RInv'
<1>1. /\ pc = "writing" /\ pc' = "writing" /\ UNCHANGED <<files, order, next, archive>>
  BY DEF WriteFolder
<1>2. /\ FilesTold(buffer, Ordered) /\ FoldersTold(buffer, Homes, next, Left)
  BY <1>1 DEF RInv, WriteTold
<1>3. \A k \in 1 .. Len(buffer') : buffer'[k].type = "folder" => buffer'[k].damage = "none"
  BY <1>2, FolderUndamaged DEF FoldersTold
<1>4. Homes' = Homes /\ Ordered' = Ordered
  BY <1>1 DEF Homes, Ordered
<1>5. FilesTold(buffer', Ordered) /\ FoldersTold(buffer', Homes, next, Left')
  <2>1. CASE Root \notin DOMAIN written
    <3>1. Named(buffer') = {} /\ Indices("file", buffer') = {}
      BY <2>1, WriteRoot
    <3> QED
      BY <1>3, <3>1 DEF FilesTold, FoldersTold
  <2>2. CASE Root \in DOMAIN written
    <3>1. PICK dir, a : FolderAdded(dir, a)
      BY <2>2, WriteNamed
    <3>2. PICK n : n = Len(buffer)
      OBVIOUS
    <3>3. /\ n \in Nat /\ buffer'[n + 1] = a /\ a.name = NameOf(dir)
          /\ Named(buffer') = Named(buffer) \cup {n + 1}
          /\ Indices("file", buffer') = Indices("file", buffer)
          /\ \A k \in 1 .. n : buffer'[k] = buffer[k] /\ FilesIn(buffer', k) = FilesIn(buffer, k)
          /\ FolderIn(buffer', Homes, next, Left', n + 1) = dir
          /\ \A k \in Named(buffer) :
                FolderIn(buffer', Homes, next, Left', k) = FolderIn(buffer, Homes, next, Left, k)
      BY <3>1, <3>2 DEF FolderAdded
    <3>4. /\ \A k \in Named(buffer) : k \in 1 .. n
          /\ \A k \in Indices("file", buffer) : k \in 1 .. n
      BY <3>2 DEF Named, Indices
    <3>5. FilesTold(buffer', Ordered)
      BY <1>2, <3>3, <3>4 DEF FilesTold
    <3>6. \A k \in Named(buffer') : buffer'[k].name = NameOf(FolderIn(buffer', Homes, next, Left', k))
      BY <1>2, <3>3, <3>4 DEF FoldersTold
    <3> QED
      BY <1>3, <3>5, <3>6 DEF FoldersTold
  <2> QED
    BY <2>1, <2>2
<1>6. WriteTold'
  BY <1>1, <1>4, <1>5 DEF WriteTold
<1> QED
  BY <1>1, <1>6, ArchiveToldKept DEF RInv, ReadTold

\* The end offset of a file is 0 wherever the file lies, or nowhere.
LEMMA EndOffsetZero ==
    ASSUME NEW f \in FileType, NEW at \in Nat
    PROVE  EndOffset(f, at) = 0 <=> EndOffset(f, HeaderSize) = 0
<1>1. f.packed \in Nat
  BY DEF FileType
<1> QED
  BY <1>1 DEF EndOffset, HeaderSize, EntryBlockSize

\* The files are counted from 1.
LEMMA FilesInFront ==
    ASSUME NEW s, Len(s) \in Nat, NEW k \in Indices("file", s)
    PROVE  /\ FilesIn(s, k) \in Nat
           /\ FilesIn(s, k) + 1 \in 1 .. Cardinality(Indices("file", s))
<1> PICK F, B : F = Indices("file", s) /\ B = {j \in F : j < k}
  OBVIOUS
<1>1. F \subseteq 1 .. Len(s) /\ k \in F /\ k \in Nat
  BY DEF Indices
<1>5. IsFiniteSet(F)
  <2>1. IsFiniteSet(1 .. Len(s))
    BY FS_Interval
  <2> QED
    BY <1>1, <2>1, FS_Subset
<1>2. B \subseteq F \ {k} /\ FilesIn(s, k) = Cardinality(B)
  BY <1>1 DEF FilesIn
<1>3. IsFiniteSet(F \ {k}) /\ Cardinality(F \ {k}) = Cardinality(F) - 1 /\ Cardinality(F) \in Nat
  BY <1>1, <1>5, FS_RemoveElement, FS_CardinalityType
<1>4. Cardinality(B) <= Cardinality(F \ {k}) /\ Cardinality(B) \in Nat
  <2>1. IsFiniteSet(B)
    BY <1>2, <1>3, FS_Subset
  <2> QED
    BY <1>2, <1>3, <2>1, FS_Subset, FS_CardinalityType
<1> QED
  BY <1>2, <1>3, <1>4

LEMMA ToldWriteFile == ASSUME IInv, RInv, WriteFile PROVE RInv'
<1>1. /\ pc = "writing" /\ pc' = "writing" /\ next <= Len(order) /\ next' = next + 1
      /\ File.folder # NoFolder
      /\ UNCHANGED <<order, archive>>
      /\ files' = [files EXCEPT ![order[next]] = Marked]
  BY DEF WriteFile
<1>2. PICK at : /\ at = EndOf(buffer)
                /\ buffer' = Append(buffer, Entry("file", Name(File.path), at, File.packed, 0,
                                                  EndOffset(Marked, at), File.data))
  BY DEF WriteFile
<1>3. PICK e : FileAdded(e)
  BY InvWriteFile
<1>4. PICK n : n = Len(buffer)
  OBVIOUS
<1>5. /\ n \in Nat /\ buffer'[n + 1] = e
      /\ Named(buffer') = Named(buffer)
      /\ Indices("file", buffer') = Indices("file", buffer) \cup {n + 1}
      /\ \A k \in 1 .. n : buffer'[k] = buffer[k] /\ FilesIn(buffer', k) = FilesIn(buffer, k)
      /\ FilesIn(buffer', n + 1) = next - 1
      /\ \A k \in Named(buffer) :
            FolderIn(buffer', Homes, next + 1, Left', k) = FolderIn(buffer, Homes, next, Left, k)
      /\ Homes' = Homes
  BY <1>3, <1>4 DEF FileAdded
<1>6. /\ next \in 1 .. Len(order) /\ Len(order) \in Nat /\ at \in Nat
  BY <1>1, <1>2, Writing
<1>7. e.type = "file" /\ e.name = Name(File.path) /\ e.data = File.data /\ e.end = EndOffset(Marked, at)
  <2>1. buffer \in Seq(EntryType)
    BY DEF IInv, ArchiveInv, EntriesOK
  <2>2. e = Entry("file", Name(File.path), at, File.packed, 0, EndOffset(Marked, at), File.data)
    BY <1>2, <1>4, <1>5, <2>1, AppendFacts
  <2> QED
    BY <2>2 DEF Entry
<1>8. /\ FilesTold(buffer, Ordered) /\ FoldersTold(buffer, Homes, next, Left)
  BY <1>1 DEF RInv, WriteTold
<1>9. /\ order[next] \in 1 .. Len(files) /\ File = files[order[next]]
      /\ Marked.path = File.path /\ Marked.data = File.data
  BY <1>1, MarkedPath DEF Saving
<1>10. /\ PathsDiffer(files')
       /\ \A j \in 1 .. Len(files) : files'[j] = IF j = order[next] THEN Marked ELSE files[j]
  BY <1>1, <1>9, FileStays DEF IInv, RInv
<1>11. /\ Len(Ordered') = Len(order) /\ Len(Ordered) = Len(order)
       /\ Ordered'[next] = Marked
       /\ \A j \in 1 .. next - 1 : Ordered'[j] = Ordered[j]
  <2>1. /\ \A j \in 1 .. Len(order) : order[j] \in 1 .. Len(files)
        /\ \A i, j \in 1 .. Len(order) : i # j => order[i] # order[j]
    BY <1>1 DEF IInv, SaveInv, Saving
  <2>2. Len(Ordered') = Len(order) /\ Len(Ordered) = Len(order)
    BY <1>1, <1>6 DEF Ordered
  <2>3. \A j \in 1 .. Len(order) : Ordered[j] = files[order[j]] /\ Ordered'[j] = files'[order[j]]
    BY <1>1 DEF Ordered
  <2>4. \A j \in 1 .. next - 1 : j \in 1 .. Len(order) /\ j # next
    BY <1>6
  <2>5. Ordered'[next] = Marked
    BY <1>6, <1>9, <1>10, <2>3
  <2>6. ASSUME NEW j \in 1 .. next - 1 PROVE Ordered'[j] = Ordered[j]
    <3>1. j \in 1 .. Len(order) /\ j # next
      BY <2>4
    <3>2. order[j] \in 1 .. Len(files) /\ order[j] # order[next]
      BY <1>6, <2>1, <3>1
    <3> QED
      BY <1>10, <2>3, <3>1, <3>2
  <2> QED
    BY <2>2, <2>5, <2>6
<1>12. Marked \in FileType
  BY <1>9, MarkedOK DEF IInv, FilesOK, FileOK
<1>13. \A k \in Indices("file", buffer) : k \in 1 .. n /\ FilesIn(buffer, k) + 1 \in 1 .. next - 1
  <2>1. Cardinality(Indices("file", buffer)) = next - 1
    BY <1>1 DEF IInv, WriteInv
  <2> QED
    BY <1>4, <1>5, <2>1, FilesInFront DEF Indices
<1>14. FilesTold(buffer', Ordered')
  <2> SUFFICES ASSUME NEW k \in Indices("file", buffer')
               PROVE  LET i == FilesIn(buffer', k) + 1 IN
                      /\ i \in 1 .. Len(Ordered')
                      /\ buffer'[k].name = Name(Ordered'[i].path)
                      /\ buffer'[k].data = Ordered'[i].data
                      /\ buffer'[k].end = 0 <=> EndOffset(Ordered'[i], HeaderSize) = 0
    BY DEF FilesTold
  <2>1. CASE k \in Indices("file", buffer)
    <3>1. PICK i : i = FilesIn(buffer, k) + 1
      OBVIOUS
    <3>2. /\ i \in 1 .. Len(Ordered)
          /\ buffer[k].name = Name(Ordered[i].path) /\ buffer[k].data = Ordered[i].data
          /\ buffer[k].end = 0 <=> EndOffset(Ordered[i], HeaderSize) = 0
      BY <1>8, <2>1, <3>1 DEF FilesTold
    <3>3. k \in 1 .. n /\ i \in 1 .. next - 1
      BY <1>13, <2>1, <3>1
    <3>4. Ordered'[i] = Ordered[i] /\ buffer'[k] = buffer[k] /\ FilesIn(buffer', k) + 1 = i
      BY <1>5, <1>11, <3>1, <3>3
    <3> QED
      BY <1>11, <3>2, <3>4
  <2>2. CASE k = n + 1
    <3>1. FilesIn(buffer', k) + 1 = next /\ buffer'[k] = e
      BY <1>5, <1>6, <2>2
    <3>2. e.end = 0 <=> EndOffset(Marked, HeaderSize) = 0
      BY <1>6, <1>7, <1>12, EndOffsetZero
    <3> QED
      BY <1>6, <1>7, <1>9, <1>11, <3>1, <3>2
  <2> QED
    BY <1>5, <2>1, <2>2
<1>15. FoldersTold(buffer', Homes', next + 1, Left')
  <2>1. \A k \in Named(buffer) : k \in 1 .. n
    BY <1>4 DEF Named, Indices
  <2>2. \A k \in 1 .. Len(buffer') : k \in 1 .. n \/ k = n + 1
    <3>1. Len(buffer') = n + 1
      <4>1. buffer \in Seq(EntryType)
        BY DEF IInv, ArchiveInv, EntriesOK
      <4> QED
        BY <1>2, <1>4, <4>1
    <3> QED
      BY <1>5, <3>1
  <2> QED
    BY <1>4, <1>5, <1>7, <1>8, <2>1, <2>2 DEF FoldersTold
<1>16. WriteTold'
  BY <1>1, <1>14, <1>15 DEF WriteTold
<1> QED
  BY <1>1, <1>10, <1>16, ArchiveToldKept DEF RInv, ReadTold

LEMMA ToldSaveEnd == ASSUME IInv, EInv, RInv, SaveEnd PROVE RInv'
<1>1. /\ pc = "writing" /\ pc' = "ready" /\ next > Len(order) /\ files' = files
      /\ archive' = [files |-> header.files, folders |-> header.folders, size |-> header.size,
                     entries |-> buffer, plan |-> [k \in 1 .. Len(order) |-> files[order[k]]]]
  BY DEF SaveEnd
<1>2. /\ order \in Seq(1 .. Len(files)) /\ next \in 1 .. Len(order) + 1
      /\ \A i, j \in 1 .. Len(order) : i # j => order[i] # order[j]
  BY <1>1 DEF IInv, SaveInv, Saving
<1>3. next - 1 = Len(order) /\ Len(order) \in Nat
  BY <1>1, <1>2
<1>4. archive'.entries = buffer /\ archive'.plan = Ordered
  BY <1>1 DEF Ordered
<1>5. Len(Ordered) = Len(order) /\ \A j \in 1 .. Len(order) : Ordered[j] = files[order[j]]
  BY <1>3 DEF Ordered
<1>6. PlanHomes' = Homes
  BY <1>4, <1>5 DEF PlanHomes, Homes
<1>7. FilesTold(buffer, Ordered) /\ FoldersTold(buffer, Homes, next, Left)
  BY <1>1 DEF RInv, WriteTold
<1>8. PathsDiffer(Ordered)
  <2>1. \A i, j \in 1 .. Len(files) : i # j => files[i].path # files[j].path
    BY DEF RInv, PathsDiffer
  <2>2. \A j \in 1 .. Len(order) : order[j] \in 1 .. Len(files)
    BY <1>2
  <2> QED
    BY <1>2, <1>5, <2>1, <2>2 DEF PathsDiffer
<1>9. \A k : FolderIn(buffer, Homes, 0, 0, k) = FolderIn(buffer, Homes, next, Left, k)
  <2>1. Left = 0
    BY <1>1, <1>2 DEF Left
  <2> QED
    BY <2>1 DEF FolderIn
<1>10. FoldersTold(buffer, Homes, 0, 0)
  BY <1>7, <1>9 DEF FoldersTold
<1>11. Cardinality(Indices("file", buffer)) = Len(Ordered)
  BY <1>1, <1>3, <1>5 DEF IInv, WriteInv
<1>12. ASSUME NEW d \in Upto(Homes, Len(order))
       PROVE  \E k \in Named(buffer) : FolderIn(buffer, Homes, 0, 0, k) = d
  <2>1. PICK j \in 1 .. Len(order) : d \in Ancestry(Homes[j])
    BY DEF Upto
  <2>2. d \in Made
    BY <1>1, <1>3, <2>1 DEF IInv, WriteInv
  <2>3. \E k \in Named(buffer) : FolderIn(buffer, Homes, next, Left, k) = d
    BY <1>1, <2>2 DEF IInv, LinkInv
  <2> QED
    BY <1>9, <2>3
<1>13. ArchiveTold'
  BY <1>4, <1>5, <1>6, <1>7, <1>8, <1>10, <1>11, <1>12 DEF ArchiveTold
<1>14. PathsDiffer(files')
  BY <1>1 DEF RInv
<1> QED
  BY <1>1, <1>13, <1>14 DEF RInv, WriteTold, ReadTold

LEMMA ToldDamage ==
    ASSUME IInv, RInv, NEW k \in 1 .. Len(archive.entries), NEW how \in {"packed", "checksum"},
           Damage(k, how)
    PROVE  RInv'
<1> DEFINE s == archive.entries
           t == [s EXCEPT ![k].damage = how]
<1>1. /\ pc = "ready" /\ pc' = "ready" /\ files' = files
      /\ archive' = [archive EXCEPT !.entries[k].damage = how]
      /\ s[k].type = "file"
  BY DEF Damage
<1>2. /\ archive \in [files: Nat, folders: Nat, size: Nat,
                      entries: Seq(EntryType), plan: Seq(FileType)]
      /\ s \in Seq(EntryType)
  BY DEF IInv, ArchiveInv, EntriesOK
<1>3. archive'.entries = t /\ archive'.plan = archive.plan
  BY <1>1, <1>2
<1>4. /\ t \in Seq(EntryType) /\ Len(t) = Len(s) /\ \A i \in 1 .. Len(s) : Alike(t[i], s[i])
      /\ \A i \in 1 .. Len(s) : i # k => t[i] = s[i]
  <2>1. [s[k] EXCEPT !.damage = how] \in EntryType /\ Alike([s[k] EXCEPT !.damage = how], s[k])
    <3>1. s[k] \in EntryType
      BY <1>2
    <3> QED
      BY <3>1 DEF EntryType, Alike
  <2>2. /\ t \in Seq(EntryType) /\ Len(t) = Len(s)
        /\ \A i \in 1 .. Len(s) : t[i] = IF i = k THEN [s[k] EXCEPT !.damage = how] ELSE s[i]
    BY <1>2, <2>1
  <2>3. \A i \in 1 .. Len(s) : Alike(s[i], s[i])
    BY DEF Alike
  <2> QED
    BY <2>1, <2>2, <2>3
<1> HIDE DEF t
<1>5. /\ \A type : Indices(type, t) = Indices(type, s)
      /\ Named(t) = Named(s)
      /\ \A i : FilesIn(t, i) = FilesIn(s, i) /\ After(t, i) = After(s, i)
  BY <1>2, <1>4, AlikeFacts
<1>6. PlanHomes' = PlanHomes
  BY <1>3 DEF PlanHomes
<1>7. \A i : FolderIn(t, PlanHomes, 0, 0, i) = FolderIn(s, PlanHomes, 0, 0, i)
  BY <1>5 DEF FolderIn
<1>8. /\ PathsDiffer(archive.plan)
      /\ FilesTold(s, archive.plan) /\ FoldersTold(s, PlanHomes, 0, 0)
      /\ Cardinality(Indices("file", s)) = Len(archive.plan)
      /\ \A d \in Upto(PlanHomes, Len(archive.plan)) :
            \E i \in Named(s) : FolderIn(s, PlanHomes, 0, 0, i) = d
  BY DEF RInv, ArchiveTold
<1>9. FilesTold(t, archive.plan)
  <2>1. \A i \in Indices("file", s) : t[i].name = s[i].name /\ t[i].data = s[i].data /\ t[i].end = s[i].end
    <3>1. \A i \in Indices("file", s) : i \in 1 .. Len(s)
      BY DEF Indices
    <3>2. ASSUME NEW i \in 1 .. Len(s)
          PROVE  t[i].name = s[i].name /\ t[i].data = s[i].data /\ t[i].end = s[i].end
      <4>1. CASE i = k
        <5>1. t[i] = [s[i] EXCEPT !.damage = how] /\ s[i] \in EntryType
          BY <1>2, <4>1 DEF t
        <5> QED
          BY <5>1 DEF EntryType
      <4>2. CASE i # k
        BY <1>4, <4>2
      <4> QED
        BY <4>1, <4>2
    <3> QED
      BY <3>1, <3>2
  <2> QED
    BY <1>5, <1>8, <2>1 DEF FilesTold
<1>10. FoldersTold(t, PlanHomes, 0, 0)
  <2>1. \A i \in Named(s) : t[i].name = s[i].name
    BY <1>4 DEF Named, Indices, Alike
  <2>2. ASSUME NEW i \in 1 .. Len(t), t[i].type = "folder" PROVE t[i].damage = "none"
    <3>1. i \in 1 .. Len(s) /\ s[i].type = "folder"
      BY <1>4, <2>2 DEF Alike
    <3>2. i # k
      BY <1>1, <3>1
    <3> QED
      BY <1>4, <1>8, <3>1, <3>2 DEF FoldersTold
  <2> QED
    BY <1>5, <1>7, <1>8, <2>1, <2>2 DEF FoldersTold
<1>11. ArchiveTold'
  BY <1>3, <1>5, <1>6, <1>7, <1>8, <1>9, <1>10 DEF ArchiveTold
<1>12. PathsDiffer(files')
  BY <1>1 DEF RInv
<1> QED
  BY <1>1, <1>11, <1>12 DEF RInv, WriteTold, ReadTold

LEMMA ToldOpenBegin == ASSUME IInv, RInv, OpenBegin PROVE RInv'
<1> PICK s, plan : s = archive.entries /\ plan = archive.plan
  OBVIOUS
<1>1. /\ pc = "ready" /\ pc' = "reading" /\ opened' = "not" /\ archive' = archive
      /\ files' = <<>> /\ folders' = <<>> /\ current' = 0 /\ position' = HeaderSize
  BY DEF OpenBegin
<1>2. PlanHomes' = PlanHomes
  BY <1>1 DEF PlanHomes
<1>3. PathsDiffer(files') /\ Len(files') = 0 /\ Content(files') = {}
  BY <1>1 DEF PathsDiffer, Content, Listing, Range
<1>4. FilesIn(s, 1) = 0
  <2>1. {j \in Indices("file", s) : j < 1} = {}
    BY DEF Indices
  <2> QED
    BY <2>1, FS_EmptySet DEF FilesIn
<1>5. Kept(s, plan, 1) = {}
  <2>1. {x \in Indices("file", s) : x < 1 /\ s[x].damage # "packed"} = {}
    BY DEF Indices
  <2> QED
    BY <2>1 DEF Kept
<1>6. \A j \in Indices("file", s) : ~ (j < 1)
  BY DEF Indices
<1>7. FilesRead(s, plan, 1, files')
  <2>1. 1 .. 0 = {}
    OBVIOUS
  <2> QED
    BY <1>3, <1>4, <1>5, <2>1 DEF FilesRead, Good
<1>8. \A homes : FoldersKnown(s, homes, 1, folders')
  BY <1>1 DEF FoldersKnown, LeadsTo
<1>13. 1 - 3 \notin Named(s)
  BY DEF Named, Indices
<1>9. Knowing(s, plan, PlanHomes, 1, files', folders', current')
  BY <1>6, <1>7, <1>8, <1>13 DEF Knowing
<1>10. Standing(s, 1, position', folders', current')
  <2>1. \E k \in 1 .. Len(s) + 1 : Standing(s, k, position', folders', current')
    <3>1. IInv'
      BY InvOpenBegin
    <3> QED
      BY <1>1, <3>1 DEF IInv, ReadInv, ReaderAt, HeaderSize
  <2>2. PICK k \in 1 .. Len(s) + 1 : Standing(s, k, position', folders', current')
    BY <2>1
  <2>3. k = 1
    BY <1>1, <2>2 DEF Standing, OffsetsIn
  <2> QED
    BY <2>2, <2>3
<1>11. 1 \in 1 .. Len(s) + 1
  BY DEF IInv, ArchiveInv, EntriesOK
<1>12. ReadTold'
  BY <1>1, <1>2, <1>9, <1>10, <1>11 DEF ReadTold, ReaderAt
<1> QED
  BY <1>1, <1>3, <1>12, ArchiveToldKept DEF RInv, WriteTold

-----------------------------------------------------------------------------
(* Where a file lies                                                       *)

\* What an archive promises its reader.
Archived(s, plan, homes) ==
    /\ EntriesOK(s) /\ plan \in Seq(FileType)
    /\ \A j \in 1 .. Len(plan) : homes[j] = plan[j].folder /\ IsHome(homes[j])
    /\ PathsDiffer(plan)
    /\ FilesTold(s, plan) /\ FoldersTold(s, homes, 0, 0)
    /\ Cardinality(Indices("file", s)) = Len(plan)
    /\ \A d \in Upto(homes, Len(plan)) : \E k \in Named(s) : FolderIn(s, homes, 0, 0, k) = d
    /\ \A k \in Named(s) :
        LET i == FilesIn(s, k) + 1
            d == FolderIn(s, homes, 0, 0, k)
        IN  /\ i \in 1 .. Len(plan) /\ IsHome(d)
            /\ d \in Ancestry(homes[i]) /\ d \notin Upto(homes, i - 1)
            /\ LinkedUp(s, homes, 0, 0, k)

LEMMA ArchiveIs ==
    ASSUME IInv, EInv, RInv
    PROVE  Archived(archive.entries, archive.plan, PlanHomes)
<1> PICK s, plan, homes : s = archive.entries /\ plan = archive.plan /\ homes = PlanHomes
  OBVIOUS
<1>1. EntriesOK(s) /\ plan \in Seq(FileType)
  BY DEF IInv, ArchiveInv
<1>2. \A j \in 1 .. Len(plan) : homes[j] = plan[j].folder /\ IsHome(homes[j])
  BY DEF PlanHomes, EInv, ArchiveEnds
<1>3. /\ PathsDiffer(plan)
      /\ FilesTold(s, plan) /\ FoldersTold(s, homes, 0, 0)
      /\ Cardinality(Indices("file", s)) = Len(plan)
      /\ \A d \in Upto(homes, Len(plan)) : \E k \in Named(s) : FolderIn(s, homes, 0, 0, k) = d
  BY DEF RInv, ArchiveTold
<1>4. ASSUME NEW k \in Named(s)
      PROVE  LET i == FilesIn(s, k) + 1
                 d == FolderIn(s, homes, 0, 0, k)
             IN  /\ i \in 1 .. Len(plan) /\ IsHome(d)
                 /\ d \in Ancestry(homes[i]) /\ d \notin Upto(homes, i - 1)
                 /\ LinkedUp(s, homes, 0, 0, k)
  <2> PICK i, d : i = FilesIn(s, k) + 1 /\ d = FolderIn(s, homes, 0, 0, k)
    OBVIOUS
  <2>1. i <= Len(plan) /\ LinkedUp(s, homes, 0, 0, k)
    BY DEF IInv, ArchiveInv
  <2>2. d \in Ancestry(homes[i]) /\ d \notin Upto(homes, i - 1)
    BY DEF EInv, ArchiveEnds, FolderPlaced, PlacedAt
  <2>3. FilesIn(s, k) \in Nat
    <3>1. {j \in Indices("file", s) : j < k} \subseteq 1 .. Len(s) /\ s \in Seq(EntryType)
      BY <1>1 DEF Indices, EntriesOK
    <3> QED
      BY <3>1, IndicesFinite DEF FilesIn
  <2>4. i \in 1 .. Len(plan)
    BY <1>1, <2>1, <2>3
  <2>5. IsHome(d)
    BY <1>2, <2>2, <2>4, AncestryChain
  <2> QED
    BY <2>1, <2>2, <2>4, <2>5
<1> QED
  BY <1>1, <1>2, <1>3, <1>4 DEF Archived

LEMMA NextFiles ==
    ASSUME NEW s \in Seq(EntryType), NEW k \in 1 .. Len(s)
    PROVE  /\ FilesIn(s, k) \in Nat
           /\ FilesIn(s, k + 1) = FilesIn(s, k) + (IF s[k].type = "file" THEN 1 ELSE 0)
           /\ \A j \in 1 .. k : FilesIn(s, j) \in Nat /\ FilesIn(s, j) <= FilesIn(s, k)
           /\ \A j \in 1 .. k - 1 : s[j].type = "file" => FilesIn(s, j) + 1 <= FilesIn(s, k)
<1> DEFINE F == Indices("file", s)
           B(j) == {i \in F : i < j}
<1>1. F \subseteq 1 .. Len(s) /\ Len(s) \in Nat /\ \A i \in 1 .. Len(s) : i \in F <=> s[i].type = "file"
  BY DEF Indices
<1>2. \A j : FilesIn(s, j) = Cardinality(B(j))
  BY DEF FilesIn
<1>3. \A j : B(j) \subseteq 1 .. Len(s)
  BY <1>1
<1> HIDE DEF F
<1>4. \A j : IsFiniteSet(B(j)) /\ Cardinality(B(j)) \in Nat
  <2> SUFFICES ASSUME NEW j PROVE IsFiniteSet(B(j)) /\ Cardinality(B(j)) \in Nat
    OBVIOUS
  <2> HIDE DEF B
  <2> QED
    BY <1>3, IndicesFinite
<1>11. \A i \in F : i \in Nat
  BY <1>1
<1>5. \A i, j \in 1 .. Len(s) + 1 : i <= j => B(i) \subseteq B(j)
  <2> SUFFICES ASSUME NEW i \in 1 .. Len(s) + 1, NEW j \in 1 .. Len(s) + 1, i <= j,
                      NEW x \in F, x < i
               PROVE  x < j
    OBVIOUS
  <2> QED
    BY <1>1, <1>11
<1>6. ASSUME NEW j \in 1 .. Len(s)
      PROVE  /\ s[j].type = "file" => B(j + 1) = B(j) \cup {j} /\ j \notin B(j)
             /\ s[j].type # "file" => B(j + 1) = B(j)
  <2>1. \A x \in F : x < j + 1 <=> x < j \/ x = j
    BY <1>11
  <2>2. j \in F <=> s[j].type = "file"
    BY <1>1
  <2>3. ~ (j < j)
    OBVIOUS
  <2> QED
    BY <2>1, <2>2, <2>3
<1> HIDE DEF B
<1>7. \A j \in 1 .. Len(s) : FilesIn(s, j + 1) = FilesIn(s, j) + (IF s[j].type = "file" THEN 1 ELSE 0)
  <2> SUFFICES ASSUME NEW j \in 1 .. Len(s)
               PROVE  Cardinality(B(j + 1)) = Cardinality(B(j)) + (IF s[j].type = "file" THEN 1 ELSE 0)
    BY <1>2
  <2>1. CASE s[j].type = "file"
    <3> PICK C, D : C = B(j) /\ D = B(j + 1)
      OBVIOUS
    <3>1. D = C \cup {j} /\ j \notin C /\ IsFiniteSet(C)
      BY <1>4, <1>6, <2>1
    <3>2. Cardinality(D) = Cardinality(C) + 1
      BY <3>1, FS_AddElement
    <3> QED
      BY <2>1, <3>2
  <2>2. CASE s[j].type # "file"
    BY <1>4, <1>6, <2>2
  <2> QED
    BY <2>1, <2>2
<1>8. \A i, j \in 1 .. Len(s) + 1 : i <= j => FilesIn(s, i) <= FilesIn(s, j)
  <2> SUFFICES ASSUME NEW i \in 1 .. Len(s) + 1, NEW j \in 1 .. Len(s) + 1, i <= j
               PROVE  Cardinality(B(i)) <= Cardinality(B(j))
    BY <1>2
  <2> QED
    BY <1>4, <1>5, FS_Subset
<1>9. ASSUME NEW j \in 1 .. k - 1, s[j].type = "file" PROVE FilesIn(s, j) + 1 <= FilesIn(s, k)
  <2>1. j \in 1 .. Len(s) /\ j + 1 \in 1 .. Len(s) + 1 /\ j + 1 <= k
    BY <1>1
  <2> QED
    BY <1>1, <1>7, <1>8, <1>9, <2>1
<1>10. \A j \in 1 .. k : FilesIn(s, j) \in Nat /\ FilesIn(s, j) <= FilesIn(s, k)
  BY <1>1, <1>2, <1>4, <1>8
<1> QED
  BY <1>2, <1>4, <1>7, <1>9, <1>10

\* A file follows the entries of its folder, or another file: then its folder was written
\* for an earlier one.
LEMMA FileBehind ==
    ASSUME NEW s, NEW plan, NEW homes, Archived(s, plan, homes),
           NEW k \in 1 .. Len(s), s[k].type = "file", NEW i, i = FilesIn(s, k) + 1
    PROVE  /\ i \in 1 .. Len(plan) /\ k > 1 /\ k - 1 \in 1 .. Len(s)
           /\ homes[i] \notin Upto(homes, i - 1) =>
                /\ k > 3 /\ k - 3 \in Named(s)
                /\ FolderIn(s, homes, 0, 0, k - 3) = homes[i]
           /\ homes[i] \in Upto(homes, i - 1) => s[k - 1].type = "file" /\ i > 1
<1>1. /\ s \in Seq(EntryType) /\ EntriesOK(s) /\ Shaped(s) /\ Len(s) \in Nat /\ Len(plan) \in Nat
      /\ k \in Nat
  BY DEF Archived, EntriesOK
<1>2. i \in 1 .. Len(plan) /\ IsHome(homes[i])
  <2>1. k \in Indices("file", s)
    BY DEF Indices
  <2> QED
    BY <2>1 DEF Archived, FilesTold
<1>3. k > 1 /\ k - 1 \in 1 .. Len(s)
  <2>1. k # 1
    BY <1>1, AroundEntry DEF IsFolder
  <2> QED
    BY <1>1, <2>1
<1>4. \A j \in Named(s) : /\ j \in 1 .. Len(s) /\ j > 1 /\ j # k /\ j + 1 # k /\ j + 2 # k
  <2>1. \A j \in Named(s) : /\ j \in 1 .. Len(s) /\ j > 1 /\ s[j].type = "folder"
                            /\ k = j + 1 => IsFolder(s[k], ".")
                            /\ k = j + 2 => IsFolder(s[k], "..")
    BY <1>1, AroundEntry
  <2> QED
    BY <2>1 DEF IsFolder
<1>5. /\ FilesIn(s, k) \in Nat
      /\ \A j \in 1 .. Len(s) : j < k => FilesIn(s, j) \in Nat /\ FilesIn(s, j) <= FilesIn(s, k)
      /\ \A j \in 1 .. Len(s) : j > k => FilesIn(s, j) > FilesIn(s, k)
      /\ \A j \in 1 .. Len(s) : FilesIn(s, j) \in Nat
  <2>1. \A j \in 1 .. Len(s) : FilesIn(s, j) \in Nat
    BY <1>1, NextFiles
  <2>2. \A j \in 1 .. Len(s) : j < k => FilesIn(s, j) <= FilesIn(s, k)
    <3> SUFFICES ASSUME NEW j \in 1 .. Len(s), j < k PROVE FilesIn(s, j) <= FilesIn(s, k)
      OBVIOUS
    <3>1. j \in 1 .. k
      BY <1>1
    <3> QED
      BY <1>1, <3>1, NextFiles
  <2>3. \A j \in 1 .. Len(s) : j > k => FilesIn(s, j) > FilesIn(s, k)
    <3> SUFFICES ASSUME NEW j \in 1 .. Len(s), j > k PROVE FilesIn(s, j) > FilesIn(s, k)
      OBVIOUS
    <3>1. k \in 1 .. j - 1
      BY <1>1
    <3>2. FilesIn(s, k) + 1 <= FilesIn(s, j)
      BY <1>1, <3>1, NextFiles
    <3> QED
      BY <2>1, <3>2
  <2> QED
    BY <2>1, <2>2, <2>3
<1>6. \/ k - 1 = 1
      \/ s[k - 1].type = "file"
      \/ IsFolder(s[k - 1], "..") /\ k - 3 \in Named(s) /\ k > 3
  <2>1. s[k - 1] \in EntryType
    BY <1>1, <1>3
  <2>2. s[k - 1].type \in {"file", "folder"}
    BY <2>1, EntryFacts
  <2>3. k - 1 \notin Named(s)
    BY <1>1, <1>4
  <2>4. IsFolder(s[k - 1], ".") => k - 1 = 1 \/ k - 2 \in Named(s)
    <3>1. (k - 1) - 1 = k - 2
      BY <1>1
    <3> QED
      BY <1>1, <1>3, <3>1 DEF Shaped
  <2>5. k - 2 \notin Named(s)
    BY <1>1, <1>4
  <2>6. IsFolder(s[k - 1], "..") => k > 3 /\ k - 3 \in Named(s)
    <3>1. (k - 1) - 2 = k - 3 /\ (k - 1 > 2 => k > 3)
      BY <1>1
    <3> QED
      BY <1>1, <1>3, <3>1 DEF Shaped
  <2>7. s[k - 1].type = "folder" => s[k - 1].name \in {".", ".."}
    BY <1>3, <2>3 DEF Named, Indices
  <2> QED
    BY <2>2, <2>4, <2>5, <2>6, <2>7 DEF IsFolder
<1>7. ASSUME IsFolder(s[k - 1], ".."), k - 3 \in Named(s), k > 3
      PROVE  /\ FolderIn(s, homes, 0, 0, k - 3) = homes[i]
             /\ homes[i] \notin Upto(homes, i - 1)
  <2>1. FilesIn(s, k - 3) = FilesIn(s, k)
    <3>1. k - 3 \in 1 .. Len(s) /\ k - 2 \in 1 .. Len(s)
      BY <1>1, <1>7
    <3>2. s[k - 3].type # "file" /\ s[k - 2].type # "file" /\ s[k - 1].type # "file"
      <4>1. (k - 3) + 1 = k - 2
        BY <1>1
      <4>2. IsFolder(s[(k - 3) + 1], ".")
        BY <1>1, <1>7 DEF Shaped
      <4> QED
        BY <1>7, <4>1, <4>2 DEF IsFolder, Named, Indices
    <3>3. \A j \in 1 .. Len(s) : s[j].type # "file" => FilesIn(s, j + 1) = FilesIn(s, j)
      <4> SUFFICES ASSUME NEW j \in 1 .. Len(s), s[j].type # "file"
                   PROVE  FilesIn(s, j + 1) = FilesIn(s, j)
        OBVIOUS
      <4>1. FilesIn(s, j) \in Nat /\ FilesIn(s, j + 1) = FilesIn(s, j) + 0
        BY <1>1, NextFiles
      <4> QED
        BY <4>1
    <3>6. (k - 3) + 1 = k - 2 /\ (k - 2) + 1 = k - 1 /\ (k - 1) + 1 = k
      BY <1>1
    <3> QED
      BY <1>3, <3>1, <3>2, <3>3, <3>6
  <2>2. After(s, k - 3) = {}
    <3> SUFFICES ASSUME NEW j \in Named(s), j > k - 3, FilesIn(s, j) = FilesIn(s, k) PROVE FALSE
      BY <2>1 DEF After
    <3>1. j \in 1 .. Len(s) /\ j # k /\ ~ (j > k)
      <4>1. j \in 1 .. Len(s) /\ j # k
        BY <1>4
      <4> QED
        BY <1>5, <4>1
    <3>2. j = k - 2 \/ j = k - 1
      BY <1>1, <3>1
    <3>3. (k - 3) + 1 = k - 2
      BY <1>1
    <3>4. IsFolder(s[k - 2], ".")
      BY <1>1, <1>7, <3>3 DEF Shaped
    <3> QED
      BY <1>7, <3>2, <3>4 DEF Named, IsFolder
  <2>3. Cardinality(After(s, k - 3)) = 0
    BY <2>2, FS_EmptySet
  <2>4. FolderIn(s, homes, 0, 0, k - 3) = homes[i]
    <3> PICK d : d = homes[i]
      OBVIOUS
    <3>1. FolderIn(s, homes, 0, 0, k - 3) = SubSeq(d, 1, Len(d) - 0 - (IF i = 0 THEN 0 ELSE 0))
      BY <2>1, <2>3 DEF FolderIn
    <3>2. d \in Seq(Parts)
      BY <1>2 DEF IsHome
    <3>3. SubSeq(d, 1, Len(d)) = d /\ Len(d) - 0 - (IF i = 0 THEN 0 ELSE 0) = Len(d)
      BY <3>2
    <3> QED
      BY <3>1, <3>3
  <2>5. FilesIn(s, k - 3) + 1 = i
    BY <2>1
  <2>6. homes[i] \notin Upto(homes, i - 1)
    BY <1>7, <2>4, <2>5 DEF Archived
  <2> QED
    BY <2>4, <2>6
<1>8. ASSUME homes[i] \notin Upto(homes, i - 1)
      PROVE  /\ k > 3 /\ k - 3 \in Named(s)
             /\ FolderIn(s, homes, 0, 0, k - 3) = homes[i]
  <2>1. homes[i] \in Ancestry(homes[i])
    BY <1>2, BelowIs
  <2>2. PICK j \in Named(s) : FolderIn(s, homes, 0, 0, j) = homes[i]
    <3>1. homes[i] \in Upto(homes, Len(plan))
      BY <1>2, <2>1 DEF Upto
    <3> QED
      BY <3>1 DEF Archived
  <2>3. PICK f : f = FilesIn(s, j) + 1
    OBVIOUS
  <2>4. f \in 1 .. Len(plan) /\ homes[i] \in Ancestry(homes[f]) /\ homes[i] \notin Upto(homes, f - 1)
    BY <2>2, <2>3 DEF Archived
  <2>5. ~ (f < i)
    <3> SUFFICES ASSUME f < i PROVE FALSE
      OBVIOUS
    <3>1. f \in 1 .. i - 1
      BY <1>2, <2>4
    <3> QED
      BY <1>8, <2>4, <3>1 DEF Upto
  <2>6. ~ (i < f)
    <3> SUFFICES ASSUME i < f PROVE FALSE
      OBVIOUS
    <3>1. i \in 1 .. f - 1
      BY <1>2, <2>4
    <3> QED
      BY <2>1, <2>4, <3>1 DEF Upto
  <2>7. FilesIn(s, j) = FilesIn(s, k) /\ j \in 1 .. Len(s) /\ j > 1
    <3>1. f = i
      BY <1>2, <2>4, <2>5, <2>6
    <3>2. j \in 1 .. Len(s) /\ j > 1
      BY <1>4
    <3>3. FilesIn(s, j) \in Nat
      BY <1>5, <3>2
    <3> QED
      BY <1>5, <2>3, <3>1, <3>2, <3>3
  <2>8. j <= k - 1
    <3>1. ~ (j > k) /\ j # k
      BY <1>4, <1>5, <2>7
    <3> QED
      BY <1>1, <2>7, <3>1
  <2>9. s[k - 1].type # "file"
    <3> SUFFICES ASSUME s[k - 1].type = "file" PROVE FALSE
      OBVIOUS
    <3>1. k - 1 \in 1 .. k - 1
      BY <1>1, <1>3
    <3>2. FilesIn(s, k - 1) + 1 <= FilesIn(s, k)
      BY <1>1, <3>1, NextFiles
    <3>3. FilesIn(s, j) <= FilesIn(s, k - 1)
      <4>1. j \in 1 .. k - 1
        BY <1>1, <2>7, <2>8
      <4> QED
        BY <1>1, <1>3, <4>1, NextFiles
    <3>4. FilesIn(s, k - 1) \in Nat /\ FilesIn(s, k) \in Nat
      BY <1>3, <1>5
    <3> QED
      BY <2>7, <3>2, <3>3, <3>4
  <2>10. k - 1 # 1
    BY <1>1, <2>7, <2>8
  <2> QED
    BY <1>6, <1>7, <2>9, <2>10
<1>9. ASSUME homes[i] \in Upto(homes, i - 1) PROVE s[k - 1].type = "file" /\ i > 1
  <2>1. i > 1
    <3>1. PICK j \in 1 .. i - 1 : homes[i] \in Ancestry(homes[j])
      BY <1>9 DEF Upto
    <3> QED
      BY <1>2, <3>1
  <2>2. k - 1 # 1
    <3> SUFFICES ASSUME k - 1 = 1 PROVE FALSE
      OBVIOUS
    <3>1. s[1].type # "file" /\ 1 \in 1 .. Len(s)
      BY <1>1, <1>3, AroundEntry DEF IsFolder
    <3>2. FilesIn(s, 1) = 0
      <4>1. {j \in Indices("file", s) : j < 1} = {}
        BY DEF Indices
      <4> QED
        BY <4>1, FS_EmptySet DEF FilesIn
    <3>3. FilesIn(s, 1 + 1) = 0 + 0
      BY <1>1, <3>1, <3>2, NextFiles
    <3>4. k = 1 + 1
      BY <1>1
    <3> QED
      BY <2>1, <3>3, <3>4
  <2> QED
    BY <1>6, <1>7, <1>9, <2>1, <2>2
<1> QED
  BY <1>2, <1>3, <1>8, <1>9

-----------------------------------------------------------------------------
(* The paths a reader puts together                                        *)

LEMMA TrimPlain ==
    ASSUME NEW d \in Seq(Parts), Plain(d)
    PROVE  TrimParts(d) = d
<1> DEFINE kept == {i \in 1 .. Len(d) : IsPart(d[i])}
<1>1. kept = 1 .. Len(d) /\ Len(d) \in Nat
  BY DEF Plain
<1>2. CASE d = <<>>
  <2>1. kept = {}
    BY <1>2
  <2> QED
    BY <1>2, <2>1 DEF TrimParts
<1>3. CASE d # <<>>
  <2>1. kept # {} /\ 1 \in kept /\ Len(d) \in kept
    BY <1>1, <1>3
  <2>2. TrimParts(d) = SubSeq(d, Min(kept), Max(kept))
    BY <2>1 DEF TrimParts
  <2> HIDE DEF kept
  <2>3. Min(kept) \in kept /\ Max(kept) \in kept /\ \A x \in kept : Min(kept) <= x /\ x <= Max(kept)
    BY <1>1, <2>1, MinMaxOf
  <2>4. Min(kept) = 1 /\ Max(kept) = Len(d)
    <3> PICK a, b : a = Min(kept) /\ b = Max(kept)
      OBVIOUS
    <3>1. a \in 1 .. Len(d) /\ b \in 1 .. Len(d) /\ a <= 1 /\ Len(d) <= b
      BY <1>1, <2>1, <2>3
    <3> QED
      BY <1>1, <3>1
  <2> QED
    BY <2>2, <2>4
<1> QED
  BY <1>2, <1>3

\* A folder is called after the last part of its path, and lies in its parent.
LEMMA FolderPath ==
    ASSUME NEW d, IsHome(d), NEW up, up = Front(d) \/ (Len(d) <= 1 /\ up = <<>>)
    PROVE  TrimParts(Append(up, NameOf(d))) = d
<1>1. d \in Seq(Parts) /\ Plain(d) /\ Len(d) \in Nat
  BY DEF IsHome
<1>2. CASE d = <<>>
  <2>1. up = <<>>
    BY <1>2 DEF Front
  <2> DEFINE p == Append(up, NameOf(d))
             kept == {i \in 1 .. Len(p) : IsPart(p[i])}
  <2>2. Len(p) = 1 /\ p[1] = NoName
    BY <1>2, <2>1 DEF NameOf
  <2> HIDE DEF p
  <2>3. kept = {}
    BY <2>2 DEF IsPart
  <2>4. TrimParts(p) = <<>>
    BY <2>3 DEF TrimParts
  <2> QED
    BY <1>2, <2>4 DEF p
<1>3. CASE d # <<>>
  <2>1. up = SubSeq(d, 1, Len(d) - 1)
    <3>1. CASE up = Front(d)
      BY <3>1 DEF Front
    <3>2. CASE Len(d) <= 1 /\ up = <<>>
      BY <1>1, <1>3, <3>2
    <3> QED
      BY <3>1, <3>2
  <2>2. NameOf(d) = d[Len(d)]
    BY <1>3 DEF NameOf, Last
  <2>3. Append(SubSeq(d, 1, Len(d) - 1), d[Len(d)]) = d
    BY <1>1, <1>3
  <2> QED
    BY <1>1, <2>1, <2>2, <2>3, TrimPlain
<1> QED
  BY <1>2, <1>3

\* A file has its name behind the path of its folder.
LEMMA FilePath ==
    ASSUME NEW cp, IsHome(cp), NEW name \in Words
    PROVE  /\ TrimParts(Append(cp, name)) \in Seq(Parts) /\ TrimParts(Append(cp, name)) # <<>>
           /\ \A p \in Seq(Parts) : p # <<>> /\ Last(p) = name =>
                (TrimParts(Append(cp, name)) = p <=> Front(p) = cp)
<1>1. cp \in Seq(Parts) /\ Plain(cp) /\ Len(cp) \in Nat /\ name \in Parts /\ IsPart(name)
  BY DEF IsHome, Words
<1> DEFINE q == Append(cp, name)
<1>2. q \in Seq(Parts) /\ q # <<>> /\ Len(q) = Len(cp) + 1 /\ q[Len(cp) + 1] = name
      /\ \A i \in 1 .. Len(cp) : q[i] = cp[i]
  BY <1>1
<1>3. SubSeq(q, 1, Len(q) - 1) = cp
  BY <1>1
<1> HIDE DEF q
<1>4. Plain(q)
  BY <1>1, <1>2 DEF Plain
<1>5. TrimParts(q) = q
  BY <1>2, <1>4, TrimPlain
<1>6. ASSUME NEW p \in Seq(Parts), p # <<>>, Last(p) = name
      PROVE  q = p <=> Front(p) = cp
  <2>1. Append(SubSeq(p, 1, Len(p) - 1), p[Len(p)]) = p
    BY <1>6
  <2>2. Front(p) = SubSeq(p, 1, Len(p) - 1) /\ p[Len(p)] = name
    BY <1>6 DEF Front, Last
  <2>3. Front(p) = cp => q = p
    BY <2>1, <2>2 DEF q
  <2>4. q = p => Front(p) = cp
    BY <1>3, <2>2
  <2> QED
    BY <2>3, <2>4
<1> QED
  BY <1>2, <1>5, <1>6 DEF q

-----------------------------------------------------------------------------
(* What the reader knows, one entry further                                *)

LEMMA FoldersApart ==
    ASSUME NEW s, EntriesOK(s), NEW j \in Named(s), NEW k \in Named(s), s[j].folder = s[k].folder
    PROVE  j = k
<1>1. s \in Seq(EntryType) /\ Contiguous(s) /\ Len(s) \in Nat
  BY DEF EntriesOK
<1>2. \A m \in Named(s) : m \in 1 .. Len(s) /\ m + 1 \in 1 .. Len(s) /\ s[m].folder = s[m + 1].at
  <2> SUFFICES ASSUME NEW m \in Named(s)
               PROVE  m \in 1 .. Len(s) /\ m + 1 \in 1 .. Len(s) /\ s[m].folder = s[m + 1].at
    OBVIOUS
  <2>1. m \in 1 .. Len(s)
    BY DEF Named, Indices
  <2> QED
    BY <2>1, AroundEntry
<1>3. \A a, b \in 1 .. Len(s) : a < b => s[a].at < s[b].at
  <2> SUFFICES ASSUME NEW a \in 1 .. Len(s), NEW b \in 1 .. Len(s), a < b PROVE s[a].at < s[b].at
    OBVIOUS
  <2>1. Behind(s[a]) <= s[b].at
    BY <1>1, Ascending
  <2>2. s[a].at \in Nat /\ Behind(s[a]) \in Nat /\ Behind(s[a]) >= s[a].at + 145
    BY <1>1, EntryFacts
  <2>3. s[b].at \in Nat
    BY <1>1, EntryFacts
  <2> QED
    BY <2>1, <2>2, <2>3
<1>4. \A a \in 1 .. Len(s) : s[a].at \in Nat
  BY <1>1, EntryFacts
<1>5. PICK a, b \in 1 .. Len(s) : a = j + 1 /\ b = k + 1
  BY <1>2
<1>6. s[a].at = s[b].at
  BY <1>2, <1>5
<1>7. a = b
  <2>1. ~ (a < b) /\ ~ (b < a)
    BY <1>3, <1>4, <1>6
  <2> QED
    BY <2>1
<1>8. j \in Int /\ k \in Int
  BY <1>2
<1> QED
  BY <1>5, <1>7, <1>8

LEMMA KnownOn ==
    ASSUME NEW s, EntriesOK(s), NEW homes, NEW fs, NEW k \in 1 .. Len(s),
           ~ IsFolder(s[k], ".."), FoldersKnown(s, homes, k, fs)
    PROVE  FoldersKnown(s, homes, k + 1, fs)
<1>1. \A j \in Named(s) : j \in 1 .. Len(s) /\ k # j + 2
  BY AroundEntry
<1>2. \A j \in Named(s) : j + 2 < k + 1 => j + 2 < k
  BY <1>1
<1> QED
  BY <1>2 DEF FoldersKnown

\* The root is registered first.
LEMMA KnownRoot ==
    ASSUME NEW s, EntriesOK(s), s # <<>>, NEW homes, NEW fs, Len(fs) = 1, fs[1].at = HeaderSize,
           fs[1].path = <<>>
    PROVE  FoldersKnown(s, homes, 2, fs)
<1>1. 1 \in 1 .. Len(s)
  BY DEF EntriesOK
<1>2. \A j \in Named(s) : j \in 1 .. Len(s) /\ j > 1 /\ s[j].folder # HeaderSize
  BY <1>1, AroundEntry DEF HeaderSize
<1>3. \A x \in 1 .. Len(fs) : x = 1
  OBVIOUS
<1>4. \A j \in Named(s) : ~ (j + 2 < 2)
  BY <1>2
<1> QED
  BY <1>2, <1>3, <1>4 DEF FoldersKnown, LeadsTo

LEMMA KnownFolder ==
    ASSUME NEW s, EntriesOK(s), NEW homes, NEW fs, fs \in Seq(FolderType), NEW k \in Named(s),
           FoldersKnown(s, homes, k, fs),
           NEW e \in FolderType, e.at = s[k].folder, e.name = s[k].name,
           NEW gs, gs = fs \/ gs = Append(fs, e)
    PROVE  FoldersKnown(s, homes, k + 1, gs)
<1>1. k \in 1 .. Len(s) /\ ~ IsFolder(s[k], "..") /\ s[k].folder # HeaderSize
  <2>1. k \in 1 .. Len(s) /\ s[k].name \notin {".", ".."}
    BY DEF Named, Indices
  <2> QED
    BY <2>1, AroundEntry DEF IsFolder, HeaderSize
<1>2. FoldersKnown(s, homes, k + 1, fs)
  BY <1>1, KnownOn
<1>3. CASE gs = Append(fs, e)
  <2>1. \A x \in 1 .. Len(gs) : (x \in 1 .. Len(fs) /\ gs[x] = fs[x]) \/ gs[x] = e
    BY <1>3
  <2>2. \A j \in Named(s) : e.at = s[j].folder => j = k
    BY FoldersApart
  <2>3. ~ (k + 2 < k + 1)
    BY <1>1
  <2>4. LeadsTo(gs, HeaderSize, <<>>)
    BY <1>1, <1>2, <2>1 DEF FoldersKnown, LeadsTo
  <2>5. ASSUME NEW j \in Named(s)
        PROVE  /\ \A x \in 1 .. Len(gs) : gs[x].at = s[j].folder => gs[x].name = s[j].name
               /\ j + 2 < k + 1 => LeadsTo(gs, s[j].folder, FolderIn(s, homes, 0, 0, j))
    <3>1. CASE j = k
      <4> SUFFICES ASSUME NEW x \in 1 .. Len(gs), gs[x].at = s[k].folder
                   PROVE  gs[x].name = s[k].name
        BY <2>3, <3>1
      <4> QED
        BY <1>2, <2>1 DEF FoldersKnown
    <3>2. CASE j # k
      <4>1. e.at # s[j].folder
        BY <2>2, <3>2
      <4>2. \A x \in 1 .. Len(gs) : gs[x].at = s[j].folder => gs[x].name = s[j].name
        BY <1>2, <2>1, <4>1 DEF FoldersKnown
      <4> SUFFICES ASSUME j + 2 < k + 1
                   PROVE  LeadsTo(gs, s[j].folder, FolderIn(s, homes, 0, 0, j))
        BY <4>2
      <4>3. LeadsTo(fs, s[j].folder, FolderIn(s, homes, 0, 0, j))
        BY <1>2 DEF FoldersKnown
      <4> QED
        BY <2>1, <4>1, <4>3 DEF LeadsTo
    <3> QED
      BY <3>1, <3>2
  <2> QED
    BY <2>4, <2>5 DEF FoldersKnown
<1> QED
  BY <1>2, <1>3

\* With its ".." a folder gets its path: the one of its parent and its name.
LEMMA KnownDotDot ==
    ASSUME NEW s, NEW plan, NEW homes, Archived(s, plan, homes), NEW fs, fs \in Seq(FolderType),
           \A x, y \in 1 .. Len(fs) : fs[x].at = fs[y].at => x = y,
           NEW k \in 1 .. Len(s), IsFolder(s[k], ".."), FoldersKnown(s, homes, k, fs),
           NEW m \in Named(s), k = m + 2,
           NEW i \in 1 .. Len(fs), fs[i].at = s[m].folder,
           NEW p \in 1 .. Len(fs), fs[p].at = s[k].folder,
           NEW e, e = [fs[i] EXCEPT !.path = TrimParts(Append(fs[p].path, fs[i].name))],
           NEW gs, gs = [fs EXCEPT ![i] = e]
    PROVE  FoldersKnown(s, homes, k + 1, gs)
<1> DEFINE F(j) == FolderIn(s, homes, 0, 0, j)
<1> HIDE DEF F
<1>1. EntriesOK(s) /\ Shaped(s) /\ Len(s) \in Nat /\ m \in 1 .. Len(s) /\ m \in Nat
  BY DEF Archived, EntriesOK, Named, Indices
<1>2. \A j \in Named(s) : j \in 1 .. Len(s) /\ s[j].folder # HeaderSize
  BY <1>1, AroundEntry DEF HeaderSize
<1>3. IsHome(F(m)) /\ LinkedUp(s, homes, 0, 0, m) /\ s[m].name = NameOf(F(m))
  BY DEF Archived, FoldersTold, F
<1>4. PICK q \in 1 .. m - 1 :
        /\ IsFolder(s[q], ".") /\ s[q].at = s[k].folder
        /\ IF q = 1 THEN Len(F(m)) <= 1 ELSE F(q - 1) = Front(F(m))
  BY <1>3 DEF LinkedUp, F
<1>5. fs[p].path = Front(F(m)) \/ (Len(F(m)) <= 1 /\ fs[p].path = <<>>)
  <2>1. CASE q = 1
    <3>1. s[1].at = HeaderSize
      <4>1. 1 \in 1 .. Len(s)
        BY <1>1
      <4> QED
        BY <1>1, <4>1 DEF EntriesOK, Contiguous
    <3> QED
      BY <1>4, <2>1, <3>1 DEF FoldersKnown, LeadsTo
  <2>2. CASE q # 1
    <3>1. q \in 1 .. Len(s) /\ (q - 1) + 2 < k /\ (q - 1) + 1 = q
      BY <1>1
    <3>2. q - 1 \in Named(s)
      BY <1>1, <1>4, <2>2, <3>1 DEF Shaped
    <3>3. s[q - 1].folder = s[q].at
      <4>1. s[(q - 1) + 1].at = s[q - 1].folder
        BY <1>1, <3>2 DEF Shaped
      <4> QED
        BY <3>1, <4>1
    <3>4. fs[p].path = F(q - 1)
      BY <1>4, <3>1, <3>2, <3>3 DEF FoldersKnown, LeadsTo, F
    <3> QED
      BY <1>4, <2>2, <3>4
  <2> QED
    BY <2>1, <2>2
<1>6. fs[i].name = NameOf(F(m))
  BY <1>3 DEF FoldersKnown
<1>7. TrimParts(Append(fs[p].path, fs[i].name)) = F(m)
  <2> PICK d, up : d = F(m) /\ up = fs[p].path
    OBVIOUS
  <2> QED
    BY <1>3, <1>5, <1>6, FolderPath
<1>8. fs[i] \in FolderType
  OBVIOUS
<1>9. e.at = fs[i].at /\ e.name = fs[i].name /\ e.path = F(m)
  BY <1>7, <1>8 DEF FolderType
<1>10. Len(gs) = Len(fs) /\ \A x \in 1 .. Len(fs) : gs[x] = IF x = i THEN e ELSE fs[x]
  OBVIOUS
<1>11. \A x \in 1 .. Len(fs) : /\ gs[x].at = fs[x].at /\ gs[x].name = fs[x].name
                               /\ gs[x].path = IF x = i THEN F(m) ELSE fs[x].path
  BY <1>9, <1>10
<1>12. LeadsTo(gs, HeaderSize, <<>>)
  BY <1>2, <1>10, <1>11 DEF FoldersKnown, LeadsTo
<1>13. ASSUME NEW j \in Named(s)
       PROVE  /\ \A x \in 1 .. Len(gs) : gs[x].at = s[j].folder => gs[x].name = s[j].name
              /\ j + 2 < k + 1 => LeadsTo(gs, s[j].folder, F(j))
  <2>1. \A x \in 1 .. Len(gs) : gs[x].at = s[j].folder => gs[x].name = s[j].name
    BY <1>10, <1>11 DEF FoldersKnown
  <2>2. CASE j = m
    <3> SUFFICES ASSUME NEW x \in 1 .. Len(gs), gs[x].at = s[m].folder PROVE gs[x].path = F(m)
      BY <2>1, <2>2 DEF LeadsTo
    <3>1. x = i
      BY <1>10, <1>11
    <3> QED
      BY <1>10, <1>11, <3>1
  <2>3. CASE j # m
    <3> SUFFICES ASSUME j + 2 < k + 1, NEW x \in 1 .. Len(gs), gs[x].at = s[j].folder
                 PROVE  gs[x].path = F(j)
      BY <2>1 DEF LeadsTo
    <3>1. x # i
      <4> SUFFICES ASSUME x = i PROVE FALSE
        OBVIOUS
      <4>1. s[j].folder = s[m].folder
        BY <1>10, <1>11
      <4> QED
        BY <1>1, <2>3, <4>1, FoldersApart
    <3>2. j + 2 < k
      BY <1>1, <1>2, <2>3
    <3> QED
      BY <1>10, <1>11, <3>1, <3>2 DEF FoldersKnown, LeadsTo, F
  <2> QED
    BY <2>2, <2>3, <2>1
<1> QED
  BY <1>12, <1>13 DEF FoldersKnown, F

LEMMA KeptMore ==
    ASSUME NEW s \in Seq(EntryType), NEW plan, NEW k \in 1 .. Len(s)
    PROVE  Kept(s, plan, k + 1) =
              Kept(s, plan, k) \cup
                (IF s[k].type = "file" /\ s[k].damage # "packed"
                 THEN {<<plan[FilesIn(s, k) + 1].path,
                         IF s[k].damage = "checksum" THEN WrongData ELSE s[k].data>>}
                 ELSE {})
<1> DEFINE T(n) == {x \in Indices("file", s) : x < n /\ s[x].damage # "packed"}
           V(j) == <<plan[FilesIn(s, j) + 1].path,
                     IF s[j].damage = "checksum" THEN WrongData ELSE s[j].data>>
           New  == IF s[k].type = "file" /\ s[k].damage # "packed" THEN {k} ELSE {}
<1>1. T(k + 1) = T(k) \cup New
  <2>1. \A x \in Indices("file", s) : x \in 1 .. Len(s) /\ (x < k + 1 <=> x < k \/ x = k)
    BY DEF Indices
  <2>2. k \in Indices("file", s) <=> s[k].type = "file"
    BY DEF Indices
  <2> QED
    BY <2>1, <2>2
<1>2. \A n : Kept(s, plan, n) = {V(j) : j \in T(n)}
  BY DEF Kept
<1> HIDE DEF T
<1>3. Kept(s, plan, k + 1) = {V(j) : j \in T(k)} \cup {V(j) : j \in New}
  <2> HIDE DEF V, New
  <2> QED
    BY <1>1, <1>2
<1>4. {V(j) : j \in New} = IF s[k].type = "file" /\ s[k].damage # "packed" THEN {V(k)} ELSE {}
  <2> HIDE DEF V
  <2> QED
    OBVIOUS
<1> QED
  BY <1>2, <1>3, <1>4

\* The entries of folders do not change what is known of the files.
LEMMA PastNoFile ==
    ASSUME NEW s, EntriesOK(s), NEW plan, NEW homes, NEW k \in 1 .. Len(s), s[k].type # "file",
           NEW fs, NEW ds, NEW cur, Knowing(s, plan, homes, k, fs, ds, cur),
           NEW gs, FoldersKnown(s, homes, k + 1, gs),
           NEW into, k - 2 \in Named(s) => into = s[k - 2].folder
    PROVE  Knowing(s, plan, homes, k + 1, fs, gs, into)
<1>1. s \in Seq(EntryType) /\ k \in Nat
  BY DEF EntriesOK
<1>2. FilesIn(s, k + 1) = FilesIn(s, k)
  <2>1. FilesIn(s, k) \in Nat /\ FilesIn(s, k + 1) = FilesIn(s, k) + 0
    BY <1>1, NextFiles
  <2> QED
    BY <2>1
<1>3. Kept(s, plan, k + 1) = Kept(s, plan, k)
  <2> PICK V : V = {<<plan[FilesIn(s, k) + 1].path,
                      IF s[k].damage = "checksum" THEN WrongData ELSE s[k].data>>}
    OBVIOUS
  <2>1. Kept(s, plan, k + 1) =
          Kept(s, plan, k) \cup (IF s[k].type = "file" /\ s[k].damage # "packed" THEN V ELSE {})
    BY <1>1, KeptMore
  <2> QED
    BY <2>1
<1>4. (k + 1) - 3 = k - 2 /\ (k + 1) - 1 = k
  BY <1>1
<1>5. \A j \in Indices("file", s) : j \in 1 .. Len(s) /\ s[j].type = "file"
  BY DEF Indices
<1>6. \A j \in Indices("file", s) : j < k + 1 => j < k
  BY <1>1, <1>5
<1>7. FilesRead(s, plan, k + 1, fs)
  BY <1>2, <1>3 DEF Knowing, FilesRead
<1>8. \A j \in Indices("file", s) : j < k + 1 /\ s[j].damage # "none" => s[j].end # 0
  BY <1>6 DEF Knowing
<1> QED
  BY <1>4, <1>7, <1>8 DEF Knowing

\* The parent of a folder.
Above(d) == IF Len(d) > 1 THEN Front(d) ELSE <<>>

\* A reader in front of a file stands in a folder that it knows, as it does the one above;
\* and in the folder the plan wants, if it did so for every file before.
LEMMA InFrontOfFile ==
    ASSUME NEW s, NEW plan, NEW homes, Archived(s, plan, homes),
           NEW k \in 1 .. Len(s), s[k].type = "file", NEW i, i = FilesIn(s, k) + 1,
           NEW pos, NEW fs, NEW ds, NEW cur,
           Standing(s, k, pos, ds, cur), Knowing(s, plan, homes, k, fs, ds, cur),
           NEW x \in 1 .. Len(ds), ds[x].at = cur
    PROVE  /\ IsHome(ds[x].path)
           /\ \E y \in 1 .. Len(ds) : ds[y].path = Above(ds[x].path)
           /\ Good(plan, i - 1) => ds[x].path = Wanted(plan, i)
<1> DEFINE F(j) == FolderIn(s, homes, 0, 0, j)
<1> HIDE DEF F
<1>1. EntriesOK(s) /\ Shaped(s) /\ Len(s) \in Nat /\ k \in Nat /\ k > 1 /\ Len(plan) \in Nat
      /\ i \in 1 .. Len(plan)
  <2>1. EntriesOK(s) /\ Shaped(s) /\ Len(s) \in Nat /\ k \in Nat /\ Len(plan) \in Nat
    BY DEF Archived, EntriesOK
  <2> QED
    BY <2>1, FileBehind
<1>2. \A j \in Named(s) : /\ j \in 1 .. Len(s) /\ j > 1
                          /\ j < k => j + 2 < k
  <2> SUFFICES ASSUME NEW j \in Named(s)
               PROVE  j \in 1 .. Len(s) /\ j > 1 /\ (j < k => j + 2 < k)
    OBVIOUS
  <2>1. j \in 1 .. Len(s) /\ j > 1 /\ k # j + 1 /\ k # j + 2
    BY <1>1, AroundEntry DEF IsFolder
  <2> QED
    BY <1>1, <2>1
<1>3. \A j \in Named(s) : j < k =>
        /\ s[j].folder \in OffsetsIn(ds) /\ IsHome(F(j)) /\ LinkedUp(s, homes, 0, 0, j)
        /\ \A y \in 1 .. Len(ds) : ds[y].at = s[j].folder => ds[y].path = F(j)
  <2> SUFFICES ASSUME NEW j \in Named(s), j < k
               PROVE  /\ s[j].folder \in OffsetsIn(ds) /\ IsHome(F(j)) /\ LinkedUp(s, homes, 0, 0, j)
                      /\ \A y \in 1 .. Len(ds) : ds[y].at = s[j].folder => ds[y].path = F(j)
    OBVIOUS
  <2>1. IsHome(F(j)) /\ LinkedUp(s, homes, 0, 0, j)
    BY DEF Archived, F
  <2>2. s[j].folder \in Places(s, k)
    <3>1. j \in 1 .. k - 1
      BY <1>1, <1>2
    <3> QED
      BY <3>1 DEF Places
  <2>3. LeadsTo(ds, s[j].folder, F(j))
    BY <1>2 DEF Knowing, FoldersKnown, F
  <2> QED
    BY <2>1, <2>2, <2>3 DEF Standing, LeadsTo
<1>4. /\ HeaderSize \in OffsetsIn(ds)
      /\ \A y \in 1 .. Len(ds) : ds[y].at = HeaderSize => ds[y].path = <<>>
  <2>1. 1 \in 1 .. k - 1 /\ s[1].folder = HeaderSize
    BY <1>1, AroundEntry
  <2>2. HeaderSize \in Places(s, k)
    BY <2>1 DEF Places
  <2>3. LeadsTo(ds, HeaderSize, <<>>)
    BY DEF Knowing, FoldersKnown
  <2> QED
    BY <2>2, <2>3 DEF Standing, LeadsTo
<1>5. PICK j \in 1 .. k - 1 : (j = 1 \/ j \in Named(s)) /\ cur = s[j].folder
  <2>1. cur \in Places(s, k)
    BY <1>1 DEF Standing
  <2> QED
    BY <2>1 DEF Places
<1>6. \A offset : offset \in OffsetsIn(ds) => \E y \in 1 .. Len(ds) : ds[y].at = offset
  BY DEF OffsetsIn
<1>7. IsHome(ds[x].path) /\ \E y \in 1 .. Len(ds) : ds[y].path = Above(ds[x].path)
  <2>1. CASE j = 1
    <3>1. cur = HeaderSize
      BY <1>1, <1>5, <2>1, AroundEntry
    <3>2. ds[x].path = <<>>
      BY <1>4, <3>1
    <3>3. Above(<<>>) = <<>> /\ IsHome(<<>>)
      BY DEF Above, IsHome, Plain
    <3> QED
      BY <3>2, <3>3
  <2>2. CASE j # 1
    <3>1. j \in Named(s) /\ j < k
      BY <1>1, <1>5, <2>2
    <3>2. ds[x].path = F(j) /\ IsHome(F(j)) /\ LinkedUp(s, homes, 0, 0, j)
      BY <1>3, <1>5, <3>1
    <3>3. PICK m \in 1 .. j - 1 :
            /\ IsFolder(s[m], ".") /\ s[m].at = s[j + 2].folder
            /\ IF m = 1 THEN Len(F(j)) <= 1 ELSE F(m - 1) = Front(F(j))
      BY <3>2 DEF LinkedUp, F
    <3>4. CASE Len(F(j)) > 1
      <4>1. m # 1
        <5>1. Len(F(j)) \in Nat
          BY <3>2 DEF IsHome
        <5> QED
          BY <3>3, <3>4, <5>1
      <4>2. m \in 1 .. Len(s) /\ m - 1 < k
        BY <1>1, <3>1
      <4>3. m - 1 \in Named(s)
        BY <1>1, <3>3, <4>1, <4>2 DEF Shaped
      <4>4. PICK y \in 1 .. Len(ds) : ds[y].at = s[m - 1].folder
        BY <1>3, <1>6, <4>2, <4>3
      <4>5. ds[y].path = F(m - 1)
        BY <1>3, <4>2, <4>3, <4>4
      <4> QED
        BY <3>2, <3>3, <3>4, <4>1, <4>5 DEF Above
    <3>5. CASE ~ (Len(F(j)) > 1)
      <4>1. PICK y \in 1 .. Len(ds) : ds[y].at = HeaderSize
        BY <1>4, <1>6
      <4>2. ds[y].path = <<>>
        BY <1>4, <4>1
      <4> QED
        BY <3>2, <3>5, <4>2 DEF Above
    <3> QED
      BY <3>4, <3>5
  <2> QED
    BY <2>1, <2>2
<1>8. ASSUME Good(plan, i - 1) PROVE ds[x].path = Wanted(plan, i)
  <2>1. (\E a \in 1 .. i - 1 : plan[i].folder \in Ancestry(plan[a].folder))
           <=> homes[i] \in Upto(homes, i - 1)
    <3>1. homes[i] = plan[i].folder
      BY <1>1 DEF Archived
    <3>2. \A a \in 1 .. i - 1 : a \in 1 .. Len(plan) /\ homes[a] = plan[a].folder
      <4> SUFFICES ASSUME NEW a \in 1 .. i - 1 PROVE a \in 1 .. Len(plan) /\ homes[a] = plan[a].folder
        OBVIOUS
      <4>1. a \in 1 .. Len(plan)
        BY <1>1
      <4> QED
        BY <4>1 DEF Archived
    <3> QED
      BY <3>1, <3>2 DEF Upto
  <2>2. CASE homes[i] \notin Upto(homes, i - 1)
    <3>1. k > 3 /\ k - 3 \in Named(s) /\ F(k - 3) = homes[i]
      BY <2>2, FileBehind DEF F
    <3>2. cur = s[k - 3].folder
      BY <3>1 DEF Knowing
    <3>3. ds[x].path = F(k - 3)
      <4>1. k - 3 < k
        BY <1>1
      <4> QED
        BY <1>3, <3>1, <3>2, <4>1
    <3>4. homes[i] = plan[i].folder
      BY <1>1 DEF Archived
    <3> QED
      BY <2>1, <2>2, <3>1, <3>3, <3>4 DEF Wanted
  <2>3. CASE homes[i] \in Upto(homes, i - 1)
    <3>1. s[k - 1].type = "file" /\ i > 1
      BY <2>3, FileBehind
    <3>2. FilesIn(s, k) = i - 1
      <4>1. s \in Seq(EntryType)
        BY <1>1 DEF EntriesOK
      <4>2. FilesIn(s, k) \in Nat
        BY <4>1, NextFiles
      <4> QED
        BY <4>2
    <3>3. LeadsTo(ds, cur, UpFrom(plan[i - 1]))
      BY <1>1, <1>8, <3>1, <3>2 DEF Knowing
    <3> QED
      BY <2>1, <2>3, <3>3 DEF Wanted, LeadsTo
  <2> QED
    BY <2>2, <2>3
<1> QED
  BY <1>7, <1>8

LEMMA GoodNext ==
    ASSUME NEW plan, NEW i \in Nat, i > 0
    PROVE  Good(plan, i) <=> Good(plan, i - 1) /\ Front(plan[i].path) = Wanted(plan, i)
<1>1. \A j \in 1 .. i : j \in 1 .. i - 1 \/ j = i
  OBVIOUS
<1>2. i \in 1 .. i /\ \A j \in 1 .. i - 1 : j \in 1 .. i
  OBVIOUS
<1> QED
  BY <1>1, <1>2 DEF Good

LEMMA ContentAppended ==
    ASSUME NEW S, NEW fs \in Seq(S), NEW g \in S
    PROVE  Content(Append(fs, g)) = Content(fs) \cup {<<g.path, g.data>>}
<1> DEFINE t == Append(fs, g)
           V(h) == <<h.path, h.data>>
<1>1. \A u \in Seq(S) : Content(u) = {V(u[j]) : j \in 1 .. Len(u)}
  BY DEF Content, Listing, Range
<1>2. /\ t \in Seq(S) /\ 1 .. Len(t) = (1 .. Len(fs)) \cup {Len(fs) + 1}
      /\ \A j \in 1 .. Len(fs) : t[j] = fs[j]
      /\ t[Len(fs) + 1] = g
  OBVIOUS
<1> HIDE DEF t, V
<1>3. Content(t) = {V(t[j]) : j \in 1 .. Len(fs)} \cup {V(g)}
  <2>1. Content(t) = {V(t[j]) : j \in 1 .. Len(t)}
    BY <1>1, <1>2
  <2>2. {V(t[j]) : j \in 1 .. Len(t)} = {V(t[j]) : j \in (1 .. Len(fs)) \cup {Len(fs) + 1}}
    BY <1>2
  <2>3. {V(t[j]) : j \in (1 .. Len(fs)) \cup {Len(fs) + 1}}
          = {V(t[j]) : j \in 1 .. Len(fs)} \cup {V(t[Len(fs) + 1])}
    OBVIOUS
  <2>4. V(t[Len(fs) + 1]) = V(g)
    <3>1. t[Len(fs) + 1] = g
      BY <1>2
    <3> QED
      BY <3>1 DEF V
  <2> QED
    BY ONLY <2>1, <2>2, <2>3, <2>4
<1>4. {V(t[j]) : j \in 1 .. Len(fs)} = {V(fs[j]) : j \in 1 .. Len(fs)}
  BY <1>2
<1> QED
  BY <1>1, <1>3, <1>4 DEF t, V

\* A file that is read gets the path it has in the plan when the reader stands in the
\* folder that the path names.
LEMMA FileIsRead ==
    ASSUME NEW s, NEW plan, NEW homes, Archived(s, plan, homes),
           NEW k \in 1 .. Len(s), s[k].type = "file", NEW i, i = FilesIn(s, k) + 1,
           NEW fs, fs \in Seq(FileType), FilesRead(s, plan, k, fs),
           NEW cp, IsHome(cp), Good(plan, i - 1) => cp = Wanted(plan, i),
           s[k].damage # "packed",
           NEW g \in FileType, g.path = TrimParts(Append(cp, s[k].name)),
           g.data = IF s[k].damage = "checksum" THEN WrongData ELSE s[k].data
    PROVE  /\ Good(plan, i) => g.path = plan[i].path
           /\ FilesRead(s, plan, k + 1, Append(fs, g))
<1>1. /\ s \in Seq(EntryType) /\ Shaped(s) /\ Len(s) \in Nat /\ k \in Nat /\ Len(plan) \in Nat
      /\ i \in 1 .. Len(plan) /\ plan \in Seq(FileType)
  <2>1. s \in Seq(EntryType) /\ Shaped(s) /\ Len(s) \in Nat /\ k \in Nat /\ Len(plan) \in Nat
        /\ plan \in Seq(FileType)
    BY DEF Archived, EntriesOK
  <2> QED
    BY <2>1, FileBehind
<1>2. FilesIn(s, k) = i - 1 /\ FilesIn(s, k + 1) = i
  <2>1. FilesIn(s, k) \in Nat /\ FilesIn(s, k + 1) = FilesIn(s, k) + 1
    BY <1>1, NextFiles
  <2> QED
    BY <2>1
<1>3. s[k].name \in Words /\ s[k].name = Last(plan[i].path) /\ s[k].data = plan[i].data
  <2>1. k \in Indices("file", s)
    BY DEF Indices
  <2> QED
    BY <1>1, <2>1 DEF Archived, FilesTold, Shaped, Name
<1>4. plan[i].path \in Seq(Parts) /\ plan[i].path # <<>>
  <2>1. plan[i] \in FileType
    BY <1>1
  <2> QED
    BY <2>1 DEF FileType
<1>5. g.path = plan[i].path <=> Front(plan[i].path) = cp
  <2> PICK p : p = plan[i].path
    OBVIOUS
  <2> QED
    BY <1>3, <1>4, FilePath
<1>6. Good(plan, i) <=> Good(plan, i - 1) /\ Front(plan[i].path) = Wanted(plan, i)
  BY <1>1, GoodNext
<1>7. Good(plan, i) => g.path = plan[i].path
  BY <1>5, <1>6
<1> DEFINE gs == Append(fs, g)
<1>8. ASSUME Good(plan, i) PROVE Content(gs) = Kept(s, plan, k + 1)
  <2>1. Content(fs) = Kept(s, plan, k)
    BY <1>2, <1>6, <1>8 DEF FilesRead
  <2>2. Content(gs) = Content(fs) \cup {<<g.path, g.data>>}
    BY ContentAppended
  <2>3. Kept(s, plan, k + 1) = Kept(s, plan, k) \cup {<<plan[i].path, g.data>>}
    <3> PICK V, W : /\ V = {<<plan[FilesIn(s, k) + 1].path,
                         IF s[k].damage = "checksum" THEN WrongData ELSE s[k].data>>}
                    /\ W = {<<plan[i].path, g.data>>}
      OBVIOUS
    <3>1. V = W
      OBVIOUS
    <3>2. Kept(s, plan, k + 1) =
            Kept(s, plan, k) \cup (IF s[k].type = "file" /\ s[k].damage # "packed" THEN V ELSE {})
      BY <1>1, KeptMore
    <3> QED
      BY <3>1, <3>2
  <2> QED
    BY <1>7, <1>8, <2>1, <2>2, <2>3
<1>9. ASSUME Damaged(s) = {}
      PROVE  /\ Len(gs) = i /\ \A j \in 1 .. i : gs[j].data = plan[j].data
             /\ (\A j \in 1 .. i : gs[j].path = plan[j].path) <=> Good(plan, i)
  <2>1. /\ Len(fs) = i - 1 /\ \A j \in 1 .. i - 1 : fs[j].data = plan[j].data
        /\ (\A j \in 1 .. i - 1 : fs[j].path = plan[j].path) <=> Good(plan, i - 1)
    BY <1>2, <1>9 DEF FilesRead
  <2>2. Len(gs) = i /\ gs[i] = g /\ \A j \in 1 .. i - 1 : gs[j] = fs[j]
    BY <1>1, <2>1
  <2>3. \A j \in 1 .. i : j \in 1 .. i - 1 \/ j = i
    BY <1>1
  <2>4. i \in 1 .. i /\ \A j \in 1 .. i - 1 : j \in 1 .. i
    BY <1>1
  <2>5. g.data = plan[i].data
    <3>1. s[k].damage = "none"
      BY <1>9 DEF Damaged
    <3> QED
      BY <1>3, <3>1
  <2> HIDE DEF gs
  <2>6. (\A j \in 1 .. i : gs[j].path = plan[j].path)
           <=> (\A j \in 1 .. i - 1 : fs[j].path = plan[j].path) /\ g.path = plan[i].path
    BY <2>2, <2>3, <2>4
  <2>7. \A j \in 1 .. i : gs[j].data = plan[j].data
    BY <2>1, <2>2, <2>3, <2>5
  <2> QED
    BY <1>5, <1>6, <2>1, <2>2, <2>6, <2>7
<1> HIDE DEF gs
<1>10. FilesRead(s, plan, k + 1, gs)
  BY <1>2, <1>8, <1>9 DEF FilesRead
<1> QED
  BY <1>7, <1>10 DEF gs

LEMMA FileIsSkipped ==
    ASSUME NEW s, NEW plan, NEW homes, Archived(s, plan, homes),
           NEW k \in 1 .. Len(s), s[k].type = "file",
           NEW fs, FilesRead(s, plan, k, fs), s[k].damage = "packed"
    PROVE  FilesRead(s, plan, k + 1, fs)
<1>1. s \in Seq(EntryType) /\ k \in Nat
  BY DEF Archived, EntriesOK
<1>2. PICK i : i = FilesIn(s, k) + 1
  OBVIOUS
<1>3. i \in Nat /\ i > 0 /\ FilesIn(s, k) = i - 1 /\ FilesIn(s, k + 1) = i
  <2>1. FilesIn(s, k) \in Nat /\ FilesIn(s, k + 1) = FilesIn(s, k) + 1
    BY <1>1, NextFiles
  <2> QED
    BY <1>2, <2>1
<1>4. Kept(s, plan, k + 1) = Kept(s, plan, k)
  <2> PICK V : V = {<<plan[FilesIn(s, k) + 1].path,
                      IF s[k].damage = "checksum" THEN WrongData ELSE s[k].data>>}
    OBVIOUS
  <2>1. Kept(s, plan, k + 1) =
          Kept(s, plan, k) \cup (IF s[k].type = "file" /\ s[k].damage # "packed" THEN V ELSE {})
    BY <1>1, KeptMore
  <2> QED
    BY <2>1
<1>5. k \in Damaged(s)
  BY DEF Damaged
<1>6. Good(plan, i) => Good(plan, i - 1)
  BY <1>3, GoodNext
<1> QED
  BY <1>3, <1>4, <1>5, <1>6 DEF FilesRead

\* Behind a file the reader stands where the plan expects it, in the folder of the file
\* or, when the file has no end offset, above it.
LEMMA PastFileKnown ==
    ASSUME NEW s, NEW plan, NEW homes, Archived(s, plan, homes),
           NEW k \in 1 .. Len(s), s[k].type = "file", NEW i, i = FilesIn(s, k) + 1,
           NEW pos, NEW fs, NEW ds, NEW cur,
           Standing(s, k, pos, ds, cur), Knowing(s, plan, homes, k, fs, ds, cur),
           NEW x \in 1 .. Len(ds), ds[x].at = cur,
           NEW gs, FilesRead(s, plan, k + 1, gs), s[k].damage # "none" => s[k].end # 0,
           NEW into, s[k].end # 0 => into = cur,
           s[k].end = 0 => \E y \in 1 .. Len(ds) : ds[y].path = Above(ds[x].path) /\ into = ds[y].at
    PROVE  Knowing(s, plan, homes, k + 1, gs, ds, into)
<1>1. EntriesOK(s) /\ s \in Seq(EntryType) /\ k \in Nat /\ Len(plan) \in Nat /\ i \in 1 .. Len(plan)
  <2>1. EntriesOK(s) /\ s \in Seq(EntryType) /\ k \in Nat /\ Len(plan) \in Nat
    BY DEF Archived, EntriesOK
  <2> QED
    BY <2>1, FileBehind
<1>2. FoldersKnown(s, homes, k + 1, ds)
  BY <1>1, KnownOn DEF Knowing, IsFolder
<1>3. (k + 1) - 3 \notin Named(s)
  <2>1. (k + 1) - 3 = k - 2 /\ (k - 2) + 2 = k
    BY <1>1
  <2>2. \A j \in Named(s) : k # j + 2
    BY <1>1, AroundEntry DEF IsFolder
  <2> QED
    BY <2>1, <2>2
<1>4. FilesIn(s, k + 1) = i
  <2>1. FilesIn(s, k) \in Nat /\ FilesIn(s, k + 1) = FilesIn(s, k) + 1
    BY <1>1, NextFiles
  <2> QED
    BY <2>1
<1>5. \A y, z \in 1 .. Len(ds) : ds[y].at = ds[z].at => y = z
  BY DEF Standing
<1>6. ASSUME Good(plan, i) PROVE LeadsTo(ds, into, UpFrom(plan[i]))
  <2>1. ds[x].path = Front(plan[i].path) /\ IsHome(ds[x].path)
    <3>1. Good(plan, i - 1) /\ Front(plan[i].path) = Wanted(plan, i)
      BY <1>1, <1>6, GoodNext
    <3>2. IsHome(ds[x].path) /\ (Good(plan, i - 1) => ds[x].path = Wanted(plan, i))
      BY InFrontOfFile
    <3> QED
      BY <3>1, <3>2
  <2>2. s[k].end = 0 <=> EndOffset(plan[i], HeaderSize) = 0
    <3>1. k \in Indices("file", s)
      BY DEF Indices
    <3> QED
      BY <3>1 DEF Archived, FilesTold
  <2>3. CASE s[k].end # 0
    <3>1. UpFrom(plan[i]) = ds[x].path
      BY <2>1, <2>2, <2>3 DEF UpFrom
    <3> QED
      BY <1>5, <2>3, <3>1 DEF LeadsTo
  <2>4. CASE s[k].end = 0
    <3>1. UpFrom(plan[i]) = Above(ds[x].path)
      <4> PICK d : d = ds[x].path
        OBVIOUS
      <4>1. UpFrom(plan[i]) = IF d # <<>> THEN Front(d) ELSE d
        BY <2>1, <2>2, <2>4 DEF UpFrom
      <4>2. d \in Seq(Parts) /\ Len(d) \in Nat
        BY <2>1 DEF IsHome
      <4>3. d # <<>> /\ ~ (Len(d) > 1) => Front(d) = <<>>
        BY <4>2 DEF Front
      <4>4. d = <<>> => ~ (Len(d) > 1)
        OBVIOUS
      <4> QED
        BY <4>1, <4>3, <4>4 DEF Above
    <3>2. PICK y \in 1 .. Len(ds) : ds[y].path = Above(ds[x].path) /\ into = ds[y].at
      BY <2>4
    <3> QED
      BY <1>5, <3>1, <3>2 DEF LeadsTo
  <2> QED
    BY <2>3, <2>4
<1>7. \A j \in Indices("file", s) : j < k + 1 /\ s[j].damage # "none" => s[j].end # 0
  <2>1. \A j \in Indices("file", s) : j \in 1 .. Len(s)
    BY DEF Indices
  <2>2. \A j \in Indices("file", s) : j < k + 1 => j < k \/ j = k
    BY <1>1, <2>1
  <2> QED
    BY <2>2 DEF Knowing
<1> QED
  BY <1>2, <1>3, <1>4, <1>6, <1>7 DEF Knowing

\* The position says behind which entry the reader stands.
LEMMA StandsBehind ==
    ASSUME NEW s, EntriesOK(s), NEW k \in 1 .. Len(s), NEW m \in 1 .. Len(s) + 1,
           NEW fs, NEW cur, Standing(s, m, Behind(s[k]), fs, cur)
    PROVE  m = k + 1
<1>1. s \in Seq(EntryType) /\ Contiguous(s) /\ Len(s) \in Nat
  BY DEF EntriesOK
<1>2. \A i \in 1 .. Len(s) : s[i].at \in Nat /\ Behind(s[i]) \in Nat /\ Behind(s[i]) >= s[i].at + 145
  BY <1>1, EntryFacts
<1>3. \A i, j \in 1 .. Len(s) : i < j => Behind(s[i]) <= s[j].at
  BY <1>1, Ascending
<1>4. Behind(s[k]) = IF m = 1 THEN HeaderSize ELSE Behind(s[m - 1])
  BY DEF Standing
<1>5. m # 1
  <2>1. s[k].at >= HeaderSize
    BY <1>1, Ascending
  <2> QED
    BY <1>2, <1>4, <2>1 DEF HeaderSize
<1>6. PICK j \in 1 .. Len(s) : j = m - 1
  BY <1>1, <1>5
<1>7. Behind(s[j]) = Behind(s[k])
  BY <1>4, <1>5, <1>6
<1>8. j = k
  <2>1. \A a, b \in 1 .. Len(s) : a < b => Behind(s[a]) < Behind(s[b])
    <3> SUFFICES ASSUME NEW a \in 1 .. Len(s), NEW b \in 1 .. Len(s), a < b
                 PROVE  Behind(s[a]) < Behind(s[b])
      OBVIOUS
    <3>1. Behind(s[a]) <= s[b].at
      BY <1>3
    <3> QED
      BY <1>2, <3>1
  <2>2. ~ (j < k) /\ ~ (k < j)
    BY <1>2, <1>7, <2>1
  <2> QED
    BY <2>2
<1> QED
  BY <1>1, <1>6, <1>8

-----------------------------------------------------------------------------
(* The steps of the reader                                                 *)

LEMMA KnownHere ==
    ASSUME IInv, RInv, NEW k \in 1 .. Len(archive.entries), Reads(archive.entries[k])
    PROVE  /\ pc = "reading" /\ opened = "not"
           /\ Standing(archive.entries, k, position, folders, current)
           /\ Knowing(archive.entries, archive.plan, PlanHomes, k, files, folders, current)
<1> PICK s : s = archive.entries
  OBVIOUS
<1>1. pc = "reading" /\ EntriesOK(s) /\ position = s[k].at /\ s \in Seq(EntryType) /\ Contiguous(s)
  BY DEF Reads, IInv, ArchiveInv, EntriesOK
<1>2. position # 0
  <2>1. s[k].at >= HeaderSize /\ s[k].at \in Nat
    BY <1>1, Ascending, EntryFacts
  <2> QED
    BY <1>1, <2>1 DEF HeaderSize
<1>3. opened = "not"
  BY <1>1 DEF RInv, ReadTold
<1>4. PICK m \in 1 .. Len(s) + 1 :
        /\ Standing(s, m, position, folders, current)
        /\ Knowing(s, archive.plan, PlanHomes, m, files, folders, current)
  BY <1>1, <1>2 DEF RInv, ReadTold, ReaderAt
<1>5. m = k
  <2>1. Standing(s, m, s[k].at, folders, current)
    BY <1>1, <1>4
  <2> QED
    BY <1>1, <2>1, StandsThere
<1> QED
  BY <1>1, <1>3, <1>4, <1>5

\* A step past entry k.
LEMMA ToldPast ==
    ASSUME IInv, RInv, IInv', archive' = archive, opened' = opened, opened = "not", pc' = "reading",
           PathsDiffer(files'),
           NEW k \in 1 .. Len(archive.entries), position' = Behind(archive.entries[k]),
           Knowing(archive.entries, archive.plan, PlanHomes, k + 1, files', folders', current')
    PROVE  RInv'
<1> PICK s, plan, homes : s = archive.entries /\ plan = archive.plan /\ homes = PlanHomes
  OBVIOUS
<1>1. s = archive'.entries /\ plan = archive'.plan /\ homes = PlanHomes'
  BY DEF PlanHomes
<1>2. EntriesOK(s) /\ Len(s) \in Nat
  BY DEF IInv, ArchiveInv, EntriesOK
<1>3. position' # 0
  <2>1. s[k].at \in Nat /\ Behind(s[k]) \in Nat /\ Behind(s[k]) >= s[k].at + 145
    BY <1>2, EntryFacts DEF EntriesOK
  <2> QED
    BY <2>1
<1>4. Standing(s, k + 1, position', folders', current')
  <2>1. PICK m \in 1 .. Len(s) + 1 : Standing(s, m, position', folders', current')
    BY <1>1, <1>3 DEF IInv, ReadInv, ReaderAt
  <2>2. m = k + 1
    <3>1. Standing(s, m, Behind(s[k]), folders', current')
      BY <2>1
    <3> QED
      BY <1>2, <3>1, StandsBehind
  <2> QED
    BY <2>1, <2>2
<1>5. k + 1 \in 1 .. Len(s) + 1
  BY <1>2
<1>6. ReadTold'
  <2>1. Knowing(s, plan, homes, k + 1, files', folders', current')
    OBVIOUS
  <2> QED
    BY <1>1, <1>4, <1>5, <2>1 DEF ReadTold, ReaderAt
<1> QED
  BY <1>6, ArchiveToldKept DEF RInv, WriteTold

LEMMA ToldReadDot ==
    ASSUME IInv, EInv, RInv, NEW k \in 1 .. Len(archive.entries), ReadDot(archive.entries[k])
    PROVE  RInv'
<1> PICK s, plan, homes : s = archive.entries /\ plan = archive.plan /\ homes = PlanHomes
  OBVIOUS
<1>1. IInv'
  BY InvReadDot
<1>2. /\ pc = "reading" /\ opened = "not" /\ Standing(s, k, position, folders, current)
      /\ Knowing(s, plan, homes, k, files, folders, current)
  BY KnownHere DEF ReadDot
<1> PICK e, root : e = s[k] /\ root = [at |-> e.folder, name |-> e.name, path |-> <<>>]
  OBVIOUS
<1>3. /\ e.type = "folder" /\ e.name = "." /\ position' = Behind(e)
      /\ IF current = 0
           THEN folders' = Append(folders, root) /\ current' = e.folder
           ELSE UNCHANGED <<folders, current>>
      /\ UNCHANGED <<pc, files, archive, opened>>
  BY DEF ReadDot
<1>4. EntriesOK(s) /\ Len(s) \in Nat /\ IsFolder(s[k], ".") /\ k \in Nat
  BY <1>3 DEF IInv, ArchiveInv, EntriesOK, IsFolder
<1>5. k - 2 \notin Named(s)
  <2> SUFFICES ASSUME k - 2 \in Named(s) PROVE FALSE
    OBVIOUS
  <2>1. k = (k - 2) + 2
    BY <1>4
  <2> QED
    BY <1>4, <2>1, AroundEntry DEF IsFolder
<1>6. FoldersKnown(s, homes, k + 1, folders')
  <2>1. CASE k = 1
    <3>1. current = 0 /\ OffsetsIn(folders) = Places(s, 1) /\ folders \in Seq(FolderType)
      BY <1>2, <2>1 DEF Standing
    <3>2. Places(s, 1) = {}
      BY DEF Places
    <3>3. Len(folders) = 0
      <4>1. \A x \in 1 .. Len(folders) : folders[x].at \in OffsetsIn(folders)
        BY DEF OffsetsIn
      <4>2. 1 \notin 1 .. Len(folders)
        BY <3>1, <3>2, <4>1
      <4>3. Len(folders) \in Nat
        BY <3>1
      <4> QED
        BY <4>2, <4>3
    <3>4. e.folder = HeaderSize
      BY <1>4, <2>1, AroundEntry
    <3>5. Len(folders') = 1 /\ folders'[1] = root
      BY <1>3, <3>1, <3>3
    <3>6. root.at = HeaderSize /\ root.path = <<>>
      BY <3>4
    <3>7. FoldersKnown(s, homes, 2, folders')
      <4>1. s # <<>>
        OBVIOUS
      <4> QED
        BY <1>4, <3>5, <3>6, <4>1, KnownRoot
    <3> QED
      BY <2>1, <3>7
  <2>2. CASE k # 1
    <3>1. current # 0
      BY <1>2, <1>4, <2>2, StandsInFolder
    <3>2. FoldersKnown(s, homes, k + 1, folders)
      <4>1. FoldersKnown(s, homes, k, folders)
        BY <1>2 DEF Knowing
      <4> QED
        BY <1>4, <4>1, KnownOn DEF IsFolder
    <3> QED
      BY <1>3, <3>1, <3>2
  <2> QED
    BY <2>1, <2>2
<1>7. Knowing(s, plan, homes, k + 1, files', folders', current')
  <2>1. s[k].type # "file" /\ files' = files
    BY <1>3
  <2> QED
    BY <1>2, <1>4, <1>5, <1>6, <2>1, PastNoFile
<1>8. PathsDiffer(files')
  BY <1>3 DEF RInv
<1>9. position' = Behind(archive.entries[k]) /\ archive' = archive /\ opened' = opened /\ pc' = "reading"
  BY <1>2, <1>3
<1> QED
  BY <1>1, <1>2, <1>7, <1>8, <1>9, ToldPast

LEMMA ToldReadFolder ==
    ASSUME IInv, EInv, RInv, NEW k \in 1 .. Len(archive.entries), ReadFolder(archive.entries[k])
    PROVE  RInv'
<1> PICK s, plan, homes : s = archive.entries /\ plan = archive.plan /\ homes = PlanHomes
  OBVIOUS
<1>1. IInv'
  BY InvReadFolder
<1>2. /\ pc = "reading" /\ opened = "not" /\ Standing(s, k, position, folders, current)
      /\ Knowing(s, plan, homes, k, files, folders, current)
  BY KnownHere DEF ReadFolder
<1> PICK e, new : e = s[k] /\ new = [at |-> e.folder, name |-> e.name, path |-> NoFolder]
  OBVIOUS
<1>3. /\ e.type = "folder" /\ e.name \notin {".", ".."} /\ position' = Behind(e)
      /\ folders' \in {folders, Append(folders, new)} /\ current' = e.folder
      /\ UNCHANGED <<pc, files, archive, opened>>
  BY DEF ReadFolder
<1>4. EntriesOK(s) /\ Len(s) \in Nat /\ k \in Nat
  BY DEF IInv, ArchiveInv, EntriesOK
<1>5. k \in Named(s)
  BY <1>3 DEF Named, Indices
<1>6. k - 2 \notin Named(s)
  <2> SUFFICES ASSUME k - 2 \in Named(s) PROVE FALSE
    OBVIOUS
  <2>1. k = (k - 2) + 2
    BY <1>4
  <2> QED
    BY <1>3, <1>4, <2>1, AroundEntry DEF IsFolder
<1>7. new \in FolderType /\ new.at = s[k].folder /\ new.name = s[k].name
  <2>1. s[k].name \in Parts /\ s[k].folder \in Nat
    BY <1>4, <1>5, AroundEntry
  <2> QED
    BY <2>1 DEF FolderType
<1>8. FoldersKnown(s, homes, k + 1, folders')
  <2>1. FoldersKnown(s, homes, k, folders) /\ folders \in Seq(FolderType)
    BY <1>2 DEF Knowing, Standing
  <2>2. folders' = folders \/ folders' = Append(folders, new)
    BY <1>3
  <2> QED
    BY <1>4, <1>5, <1>7, <2>1, <2>2, KnownFolder
<1>9. Knowing(s, plan, homes, k + 1, files', folders', current')
  <2>1. s[k].type # "file" /\ files' = files
    BY <1>3
  <2> QED
    BY <1>2, <1>4, <1>6, <1>8, <2>1, PastNoFile
<1>10. PathsDiffer(files')
  BY <1>3 DEF RInv
<1>11. position' = Behind(archive.entries[k]) /\ archive' = archive /\ opened' = opened /\ pc' = "reading"
  BY <1>2, <1>3
<1> QED
  BY <1>1, <1>2, <1>9, <1>10, <1>11, ToldPast

LEMMA ToldReadDotDot ==
    ASSUME IInv, EInv, RInv, NEW k \in 1 .. Len(archive.entries), ReadDotDot(archive.entries[k])
    PROVE  RInv'
<1> PICK s, plan, homes : s = archive.entries /\ plan = archive.plan /\ homes = PlanHomes
  OBVIOUS
<1>1. IInv'
  BY InvReadDotDot
<1>2. /\ pc = "reading" /\ opened = "not" /\ Standing(s, k, position, folders, current)
      /\ Knowing(s, plan, homes, k, files, folders, current)
  BY KnownHere DEF ReadDotDot
<1>3. Archived(s, plan, homes)
  BY ArchiveIs
<1> PICK e : e = s[k]
  OBVIOUS
<1> PICK i, p : i = IndexOf(current) /\ p = IndexOf(e.folder)
  OBVIOUS
<1> PICK path : path = TrimParts(Append(folders[p].path, folders[i].name))
  OBVIOUS
<1>4. /\ e.type = "folder" /\ e.name = ".." /\ position' = Behind(e)
      /\ folders' = IF Registered(e.folder) THEN [folders EXCEPT ![i].path = path] ELSE folders
      /\ UNCHANGED <<pc, files, archive, current, opened>>
  BY DEF ReadDotDot
<1>5. EntriesOK(s) /\ Shaped(s) /\ Len(s) \in Nat /\ k \in Nat /\ IsFolder(s[k], "..")
  BY <1>3, <1>4 DEF Archived, EntriesOK, IsFolder
<1>6. k > 2 /\ k - 2 \in Named(s)
  BY <1>5 DEF Shaped
<1>7. PICK m \in Named(s) : m = k - 2 /\ k = m + 2
  BY <1>5, <1>6
<1>8. current = s[m].folder
  BY <1>2, <1>7 DEF Standing
<1>9. PICK j \in 1 .. k - 3 : IsFolder(s[j], ".") /\ s[j].at = s[k].folder
  <2>1. LinkedUp(s, homes, 0, 0, m)
    BY <1>3 DEF Archived
  <2>2. m - 1 = k - 3
    BY <1>5, <1>7
  <2> QED
    BY <1>7, <2>1, <2>2 DEF LinkedUp
<1>10. /\ \E x \in 1 .. Len(folders) : folders[x].at = current
       /\ \E x \in 1 .. Len(folders) : folders[x].at = s[k].folder
  <2>1. k \in 1 .. Len(s) /\ IsFolder(s[k], "..") /\ EntriesOK(s)
    BY <1>5
  <2>2. Standing(s, k, position, folders, current)
    BY <1>2
  <2> QED
    BY ONLY <1>9, <2>1, <2>2, ParentKnown
<1>11. /\ i \in 1 .. Len(folders) /\ folders[i].at = s[m].folder
       /\ p \in 1 .. Len(folders) /\ folders[p].at = s[k].folder
  BY <1>8, <1>10 DEF IndexOf
<1> PICK f : f = [folders[i] EXCEPT !.path = path]
  OBVIOUS
<1>12. folders \in Seq(FolderType) /\ \A x, y \in 1 .. Len(folders) : folders[x].at = folders[y].at => x = y
  BY <1>2 DEF Standing
<1>13. folders' = [folders EXCEPT ![i] = f]
  <2>1. Registered(e.folder)
    BY <1>10 DEF Registered
  <2>2. folders' = [folders EXCEPT ![i].path = path]
    BY <1>4, <2>1
  <2> QED
    BY <1>11, <1>12, <2>2
<1>14. FoldersKnown(s, homes, k + 1, folders')
  <2>1. FoldersKnown(s, homes, k, folders)
    BY <1>2 DEF Knowing
  <2>2. f = [folders[i] EXCEPT !.path = TrimParts(Append(folders[p].path, folders[i].name))]
    OBVIOUS
  <2>3. PICK gs : gs = folders'
    OBVIOUS
  <2>4. FoldersKnown(s, homes, k + 1, gs)
    BY <1>3, <1>5, <1>7, <1>11, <1>12, <1>13, <2>1, <2>2, <2>3, KnownDotDot
  <2> QED
    BY <2>3, <2>4
<1>15. Knowing(s, plan, homes, k + 1, files', folders', current')
  <2>1. s[k].type # "file" /\ files' = files /\ current' = current
    BY <1>4
  <2> QED
    BY <1>2, <1>5, <1>7, <1>8, <1>14, <2>1, PastNoFile
<1>16. PathsDiffer(files')
  BY <1>4 DEF RInv
<1>17. position' = Behind(archive.entries[k]) /\ archive' = archive /\ opened' = opened /\ pc' = "reading"
  BY <1>2, <1>4
<1> QED
  BY <1>1, <1>2, <1>15, <1>16, <1>17, ToldPast

\* Up one level, when the folder above is known.
LEMMA UpwardsLeads ==
    ASSUME folders \in Seq(FolderType), NEW cp, cp = CurrentPath,
           \E y \in 1 .. Len(folders) : folders[y].path = Above(cp)
    PROVE  \E y \in 1 .. Len(folders) : folders[y].path = Above(cp) /\ Upwards = folders[y].at
<1> DEFINE there == {y \in 1 .. Len(folders) : folders[y].path = Above(cp)}
<1>1. Upwards = IF there = {} THEN current ELSE folders[Min(there)].at
  BY DEF Upwards, Above
<1>2. there # {} /\ there \subseteq 1 .. Len(folders) /\ Len(folders) \in Nat
  OBVIOUS
<1>3. Min(there) \in there
  <2> HIDE DEF there
  <2> QED
    BY <1>2, MinMaxOf
<1> QED
  BY <1>1, <1>2, <1>3

\* A damaged file without an end offset leads back to the header.
LEMMA ToldBack ==
    ASSUME IInv, RInv, archive' = archive, opened' = opened, opened = "not", pc' = "reading",
           PathsDiffer(files'), position' = 0,
           NEW k \in 1 .. Len(archive.entries), archive.entries[k].type = "file",
           archive.entries[k].damage # "none", archive.entries[k].end = 0,
           FilesRead(archive.entries, archive.plan, k + 1, files')
    PROVE  RInv'
<1> PICK s, plan : s = archive.entries /\ plan = archive.plan
  OBVIOUS
<1>1. s \in Seq(EntryType) /\ k \in Indices("file", s)
  BY DEF IInv, ArchiveInv, EntriesOK, Indices
<1>2. FilesIn(s, k + 1) = FilesIn(s, k) + 1
  BY <1>1, NextFiles
<1>3. LedBack(s, plan, files')
  BY <1>1, <1>2 DEF LedBack, FilesRead
<1>4. ReadTold'
  BY <1>3 DEF ReadTold
<1> QED
  BY <1>4, ArchiveToldKept DEF RInv, WriteTold

\* What the reader stands in front of.
FileAhead(s, plan, homes, k, i, x) ==
    /\ Archived(s, plan, homes) /\ k \in 1 .. Len(s) /\ s[k].type = "file"
    /\ i = FilesIn(s, k) + 1
    /\ Standing(s, k, position, folders, current)
    /\ Knowing(s, plan, homes, k, files, folders, current)
    /\ x \in 1 .. Len(folders) /\ folders[x].at = current /\ CurrentPath = folders[x].path
    /\ s[k] \in EntryType /\ s[k].name \in Words /\ s[k].end \in {0, Behind(s[k])}
    /\ Behind(s[k]) # 0 /\ files \in Seq(FileType)

LEMMA FileIsAhead ==
    ASSUME IInv, EInv, RInv, NEW k \in 1 .. Len(archive.entries), Reads(archive.entries[k]),
           archive.entries[k].type = "file"
    PROVE  \E i, x : FileAhead(archive.entries, archive.plan, PlanHomes, k, i, x)
<1> PICK s, plan, homes : s = archive.entries /\ plan = archive.plan /\ homes = PlanHomes
  OBVIOUS
<1>1. /\ Standing(s, k, position, folders, current)
      /\ Knowing(s, plan, homes, k, files, folders, current)
  BY KnownHere
<1>2. Archived(s, plan, homes)
  BY ArchiveIs
<1>3. EntriesOK(s) /\ k \in 1 .. Len(s) /\ s[k].type = "file" /\ Shaped(s)
  BY <1>2 DEF Archived, EntriesOK
<1>4. s[k] \in EntryType /\ k # 1
  BY <1>3, AroundEntry DEF IsFolder
<1>5. s[k].name \in Words /\ s[k].end \in {0, Behind(s[k])}
  BY <1>3 DEF Shaped
<1>6. Behind(s[k]) # 0
  <2>1. s[k].at \in Nat /\ Behind(s[k]) \in Nat /\ Behind(s[k]) >= s[k].at + 145
    BY <1>4, EntryFacts
  <2> QED
    BY <2>1
<1>7. current \in OffsetsIn(folders)
  BY <1>1, <1>3, <1>4, StandsInFolder
<1>8. PICK i, x : i = FilesIn(s, k) + 1 /\ x = IndexOf(current)
  OBVIOUS
<1>9. x \in 1 .. Len(folders) /\ folders[x].at = current /\ CurrentPath = folders[x].path
  <2>1. \E y \in 1 .. Len(folders) : folders[y].at = current
    BY <1>7 DEF OffsetsIn
  <2>2. IndexOf(current) \in 1 .. Len(folders) /\ folders[IndexOf(current)].at = current
    BY <2>1 DEF IndexOf
  <2> QED
    BY <1>8, <2>2 DEF CurrentPath
<1>10. files \in Seq(FileType)
  BY DEF IInv, FilesOK
<1>11. FileAhead(s, plan, homes, k, i, x)
  BY <1>1, <1>2, <1>3, <1>4, <1>5, <1>6, <1>8, <1>9, <1>10 DEF FileAhead
<1> QED
  BY <1>11

\* What ReadFile adds.
Reading(s, k, x) ==
    [NewFile(TrimParts(Append(folders[x].path, s[k].name)),
             IF s[k].damage = "checksum" THEN WrongData ELSE s[k].data)
        EXCEPT !.packed = s[k].packed]

LEMMA ReadingIs ==
    ASSUME NEW s, NEW plan, NEW homes, NEW k, NEW i, NEW x, FileAhead(s, plan, homes, k, i, x),
           s[k].damage # "packed", NEW g, g = Reading(s, k, x)
    PROVE  /\ g \in FileType /\ g.path = TrimParts(Append(folders[x].path, s[k].name))
           /\ Good(plan, i) => g.path = plan[i].path
           /\ FilesRead(s, plan, k + 1, Append(files, g))
<1> PICK cp : cp = folders[x].path
  OBVIOUS
<1>1. /\ Archived(s, plan, homes) /\ k \in 1 .. Len(s) /\ s[k].type = "file"
      /\ i = FilesIn(s, k) + 1 /\ s[k] \in EntryType /\ s[k].name \in Words
      /\ files \in Seq(FileType)
      /\ Standing(s, k, position, folders, current)
      /\ Knowing(s, plan, homes, k, files, folders, current)
      /\ x \in 1 .. Len(folders) /\ folders[x].at = current
  BY DEF FileAhead
<1>2. IsHome(cp) /\ (Good(plan, i - 1) => cp = Wanted(plan, i))
  BY <1>1, InFrontOfFile
<1> PICK path, data : /\ path = TrimParts(Append(cp, s[k].name))
                      /\ data = IF s[k].damage = "checksum" THEN WrongData ELSE s[k].data
  OBVIOUS
<1>3. path \in Seq(Parts) /\ path # <<>>
  BY <1>1, <1>2, FilePath
<1>4. data \in Data \cup {WrongData} /\ s[k].packed \in Nat
  BY <1>1 DEF EntryType
<1>5. g = [path |-> path, data |-> data, packed |-> s[k].packed, hasEnd |-> TRUE, folder |-> NoFolder]
  BY DEF Reading, NewFile
<1>6. g \in FileType /\ g.path = path /\ g.data = data
  BY <1>3, <1>4, <1>5 DEF FileType
<1>7. FilesRead(s, plan, k, files)
  BY <1>1 DEF Knowing
<1>8. (Good(plan, i) => g.path = plan[i].path) /\ FilesRead(s, plan, k + 1, Append(files, g))
  BY <1>1, <1>2, <1>6, <1>7, FileIsRead
<1> QED
  BY <1>6, <1>8

LEMMA ToldReadFile ==
    ASSUME IInv, EInv, RInv, NEW k \in 1 .. Len(archive.entries), ReadFile(archive.entries[k])
    PROVE  RInv'
<1> PICK s, plan, homes : s = archive.entries /\ plan = archive.plan /\ homes = PlanHomes
  OBVIOUS
<1>1. Reads(s[k]) /\ s[k].type = "file" /\ s[k].damage # "packed"
  BY DEF ReadFile
<1>2. pc = "reading" /\ opened = "not"
  BY <1>1, KnownHere
<1>3. PICK i, x : FileAhead(s, plan, homes, k, i, x)
  BY <1>1, FileIsAhead
<1>4. /\ Archived(s, plan, homes) /\ i = FilesIn(s, k) + 1
      /\ Standing(s, k, position, folders, current)
      /\ Knowing(s, plan, homes, k, files, folders, current)
      /\ x \in 1 .. Len(folders) /\ folders[x].at = current /\ CurrentPath = folders[x].path
      /\ s[k].end \in {0, Behind(s[k])} /\ Behind(s[k]) # 0 /\ files \in Seq(FileType)
  BY <1>3 DEF FileAhead
<1> PICK g : g = Reading(s, k, x)
  OBVIOUS
<1>5. /\ g \in FileType /\ g.path = TrimParts(Append(folders[x].path, s[k].name))
      /\ FilesRead(s, plan, k + 1, Append(files, g))
  BY <1>1, <1>3, ReadingIs
<1>6. /\ IF \E j \in 1 .. Len(files) : files[j].path = g.path
           THEN pc' = "threw" /\ UNCHANGED files
           ELSE files' = Append(files, g) /\ UNCHANGED pc
      /\ position' = IF s[k].damage = "checksum" THEN s[k].end ELSE Behind(s[k])
      /\ current' = IF position' # s[k].end THEN Upwards ELSE current
      /\ UNCHANGED <<archive, folders, opened>>
  BY <1>4, <1>5 DEF ReadFile, Reading
<1>7. CASE \E j \in 1 .. Len(files) : files[j].path = g.path
  <2>1. pc' = "threw" /\ files' = files /\ archive' = archive
    BY <1>6, <1>7
  <2> QED
    BY <2>1, ToldIdle DEF RInv
<1>8. CASE ~ \E j \in 1 .. Len(files) : files[j].path = g.path
  <2>1. files' = Append(files, g) /\ pc' = "reading" /\ archive' = archive /\ opened' = opened
        /\ folders' = folders
    BY <1>2, <1>6, <1>8
  <2>2. PathsDiffer(files')
    <3>1. PathsDiffer(files)
      BY DEF RInv
    <3> QED
      BY <1>4, <1>8, <2>1, <3>1, PathsDifferAppended
  <2>3. FilesRead(s, plan, k + 1, files')
    BY <1>5, <2>1
  <2>4. CASE position' = 0
    <3>1. s[k].damage # "none" /\ s[k].end = 0
      BY <1>4, <1>6, <2>4
    <3> QED
      BY <1>1, <1>2, <2>1, <2>2, <2>3, <2>4, <3>1, ToldBack
  <2>5. CASE position' # 0
    <3>1. position' = Behind(s[k]) /\ (s[k].damage = "checksum" => s[k].end # 0)
      BY <1>4, <1>6, <2>5
    <3>2. s[k].damage \in {"none", "packed", "checksum"}
      BY <1>3 DEF FileAhead, EntryType
    <3>3. s[k].damage # "none" => s[k].end # 0
      BY <1>1, <3>1, <3>2
    <3>4. s[k].end # 0 => current' = current
      BY <1>4, <1>6, <3>1
    <3>5. s[k].end = 0 => \E y \in 1 .. Len(folders) :
                             folders[y].path = Above(folders[x].path) /\ current' = folders[y].at
      <4> SUFFICES ASSUME s[k].end = 0
                   PROVE  \E y \in 1 .. Len(folders) :
                             folders[y].path = Above(folders[x].path) /\ current' = folders[y].at
        OBVIOUS
      <4>1. current' = Upwards
        BY <1>4, <1>6, <3>1
      <4>2. \E y \in 1 .. Len(folders) : folders[y].path = Above(folders[x].path)
        BY <1>1, <1>4, InFrontOfFile
      <4>3. folders \in Seq(FolderType)
        BY <1>4 DEF Standing
      <4> QED
        BY <1>4, <4>1, <4>2, <4>3, UpwardsLeads
    <3>6. Knowing(s, plan, homes, k + 1, files', folders, current')
      <4> PICK gs, into : gs = files' /\ into = current'
        OBVIOUS
      <4>1. k \in 1 .. Len(s) /\ s[k].type = "file"
        BY <1>1
      <4>2. FilesRead(s, plan, k + 1, gs)
        BY <2>3
      <4> QED
        BY <1>4, <3>3, <3>4, <3>5, <4>1, <4>2, PastFileKnown
    <3>7. Knowing(s, plan, homes, k + 1, files', folders', current')
      BY <2>1, <3>6
    <3>8. IInv'
      BY InvReadFile
    <3> QED
      BY <1>2, <2>1, <2>2, <3>1, <3>7, <3>8, ToldPast
  <2> QED
    BY <2>4, <2>5
<1> QED
  BY <1>7, <1>8

LEMMA ToldSkipFile ==
    ASSUME IInv, EInv, RInv, NEW k \in 1 .. Len(archive.entries), SkipFile(archive.entries[k])
    PROVE  RInv'
<1> PICK s, plan, homes : s = archive.entries /\ plan = archive.plan /\ homes = PlanHomes
  OBVIOUS
<1>1. /\ Reads(s[k]) /\ s[k].type = "file" /\ s[k].damage = "packed" /\ position' = s[k].end
      /\ UNCHANGED <<pc, files, archive, folders, current, opened>>
  BY DEF SkipFile
<1>2. pc = "reading" /\ opened = "not"
  BY <1>1, KnownHere
<1>3. PICK i, x : FileAhead(s, plan, homes, k, i, x)
  BY <1>1, FileIsAhead
<1>4. /\ Archived(s, plan, homes) /\ i = FilesIn(s, k) + 1
      /\ Standing(s, k, position, folders, current)
      /\ Knowing(s, plan, homes, k, files, folders, current)
      /\ x \in 1 .. Len(folders) /\ folders[x].at = current
      /\ s[k].end \in {0, Behind(s[k])} /\ Behind(s[k]) # 0
  BY <1>3 DEF FileAhead
<1>5. FilesRead(s, plan, k + 1, files)
  <2>1. FilesRead(s, plan, k, files)
    BY <1>4 DEF Knowing
  <2> QED
    BY <1>1, <1>4, <2>1, FileIsSkipped
<1>6. PathsDiffer(files')
  BY <1>1 DEF RInv
<1>7. FilesRead(s, plan, k + 1, files')
  BY <1>1, <1>5
<1>8. CASE s[k].end = 0
  BY <1>1, <1>2, <1>6, <1>7, <1>8, ToldBack
<1>9. CASE s[k].end # 0
  <2>1. position' = Behind(s[k])
    BY <1>1, <1>4, <1>9
  <2>2. Knowing(s, plan, homes, k + 1, files, folders, current)
    <3>1. k \in 1 .. Len(s) /\ s[k].type = "file"
      BY <1>1
    <3> QED
      BY <1>4, <1>5, <1>9, <3>1, PastFileKnown
  <2>3. Knowing(s, plan, homes, k + 1, files', folders', current')
    BY <1>1, <2>2
  <2>4. IInv'
    BY InvSkipFile
  <2> QED
    BY <1>1, <1>2, <1>6, <2>1, <2>3, <2>4, ToldPast
<1> QED
  BY <1>8, <1>9

-----------------------------------------------------------------------------
(* What a reader ends with                                                 *)

LEMMA ToldNext == ASSUME IInv, EInv, RInv, [Next]_vars PROVE RInv'
<1>1. CASE SaveStep
  <2>1. CASE SaveEnd
    BY <2>1, ToldSaveEnd
  <2>2. CASE PlanFile \/ PlanEnd \/ WriteFolder \/ WriteFile \/ SaveThrows
    BY <2>2, ToldPlanFile, ToldPlanEnd, ToldWriteFolder, ToldWriteFile, ToldSaveThrows
  <2> QED
    BY <1>1, <2>1, <2>2 DEF SaveStep
<1>2. CASE \E k \in 1 .. Len(archive.entries), how \in {"packed", "checksum"} : Damage(k, how)
  BY <1>2, ToldDamage
<1>3. CASE \E path \in Paths, data \in Data : AddFile(path, data)
  BY <1>3, ToldAddFile
<1>4. CASE NewDisk \/ SaveBegin \/ ReadHeaderAgain \/ OpenEnd \/ Extract
  <2>1. /\ pc' \notin {"writing", "reading"} /\ archive' = archive
        /\ files' = files \/ files' = <<>>
    BY <1>4 DEF NewDisk, SaveBegin, ReadHeaderAgain, OpenEnd, Extract
  <2>2. PathsDiffer(files')
    BY <2>1 DEF RInv, PathsDiffer
  <2> QED
    BY <2>1, <2>2, ToldIdle
<1>5. CASE OpenBegin
  BY <1>5, ToldOpenBegin
<1>6. CASE \E k \in 1 .. Len(archive.entries) : ReadEntry(archive.entries[k])
  BY <1>6, ToldReadDot, ToldReadDotDot, ToldReadFolder, ToldReadFile, ToldSkipFile DEF ReadEntry
<1>7. CASE UNCHANGED vars
  <2>1. UNCHANGED <<pc, files, order, next, written, buffer, archive, position, folders, current, opened>>
    BY <1>7 DEF vars, saveVars, openVars
  <2>2. Homes' = Homes /\ Left' = Left /\ Ordered' = Ordered /\ PlanHomes' = PlanHomes
    BY <2>1 DEF Homes, Left, File, Missing, Ordered, PlanHomes
  <2>3. WriteTold'
    BY <2>1, <2>2 DEF RInv, WriteTold
  <2>4. \A k : ReaderAt(k)' <=> ReaderAt(k)
    BY <2>1 DEF ReaderAt
  <2>5. ReadTold'
    BY <2>1, <2>2, <2>4 DEF RInv, ReadTold
  <2> QED
    BY <2>1, <2>3, <2>5, ArchiveToldKept DEF RInv
<1> QED
  BY <1>1, <1>2, <1>3, <1>4, <1>5, <1>6, <1>7 DEF Next, OpenStep

\* The reader knows the folders behind it, and what it has made of the files.
THEOREM ToldInvariant == Spec => [](IInv /\ EInv /\ RInv)
<1>1. Init => IInv /\ EInv /\ RInv
  BY InvInit, EndsInit, ToldInit
<1>2. (IInv /\ EInv /\ RInv) /\ [Next]_vars => (IInv /\ EInv /\ RInv)'
  BY InvNext, EndsNext, ToldNext
<1> QED
  BY <1>1, <1>2, PTL DEF Spec

LEMMA RegularIs ==
    ASSUME NEW plan, Len(plan) \in Nat
    PROVE  /\ Regular(plan) <=> Good(plan, Len(plan))
           /\ \A i \in 1 .. Len(plan) : Regular(plan) => Good(plan, i)
<1>1. Regular(plan) <=> Good(plan, Len(plan))
  BY DEF Regular, Good, Wanted
<1>2. \A i \in 1 .. Len(plan) : Good(plan, Len(plan)) => Good(plan, i)
  <2> SUFFICES ASSUME NEW i \in 1 .. Len(plan), Good(plan, Len(plan)), NEW j \in 1 .. i
               PROVE  Front(plan[j].path) = Wanted(plan, j)
    BY DEF Good
  <2>1. j \in 1 .. Len(plan)
    OBVIOUS
  <2> QED
    BY <2>1 DEF Good
<1> QED
  BY <1>1, <1>2

\* No two files of a regular archive are read under one path.
LEMMA ReadOnce ==
    ASSUME NEW s, NEW plan, NEW homes, NEW k, NEW i, NEW x, FileAhead(s, plan, homes, k, i, x),
           s[k].damage # "packed", Good(plan, i), NEW j \in 1 .. Len(files)
    PROVE  files[j].path # Reading(s, k, x).path
<1>1. /\ Archived(s, plan, homes) /\ k \in 1 .. Len(s) /\ s[k].type = "file"
      /\ i = FilesIn(s, k) + 1
      /\ Knowing(s, plan, homes, k, files, folders, current) /\ files \in Seq(FileType)
  BY DEF FileAhead
<1>2. s \in Seq(EntryType) /\ i \in 1 .. Len(plan) /\ Len(plan) \in Nat
  <2>1. s \in Seq(EntryType) /\ Len(plan) \in Nat
    BY <1>1 DEF Archived, EntriesOK
  <2> QED
    BY <1>1, <2>1, FileBehind
<1>3. FilesIn(s, k) = i - 1
  BY <1>1, <1>2, NextFiles
<1>4. Content(files) = Kept(s, plan, k)
  <2>1. Good(plan, i - 1)
    BY <1>2, GoodNext
  <2> QED
    BY <1>1, <1>3, <2>1 DEF Knowing, FilesRead
<1>5. <<files[j].path, files[j].data>> \in Content(files)
  BY DEF Content, Listing, Range
<1>6. PICK y \in Indices("file", s) :
        y < k /\ files[j].path = plan[FilesIn(s, y) + 1].path
  BY <1>4, <1>5 DEF Kept
<1>7. FilesIn(s, y) + 1 \in 1 .. Len(plan) /\ FilesIn(s, y) + 1 # i
  <2>1. y \in 1 .. k - 1 /\ s[y].type = "file"
    <3>1. y \in 1 .. Len(s) /\ s[y].type = "file"
      BY DEF Indices
    <3> QED
      BY <1>1, <1>2, <1>6, <3>1
  <2>2. FilesIn(s, y) \in Nat /\ FilesIn(s, y) + 1 <= FilesIn(s, k)
    <3>1. y \in 1 .. k
      BY <1>1, <1>2, <2>1
    <3> QED
      BY <1>1, <1>2, <2>1, <3>1, NextFiles
  <2> QED
    BY <1>2, <1>3, <2>2
<1>8. files[j].path # plan[i].path
  BY <1>1, <1>2, <1>6, <1>7 DEF Archived, PathsDiffer
<1>9. Reading(s, k, x).path = plan[i].path
  BY ReadingIs
<1> QED
  BY <1>8, <1>9

\* A reader stops at the end, at the header, or with an exception, which no regular
\* archive causes.
LEMMA WaysToEnd ==
    ASSUME IInv, EInv, RInv, [Next]_vars, OpenEnds
    PROVE  \/ OpenEnd
           \/ ReadHeaderAgain
           \/ opened' = "not" /\ ~ Regular(archive.plan)
<1>1. pc = "reading" /\ pc' # "reading"
  BY DEF OpenEnds
<1>2. OpenStep
  <2>1. ~ UNCHANGED vars
    BY <1>1 DEF vars
  <2>2. ~ SaveStep
    BY <1>1 DEF SaveStep, PlanFile, PlanEnd, WriteFolder, WriteFile, SaveThrows, SaveEnd
  <2> QED
    BY <1>1, <2>1, <2>2 DEF Next, AddFile, NewDisk, SaveBegin, Damage, OpenBegin, Extract
<1>3. ASSUME NEW k \in 1 .. Len(archive.entries), ReadEntry(archive.entries[k])
      PROVE  opened' = "not" /\ ~ Regular(archive.plan)
  <2> PICK s, plan, homes : s = archive.entries /\ plan = archive.plan /\ homes = PlanHomes
    OBVIOUS
  <2>1. ReadFile(s[k])
    BY <1>1, <1>3 DEF ReadEntry, ReadDot, ReadDotDot, ReadFolder, SkipFile
  <2>2. Reads(s[k]) /\ s[k].type = "file" /\ s[k].damage # "packed" /\ opened' = opened
    BY <2>1 DEF ReadFile
  <2>3. opened = "not"
    BY <2>2, KnownHere
  <2>4. PICK i, x : FileAhead(s, plan, homes, k, i, x)
    BY <2>2, FileIsAhead
  <2> PICK g : g = Reading(s, k, x)
    OBVIOUS
  <2>5. g.path = TrimParts(Append(folders[x].path, s[k].name)) /\ CurrentPath = folders[x].path
    <3>1. g.path = TrimParts(Append(folders[x].path, s[k].name))
      BY <2>2, <2>4, ReadingIs
    <3> QED
      BY <2>4, <3>1 DEF FileAhead
  <2>6. \E j \in 1 .. Len(files) : files[j].path = g.path
    BY <1>1, <2>1, <2>5 DEF ReadFile
  <2>7. ~ Good(plan, i)
    BY <2>2, <2>4, <2>6, ReadOnce
  <2>8. i \in 1 .. Len(plan) /\ Len(plan) \in Nat
    <3>1. Archived(s, plan, homes) /\ k \in 1 .. Len(s) /\ i = FilesIn(s, k) + 1
      BY <2>4 DEF FileAhead
    <3>2. Len(plan) \in Nat
      BY <3>1 DEF Archived
    <3> QED
      BY <2>2, <3>1, <3>2, FileBehind
  <2>9. ~ Regular(plan)
    BY <2>7, <2>8, RegularIs
  <2> QED
    BY <2>2, <2>3, <2>9
<1> QED
  BY <1>2, <1>3 DEF OpenStep

LEMMA OpenEndKnows ==
    ASSUME IInv, EInv, RInv, OpenEnd
    PROVE  /\ Knowing(archive.entries, archive.plan, PlanHomes, Len(archive.entries) + 1,
                      files, folders, current)
           /\ FilesIn(archive.entries, Len(archive.entries) + 1) = Len(archive.plan)
<1> PICK s, plan, homes : s = archive.entries /\ plan = archive.plan /\ homes = PlanHomes
  OBVIOUS
<1>1. pc = "reading" /\ position = EndOf(s)
  BY DEF OpenEnd
<1>2. Archived(s, plan, homes)
  BY ArchiveIs
<1>3. s \in Seq(EntryType) /\ Contiguous(s) /\ EntriesOK(s) /\ Len(s) \in Nat
  BY <1>2 DEF Archived, EntriesOK
<1>4. position # 0
  <2>1. EndOf(s) >= HeaderSize /\ EndOf(s) \in Nat
    BY <1>3, Ascending
  <2> QED
    BY <1>1, <2>1 DEF HeaderSize
<1>5. PICK m \in 1 .. Len(s) + 1 :
        Standing(s, m, position, folders, current) /\ Knowing(s, plan, homes, m, files, folders, current)
  BY <1>1, <1>4 DEF RInv, ReadTold, ReaderAt
<1>6. m = Len(s) + 1
  <2>1. CASE s = <<>>
    BY <1>3, <2>1
  <2>2. CASE s # <<>>
    <3> PICK n : n = Len(s)
      OBVIOUS
    <3>1. n \in 1 .. Len(s) /\ EndOf(s) = Behind(s[n])
      BY <1>3, <2>2 DEF EndOf, Last
    <3>2. Standing(s, m, Behind(s[n]), folders, current)
      BY <1>1, <1>5, <3>1
    <3>3. m = n + 1
      BY <1>3, <3>1, <3>2, StandsBehind
    <3> QED
      BY <3>3
  <2> QED
    BY <2>1, <2>2
<1>7. FilesIn(s, Len(s) + 1) = Len(plan)
  <2>1. {j \in Indices("file", s) : j < Len(s) + 1} = Indices("file", s)
    BY <1>3 DEF Indices
  <2> QED
    BY <1>2, <2>1 DEF FilesIn, Archived
<1> QED
  BY <1>5, <1>6, <1>7

LEMMA HeaderAgainKnows ==
    ASSUME IInv, EInv, RInv, ReadHeaderAgain
    PROVE  LedBack(archive.entries, archive.plan, files)
<1> PICK s, plan : s = archive.entries /\ plan = archive.plan
  OBVIOUS
<1>1. pc = "reading" /\ position = 0 /\ s \in Seq(EntryType)
  BY DEF ReadHeaderAgain, IInv, ArchiveInv, EntriesOK
<1>2. \A k \in 1 .. Len(s) + 1 : ~ ReaderAt(k)
  <2> SUFFICES ASSUME NEW k \in 1 .. Len(s) + 1, ReaderAt(k) PROVE FALSE
    OBVIOUS
  <2>1. 0 = IF k = 1 THEN HeaderSize ELSE Behind(s[k - 1])
    BY <1>1 DEF ReaderAt, Standing
  <2>2. k # 1
    BY <2>1 DEF HeaderSize
  <2>3. k - 1 \in 1 .. Len(s)
    BY <1>1, <2>2
  <2>4. s[k - 1].at \in Nat /\ Behind(s[k - 1]) \in Nat /\ Behind(s[k - 1]) >= s[k - 1].at + 145
    BY <1>1, <2>3, EntryFacts
  <2> QED
    BY <2>1, <2>2, <2>4
<1> QED
  BY <1>1, <1>2 DEF RInv, ReadTold

\* Open of an undamaged archive gives back the files it was saved with, each under its path,
\* exactly when the plan is regular, for every set of paths and any number of files.
THEOREM OpenReadsBack == Spec => RoundTrip
<1>1. ASSUME IInv, EInv, RInv, [Next]_vars, OpenEnds, Damaged(archive.entries) = {}
      PROVE  (opened' = "true" /\ Listing(files') = Listing(archive.plan)) <=> Regular(archive.plan)
  <2> PICK s, plan : s = archive.entries /\ plan = archive.plan
    OBVIOUS
  <2>1. plan \in Seq(FileType) /\ Len(plan) \in Nat /\ DOMAIN plan = 1 .. Len(plan)
    BY <1>1 DEF IInv, ArchiveInv
  <2>2. CASE OpenEnd
    <3>1. opened' = "true" /\ files' = files
      BY <2>2 DEF OpenEnd
    <3>2. FilesRead(s, plan, Len(s) + 1, files) /\ FilesIn(s, Len(s) + 1) = Len(plan)
      BY <1>1, <2>2, OpenEndKnows DEF Knowing
    <3>3. /\ Len(files) = Len(plan) /\ \A i \in 1 .. Len(plan) : files[i].data = plan[i].data
          /\ (\A i \in 1 .. Len(plan) : files[i].path = plan[i].path) <=> Good(plan, Len(plan))
      BY <1>1, <3>2 DEF FilesRead
    <3>4. files \in Seq(FileType)
      BY <1>1 DEF IInv, FilesOK
    <3>5. DOMAIN files = 1 .. Len(plan)
      BY <3>3, <3>4
    <3>6. /\ DOMAIN Listing(files) = 1 .. Len(plan) /\ DOMAIN Listing(plan) = 1 .. Len(plan)
          /\ \A i \in 1 .. Len(plan) : /\ Listing(files)[i] = <<files[i].path, files[i].data>>
                                       /\ Listing(plan)[i] = <<plan[i].path, plan[i].data>>
      BY <2>1, <3>5 DEF Listing
    <3>7. Listing(files) = Listing(plan) <=> \A i \in 1 .. Len(plan) : files[i].path = plan[i].path
      <4>1. ASSUME Listing(files) = Listing(plan), NEW i \in 1 .. Len(plan)
            PROVE  files[i].path = plan[i].path
        BY <3>6, <4>1
      <4>2. ASSUME \A i \in 1 .. Len(plan) : files[i].path = plan[i].path
            PROVE  Listing(files) = Listing(plan)
        BY <2>1, <3>3, <3>5, <4>2 DEF Listing
      <4> QED
        BY <4>1, <4>2
    <3> QED
      BY <2>1, <3>1, <3>3, <3>7, RegularIs
  <2>3. CASE ReadHeaderAgain
    <3>1. LedBack(s, plan, files)
      BY <1>1, <2>3, HeaderAgainKnows
    <3>2. PICK k \in Indices("file", s) : s[k].damage # "none"
      BY <3>1 DEF LedBack
    <3>3. k \in Damaged(s)
      BY <3>2 DEF Indices, Damaged
    <3> QED
      BY <1>1, <3>3
  <2>4. CASE opened' = "not" /\ ~ Regular(plan)
    BY <2>4
  <2> QED
    BY <1>1, <2>2, <2>3, <2>4, WaysToEnd
<1>2. (IInv /\ EInv /\ RInv) /\ [Next]_vars =>
        [OpenEnds /\ Damaged(archive.entries) = {} =>
           ((opened' = "true" /\ Listing(files') = Listing(archive.plan)) <=> Regular(archive.plan))]_vars
  BY <1>1
<1> QED
  BY <1>2, ToldInvariant, PTL DEF Spec, RoundTrip

-----------------------------------------------------------------------------
(* An archive of which one file is damaged                                 *)

\* The file at entry k is damaged, and no other.
OneDamaged(s, plan, homes, k, i) ==
    /\ Archived(s, plan, homes) /\ Damaged(s) = {k} /\ i = FilesIn(s, k) + 1
    /\ \A f \in 1 .. Len(plan) : \E j \in Indices("file", s) : FilesIn(s, j) = f - 1

\* What is kept, by the files of the plan.
Around(s, plan, k, i) ==
    {<<plan[f].path, plan[f].data>> : f \in {x \in 1 .. Len(plan) : x # i}}
      \cup (IF s[k].damage = "packed" THEN {} ELSE {<<plan[i].path, WrongData>>})

LEMMA DamagedFile ==
    ASSUME NEW s, NEW plan, NEW homes, NEW k, NEW i, OneDamaged(s, plan, homes, k, i)
    PROVE  /\ k \in Indices("file", s) /\ s[k].damage \in {"packed", "checksum"}
           /\ i \in 1 .. Len(plan)
           /\ \A j \in Indices("file", s) :
                /\ FilesIn(s, j) + 1 \in 1 .. Len(plan)
                /\ s[j].data = plan[FilesIn(s, j) + 1].data
                /\ j # k => s[j].damage = "none" /\ FilesIn(s, j) + 1 # i
<1>1. s \in Seq(EntryType) /\ Archived(s, plan, homes) /\ k \in Damaged(s) /\ i = FilesIn(s, k) + 1
      /\ Len(plan) \in Nat /\ Len(s) \in Nat
  BY DEF OneDamaged, Archived, EntriesOK
<1>2. k \in 1 .. Len(s) /\ s[k].damage # "none"
  BY <1>1 DEF Damaged
<1>3. s[k].type \in {"file", "folder"} /\ s[k].damage \in {"none", "packed", "checksum"}
  <2>1. s[k] \in EntryType
    BY <1>1, <1>2
  <2> QED
    BY <2>1 DEF EntryType
<1>4. k \in Indices("file", s)
  BY <1>1, <1>2, <1>3 DEF Indices, Archived, FoldersTold
<1>5. \A j \in Indices("file", s) : FilesIn(s, j) + 1 \in 1 .. Len(plan)
                                    /\ s[j].data = plan[FilesIn(s, j) + 1].data
  BY <1>1 DEF Archived, FilesTold
<1>6. ASSUME NEW j \in Indices("file", s), j # k PROVE s[j].damage = "none" /\ FilesIn(s, j) + 1 # i
  <2>1. j \in 1 .. Len(s) /\ s[j].type = "file" /\ s[k].type = "file"
    BY <1>4 DEF Indices
  <2>2. j \notin Damaged(s)
    BY <1>6 DEF OneDamaged
  <2>3. s[j].damage = "none"
    BY <2>1, <2>2 DEF Damaged
  <2>4. FilesIn(s, j) \in Nat /\ FilesIn(s, k) \in Nat
    BY <1>1, <1>2, <2>1, NextFiles
  <2>5. CASE j < k
    <3>1. j \in 1 .. k - 1
      BY <1>2, <2>1, <2>5
    <3>2. FilesIn(s, j) + 1 <= FilesIn(s, k)
      BY <1>1, <1>2, <2>1, <3>1, NextFiles
    <3> QED
      BY <1>1, <2>3, <2>4, <3>2
  <2>6. CASE k < j
    <3>1. k \in 1 .. j - 1
      BY <1>2, <2>1, <2>6
    <3>2. FilesIn(s, k) + 1 <= FilesIn(s, j)
      BY <1>1, <2>1, <3>1, NextFiles
    <3> QED
      BY <1>1, <2>3, <2>4, <3>2
  <2> QED
    BY <1>2, <1>6, <2>1, <2>5, <2>6
<1> QED
  BY <1>1, <1>2, <1>3, <1>4, <1>5, <1>6

\* A reader keeps nothing else, and all of it when it comes to the end.
LEMMA KeptIsAround ==
    ASSUME NEW s, NEW plan, NEW homes, NEW k, NEW i, OneDamaged(s, plan, homes, k, i)
    PROVE  /\ \A n : Kept(s, plan, n) \subseteq Around(s, plan, k, i)
           /\ Kept(s, plan, Len(s) + 1) = Around(s, plan, k, i)
<1>1. /\ k \in Indices("file", s) /\ s[k].damage \in {"packed", "checksum"}
      /\ i \in 1 .. Len(plan) /\ i = FilesIn(s, k) + 1
      /\ \A j \in Indices("file", s) :
           /\ FilesIn(s, j) + 1 \in 1 .. Len(plan)
           /\ s[j].data = plan[FilesIn(s, j) + 1].data
           /\ j # k => s[j].damage = "none" /\ FilesIn(s, j) + 1 # i
  <2>1. i = FilesIn(s, k) + 1
    BY DEF OneDamaged
  <2>2. /\ k \in Indices("file", s) /\ s[k].damage \in {"packed", "checksum"} /\ i \in 1 .. Len(plan)
        /\ \A j \in Indices("file", s) :
             /\ FilesIn(s, j) + 1 \in 1 .. Len(plan)
             /\ s[j].data = plan[FilesIn(s, j) + 1].data
             /\ j # k => s[j].damage = "none" /\ FilesIn(s, j) + 1 # i
    BY DamagedFile
  <2> QED
    BY <2>1, <2>2
<1>2. ASSUME NEW n, NEW v \in Kept(s, plan, n) PROVE v \in Around(s, plan, k, i)
  <2>1. PICK j \in Indices("file", s) :
          /\ s[j].damage # "packed"
          /\ v = <<plan[FilesIn(s, j) + 1].path, IF s[j].damage = "checksum" THEN WrongData ELSE s[j].data>>
    BY <1>2 DEF Kept
  <2>2. CASE j = k
    BY <1>1, <2>1, <2>2 DEF Around
  <2>3. CASE j # k
    <3> PICK f : f = FilesIn(s, j) + 1
      OBVIOUS
    <3>1. f \in 1 .. Len(plan) /\ f # i /\ v = <<plan[f].path, plan[f].data>>
      BY <1>1, <2>1, <2>3
    <3> QED
      BY <3>1 DEF Around
  <2> QED
    BY <2>2, <2>3
<1>3. ASSUME NEW v \in Around(s, plan, k, i) PROVE v \in Kept(s, plan, Len(s) + 1)
  <2>1. \A j \in Indices("file", s) : j < Len(s) + 1
    BY DEF Indices, OneDamaged, Archived, EntriesOK
  <2>2. CASE s[k].damage # "packed" /\ v = <<plan[i].path, WrongData>>
    <3>1. s[k].damage = "checksum"
      BY <1>1, <2>2
    <3> QED
      BY <1>1, <2>1, <2>2, <3>1 DEF Kept
  <2>3. ASSUME NEW f \in 1 .. Len(plan), f # i, v = <<plan[f].path, plan[f].data>>
        PROVE  v \in Kept(s, plan, Len(s) + 1)
    <3>1. PICK j \in Indices("file", s) : FilesIn(s, j) = f - 1
      BY DEF OneDamaged
    <3>2. FilesIn(s, j) + 1 = f
      <4>1. f \in Int
        BY <2>3
      <4> QED
        BY <3>1, <4>1
    <3>3. j # k
      BY <1>1, <2>3, <3>2
    <3>4. s[j].damage = "none" /\ s[j].data = plan[f].data
      BY <1>1, <3>2, <3>3
    <3> QED
      BY <2>1, <2>3, <3>2, <3>4 DEF Kept
  <2> QED
    BY <1>3, <2>2, <2>3 DEF Around
<1> QED
  BY <1>2, <1>3

\* Content of a part of a sequence.
LEMMA ContentOfPart ==
    ASSUME NEW S, NEW fs \in Seq(S), NEW a \in 1 .. Len(fs) + 1, NEW b \in 0 .. Len(fs)
    PROVE  Content(SubSeq(fs, a, b)) = {<<fs[f].path, fs[f].data>> : f \in a .. b}
<1> DEFINE t == SubSeq(fs, a, b)
           n == IF a <= b THEN b - a + 1 ELSE 0
<1>1. /\ n \in Nat /\ DOMAIN t = 1 .. n
      /\ \A x \in 1 .. n : t[x] = fs[a + x - 1]
  OBVIOUS
<1>2. Content(t) = {<<t[x].path, t[x].data>> : x \in DOMAIN t}
  BY DEF Content, Listing, Range
<1> HIDE DEF t
<1>3. ASSUME NEW v \in Content(t) PROVE v \in {<<fs[f].path, fs[f].data>> : f \in a .. b}
  <2>1. PICK x \in 1 .. n : v = <<t[x].path, t[x].data>>
    BY <1>1, <1>2, <1>3
  <2>2. PICK f : f = a + x - 1
    OBVIOUS
  <2>3. f \in a .. b /\ t[x] = fs[f]
    BY <1>1, <2>2
  <2> QED
    BY <2>1, <2>3
<1>4. ASSUME NEW f \in a .. b PROVE <<fs[f].path, fs[f].data>> \in Content(t)
  <2>1. PICK x : x = f - a + 1
    OBVIOUS
  <2>2. x \in 1 .. n /\ a + x - 1 = f
    BY <2>1
  <2>3. t[x] = fs[f]
    BY <1>1, <2>2
  <2> QED
    BY <1>1, <1>2, <2>2, <2>3
<1>5. Content(t) = {<<fs[f].path, fs[f].data>> : f \in a .. b}
  BY <1>3, <1>4
<1> QED
  BY <1>5 DEF t

LEMMA AroundIs ==
    ASSUME IInv, NEW homes, NEW k, NEW i,
           OneDamaged(archive.entries, archive.plan, homes, k, i)
    PROVE  KeptAround(k) = Around(archive.entries, archive.plan, k, i)
<1> PICK s, plan : s = archive.entries /\ plan = archive.plan
  OBVIOUS
<1>1. /\ k \in Indices("file", s) /\ s[k].damage \in {"packed", "checksum"} /\ i \in 1 .. Len(plan)
  BY DamagedFile
<1>2. /\ plan \in Seq(FileType) /\ Len(plan) \in Nat /\ s \in Seq(EntryType) /\ i = FilesIn(s, k) + 1
      /\ k \in 1 .. Len(s) /\ s[k].type = "file" /\ Len(s) \in Nat
  BY <1>1 DEF OneDamaged, Archived, EntriesOK, Indices
<1>3. Cardinality({j \in Indices("file", s) : j <= k}) = i
  <2>1. FilesIn(s, k + 1) = FilesIn(s, k) + 1
    BY <1>2, NextFiles
  <2>2. \A j \in Indices("file", s) : j <= k <=> j < k + 1
    BY <1>2 DEF Indices
  <2>3. {j \in Indices("file", s) : j <= k} = {j \in Indices("file", s) : j < k + 1}
    BY <2>2
  <2> QED
    BY <1>2, <2>1, <2>3 DEF FilesIn
<1>4. KeptAround(k) = Content(SubSeq(plan, 1, i - 1)) \cup Content(SubSeq(plan, i + 1, Len(plan)))
                        \cup (IF s[k].damage = "packed" THEN {} ELSE {<<plan[i].path, WrongData>>})
  BY <1>3 DEF KeptAround
<1> DEFINE V(f) == <<plan[f].path, plan[f].data>>
<1>5. \A a \in 1 .. Len(plan) + 1, b \in 0 .. Len(plan) :
         Content(SubSeq(plan, a, b)) = {V(f) : f \in a .. b}
  <2>1. plan \in Seq(FileType)
    BY <1>2
  <2> SUFFICES ASSUME NEW a \in 1 .. Len(plan) + 1, NEW b \in 0 .. Len(plan)
               PROVE  Content(SubSeq(plan, a, b)) = {V(f) : f \in a .. b}
    OBVIOUS
  <2> QED
    BY ONLY <2>1, a \in 1 .. Len(plan) + 1, b \in 0 .. Len(plan), ContentOfPart
<1>6. /\ Content(SubSeq(plan, 1, i - 1)) = {V(f) : f \in 1 .. i - 1}
      /\ Content(SubSeq(plan, i + 1, Len(plan))) = {V(f) : f \in i + 1 .. Len(plan)}
  <2>1. /\ 1 \in 1 .. Len(plan) + 1 /\ i - 1 \in 0 .. Len(plan)
        /\ i + 1 \in 1 .. Len(plan) + 1 /\ Len(plan) \in 0 .. Len(plan)
    BY <1>1, <1>2
  <2> HIDE DEF V
  <2> QED
    BY ONLY <1>5, <2>1
<1>7. {x \in 1 .. Len(plan) : x # i} = (1 .. i - 1) \cup (i + 1 .. Len(plan))
  BY <1>1, <1>2
<1>8. Around(s, plan, k, i) = {V(f) : f \in (1 .. i - 1) \cup (i + 1 .. Len(plan))}
        \cup (IF s[k].damage = "packed" THEN {} ELSE {<<plan[i].path, WrongData>>})
  BY <1>7 DEF Around
<1> HIDE DEF V
<1>9. {V(f) : f \in (1 .. i - 1) \cup (i + 1 .. Len(plan))}
        = {V(f) : f \in 1 .. i - 1} \cup {V(f) : f \in i + 1 .. Len(plan)}
  OBVIOUS
<1> QED
  BY <1>4, <1>6, <1>8, <1>9

\* The damage of one file of a regular archive stays with this file: Open keeps the others,
\* unless the damaged file is one without an end offset, which makes it fail.
THEOREM DamageStays == Spec => DamageContained
<1>1. ASSUME IInv, EInv, RInv, [Next]_vars, OpenEnds, Regular(archive.plan),
             Cardinality(Damaged(archive.entries)) = 1, NEW k \in Damaged(archive.entries)
      PROVE  /\ (opened' = "true") <=> archive.entries[k].end # 0
             /\ Content(files') \subseteq KeptAround(k)
             /\ opened' = "true" => Content(files') = KeptAround(k)
  <2> PICK s, plan, homes : s = archive.entries /\ plan = archive.plan /\ homes = PlanHomes
    OBVIOUS
  <2> PICK i : i = FilesIn(s, k) + 1
    OBVIOUS
  <2>1. Archived(s, plan, homes) /\ s \in Seq(EntryType) /\ Len(s) \in Nat
        /\ Len(plan) \in Nat
    <3>1. Archived(s, plan, homes)
      BY <1>1, ArchiveIs
    <3> QED
      BY <3>1 DEF Archived, EntriesOK
  <2>2. Damaged(s) = {k}
    <3>1. IsFiniteSet(Damaged(s))
      <4>1. Damaged(s) \subseteq 1 .. Len(s)
        BY DEF Damaged
      <4> QED
        BY <2>1, <4>1, IndicesFinite
    <3> QED
      BY <1>1, <3>1, FS_Singleton
  <2>3. OneDamaged(s, plan, homes, k, i)
    <3>1. \A f \in 1 .. Len(plan) : \E j \in Indices("file", s) : FilesIn(s, j) = f - 1
      BY <1>1 DEF EInv, ArchiveEnds, FilesPlaced
    <3> QED
      BY <2>1, <2>2, <3>1 DEF OneDamaged
  <2>4. /\ k \in Indices("file", s) /\ k \in 1 .. Len(s) /\ i \in 1 .. Len(plan)
    <3>1. k \in Indices("file", s) /\ i \in 1 .. Len(plan)
      BY <2>3, DamagedFile
    <3> QED
      BY <3>1 DEF Indices
  <2>5. KeptAround(k) = Around(s, plan, k, i)
    BY <1>1, <2>3, AroundIs
  <2>6. CASE OpenEnd
    <3>1. opened' = "true" /\ files' = files
      BY <2>6 DEF OpenEnd
    <3>2. Knowing(s, plan, homes, Len(s) + 1, files, folders, current)
          /\ FilesIn(s, Len(s) + 1) = Len(plan)
      BY <1>1, <2>6, OpenEndKnows
    <3>3. s[k].end # 0
      <4>1. k < Len(s) + 1 /\ s[k].damage # "none"
        BY <1>1, <2>1, <2>4 DEF Damaged
      <4> QED
        BY <2>4, <3>2, <4>1 DEF Knowing
    <3>4. Content(files) = Kept(s, plan, Len(s) + 1)
      <4>1. Good(plan, Len(plan))
        BY <1>1, <2>1, RegularIs
      <4> QED
        BY <3>2, <4>1 DEF Knowing, FilesRead
    <3>5. Content(files) = Around(s, plan, k, i)
      BY <2>3, <3>4, KeptIsAround
    <3> QED
      BY <2>5, <3>1, <3>3, <3>5
  <2>7. CASE ReadHeaderAgain
    <3>1. opened' = "false" /\ files' = files
      BY <2>7 DEF ReadHeaderAgain
    <3>2. PICK j \in Indices("file", s) :
            /\ s[j].damage # "none" /\ s[j].end = 0
            /\ Good(plan, FilesIn(s, j) + 1) => Content(files) = Kept(s, plan, j + 1)
      <4>1. LedBack(s, plan, files)
        BY <1>1, <2>7, HeaderAgainKnows
      <4> QED
        BY <4>1 DEF LedBack
    <3>3. j = k
      <4>1. j \in Damaged(s)
        BY <3>2 DEF Damaged, Indices
      <4> QED
        BY <2>2, <4>1
    <3>4. Good(plan, i)
      BY <1>1, <2>1, <2>4, RegularIs
    <3>5. Content(files) = Kept(s, plan, j + 1)
      BY <3>2, <3>3, <3>4
    <3>6. Content(files) \subseteq Around(s, plan, k, i)
      BY <2>3, <3>5, KeptIsAround
    <3> QED
      BY <2>5, <3>1, <3>2, <3>3, <3>6
  <2> QED
    BY <1>1, <2>6, <2>7, WaysToEnd
<1>2. (IInv /\ EInv /\ RInv) /\ [Next]_vars =>
        [OpenEnds /\ Regular(archive.plan) /\ Cardinality(Damaged(archive.entries)) = 1 =>
           \A k \in Damaged(archive.entries) :
             /\ (opened' = "true") <=> archive.entries[k].end # 0
             /\ Content(files') \subseteq KeptAround(k)
             /\ opened' = "true" => Content(files') = KeptAround(k)]_vars
  BY <1>1
<1> QED
  BY <1>2, ToldInvariant, PTL DEF Spec, DamageContained

==============================================================================
