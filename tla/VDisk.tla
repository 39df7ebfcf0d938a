-------------------------------- MODULE VDisk --------------------------------
(***************************************************************************)
(* VirtualDisk/VDisk.cs: the .SNP archive and the object that reads and    *)
(* writes it.                                                              *)
(*                                                                         *)
(* An archive is a header and a flat list of entries.  A folder takes      *)
(* three (its own, "." and ".."), a file one, followed by its packed data. *)
(* A file names no folder: it lies in the folder the reader stands in.  A  *)
(* folder entry moves the reader into that folder; the end offset of a     *)
(* file moves it up one level when it is not the position behind the data. *)
(* So Save and Open have to agree on where the reader stands.              *)
(*                                                                         *)
(* A path is the sequence of the parts between its slashes, the name last; *)
(* the part in front of a leading slash is "".  Data is a value; only its  *)
(* packed length and whether it is empty matter.                           *)
(***************************************************************************)
EXTENDS Integers, Sequences, FiniteSets, SequencesExt, FiniteSetsExt

CONSTANTS
    Parts,          \* what can stand between two slashes of a path
    Paths,          \* the virtual paths files are added under
    Data,           \* what a file can hold
    EmptyData,      \* the data of no bytes
    PackedLength(_),\* how many bytes zlib makes of data that is not empty
    Without(_, _),  \* a part of a path with every occurrence of a name cut out
    Rank(_),        \* the place of a path in the order ignoring case; ties are equal
    MaxFiles,       \* bound: the files of a disk
    MaxSaves,       \* bound: the calls of Save; no file is added after the last one
    MaxDamaged      \* bound: the files of an archive that get damaged

\* The part in front of a leading slash, and the name of the folder of the files
\* without one.
NoName    == ""
IsPart(n) == n # NoName

\* Cutting a name out of a part leaves a part, and no folder is called "." or "..".
ASSUME PartsAssumption ==
    /\ NoName \in Parts
    /\ Parts \cap {".", "..", "no_folder"} = {}
    /\ \A n, m \in Parts : Without(n, m) \in Parts

\* A path ends with the name of a file.
ASSUME PathsAssumption == \A p \in Paths : p \in Seq(Parts) /\ p # <<>> /\ IsPart(Last(p))

\* The data a reader gets out of a file whose checksum does not match; no file was
\* added with it.
WrongData == "wrong_data"

ASSUME DataAssumption == EmptyData \in Data /\ WrongData \notin Data
ASSUME PackedAssumption ==
    \A d \in Data \ {EmptyData} : PackedLength(d) \in Nat /\ PackedLength(d) > 0
ASSUME BoundsAssumption == MaxFiles \in Nat /\ MaxSaves \in Nat /\ MaxDamaged \in Nat

HeaderSize     == 24
EntryBlockSize == 145

Name(path) == Last(path)

-----------------------------------------------------------------------------
VARIABLES
    pc,         \* what the object is doing: ready, planning, writing, reading, or
                \* threw (an exception left Save or Open)
    files,      \* _fileEntries, in the order of the dictionary
    order,      \* Save: the indices of files as sorted (vFiles)
    next,       \* Save: the file the loop is at
    dirs,       \* Save: the keys of directories
    written,    \* Save: the offset of each folder written so far
    header,     \* Save: the counts and _size
    buffer,     \* Save: the entries written so far
    archive,    \* the archive on disk
    position,   \* Open: buffer.Position
    folders,    \* Open: _folderEntries, in the order of the dictionary
    current,    \* Open: the offset that currentFolder is registered under, 0 for null
    opened,     \* what the last Open returned
    extracted,  \* the files Extract wrote, and where, until the next call
    saves       \* how many times Save was called

saveVars == <<order, next, dirs, written, header, buffer>>
openVars == <<position, folders, current, opened>>
vars     == <<pc, files, saveVars, archive, openVars, extracted, saves>>

\* rootDirectory, named "."; every other folder is its path, and the folder of the
\* files without one is <<>>.
Root == <<".">>

NoFolder == <<"no_folder">>

NewFile(path, data) ==
    [path |-> path, data |-> data, packed |-> 0, hasEnd |-> TRUE, folder |-> NoFolder]

NoArchive == [files |-> 0, folders |-> 0, size |-> 0, entries |-> <<>>, plan |-> <<>>]

Entry(type, name, at, packed, folder, end, data) ==
    [type |-> type, name |-> name, at |-> at, packed |-> packed, folder |-> folder,
     end |-> end, data |-> data,
     damage |-> IF data = WrongData THEN "checksum" ELSE "none"]

Behind(e) == e.at + EntryBlockSize + e.packed

EndOf(entries) == IF entries = <<>> THEN HeaderSize ELSE Behind(Last(entries))

Init ==
    /\ pc = "ready"
    /\ files = <<>>
    /\ order = <<>> /\ next = 1 /\ dirs = {} /\ written = <<>> /\ buffer = <<>>
    /\ header = [files |-> 0, folders |-> 0, size |-> 0]
    /\ archive = NoArchive
    /\ position = 0 /\ folders = <<>> /\ current = 0 /\ opened = "not"
    /\ extracted = {}
    /\ saves = 0

-----------------------------------------------------------------------------
(* AddFile, and a new process with a new object.                           *)

\* The variables of a call are gone when it returns.
SaveReturns == order' = <<>> /\ next' = 1 /\ dirs' = {} /\ written' = <<>> /\ buffer' = <<>>
OpenReturns == position' = 0 /\ current' = 0

AddFile(path, data) ==
    /\ pc = "ready" /\ Len(files) < MaxFiles /\ saves < MaxSaves
    /\ files' = IF \E i \in 1 .. Len(files) : files[i].path = path
                  THEN files
                  ELSE Append(files, NewFile(path, data))
    /\ extracted' = {}
    /\ UNCHANGED <<pc, saveVars, archive, openVars, saves>>

NewDisk ==
    /\ pc \in {"ready", "threw"}
    /\ pc' = "ready"
    /\ files' = <<>>
    /\ header' = [files |-> 0, folders |-> 0, size |-> 0]
    /\ opened' = "not" /\ folders' = <<>>
    /\ SaveReturns /\ OpenReturns
    /\ extracted' = {}
    /\ UNCHANGED <<archive, saves>>

-----------------------------------------------------------------------------
(* Save.                                                                   *)


\* List.Sort is not stable: equal ranks come in any order.
Sorted(o) == \A i \in 1 .. Len(o) - 1 : Rank(files[o[i]].path) <= Rank(files[o[i + 1]].path)

SaveBegin ==
    /\ pc = "ready" /\ saves < MaxSaves
    /\ saves' = saves + 1
    /\ pc' = "planning"
    /\ order' \in {o \in SetToSeqs(1 .. Len(files)) : Sorted(o)}
    /\ next' = 1
    /\ dirs' = {} /\ written' = <<>> /\ buffer' = <<>> /\ folders' = <<>>
    /\ header' = [files |-> 0, folders |-> 0, size |-> HeaderSize]
    /\ extracted' = {}
    /\ UNCHANGED <<files, archive, position, current, opened>>

\* Trim('/') on the parts of a path.
TrimParts(parts) ==
    LET kept == {i \in 1 .. Len(parts) : IsPart(parts[i])} IN
    IF kept = {} THEN <<>> ELSE SubSeq(parts, Min(kept), Max(kept))

\* virtualDirectory: the name is cut out of the path wherever it occurs.
Directory(path) ==
    TrimParts([i \in 1 .. Len(path) - 1 |-> Without(path[i], Name(path))])

Plain(dir) == \A i \in 1 .. Len(dir) : IsPart(dir[i])

\* Trimming drops the empty parts.
Trimmed(dir) ==
    IF Plain(dir) THEN dir
    ELSE FlattenSeq([i \in 1 .. Len(dir) |-> IF IsPart(dir[i]) THEN <<dir[i]>> ELSE <<>>])

\* The values currentDirectory takes; the directory begins with a part that is not empty.
Ancestry(dir) ==
    LET parts == Trimmed(dir)
    IN  IF dir = <<>> THEN {<<>>} ELSE {SubSeq(parts, 1, i) : i \in 1 .. Len(parts)}

ParentOf(dir) == IF Len(dir) > 1 THEN Front(dir) ELSE Root

\* CompressZlib: once, and not for empty data.
Pack(f) ==
    IF f.packed # 0 \/ f.data = EmptyData THEN f ELSE [f EXCEPT !.packed = PackedLength(f.data)]

\* Faulty variant: the size is added up before the file is compressed.
PlanFileSizeFirst ==
    /\ pc = "planning" /\ next <= Len(order)
    /\ LET i   == order[next]
           dir == Directory(files[i].path)
           new == Ancestry(dir) \ dirs
       IN  /\ dirs' = dirs \cup new
           /\ files' = [files EXCEPT ![i] = [Pack(@) EXCEPT !.folder = dir]]
           /\ header' =
                [files   |-> header.files + 1,
                 folders |-> header.folders + Cardinality(new),
                 size    |-> header.size + 3 * EntryBlockSize * Cardinality(new)
                               + EntryBlockSize + files[i].packed]
    /\ next' = next + 1
    /\ UNCHANGED <<pc, order, written, buffer, archive, openVars, extracted, saves>>

\* The first loop: the folders of a file and its place in one.  A directory with an
\* empty part in it was never made under that key; its file is left without a folder.
PlanFile ==
    /\ pc = "planning" /\ next <= Len(order)
    /\ \E dir \in {Directory(files[order[next]].path)} :
       LET i     == order[next]
           new   == Ancestry(dir) \ dirs
           found == dir \in dirs \cup new
           f     == IF found THEN [Pack(files[i]) EXCEPT !.folder = dir] ELSE files[i]
       IN  /\ dirs' = dirs \cup new
           /\ files' = [files EXCEPT ![i] = f]
           /\ header' =
                [files   |-> header.files + (IF found THEN 1 ELSE 0),
                 folders |-> header.folders + Cardinality(new),
                 size    |-> header.size + 3 * EntryBlockSize * Cardinality(new)
                               + (IF found THEN EntryBlockSize + f.packed ELSE 0)]
    /\ next' = next + 1
    /\ UNCHANGED <<pc, order, written, buffer, archive, openVars, extracted, saves>>

PlanEnd ==
    /\ pc = "planning" /\ next > Len(order)
    /\ pc' = "writing"
    /\ next' = 1
    /\ UNCHANGED <<files, order, dirs, written, header, buffer, archive, openVars,
                   extracted, saves>>

\* EntrySize: what lies below a folder, its own three entries not counted.
Subfolders(dir) ==
    IF dir = <<>> THEN {} ELSE {d \in dirs : IsStrictPrefix(dir, d)}

\* Faulty variant: the entries of the folders are left out.
EntrySizeOfFiles(dir) ==
    LET held == {i \in 1 .. Len(files) : files[i].folder \in Subfolders(dir) \cup {dir}}
    IN  MapThenSumSet(LAMBDA i : EntryBlockSize + files[i].packed, held)

EntrySize(dir) ==
    LET below == Subfolders(dir)
        held  == {i \in 1 .. Len(files) : files[i].folder \in below \cup {dir}}
    IN  3 * EntryBlockSize * Cardinality(below)
          + MapThenSumSet(LAMBDA i : EntryBlockSize + files[i].packed, held)

\* The folders WriteVFolder still has to write for a folder, outermost first.
Missing(dir) ==
    {d \in Ancestry(dir) \cup {Root} : d \notin DOMAIN written}
Depth(dir) == IF dir = Root THEN 0 ELSE IF dir = <<>> THEN 1 ELSE Len(dir)
Outermost(missing) == CHOOSE d \in missing : \A e \in missing : Depth(d) <= Depth(e)

\* Faulty variant: every folder is linked to the root.
ParentOffsetRoot(dir) == written[Root]

ParentOffset(dir) == written[ParentOf(dir)]

\* One folder of WriteVFolder: "." and ".." point to the folder and to its parent.
FolderEntries(dir, at) ==
    LET name   == IF dir = <<>> THEN NoName ELSE Last(dir)
        dot    == at + EntryBlockSize
        dotdot == dot + EntryBlockSize
        end    == IF name = "DATA" THEN 0 ELSE dotdot + EntryBlockSize + EntrySize(dir)
    IN  << Entry("folder", name, at, 0, dot, end, EmptyData),
           Entry("folder", ".", dot, 0, dot, dotdot, EmptyData),
           Entry("folder", "..", dotdot, 0, ParentOffset(dir),
                 dotdot + EntryBlockSize, EmptyData) >>

RootEntry(at) == << Entry("folder", ".", at, 0, at, at + EntryBlockSize, EmptyData) >>

\* The folder keeps its offset, for the ".." of the folders in it.
Written(dir, offset) ==
    [d \in DOMAIN written \cup {dir} |-> IF d = dir THEN offset ELSE written[d]]

File == files[order[next]]

WriteFolder ==
    /\ pc = "writing" /\ next <= Len(order) /\ File.folder # NoFolder
    /\ Missing(File.folder) # {}
    /\ LET dir == Outermost(Missing(File.folder))
           at  == EndOf(buffer)
       IN  IF dir = Root
             THEN /\ buffer' = buffer \o RootEntry(at)
                  /\ written' = Written(Root, at)
             ELSE /\ buffer' = buffer \o FolderEntries(dir, at)
                  /\ written' = Written(dir, at + EntryBlockSize)
    /\ UNCHANGED <<pc, files, order, next, dirs, header, archive, openVars, extracted, saves>>

\* The next file lies elsewhere.
LeavesFolder ==
    next < Len(order) /\ files[order[next + 1]].folder # File.folder

\* HasEntryOffsetEnd is cleared and never set again.
Marked == [File EXCEPT !.hasEnd = @ /\ ~LeavesFolder]

\* The end offset WriteVFile writes, with its two exceptions.
EndOffset(f, at) ==
    IF \/ ~f.hasEnd /\ Name(f.path) # "ADInfo.xml"
       \/ Name(f.path) = "StringTable.txt"
      THEN 0
      ELSE at + f.packed + EntryBlockSize

\* Faulty variant: no packed data is written as no bytes, and nothing is thrown.
WriteFileOfNothing ==
    /\ pc = "writing" /\ next <= Len(order) /\ File.folder # NoFolder
    /\ Missing(File.folder) = {}
    /\ LET at == EndOf(buffer) IN
         buffer' = Append(buffer,
             Entry("file", Name(File.path), at, File.packed, 0, EndOffset(Marked, at), File.data))
    /\ files' = [files EXCEPT ![order[next]] = Marked]
    /\ next' = next + 1
    /\ UNCHANGED <<pc, order, dirs, written, header, archive, openVars, extracted, saves>>

WriteFile ==
    /\ pc = "writing" /\ next <= Len(order) /\ File.folder # NoFolder
    /\ Missing(File.folder) = {}
    /\ File.packed # 0
    /\ LET at == EndOf(buffer) IN
         buffer' = Append(buffer,
             Entry("file", Name(File.path), at, File.packed, 0, EndOffset(Marked, at), File.data))
    /\ files' = [files EXCEPT ![order[next]] = Marked]
    /\ next' = next + 1
    /\ UNCHANGED <<pc, order, dirs, written, header, archive, openVars, extracted, saves>>

\* A file without packed data, or without a folder: an exception leaves Save.
SaveThrows ==
    /\ pc = "writing" /\ next <= Len(order)
    /\ \/ File.folder = NoFolder
       \/ Missing(File.folder) = {} /\ File.packed = 0
    /\ files' = [files EXCEPT ![order[next]] = Marked]
    /\ pc' = "threw"
    /\ SaveReturns
    /\ UNCHANGED <<header, archive, openVars, extracted, saves>>

\* The plan is history: the files in the order they were written.
SaveEnd ==
    /\ pc = "writing" /\ next > Len(order)
    /\ archive' = [files |-> header.files, folders |-> header.folders, size |-> header.size,
                   entries |-> buffer,
                   plan |-> [k \in 1 .. Len(order) |-> files[order[k]]]]
    /\ pc' = "ready"
    /\ SaveReturns
    /\ UNCHANGED <<files, header, openVars, extracted, saves>>

-----------------------------------------------------------------------------
(* The disk the archive lies on may damage the packed data of a file.      *)

Damaged(entries) == {k \in 1 .. Len(entries) : entries[k].damage # "none"}

Damage(k, how) ==
    /\ pc = "ready" /\ Cardinality(Damaged(archive.entries)) < MaxDamaged
    /\ archive.entries[k].type = "file" /\ archive.entries[k].damage = "none"
    /\ archive' = [archive EXCEPT !.entries[k].damage = how]
    /\ extracted' = {}
    /\ UNCHANGED <<pc, files, saveVars, openVars, saves>>

-----------------------------------------------------------------------------
(* Open: one action for each way through the body of its loop.             *)

OpenBegin ==
    /\ pc = "ready" /\ archive # NoArchive
    /\ pc' = "reading"
    /\ files' = <<>> /\ folders' = <<>> /\ current' = 0
    /\ position' = HeaderSize
    /\ opened' = "not"
    /\ extracted' = {}
    /\ UNCHANGED <<saveVars, archive, saves>>

Reads(e) ==
    /\ pc = "reading"
    /\ e.at = position

Registered(offset) == \E i \in 1 .. Len(folders) : folders[i].at = offset
IndexOf(offset)    == CHOOSE i \in 1 .. Len(folders) : folders[i].at = offset
CurrentPath        == folders[IndexOf(current)].path

\* "."; only the first one, of the root, does anything.
ReadDot(e) ==
    /\ Reads(e) /\ e.type = "folder" /\ e.name = "."
    /\ position' = Behind(e)
    /\ IF current = 0
         THEN /\ folders' = Append(folders, [at |-> e.folder, name |-> e.name, path |-> <<>>])
              /\ current' = e.folder
         ELSE UNCHANGED <<folders, current>>
    /\ UNCHANGED <<pc, files, saveVars, archive, opened, extracted, saves>>

\* "..": with its parent the current folder gets its path.
ReadDotDot(e) ==
    /\ Reads(e) /\ e.type = "folder" /\ e.name = ".."
    /\ position' = Behind(e)
    /\ folders' =
         IF Registered(e.folder)
           THEN LET i == IndexOf(current) IN
                [folders EXCEPT ![i].path =
                    TrimParts(Append(folders[IndexOf(e.folder)].path, folders[i].name))]
           ELSE folders
    /\ UNCHANGED <<pc, files, saveVars, archive, current, opened, extracted, saves>>

\* Faulty variant: the folder is entered and not registered.
ReadFolderUnregistered(e) ==
    /\ Reads(e) /\ e.type = "folder" /\ e.name \notin {".", ".."}
    /\ position' = Behind(e)
    /\ current' = e.folder
    /\ UNCHANGED <<pc, files, saveVars, archive, folders, opened, extracted, saves>>

ReadFolder(e) ==
    /\ Reads(e) /\ e.type = "folder" /\ e.name \notin {".", ".."}
    /\ position' = Behind(e)
    /\ folders' = IF Registered(e.folder) THEN folders
                  ELSE Append(folders, [at |-> e.folder, name |-> e.name, path |-> NoFolder])
    /\ current' = e.folder
    /\ UNCHANGED <<pc, files, saveVars, archive, opened, extracted, saves>>

\* Faulty variant: the reader goes all the way up.
UpwardsToRoot == folders[1].at

\* One level up: the first registered folder with the path of the parent.
Upwards ==
    LET parent == IF Len(CurrentPath) > 1 THEN Front(CurrentPath) ELSE <<>>
        there  == {i \in 1 .. Len(folders) : folders[i].path = parent}
    IN  IF there = {} THEN current ELSE folders[Min(there)].at

\* Faulty variant: a file with a wrong checksum is left out.
ReadFileDropping(e) ==
    /\ Reads(e) /\ e.type = "file" /\ e.damage # "packed"
    /\ files' = IF e.damage = "checksum" THEN files
                ELSE Append(files, NewFile(TrimParts(Append(CurrentPath, e.name)), e.data))
    /\ position' = IF e.damage = "checksum" THEN e.end ELSE Behind(e)
    /\ current' = IF position' # e.end THEN Upwards ELSE current
    /\ UNCHANGED <<pc, saveVars, archive, folders, opened, extracted, saves>>

\* A file that can be unpacked.  With a wrong checksum it is kept nevertheless, and
\* the reader goes to its end offset.
ReadFile(e) ==
    /\ Reads(e) /\ e.type = "file" /\ e.damage # "packed"
    /\ LET path == TrimParts(Append(CurrentPath, e.name))
           data == IF e.damage = "checksum" THEN WrongData ELSE e.data
       IN  IF \E i \in 1 .. Len(files) : files[i].path = path
             THEN pc' = "threw" /\ UNCHANGED files
             ELSE /\ files' = Append(files, [NewFile(path, data) EXCEPT !.packed = e.packed])
                  /\ UNCHANGED pc
    /\ position' = IF e.damage = "checksum" THEN e.end ELSE Behind(e)
    /\ current' = IF position' # e.end THEN Upwards ELSE current
    /\ UNCHANGED <<saveVars, archive, folders, opened, extracted, saves>>

\* A file that cannot be unpacked: skipped, by going to its end offset.
SkipFile(e) ==
    /\ Reads(e) /\ e.type = "file" /\ e.damage = "packed"
    /\ position' = e.end
    /\ UNCHANGED <<pc, files, saveVars, archive, folders, current, opened, extracted, saves>>

\* Faulty variant: the header is taken for the root again.
ReadHeaderAsRoot ==
    /\ pc = "reading" /\ position = 0
    /\ position' = HeaderSize
    /\ files' = <<>>
    /\ UNCHANGED <<pc, saveVars, archive, folders, current, opened, extracted, saves>>

\* An end offset of 0 leads back to the header, whose bytes make an entry of unknown
\* type and then one of a file without data (for names shorter than 104 bytes).
ReadHeaderAgain ==
    /\ pc = "reading" /\ position = 0
    /\ pc' = "ready"
    /\ opened' = "false"
    /\ OpenReturns
    /\ UNCHANGED <<files, saveVars, archive, folders, extracted, saves>>

OpenEnd ==
    /\ pc = "reading" /\ position = EndOf(archive.entries)
    /\ pc' = "ready"
    /\ opened' = "true"
    /\ OpenReturns
    /\ UNCHANGED <<files, saveVars, archive, folders, extracted, saves>>

ReadEntry(e) == ReadDot(e) \/ ReadDotDot(e) \/ ReadFolder(e) \/ ReadFile(e) \/ SkipFile(e)

\* Path.Combine: a path with a slash in front is taken as it is.  The Trim that is
\* meant to take the slash away has its result dropped.
Destination(path) == IF path[1] = NoName THEN "root" ELSE "destination"

\* Extract writes what the object holds, whatever Open returned.
Extract ==
    /\ pc = "ready" /\ files # <<>>
    /\ extracted' = {[path |-> f.path, data |-> f.data, in |-> Destination(f.path)] : f \in ToSet(files)}
    /\ UNCHANGED <<pc, files, saveVars, archive, openVars, saves>>

SaveStep == PlanFile \/ PlanEnd \/ WriteFolder \/ WriteFile \/ SaveThrows \/ SaveEnd

OpenStep ==
    \/ ReadHeaderAgain \/ OpenEnd
    \/ \E k \in 1 .. Len(archive.entries) : ReadEntry(archive.entries[k])

Next ==
    \/ \E path \in Paths, data \in Data : AddFile(path, data)
    \/ NewDisk
    \/ SaveBegin \/ SaveStep
    \/ \E k \in 1 .. Len(archive.entries), how \in {"packed", "checksum"} : Damage(k, how)
    \/ OpenBegin \/ OpenStep
    \/ Extract

Spec == Init /\ [][Next]_vars

\* Save and Open are loops that nothing interrupts.
FairSpec == Spec /\ WF_vars(SaveStep) /\ WF_vars(OpenStep)

-----------------------------------------------------------------------------
(* Properties.                                                             *)

FileType ==
    [path: Seq(Parts) \ {<<>>}, data: Data \cup {WrongData}, packed: Nat, hasEnd: BOOLEAN,
     folder: Seq(Parts) \cup {NoFolder}]

EntryType ==
    [type: {"file", "folder"}, name: Parts \cup {".", ".."}, at: Nat, packed: Nat,
     folder: Nat, end: Nat, data: Data \cup {WrongData},
     damage: {"none", "packed", "checksum"}]

\* The variables keep their types, and the counters their bounds.
TypeOK ==
    /\ pc \in {"ready", "planning", "writing", "reading", "threw"}
    /\ files \in Seq(FileType) /\ archive.plan \in Seq(FileType)
    /\ order \in Seq(1 .. Len(files)) /\ next \in 1 .. Len(order) + 1
    /\ dirs \subseteq Seq(Parts)
    /\ DOMAIN written \subseteq Seq(Parts) \cup {Root}
    /\ \A d \in DOMAIN written : written[d] \in Nat
    /\ header \in [files: Nat, folders: Nat, size: Nat]
    /\ buffer \in Seq(EntryType) /\ archive.entries \in Seq(EntryType)
    /\ position \in {0} \cup HeaderSize .. EndOf(archive.entries)
    /\ current \in {0} \cup {folders[i].at : i \in 1 .. Len(folders)}
    /\ opened \in {"not", "true", "false"}
    /\ saves \in 0 .. MaxSaves

Indices(type, entries) == {k \in 1 .. Len(entries) : entries[k].type = type}
Named(entries) == {k \in Indices("folder", entries) : entries[k].name \notin {".", ".."}}

\* The header of an archive counts its files and its folders, and its size, which
\* EntrySize and the first loop of Save add up before anything is written, is the
\* length of the archive without the entry of the root (the comment of _size).
HeaderTrue ==
    LET entries == archive.entries IN
    entries # <<>> =>
        /\ archive.files = Cardinality(Indices("file", entries))
        /\ archive.folders = Cardinality(Named(entries))
        /\ archive.size + EntryBlockSize = EndOf(entries)

FilesBefore(k) == Cardinality({j \in Indices("file", archive.entries) : j < k})

\* The folder a named entry stands for: the folders that are written in front of a file
\* are the ones it still misses, and the last of them is its own.
FolderOf(k) ==
    LET i == FilesBefore(k) + 1
        m == Cardinality({j \in Named(archive.entries) : j > k /\ FilesBefore(j) = i - 1})
        d == archive.plan[i].folder
    IN  SubSeq(d, 1, Len(d) - m)

\* The entries lie one behind the other.  "." of a folder points to itself, ".." to the
\* "." of its parent, which was written earlier, and a file ends behind its data or at 0.
FolderLinks ==
    LET entries == archive.entries IN
    \A k \in 1 .. Len(entries) : LET e == entries[k] IN
        /\ e.at = EndOf(SubSeq(entries, 1, k - 1))
        /\ k \in Named(entries) =>
             /\ entries[k + 1].name = "." /\ entries[k + 1].at = e.folder
             /\ entries[k + 2].name = ".."
             /\ \E j \in 1 .. k - 1 :
                  /\ entries[j].name = "." /\ entries[j].at = entries[k + 2].folder
                  /\ IF j = 1 THEN Len(FolderOf(k)) <= 1 ELSE FolderOf(j - 1) = Front(FolderOf(k))
        /\ e.name = "." => e.folder = e.at
        /\ e.type = "file" => e.end \in {0, Behind(e)}

\* The end offset of a folder, computed from the sizes of everything below it before
\* any of it is written, is where the last file below it ends, if the order keeps the
\* files below it together; the one of a folder called DATA is 0.
FolderEnds ==
    LET entries == archive.entries IN
    \A k \in Named(entries) :
        LET dir   == FolderOf(k)
            below == {i \in 1 .. Len(archive.plan) :
                        \/ archive.plan[i].folder = dir
                        \/ dir # <<>> /\ IsStrictPrefix(dir, archive.plan[i].folder)}
            last  == CHOOSE j \in Indices("file", entries) : FilesBefore(j) = Max(below) - 1
        IN  IF entries[k].name = "DATA" THEN entries[k].end = 0
            ELSE Max(below) - Min(below) + 1 = Cardinality(below)
                   => entries[k].end = Behind(entries[last])

Listing(fs) == [i \in DOMAIN fs |-> <<fs[i].path, fs[i].data>>]
Content(fs) == Range(Listing(fs))

\* Where the reader stands behind a file that it read under its path: an end offset of 0
\* takes it up one level, but not out of the root.
UpFrom(f) ==
    LET dir == Front(f.path)
    IN  IF EndOffset(f, HeaderSize) = 0 /\ dir # <<>> THEN Front(dir) ELSE dir

\* A plan that Open reads back: the folder that the path of a file names is the folder
\* written in front of the file, or, when that one was written earlier, the folder that
\* the file in front leads to.
Regular(plan) ==
    \A i \in 1 .. Len(plan) :
        Front(plan[i].path) =
            IF \E j \in 1 .. i - 1 : plan[i].folder \in Ancestry(plan[j].folder)
              THEN UpFrom(plan[i - 1])
              ELSE plan[i].folder

OpenEnds == pc = "reading" /\ pc' # "reading"

\* Open of an undamaged archive gives back the files it was saved with, in their order and
\* each under its path, exactly when the plan is regular: reader and writer agree on the folder of
\* every file although no file entry names one.
RoundTrip ==
    [][OpenEnds /\ Damaged(archive.entries) = {} =>
         (/\ opened' = "true"
          /\ Listing(files') = Listing(archive.plan)) <=> Regular(archive.plan)]_vars

\* What the README says the tool does: pack a folder and unpack the archive again.
UnpacksWhatWasPacked ==
    [][OpenEnds /\ Damaged(archive.entries) = {} =>
         opened' = "true" /\ Content(files') = Content(archive.plan)]_vars

\* The files of an archive that are kept when the k-th entry, a file, is damaged: one
\* that cannot be unpacked is left out, one with a wrong checksum kept with wrong data.
KeptAround(k) ==
    LET i == Cardinality({j \in Indices("file", archive.entries) : j <= k}) IN
    Content(SubSeq(archive.plan, 1, i - 1))
      \cup Content(SubSeq(archive.plan, i + 1, Len(archive.plan)))
      \cup (IF archive.entries[k].damage = "packed" THEN {}
            ELSE {<<archive.plan[i].path, WrongData>>})

\* The damage of one file of a regular archive stays with this file, unless it is the
\* last one of its folder: its end offset of 0 makes Open start again at the header,
\* and fail.  What the object holds then, and a program that ignores the result goes on
\* to extract or to save (Program.cs:52, 80), is still in the folders it was packed in.
DamageContained ==
    [][OpenEnds /\ Regular(archive.plan) /\ Cardinality(Damaged(archive.entries)) = 1 =>
         \A k \in Damaged(archive.entries) :
             /\ (opened' = "true") <=> archive.entries[k].end # 0
             /\ Content(files') \subseteq KeptAround(k)
             /\ opened' = "true" => Content(files') = KeptAround(k)]_vars

\* A file that Save can write: it is not empty, and cutting its name out of its path
\* leaves no folder without a name between two others.
Packable(f) == f.data # EmptyData /\ Plain(Directory(f.path))

\* Save writes all its files or nothing.  It throws exactly when one of them cannot be
\* packed, in whatever order they come and whatever earlier calls left in them: the
\* first loop only logs a file that finds no folder or has no data, and goes on.
SaveAllOrNothing ==
    [][(pc \in {"planning", "writing"} /\ pc' \in {"ready", "threw"}) =>
         (IF \A i \in 1 .. Len(files) : Packable(files[i])
            THEN /\ pc' = "ready"
                 /\ Content(archive'.plan) = Content(files)
                 /\ Cardinality(Indices("file", archive'.entries)) = Len(files)
            ELSE pc' = "threw" /\ archive' = archive)]_vars

DistinctRanks(plan) == Cardinality({Rank(plan[i].path) : i \in 1 .. Len(plan)}) = Len(plan)

InFolders(plan) == \A i \in 1 .. Len(plan) : Len(plan[i].path) > 1


\* What the log line of Extract (VDisk.cs:717) says of a path with a slash in front,
\* "fixed": every file is written below the destination.
ExtractsBelowDestination == \A x \in extracted : x.in = "destination"

\* Open comes to an end on a damaged archive too, although it goes back to the header.
OpenComesToAnEnd == pc = "reading" ~> pc \in {"ready", "threw"}
=============================================================================
