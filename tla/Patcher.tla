------------------------------- MODULE Patcher -------------------------------
(***************************************************************************)
(* dllmain.cpp and memory.h: what the library does when Windows loads it   *)
(* into a game, before any other code of the game runs.  It reads its      *)
(* settings from arrowgene.ini, writes that file when it cannot read it,   *)
(* and patches the game's code in memory.                                  *)
(*                                                                         *)
(* Several games can start at once in one folder, the user edits the file  *)
(* with a program that may hold it open, and a game can be killed at any   *)
(* moment, with the file half written.  A file that is open for writing    *)
(* cannot be opened by another process (fopen_s).                          *)
(***************************************************************************)
EXTENDS IniData

CONSTANTS
    Games,          \* the processes of the game
    UserTexts,      \* the texts the user writes
    Truth,          \* function: a word GetBoolValue knows by its first letters -> its value
    CutTo           \* function: a word of the default file -> the words it can be cut to

ASSUME TruthAssumption ==
    /\ \A w \in DOMAIN Truth : Truth[w] \in BOOLEAN
    /\ Truth["true"] = TRUE
    /\ Truth["false"] = FALSE

OptionNames == <<"console", "disable_hackshield", "offline", "hook_vdisk">>
Options     == Range(OptionNames)
Defaults    == [o \in Options |-> o # "hook_vdisk"]

SectionName == <<Word("arrowgene")>>

\* What DllMain does to the game's memory, in order: the option that asks for it, the
\* place and its page.  The first two places are in one page.
Access(option, op, place, page) == [option |-> option, op |-> op, place |-> place, page |-> page]

\* Faulty variant of Accesses: the slot is read after it has been written.
AccessesSwapped ==
    <<Access("disable_hackshield", "write", "hackshield1", 918),
      Access("disable_hackshield", "write", "hackshield2", 918),
      Access("offline", "write", "offline", 107),
      Access("hook_vdisk", "write", "vdiskSlot", 980),
      Access("hook_vdisk", "read", "vdiskSlot", 980)>>

Accesses ==
    <<Access("disable_hackshield", "write", "hackshield1", 918),
      Access("disable_hackshield", "write", "hackshield2", 918),
      Access("offline", "write", "offline", 107),
      Access("hook_vdisk", "read", "vdiskSlot", 980),
      Access("hook_vdisk", "write", "vdiskSlot", 980)>>

Places == {Accesses[i].place : i \in DOMAIN Accesses}
Pages  == {Accesses[i].page : i \in DOMAIN Accesses}

VARIABLES
    file,       \* arrowgene.ini: whether it exists, and its text
    editor,     \* another program has it open and shares it with nobody
    pc,         \* per game: off, or where DllMain is
    ini,        \* per game: the object DllMain reads the settings with
    settings,   \* per game: the ini_ variables
    access,     \* per game: the next of Accesses
    memory,     \* per game: what is in each place, the game's code or the patch
    writable,   \* per game: the pages made writable
    real        \* per game: what real_vdisk_open_file points to

vars     == <<file, editor, pc, ini, settings, access, memory, writable, real>>
codeVars == <<access, memory, writable, real>>
gameVars == <<ini, settings, codeVars>>

NoFile       == [exists |-> FALSE, text |-> << >>]
FileOf(text) == [exists |-> TRUE, text |-> text]

EmptyIni == NewIni(FALSE, FALSE)

Unpatched == [p \in Places |-> "game"]

Init ==
    /\ file \in {NoFile} \cup {FileOf(t) : t \in UserTexts}
    /\ editor = FALSE
    /\ pc = [g \in Games |-> "off"]
    /\ ini = [g \in Games |-> EmptyIni]
    /\ settings = [g \in Games |-> Defaults]
    /\ access = [g \in Games |-> 1]
    /\ memory = [g \in Games |-> Unpatched]
    /\ writable = [g \in Games |-> {}]
    /\ real = [g \in Games |-> "nothing"]

-----------------------------------------------------------------------------
(* The values of ini.h that DllMain uses *)

\* Faulty variant of GetBoolValue: a word it does not know is false.
GetBoolValueOrFalse(o, k, default) ==
    LET value == GetValue(o, SectionName, k)
    IN  value # Null /\ value[1].text \in DOMAIN Truth /\ Truth[value[1].text]

\* The default for a word it does not know.
GetBoolValue(o, k, default) ==
    LET value == GetValue(o, SectionName, k)
    IN  IF value # Null /\ value[1].text \in DOMAIN Truth
        THEN Truth[value[1].text] ELSE default

SetBoolValue(o, k, b) ==
    SetValue(o, SectionName, k, <<Word(IF b THEN "true" ELSE "false")>>, Null, FALSE).o

Key(option) == <<Word(option)>>

WithDefaults(o) ==
    FoldLeft(LAMBDA w, option : SetBoolValue(w, Key(option), Defaults[option]), o, OptionNames)

\* All four, each with its default.
GetSettings(o) == [option \in Options |-> GetBoolValue(o, Key(option), Defaults[option])]

-----------------------------------------------------------------------------
(* The file *)

At(g, label)   == pc[g] = label
Goto(g, label) == pc' = [pc EXCEPT ![g] = label]

Held == \E g \in Games : At(g, "saving")

\* Faulty variant of CanWrite: fopen, which two processes can have a file open with.
CanWriteShared == ~ editor

\* What fopen_s needs, for reading and for writing.
CanRead  == file.exists /\ ~ editor /\ ~ Held
CanWrite == ~ editor /\ ~ Held

\* What the file can hold when a game dies that is writing text: some of its lines, and
\* the last of them not to its end.
CutLine(line) ==
    CASE line.kind = "section" -> {Open(line.text)}
      [] line.kind = "entry"   -> {Word(line.text)} \cup {Entry(line.text, w) : w \in CutTo[line.value]}
      [] OTHER                 -> {}

CutTexts(text) ==
    {SubSeq(text, 1, n) : n \in 0..Len(text)} \cup
    UNION {{Append(SubSeq(text, 1, n - 1), cut) : cut \in CutLine(text[n])} : n \in DOMAIN text}

\* The object when the defaults have been set in it, and what is saved of it.
DefaultIni  == WithDefaults(EmptyIni)
DefaultText == Save(DefaultIni)

\* What a game leaves in the file, all that is ever in it, and the object when that has
\* been loaded.
GameTexts  == {<< >>, DefaultText} \cup CutTexts(DefaultText)
FileTexts  == UserTexts \cup GameTexts
LoadedFrom == [text \in FileTexts |-> LoadData(EmptyIni, text)]

\* The defaults that are set, written in part or in full and loaded again, are the
\* defaults: there is room for them, and no line of theirs means something else when
\* it is cut.
ASSUME DefaultsAssumption ==
    /\ GetSettings(DefaultIni) = Defaults
    /\ \A text \in GameTexts : GetSettings(LoadedFrom[text]) = Defaults

-----------------------------------------------------------------------------
(* DllMain *)

\* DLL_PROCESS_ATTACH in a new process.
Attach(g) ==
    /\ At(g, "off")
    /\ Goto(g, "loading")
    /\ UNCHANGED <<file, editor, gameVars>>

\* LoadFile; while it reads, no other process can write.
LoadFile(g) ==
    /\ At(g, "loading") /\ CanRead
    /\ ini' = [ini EXCEPT ![g] = LoadedFrom[file.text]]
    /\ Goto(g, "reading")
    /\ UNCHANGED <<file, editor, settings, codeVars>>

\* Faulty variant of LoadFails: the test takes success for a failure (<= 0).
LoadFailsAlways(g) ==
    /\ At(g, "loading")
    /\ ini' = [ini EXCEPT ![g] = DefaultIni]
    /\ Goto(g, "opening")
    /\ UNCHANGED <<file, editor, settings, codeVars>>

\* Faulty variant of LoadFails: it waits for the program that has the file open.
LoadFailsUnlessHeld(g) ==
    /\ At(g, "loading") /\ ~ file.exists
    /\ ini' = [ini EXCEPT ![g] = DefaultIni]
    /\ Goto(g, "opening")
    /\ UNCHANGED <<file, editor, settings, codeVars>>

\* It cannot be opened, whatever the reason: the defaults are set.
LoadFails(g) ==
    /\ At(g, "loading") /\ ~ CanRead
    /\ ini' = [ini EXCEPT ![g] = DefaultIni]
    /\ Goto(g, "opening")
    /\ UNCHANGED <<file, editor, settings, codeVars>>

\* SaveFile opens the file, which empties it.
OpenFile(g) ==
    /\ At(g, "opening") /\ CanWrite
    /\ file' = FileOf(<< >>)
    /\ Goto(g, "saving")
    /\ UNCHANGED <<editor, gameVars>>

\* SaveFile fails, also when the folder is protected or another game reads the file;
\* DllMain goes on.
SaveFails(g) ==
    /\ At(g, "opening")
    /\ Goto(g, "reading")
    /\ UNCHANGED <<file, editor, gameVars>>

\* All that Save writes has reached the file when it is closed.
CloseFile(g) ==
    /\ At(g, "saving")
    /\ file' = FileOf(DefaultText)
    /\ Goto(g, "reading")
    /\ UNCHANGED <<editor, gameVars>>

\* The four GetBoolValue.
ReadSettings(g) ==
    /\ At(g, "reading")
    /\ settings' = [settings EXCEPT ![g] = GetSettings(ini[g])]
    /\ Goto(g, "patching")
    /\ UNCHANGED <<file, editor, ini, codeVars>>

\* Faulty variant of Due: all patches hang on the first option.
DueNested(g, a, on) ==
    /\ At(g, "patching") /\ access[g] <= Len(Accesses)
    /\ a = Accesses[access[g]]
    /\ (settings[g]["disable_hackshield"] /\ settings[g][a.option]) = on
    /\ access' = [access EXCEPT ![g] = @ + 1]

\* The next access is a, and its option is on or off.
Due(g, a, on) ==
    /\ At(g, "patching") /\ access[g] <= Len(Accesses)
    /\ a = Accesses[access[g]]
    /\ settings[g][a.option] = on
    /\ access' = [access EXCEPT ![g] = @ + 1]

Skip(g) ==
    /\ \E a \in Range(Accesses) : Due(g, a, FALSE)
    /\ UNCHANGED <<file, editor, pc, ini, settings, memory, writable, real>>

\* The page becomes writable; the call that would give it its old protection back passes
\* no place for the present one, and fails.
Unprotect(g, page) == writable' = [writable EXCEPT ![g] = @ \cup {page}]

ReadMemory(g) ==
    /\ \E a \in Range(Accesses) :
        /\ Due(g, a, TRUE) /\ a.op = "read"
        /\ real' = [real EXCEPT ![g] = memory[g][a.place]]
        /\ Unprotect(g, a.page)
    /\ UNCHANGED <<file, editor, pc, ini, settings, memory>>

\* WriteMemory and ChangeMemory.
WriteMemory(g) ==
    /\ \E a \in Range(Accesses) :
        /\ Due(g, a, TRUE) /\ a.op = "write"
        /\ memory' = [memory EXCEPT ![g][a.place] = "patch"]
        /\ Unprotect(g, a.page)
    /\ UNCHANGED <<file, editor, pc, ini, settings, real>>

\* DllMain returns, its object is destroyed and the game runs.
Run(g) ==
    /\ At(g, "patching") /\ access[g] > Len(Accesses)
    /\ Goto(g, "running")
    /\ ini' = [ini EXCEPT ![g] = EmptyIni]
    /\ UNCHANGED <<file, editor, settings, codeVars>>

\* The process ends, or is killed; nothing of it stays but the file it was writing, with
\* what had reached it.
Die(g) ==
    /\ ~ At(g, "off")
    /\ Goto(g, "off")
    /\ ini' = [ini EXCEPT ![g] = EmptyIni]
    /\ settings' = [settings EXCEPT ![g] = Defaults]
    /\ access' = [access EXCEPT ![g] = 1]
    /\ memory' = [memory EXCEPT ![g] = Unpatched]
    /\ writable' = [writable EXCEPT ![g] = {}]
    /\ real' = [real EXCEPT ![g] = "nothing"]
    /\ IF At(g, "saving")
       THEN \E text \in CutTexts(DefaultText) : file' = FileOf(text)
       ELSE UNCHANGED file
    /\ UNCHANGED editor

-----------------------------------------------------------------------------
(* The user *)

OpenEditor ==
    /\ CanWrite
    /\ editor' = TRUE
    /\ UNCHANGED <<file, pc, gameVars>>

CloseEditor ==
    /\ editor
    /\ editor' = FALSE
    /\ file' \in {file} \cup {FileOf(t) : t \in UserTexts}
    /\ UNCHANGED <<pc, gameVars>>

RemoveFile ==
    /\ CanWrite
    /\ file' = NoFile
    /\ UNCHANGED <<editor, pc, gameVars>>

DllMain(g) ==
    \/ LoadFile(g) \/ LoadFails(g) \/ OpenFile(g) \/ SaveFails(g) \/ CloseFile(g)
    \/ ReadSettings(g) \/ Skip(g) \/ ReadMemory(g) \/ WriteMemory(g) \/ Run(g)

Next ==
    \/ \E g \in Games : Attach(g) \/ DllMain(g) \/ Die(g)
    \/ OpenEditor \/ CloseEditor \/ RemoveFile

\* A process gets its time; nothing is asked of the user.
FairSpec == Init /\ [][Next]_vars /\ \A g \in Games : WF_vars(DllMain(g))

-----------------------------------------------------------------------------
Labels == {"off", "loading", "opening", "saving", "reading", "patching", "running"}

\* The objects that DllMain ever has.
Inis == {EmptyIni, DefaultIni} \cup Range(LoadedFrom)

\* The variables have their types: nothing is in the file but what the user wrote or what
\* a game leaves of the defaults.  Two games never have it open for writing.
TypeOK ==
    /\ file \in [exists : BOOLEAN, text : FileTexts]
    /\ editor \in BOOLEAN
    /\ pc \in [Games -> Labels]
    /\ ini \in [Games -> Inis]
    /\ settings \in [Games -> [Options -> BOOLEAN]]
    /\ access \in [Games -> 1..(Len(Accesses) + 1)]
    /\ memory \in [Games -> [Places -> {"game", "patch"}]]
    /\ writable \in [Games -> SUBSET Pages]
    /\ real \in [Games -> {"nothing", "game", "patch"}]
    /\ \A g, h \in Games : At(g, "saving") /\ At(h, "saving") => g = h

-----------------------------------------------------------------------------
(* What the settings do *)

Asked(g) == {Accesses[i] : i \in {j \in DOMAIN Accesses : settings[g][Accesses[j].option]}}

\* A game that runs is patched in the places its options ask for and in no other.  The
\* pages of these places, and no others, have lost their protection, for as long as the
\* game runs (dllmain.cpp:91-106, memory.h:32-48).
PatchedAsAsked ==
    \A g \in Games : At(g, "running") =>
        /\ {p \in Places : memory[g][p] = "patch"} = {a.place : a \in {b \in Asked(g) : b.op = "write"}}
        /\ writable[g] = {a.page : a \in Asked(g)}

\* From the moment the slot holds vdisk_open_file a call of it reaches the game's own
\* function, and not the hook again or nothing (dllmain.cpp:33).
HookReachesGame ==
    \A g \in Games : memory[g]["vdiskSlot"] = "patch" => real[g] = "game"

NamedBy == [text \in FileTexts |-> GetSettings(LoadedFrom[text])]

Named == IF file.exists THEN NamedBy[file.text] ELSE Defaults

Used(g) ==
    CASE pc[g] \in {"off", "loading"}               -> << >>
      [] pc[g] \in {"opening", "saving", "reading"} -> GetSettings(ini[g])
      [] pc[g] \in {"patching", "running"}          -> settings[g]

Abstract == INSTANCE Settings WITH
    named <- Named, readable <- CanRead,
    missed <- {g \in Games : pc[g] \in {"opening", "saving"}},
    used <- [g \in Games |-> Used(g)]

\* The settings of a game are those the file named when it was read, or the defaults;
\* the file is written only by a game that could not read it, and names the defaults
\* then, in whatever line the writing ends (dllmain.cpp:54-68).
ImplementsSettings == Abstract!Spec

\* A game that is started comes to run, whoever holds the file, unless it is killed
\* (dllmain.cpp:54-63: no failure is waited for).
StartEnds == \A g \in Games : At(g, "loading") ~> pc[g] \in {"running", "off"}
=============================================================================
