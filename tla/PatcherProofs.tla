---------------------------- MODULE PatcherProofs ----------------------------
(***************************************************************************)
(* Theorems about Patcher: however many games start, whatever is in the    *)
(* file and whoever dies, the code of a game that runs is patched as its   *)
(* settings ask for, and the hook in it finds the game's own function.     *)
(***************************************************************************)
EXTENDS Patcher, TLAPS

\* The accesses a game has made.
Made(g) == {i \in 1..5 : i < access[g] /\ settings[g][Accesses[i].option] = TRUE}

\* What they have done to its memory.
Written(g) == {Accesses[i].place : i \in {j \in Made(g) : Accesses[j].op = "write"}}

\* A game whose settings are not read yet has made none.
PatchInv ==
    /\ DOMAIN access = Games /\ DOMAIN memory = Games /\ DOMAIN writable = Games
    /\ DOMAIN real = Games /\ DOMAIN pc = Games /\ DOMAIN settings = Games
    /\ \A g \in Games :
        /\ access[g] \in 1..6
        /\ pc[g] \notin {"patching", "running"} => access[g] = 1
        /\ pc[g] = "running" => access[g] = 6
        /\ memory[g] = [p \in Places |-> IF p \in Written(g) THEN "patch" ELSE "game"]
        /\ writable[g] = {Accesses[i].page : i \in Made(g)}
        /\ 4 \in Made(g) => real[g] = "game"

LEMMA AccessFacts ==
    /\ Len(Accesses) = 5
    /\ DOMAIN Accesses = 1..5
    /\ Accesses[1].op = "write" /\ Accesses[2].op = "write" /\ Accesses[3].op = "write"
    /\ Accesses[4].op = "read" /\ Accesses[5].op = "write"
    /\ Accesses[4].option = "hook_vdisk" /\ Accesses[5].option = "hook_vdisk"
    /\ Accesses[4].place = "vdiskSlot" /\ Accesses[5].place = "vdiskSlot"
    /\ Accesses[1].place # "vdiskSlot" /\ Accesses[2].place # "vdiskSlot"
    /\ Accesses[3].place # "vdiskSlot"
BY DEF Accesses, Access

\* Every place is one of an access.
LEMMA AccessPlaces == \A i \in 1..5 : Accesses[i].place \in Places
BY AccessFacts DEF Places

LEMMA InvInit == Init => PatchInv
<1> SUFFICES ASSUME Init PROVE PatchInv
  OBVIOUS
<1>1. \A g \in Games : access[g] = 1
  BY DEF Init
<1>2. \A g \in Games : Made(g) = {}
  BY <1>1 DEF Made
<1>3. \A g \in Games : Written(g) = {}
  BY <1>2 DEF Written
<1> QED
  BY <1>1, <1>2, <1>3 DEF Init, PatchInv, Unpatched

\* Nothing of the game's own code has been touched by this step.
LEMMA OtherStep ==
    ASSUME PatchInv, UNCHANGED <<settings, codeVars>>, DOMAIN pc' = Games,
           \A g \in Games : pc'[g] # pc[g] =>
                /\ pc'[g] \notin {"patching", "running"} => access[g] = 1
                /\ pc'[g] = "running" => access[g] = 6
    PROVE  PatchInv'
<1>1. \A g \in Games : Made(g)' = Made(g) /\ Written(g)' = Written(g)
  BY DEF Made, Written, codeVars
<1> QED
  BY <1>1 DEF PatchInv, codeVars

\* The access that is due; those of the other games stay as they are.
LEMMA AccessDue ==
    ASSUME PatchInv, NEW g \in Games, NEW a, NEW on, Due(g, a, on), UNCHANGED settings
    PROVE  /\ access[g] \in 1..5 /\ a = Accesses[access[g]]
           /\ settings[g][a.option] = on
           /\ access'[g] = access[g] + 1
           /\ DOMAIN access' = Games
           /\ pc[g] = "patching"
           /\ \A h \in Games \ {g} : access'[h] = access[h] /\ Made(h)' = Made(h)
           /\ Made(g)' = {i \in 1..5 : i < access[g] + 1 /\ settings[g][Accesses[i].option] = TRUE}
<1>1. /\ access[g] \in 1..5 /\ a = Accesses[access[g]]
      /\ access' = [access EXCEPT ![g] = @ + 1]
      /\ settings[g][a.option] = on
      /\ pc[g] = "patching"
  BY AccessFacts DEF Due, PatchInv, At
<1>2. /\ access'[g] = access[g] + 1
      /\ DOMAIN access' = Games
      /\ \A h \in Games \ {g} : access'[h] = access[h]
  BY <1>1 DEF PatchInv
<1>3. \A h \in Games \ {g} : Made(h)' = Made(h)
  BY <1>2 DEF Made
<1>4. Made(g)' = {i \in 1..5 : i < access[g] + 1 /\ settings[g][Accesses[i].option] = TRUE}
  BY <1>2 DEF Made
<1> QED
  BY <1>1, <1>2, <1>3, <1>4

\* It is made ...
LEMMA AccessMade ==
    ASSUME PatchInv, NEW g \in Games, NEW a, Due(g, a, TRUE), UNCHANGED settings
    PROVE  Made(g)' = Made(g) \cup {access[g]}
<1>1. /\ access[g] \in 1..5
      /\ settings[g][Accesses[access[g]].option] = TRUE
      /\ Made(g)' = {i \in 1..5 : i < access[g] + 1 /\ settings[g][Accesses[i].option] = TRUE}
  BY AccessDue
<1>2. \A i \in 1..5 : i < access[g] + 1 <=> i < access[g] \/ i = access[g]
  BY <1>1
<1> QED
  BY <1>1, <1>2 DEF Made

\* ... or not.
LEMMA AccessSkipped ==
    ASSUME PatchInv, NEW g \in Games, NEW a, Due(g, a, FALSE), UNCHANGED settings
    PROVE  /\ access[g] \in 1..5
           /\ access'[g] = access[g] + 1
           /\ DOMAIN access' = Games
           /\ pc[g] = "patching"
           /\ \A h \in Games \ {g} : access'[h] = access[h] /\ Made(h)' = Made(h)
           /\ Made(g)' = Made(g)
<1>1. /\ access[g] \in 1..5 /\ a = Accesses[access[g]]
      /\ access' = [access EXCEPT ![g] = @ + 1]
      /\ pc[g] = "patching"
  BY AccessFacts DEF Due, PatchInv, At
<1>2. settings[g][Accesses[access[g]].option] # TRUE
  BY <1>1 DEF Due
<1>3. /\ access'[g] = access[g] + 1
      /\ DOMAIN access' = Games
      /\ \A h \in Games \ {g} : access'[h] = access[h]
  BY <1>1 DEF PatchInv
<1>4. \A h \in Games \ {g} : Made(h)' = Made(h)
  BY <1>3 DEF Made
<1>5. Made(g)' = {i \in 1..5 : i < access[g] + 1 /\ settings[g][Accesses[i].option] = TRUE}
  BY <1>3 DEF Made
<1>6. \A i \in 1..5 : i < access[g] + 1 <=> i < access[g] \/ i = access[g]
  BY <1>1
<1>7. Made(g)' = Made(g)
  BY <1>2, <1>5, <1>6 DEF Made
<1> QED
  BY <1>1, <1>3, <1>4, <1>7

LEMMA InvNext == PatchInv /\ [Next]_vars => PatchInv'
<1> SUFFICES ASSUME PatchInv, [Next]_vars PROVE PatchInv'
  OBVIOUS
<1>1. ASSUME NEW g \in Games,
             Attach(g) \/ LoadFile(g) \/ LoadFails(g) \/ OpenFile(g) \/ SaveFails(g) \/ CloseFile(g)
      PROVE  PatchInv'
  <2>1. /\ UNCHANGED <<settings, codeVars>>
        /\ pc[g] \notin {"patching", "running"}
        /\ \E label \in Labels \ {"patching", "running"} : pc' = [pc EXCEPT ![g] = label]
    BY <1>1 DEF Attach, LoadFile, LoadFails, OpenFile, SaveFails, CloseFile, gameVars,
                At, Goto, Labels
  <2> QED
    BY <2>1, OtherStep DEF PatchInv
<1>2. ASSUME NEW g \in Games, ReadSettings(g) PROVE PatchInv'
  <2>1. /\ pc[g] = "reading"
        /\ pc' = [pc EXCEPT ![g] = "patching"]
        /\ \E new : settings' = [settings EXCEPT ![g] = new]
        /\ UNCHANGED codeVars
    BY <1>2 DEF ReadSettings, At, Goto
  <2>2. access[g] = 1
    BY <2>1 DEF PatchInv
  <2>3. \A h \in Games \ {g} : Made(h)' = Made(h)
    BY <2>1 DEF PatchInv, Made, codeVars
  <2>4. Made(g) = {} /\ Made(g)' = {}
    BY <2>1, <2>2 DEF Made, codeVars
  <2>5. \A h \in Games : Made(h)' = Made(h)
    BY <2>3, <2>4
  <2>6. \A h \in Games : Written(h)' = Written(h)
    BY <2>5 DEF Written
  <2> QED
    BY <2>1, <2>2, <2>5, <2>6 DEF PatchInv, codeVars
<1>3. ASSUME NEW g \in Games, Skip(g) PROVE PatchInv'
  <2>1. PICK a : Due(g, a, FALSE)
    BY <1>3 DEF Skip
  <2>2. UNCHANGED <<pc, settings, memory, writable, real>>
    BY <1>3 DEF Skip
  <2>3. /\ access[g] \in 1..5
        /\ access'[g] = access[g] + 1
        /\ DOMAIN access' = Games
        /\ pc[g] = "patching"
        /\ \A h \in Games \ {g} : access'[h] = access[h] /\ Made(h)' = Made(h)
    BY <2>1, <2>2, AccessSkipped
  <2>4. Made(g)' = Made(g)
    BY <2>1, <2>2, AccessSkipped
  <2>5. \A h \in Games : Made(h)' = Made(h)
    BY <2>3, <2>4
  <2>6. \A h \in Games : Written(h)' = Written(h)
    BY <2>5 DEF Written
  <2> QED
    BY <2>2, <2>3, <2>5, <2>6 DEF PatchInv
<1>4. ASSUME NEW g \in Games, ReadMemory(g) PROVE PatchInv'
  <2>1. PICK a : /\ Due(g, a, TRUE) /\ a.op = "read"
                 /\ real' = [real EXCEPT ![g] = memory[g][a.place]]
                 /\ writable' = [writable EXCEPT ![g] = @ \cup {a.page}]
    BY <1>4 DEF ReadMemory, Unprotect
  <2>2. /\ UNCHANGED <<pc, settings, memory>>
    BY <1>4 DEF ReadMemory
  <2>3. /\ access[g] \in 1..5 /\ a = Accesses[access[g]]
        /\ access'[g] = access[g] + 1
        /\ DOMAIN access' = Games
        /\ pc[g] = "patching"
        /\ \A h \in Games \ {g} : access'[h] = access[h] /\ Made(h)' = Made(h)
        /\ Made(g)' = Made(g) \cup {access[g]}
    <3>1. Due(g, a, TRUE) /\ UNCHANGED settings
      BY <2>1, <2>2
    <3>2. Made(g)' = Made(g) \cup {access[g]}
      BY <3>1, AccessMade
    <3> QED
      BY <3>1, <3>2, AccessDue
  <2>4. access[g] = 4
    BY <2>1, <2>3, AccessFacts
  <2>5. Made(g)' = Made(g) \cup {4}
    BY <2>2, <2>3, <2>4
  <2>6. memory[g]["vdiskSlot"] = "game"
    <3>1. "vdiskSlot" \notin Written(g)
      BY <2>4, AccessFacts DEF Written, Made
    <3>2. "vdiskSlot" \in Places
      BY AccessFacts, AccessPlaces
    <3> QED
      BY <3>1, <3>2 DEF PatchInv
  <2>7. real'[g] = "game" /\ writable'[g] = writable[g] \cup {Accesses[4].page}
    BY <2>1, <2>3, <2>4, <2>6, AccessFacts DEF PatchInv
  <2>8. Written(g)' = Written(g)
    BY <2>5, AccessFacts DEF Written
  <2>9. \A h \in Games \ {g} : Written(h)' = Written(h)
    BY <2>3 DEF Written
  <2>10. writable'[g] = {Accesses[i].page : i \in Made(g)'}
    BY <2>5, <2>7 DEF PatchInv
  <2> QED
    BY <2>1, <2>2, <2>3, <2>4, <2>7, <2>8, <2>9, <2>10 DEF PatchInv
<1>5. ASSUME NEW g \in Games, WriteMemory(g) PROVE PatchInv'
  <2>1. PICK a : /\ Due(g, a, TRUE) /\ a.op = "write"
                 /\ memory' = [memory EXCEPT ![g][a.place] = "patch"]
                 /\ writable' = [writable EXCEPT ![g] = @ \cup {a.page}]
    BY <1>5 DEF WriteMemory, Unprotect
  <2>2. /\ UNCHANGED <<pc, settings, real>>
    BY <1>5 DEF WriteMemory
  <2>3. /\ access[g] \in 1..5 /\ a = Accesses[access[g]]
        /\ access'[g] = access[g] + 1
        /\ DOMAIN access' = Games
        /\ pc[g] = "patching"
        /\ \A h \in Games \ {g} : access'[h] = access[h] /\ Made(h)' = Made(h)
        /\ Made(g)' = Made(g) \cup {access[g]}
    <3>1. Due(g, a, TRUE) /\ UNCHANGED settings
      BY <2>1, <2>2
    <3>2. Made(g)' = Made(g) \cup {access[g]}
      BY <3>1, AccessMade
    <3> QED
      BY <3>1, <3>2, AccessDue
  <2>4. access[g] # 4
    BY <2>1, <2>3, AccessFacts
  <2>5. Made(g)' = Made(g) \cup {access[g]}
    BY <2>2, <2>3
  <2>6. Written(g)' = Written(g) \cup {a.place}
    BY <2>1, <2>3, <2>5 DEF Written
  <2>7. \A h \in Games \ {g} : Written(h)' = Written(h)
    BY <2>3 DEF Written
  <2>8. memory'[g] = [p \in Places |-> IF p \in Written(g)' THEN "patch" ELSE "game"]
    <3>1. memory'[g] = [memory[g] EXCEPT ![a.place] = "patch"]
      BY <2>1 DEF PatchInv
    <3>2. memory[g] = [p \in Places |-> IF p \in Written(g) THEN "patch" ELSE "game"]
      BY DEF PatchInv
    <3>3. a.place \in Places
      BY <2>3, AccessPlaces
    <3> QED
      BY <2>6, <3>1, <3>2, <3>3
  <2>9. writable'[g] = {Accesses[i].page : i \in Made(g)'}
    <3>1. writable'[g] = writable[g] \cup {a.page}
      BY <2>1 DEF PatchInv
    <3> QED
      BY <2>3, <2>5, <3>1 DEF PatchInv
  <2> QED
    BY <2>1, <2>2, <2>3, <2>4, <2>5, <2>7, <2>8, <2>9 DEF PatchInv
<1>6. ASSUME NEW g \in Games, Run(g) PROVE PatchInv'
  <2>1. /\ UNCHANGED <<settings, codeVars>>
        /\ access[g] > 5
        /\ pc' = [pc EXCEPT ![g] = "running"]
    BY <1>6, AccessFacts DEF Run, Goto
  <2>2. access[g] = 6
    BY <2>1 DEF PatchInv
  <2> QED
    BY <2>1, <2>2, OtherStep DEF PatchInv
<1>7. ASSUME NEW g \in Games, Die(g) PROVE PatchInv'
  <2>1. /\ pc' = [pc EXCEPT ![g] = "off"]
        /\ settings' = [settings EXCEPT ![g] = Defaults]
        /\ access' = [access EXCEPT ![g] = 1]
        /\ memory' = [memory EXCEPT ![g] = Unpatched]
        /\ writable' = [writable EXCEPT ![g] = {}]
        /\ real' = [real EXCEPT ![g] = "nothing"]
    BY <1>7 DEF Die, Goto
  <2>2. access'[g] = 1
    BY <2>1 DEF PatchInv
  <2>3. Made(g)' = {}
    BY <2>2 DEF Made
  <2>4. Written(g)' = {}
    BY <2>3 DEF Written
  <2>5. \A h \in Games \ {g} : Made(h)' = Made(h)
    BY <2>1 DEF PatchInv, Made
  <2>6. \A h \in Games \ {g} : Written(h)' = Written(h)
    BY <2>5 DEF Written
  <2> QED
    BY <2>1, <2>3, <2>4, <2>5, <2>6 DEF PatchInv, Unpatched
<1>8. ASSUME OpenEditor \/ CloseEditor \/ RemoveFile \/ UNCHANGED vars PROVE PatchInv'
  <2>1. UNCHANGED <<pc, settings, codeVars>>
    BY <1>8 DEF OpenEditor, CloseEditor, RemoveFile, vars, gameVars, codeVars
  <2> QED
    BY <2>1, OtherStep DEF PatchInv
<1> QED
  BY <1>1, <1>2, <1>3, <1>4, <1>5, <1>6, <1>7, <1>8 DEF Next, DllMain

-----------------------------------------------------------------------------
(* Theorems *)

\* A game that runs is patched exactly where its settings ask for it, and exactly the
\* pages of these places have lost their protection.
THEOREM PatchesAreAsked == FairSpec => []PatchedAsAsked
<1>1. PatchInv => PatchedAsAsked
  <2> SUFFICES ASSUME PatchInv, NEW g \in Games, At(g, "running")
               PROVE  /\ {p \in Places : memory[g][p] = "patch"}
                            = {a.place : a \in {b \in Asked(g) : b.op = "write"}}
                      /\ writable[g] = {a.page : a \in Asked(g)}
    BY DEF PatchedAsAsked
  <2>1. access[g] = 6
    BY DEF PatchInv, At
  <2>2. Made(g) = {j \in DOMAIN Accesses : settings[g][Accesses[j].option]}
    BY <2>1, AccessFacts DEF Made
  <2>3. Asked(g) = {Accesses[i] : i \in Made(g)}
    BY <2>2 DEF Asked
  <2>4. {p \in Places : memory[g][p] = "patch"} = Written(g)
    <3>1. Written(g) \subseteq Places
      BY AccessPlaces DEF Written, Made
    <3> QED
      BY <3>1 DEF PatchInv
  <2>5. Written(g) = {a.place : a \in {b \in Asked(g) : b.op = "write"}}
    BY <2>3 DEF Written
  <2>6. writable[g] = {a.page : a \in Asked(g)}
    BY <2>3 DEF PatchInv
  <2> QED
    BY <2>4, <2>5, <2>6
<1> QED
  BY <1>1, InvInit, InvNext, PTL DEF FairSpec

\* The hook that is in the slot calls what was there before it.
THEOREM HookFindsGame == FairSpec => []HookReachesGame
<1>1. PatchInv => HookReachesGame
  <2> SUFFICES ASSUME PatchInv, NEW g \in Games, memory[g]["vdiskSlot"] = "patch"
               PROVE  real[g] = "game"
    BY DEF HookReachesGame
  <2>1. "vdiskSlot" \in Places
    BY AccessFacts, AccessPlaces
  <2>2. "vdiskSlot" \in Written(g)
    BY <2>1 DEF PatchInv
  <2>3. 5 \in Made(g)
    BY <2>2, AccessFacts DEF Written, Made
  <2>4. 4 \in Made(g)
    BY <2>3, AccessFacts DEF Made, PatchInv
  <2> QED
    BY <2>4 DEF PatchInv
<1> QED
  BY <1>1, InvInit, InvNext, PTL DEF FairSpec
-----------------------------------------------------------------------------
(* The types, and who has the file open *)

\* While a game has the file open for writing it is empty, and no one else has it open.
FileInv ==
    /\ TypeOK
    /\ Held => ~ editor /\ file = FileOf(<< >>)

\* Whatever an object holds, the four GetBoolValue give switches.
LEMMA SettingsType ==
    /\ \A o : GetSettings(o) \in [Options -> BOOLEAN]
    /\ Defaults \in [Options -> BOOLEAN]
<1>1. Defaults \in [Options -> BOOLEAN]
  BY DEF Defaults
<1>2. ASSUME NEW o, NEW k, NEW b \in BOOLEAN PROVE GetBoolValue(o, k, b) \in BOOLEAN
  BY TruthAssumption DEF GetBoolValue
<1> QED
  BY <1>1, <1>2 DEF GetSettings

LEMMA TextFacts ==
    /\ UserTexts \subseteq FileTexts /\ << >> \in FileTexts /\ DefaultText \in FileTexts
    /\ CutTexts(DefaultText) \subseteq FileTexts
    /\ EmptyIni \in Inis /\ DefaultIni \in Inis
    /\ \A text \in FileTexts : LoadedFrom[text] \in Inis
<1>1. \A text \in FileTexts : LoadedFrom[text] \in Range(LoadedFrom)
  BY DEF LoadedFrom, Range
<1> QED
  BY <1>1 DEF FileTexts, GameTexts, Inis

LEMMA FileOfType ==
    ASSUME NEW text \in FileTexts
    PROVE  /\ FileOf(text) \in [exists : BOOLEAN, text : FileTexts]
           /\ FileOf(text).exists = TRUE /\ FileOf(text).text = text
BY DEF FileOf

LEMMA NoFileType == NoFile \in [exists : BOOLEAN, text : FileTexts] /\ NoFile.exists = FALSE
BY TextFacts DEF NoFile

LEMMA FileInit == Init => FileInv
<1> SUFFICES ASSUME Init PROVE FileInv
  OBVIOUS
<1>1. file \in [exists : BOOLEAN, text : FileTexts]
  BY FileOfType, NoFileType, TextFacts DEF Init
<1>2. Unpatched \in [Places -> {"game", "patch"}]
  BY DEF Unpatched
<1>3. 1 \in 1 .. Len(Accesses) + 1
  BY AccessFacts
<1>4. \A g \in Games : pc[g] = "off"
  BY DEF Init
<1>5. ~ Held /\ \A g, h \in Games : At(g, "saving") /\ At(h, "saving") => g = h
  BY <1>4 DEF Held, At
<1>6. /\ editor \in BOOLEAN /\ pc \in [Games -> Labels] /\ ini \in [Games -> Inis]
      /\ settings \in [Games -> [Options -> BOOLEAN]]
      /\ access \in [Games -> 1 .. Len(Accesses) + 1]
      /\ memory \in [Games -> [Places -> {"game", "patch"}]]
      /\ writable \in [Games -> SUBSET Pages]
      /\ real \in [Games -> {"nothing", "game", "patch"}]
  BY <1>2, <1>3, SettingsType, TextFacts DEF Init, Labels
<1> QED
  BY <1>1, <1>5, <1>6 DEF FileInv, TypeOK

\* A game that does not begin to write.
LEMMA HeldLess ==
    ASSUME TypeOK, NEW g \in Games, NEW label \in Labels \ {"saving"}, Goto(g, label)
    PROVE  /\ pc' \in [Games -> Labels]
           /\ Held' => Held
           /\ \A h, i \in Games : At(h, "saving")' /\ At(i, "saving")' => h = i
           /\ ~ At(g, "saving") => Held' = Held
<1>1. pc \in [Games -> Labels] /\ pc' = [pc EXCEPT ![g] = label]
  BY DEF TypeOK, Goto
<1>2. pc' \in [Games -> Labels] /\ pc'[g] # "saving"
      /\ \A h \in Games \ {g} : pc'[h] = pc[h]
  BY <1>1
<1>3. \A h \in Games : At(h, "saving")' => At(h, "saving") /\ h # g
  BY <1>2 DEF At
<1>4. \A h \in Games : At(h, "saving") /\ h # g => At(h, "saving")'
  BY <1>2 DEF At
<1> QED
  BY <1>2, <1>3, <1>4 DEF Held, TypeOK

\* DllMain before the first patch.
LEMMA FileBefore ==
    ASSUME FileInv, NEW g \in Games,
           \/ Attach(g) \/ LoadFile(g) \/ LoadFails(g) \/ OpenFile(g) \/ SaveFails(g)
           \/ CloseFile(g) \/ ReadSettings(g)
    PROVE  FileInv'
<1>1. TypeOK /\ (Held => ~ editor /\ file = FileOf(<< >>))
  BY DEF FileInv
<1>2. /\ UNCHANGED <<editor, codeVars>>
      /\ ini' = ini \/ \E o \in Inis : ini' = [ini EXCEPT ![g] = o]
      /\ settings' = settings
            \/ settings' = [settings EXCEPT ![g] = GetSettings(ini[g])]
  <2>1. ASSUME LoadFile(g) PROVE LoadedFrom[file.text] \in Inis
    <3>1. file.text \in FileTexts
      BY <1>1 DEF TypeOK
    <3> QED
      BY <3>1, TextFacts
  <2> QED
    BY <2>1, TextFacts DEF Attach, LoadFile, LoadFails, OpenFile, SaveFails, CloseFile,
                           ReadSettings, gameVars
<1>3. /\ editor' \in BOOLEAN
      /\ ini' \in [Games -> Inis]
      /\ settings' \in [Games -> [Options -> BOOLEAN]]
      /\ access' \in [Games -> 1 .. Len(Accesses) + 1]
      /\ memory' \in [Games -> [Places -> {"game", "patch"}]]
      /\ writable' \in [Games -> SUBSET Pages]
      /\ real' \in [Games -> {"nothing", "game", "patch"}]
  <2>1. ini' \in [Games -> Inis]
    BY <1>1, <1>2 DEF TypeOK
  <2>2. settings' \in [Games -> [Options -> BOOLEAN]]
    <3>1. settings \in [Games -> [Options -> BOOLEAN]] /\ GetSettings(ini[g]) \in [Options -> BOOLEAN]
      BY <1>1, SettingsType DEF TypeOK
    <3> QED
      BY <1>2, <3>1
  <2> QED
    BY <1>1, <1>2, <2>1, <2>2 DEF TypeOK, codeVars
<1>4. CASE OpenFile(g)
  <2>1. /\ ~ Held /\ ~ editor /\ file' = FileOf(<< >>)
        /\ pc' = [pc EXCEPT ![g] = "saving"]
    BY <1>4 DEF OpenFile, CanWrite, Goto
  <2>2. pc' \in [Games -> Labels] /\ \A h \in Games \ {g} : pc'[h] = pc[h]
    BY <1>1, <2>1 DEF TypeOK, Labels
  <2>3. \A h \in Games : At(h, "saving")' => h = g
    BY <2>1, <2>2 DEF Held, At
  <2>4. file' \in [exists : BOOLEAN, text : FileTexts]
    BY <2>1, TextFacts, FileOfType
  <2> QED
    BY <1>2, <1>3, <2>1, <2>2, <2>3, <2>4 DEF FileInv, TypeOK
<1>5. CASE ~ OpenFile(g)
  <2>1. \E label \in Labels \ {"saving"} : Goto(g, label)
    BY <1>5 DEF Attach, LoadFile, LoadFails, SaveFails, CloseFile, ReadSettings, Labels
  <2>2. /\ pc' \in [Games -> Labels] /\ (Held' => Held)
        /\ \A h, i \in Games : At(h, "saving")' /\ At(i, "saving")' => h = i
    BY <1>1, <2>1, HeldLess
  <2>3. CASE CloseFile(g)
    <3>1. file' = FileOf(DefaultText) /\ At(g, "saving") /\ pc' = [pc EXCEPT ![g] = "reading"]
      BY <2>3 DEF CloseFile, Goto
    <3>2. ~ Held'
      BY <1>1, <3>1 DEF TypeOK, Held, At
    <3>3. file' \in [exists : BOOLEAN, text : FileTexts]
      BY <3>1, TextFacts, FileOfType
    <3> QED
      BY <1>3, <2>2, <3>2, <3>3 DEF FileInv, TypeOK
  <2>4. CASE ~ CloseFile(g)
    <3>1. file' = file
      BY <1>5, <2>4 DEF Attach, LoadFile, LoadFails, SaveFails, ReadSettings
    <3>2. file' \in [exists : BOOLEAN, text : FileTexts]
      BY <1>1, <3>1 DEF TypeOK
    <3>3. Held' => ~ editor' /\ file' = FileOf(<< >>)
      BY <1>1, <1>2, <2>2, <3>1
    <3> QED
      BY <1>3, <2>2, <3>2, <3>3 DEF FileInv, TypeOK
  <2> QED
    BY <2>3, <2>4
<1> QED
  BY <1>4, <1>5

\* The patches; the file is not touched any more.
LEMMA FilePatching ==
    ASSUME FileInv, NEW g \in Games, Skip(g) \/ ReadMemory(g) \/ WriteMemory(g)
    PROVE  FileInv'
<1>1. TypeOK /\ (Held => ~ editor /\ file = FileOf(<< >>))
  BY DEF FileInv
<1>2. UNCHANGED <<file, editor, pc, ini, settings>>
  BY DEF Skip, ReadMemory, WriteMemory
<1>3. PICK a \in Range(Accesses) :
        /\ access[g] <= 5 /\ access' = [access EXCEPT ![g] = @ + 1]
        /\ UNCHANGED real \/ real' = [real EXCEPT ![g] = memory[g][a.place]]
        /\ UNCHANGED memory \/ memory' = [memory EXCEPT ![g][a.place] = "patch"]
        /\ UNCHANGED writable \/ writable' = [writable EXCEPT ![g] = @ \cup {a.page}]
  BY AccessFacts DEF Skip, ReadMemory, WriteMemory, Due, Unprotect
<1>4. a.place \in Places /\ a.page \in Pages
  BY DEF Places, Pages, Range
<1>5. access' \in [Games -> 1 .. Len(Accesses) + 1]
  <2>1. access \in [Games -> 1 .. 6] /\ Len(Accesses) + 1 = 6
    BY <1>1, AccessFacts DEF TypeOK
  <2>2. access[g] + 1 \in 1 .. 6
    BY <1>3, <2>1
  <2> QED
    BY <1>3, <2>1, <2>2
<1>6. memory[g] \in [Places -> {"game", "patch"}] /\ memory[g][a.place] \in {"game", "patch"}
  BY <1>1, <1>4 DEF TypeOK
<1>7. real' \in [Games -> {"nothing", "game", "patch"}]
  <2>1. real \in [Games -> {"nothing", "game", "patch"}]
    BY <1>1 DEF TypeOK
  <2> QED
    BY <1>3, <1>6, <2>1
<1>8. memory' \in [Games -> [Places -> {"game", "patch"}]]
  <2>1. memory \in [Games -> [Places -> {"game", "patch"}]]
    BY <1>1 DEF TypeOK
  <2>2. memory' = memory
          \/ memory' = [memory EXCEPT ![g] = [memory[g] EXCEPT ![a.place] = "patch"]]
    BY <1>3
  <2>3. [memory[g] EXCEPT ![a.place] = "patch"] \in [Places -> {"game", "patch"}]
    BY <1>4, <1>6
  <2> QED
    BY <2>1, <2>2, <2>3
<1>9. writable' \in [Games -> SUBSET Pages]
  <2>1. writable \in [Games -> SUBSET Pages]
    BY <1>1 DEF TypeOK
  <2> QED
    BY <1>3, <1>4, <2>1
<1>10. Held' = Held /\ \A h \in Games : At(h, "saving")' = At(h, "saving")
  BY <1>2 DEF Held, At
<1> QED
  BY <1>1, <1>2, <1>5, <1>7, <1>8, <1>9, <1>10 DEF FileInv, TypeOK

\* A game that begins to run, or ends.  What it leaves of the file is a text of a game.
LEMMA FileOver ==
    ASSUME FileInv, NEW g \in Games, Run(g) \/ Die(g)
    PROVE  FileInv'
<1>1. TypeOK /\ (Held => ~ editor /\ file = FileOf(<< >>))
  BY DEF FileInv
<1>2. editor' = editor /\ ini' = [ini EXCEPT ![g] = EmptyIni]
      /\ \E label \in Labels \ {"saving"} : Goto(g, label)
  BY DEF Run, Die, Labels
<1>3. /\ pc' \in [Games -> Labels] /\ (Held' => Held)
      /\ \A h, i \in Games : At(h, "saving")' /\ At(i, "saving")' => h = i
  BY <1>1, <1>2, HeldLess
<1>4. ini' \in [Games -> Inis]
  BY <1>1, <1>2, TextFacts DEF TypeOK
<1>5. /\ settings' \in [Games -> [Options -> BOOLEAN]]
      /\ access' \in [Games -> 1 .. Len(Accesses) + 1]
      /\ memory' \in [Games -> [Places -> {"game", "patch"}]]
      /\ writable' \in [Games -> SUBSET Pages]
      /\ real' \in [Games -> {"nothing", "game", "patch"}]
  <2>1. CASE Run(g)
    BY <1>1, <2>1 DEF Run, codeVars, TypeOK
  <2>2. CASE Die(g)
    <3>1. /\ settings' = [settings EXCEPT ![g] = Defaults]
          /\ access' = [access EXCEPT ![g] = 1]
          /\ memory' = [memory EXCEPT ![g] = Unpatched]
          /\ writable' = [writable EXCEPT ![g] = {}]
          /\ real' = [real EXCEPT ![g] = "nothing"]
      BY <2>2 DEF Die
    <3>2. Unpatched \in [Places -> {"game", "patch"}]
      BY DEF Unpatched
    <3>3. access \in [Games -> 1 .. 6] /\ Len(Accesses) + 1 = 6
      BY <1>1, AccessFacts DEF TypeOK
    <3>4. access' \in [Games -> 1 .. 6]
      BY <3>1, <3>3
    <3>5. /\ settings' \in [Games -> [Options -> BOOLEAN]]
          /\ memory' \in [Games -> [Places -> {"game", "patch"}]]
          /\ writable' \in [Games -> SUBSET Pages]
          /\ real' \in [Games -> {"nothing", "game", "patch"}]
      BY <1>1, <3>1, <3>2, SettingsType DEF TypeOK
    <3> QED
      BY <3>3, <3>4, <3>5
  <2> QED
    BY <2>1, <2>2
<1>6. file' \in [exists : BOOLEAN, text : FileTexts]
  <2>1. file' = file \/ \E text \in CutTexts(DefaultText) : file' = FileOf(text)
    BY DEF Run, Die
  <2> QED
    BY <1>1, <2>1, FileOfType, TextFacts DEF TypeOK
<1>7. Held' => ~ editor' /\ file' = FileOf(<< >>)
  <2>1. CASE Die(g) /\ At(g, "saving")
    <3>1. pc' = [pc EXCEPT ![g] = "off"]
      BY <2>1 DEF Die, Goto
    <3>2. ~ Held'
      BY <1>1, <2>1, <3>1 DEF TypeOK, Held, At
    <3> QED
      BY <3>2
  <2>2. CASE ~ (Die(g) /\ At(g, "saving"))
    <3>1. file' = file
      BY <2>2 DEF Run, Die
    <3> QED
      BY <1>1, <1>2, <1>3, <3>1
  <2> QED
    BY <2>1, <2>2
<1> QED
  BY <1>1, <1>2, <1>3, <1>4, <1>5, <1>6, <1>7 DEF FileInv, TypeOK

\* The user, who never has the file open while a game writes it.
LEMMA FileEdited ==
    ASSUME FileInv, OpenEditor \/ CloseEditor \/ RemoveFile \/ UNCHANGED vars
    PROVE  FileInv'
<1>1. TypeOK /\ (Held => ~ editor /\ file = FileOf(<< >>))
  BY DEF FileInv
<1>2. UNCHANGED <<pc, ini, settings, access, memory, writable, real>>
  BY DEF OpenEditor, CloseEditor, RemoveFile, vars, gameVars, codeVars
<1>3. Held' = Held /\ \A h \in Games : At(h, "saving")' = At(h, "saving")
  BY <1>2 DEF Held, At
<1>4. editor' \in BOOLEAN /\ file' \in [exists : BOOLEAN, text : FileTexts]
  <2>1. file' = file \/ file' = NoFile \/ \E text \in UserTexts : file' = FileOf(text)
    BY DEF OpenEditor, CloseEditor, RemoveFile, vars
  <2>2. editor' \in BOOLEAN
    BY <1>1 DEF OpenEditor, CloseEditor, RemoveFile, vars, TypeOK
  <2> QED
    BY <1>1, <2>1, <2>2, FileOfType, NoFileType, TextFacts DEF TypeOK
<1>5. Held' => ~ editor' /\ file' = FileOf(<< >>)
  BY <1>1, <1>3 DEF OpenEditor, CloseEditor, RemoveFile, CanWrite, vars
<1> QED
  BY <1>1, <1>2, <1>3, <1>4, <1>5 DEF FileInv, TypeOK

LEMMA FileNext == FileInv /\ [Next]_vars => FileInv'
<1> SUFFICES ASSUME FileInv, [Next]_vars PROVE FileInv'
  OBVIOUS
<1>1. ASSUME NEW g \in Games, Attach(g) \/ DllMain(g) \/ Die(g) PROVE FileInv'
  BY <1>1, FileBefore, FilePatching, FileOver DEF DllMain
<1> QED
  BY <1>1, FileEdited DEF Next

\* The variables have their types, nothing is ever in the file but what the user wrote or
\* a game leaves of the defaults, and no two games write it (dllmain.cpp:52-63).
THEOREM TypeCorrect == FairSpec => []TypeOK
<1>1. FileInv => TypeOK
  BY DEF FileInv
<1> QED
  BY <1>1, FileInit, FileNext, PTL DEF FairSpec
-----------------------------------------------------------------------------
(* Settings is implemented *)

Missed == {g \in Games : pc[g] \in {"opening", "saving"}}
UsedBy == [g \in Games |-> Used(g)]

\* What the file names; whatever a game leaves of the defaults, it names them.
LEMMA NamedFacts ==
    /\ \A text \in FileTexts : NamedBy[text] \in [Options -> BOOLEAN]
    /\ \A text \in FileTexts : NamedBy[text] = GetSettings(LoadedFrom[text])
    /\ \A text \in GameTexts : NamedBy[text] = Defaults
<1>1. \A text \in FileTexts : NamedBy[text] = GetSettings(LoadedFrom[text])
  BY DEF NamedBy
<1>2. GameTexts \subseteq FileTexts
  BY DEF FileTexts
<1>3. \A text \in GameTexts : GetSettings(LoadedFrom[text]) = Defaults
  BY DefaultsAssumption
<1> QED
  BY <1>1, <1>2, <1>3, SettingsType

LEMMA NamedType == TypeOK => Named \in [Options -> BOOLEAN] /\ CanRead \in BOOLEAN
<1> SUFFICES ASSUME TypeOK PROVE Named \in [Options -> BOOLEAN] /\ CanRead \in BOOLEAN
  OBVIOUS
<1>1. file.text \in FileTexts /\ file.exists \in BOOLEAN /\ editor \in BOOLEAN
  BY DEF TypeOK
<1>2. Held \in BOOLEAN
  BY DEF Held
<1> QED
  BY <1>1, <1>2, NamedFacts, SettingsType DEF Named, CanRead

\* A step of one game changes what is known of this game only.
LEMMA OneGame ==
    ASSUME TypeOK, NEW g \in Games, NEW label, Goto(g, label),
           ini' = ini \/ \E o : ini' = [ini EXCEPT ![g] = o],
           settings' = settings \/ \E s : settings' = [settings EXCEPT ![g] = s]
    PROVE  /\ UsedBy' = [UsedBy EXCEPT ![g] = Used(g)']
           /\ Missed' = IF label \in {"opening", "saving"} THEN Missed \cup {g} ELSE Missed \ {g}
           /\ pc'[g] = label
           /\ UsedBy[g] = Used(g)
<1>1. pc \in [Games -> Labels] /\ DOMAIN ini = Games /\ DOMAIN settings = Games
  BY DEF TypeOK
<1>2. /\ pc'[g] = label
      /\ \A h \in Games \ {g} : pc'[h] = pc[h] /\ ini'[h] = ini[h] /\ settings'[h] = settings[h]
  BY <1>1 DEF Goto
<1>3. \A h \in Games \ {g} : Used(h)' = Used(h)
  BY <1>2 DEF Used
<1>4. UsedBy' = [UsedBy EXCEPT ![g] = Used(g)']
  BY <1>3 DEF UsedBy
<1> QED
  BY <1>2, <1>4 DEF Missed, UsedBy

\* A step of a game that goes on using what it used.
LEMMA SameUse ==
    ASSUME TypeOK, NEW g \in Games, NEW from, NEW label, pc[g] = from, Goto(g, label),
           ini' = ini \/ \E o : ini' = [ini EXCEPT ![g] = o],
           settings' = settings \/ \E s : settings' = [settings EXCEPT ![g] = s],
           Used(g)' = Used(g)
    PROVE  /\ UsedBy' = UsedBy
           /\ g \in Missed <=> from \in {"opening", "saving"}
           /\ Missed' = IF label \in {"opening", "saving"} THEN Missed \cup {g} ELSE Missed \ {g}
<1>1. /\ UsedBy' = [UsedBy EXCEPT ![g] = Used(g)'] /\ UsedBy[g] = Used(g)
      /\ Missed' = IF label \in {"opening", "saving"} THEN Missed \cup {g} ELSE Missed \ {g}
  BY OneGame
<1>2. UsedBy' = UsedBy
  <2>1. UsedBy = [h \in Games |-> UsedBy[h]]
    BY DEF UsedBy
  <2> QED
    BY <1>1, <2>1
<1> QED
  BY <1>1, <1>2 DEF Missed

\* A step that reads or writes the settings.
LEMMA StartRefines ==
    ASSUME FileInv, NEW g \in Games,
           \/ Attach(g) \/ LoadFile(g) \/ LoadFails(g) \/ OpenFile(g) \/ SaveFails(g)
           \/ CloseFile(g) \/ ReadSettings(g) \/ Run(g)
    PROVE  Abstract!Next \/ UNCHANGED Abstract!vars
<1>1. TypeOK /\ (Held => ~ editor /\ file = FileOf(<< >>))
  BY DEF FileInv
<1>2. DOMAIN ini = Games /\ DOMAIN settings = Games /\ DOMAIN pc = Games
  BY <1>1 DEF TypeOK
<1>3. file.text \in FileTexts /\ editor \in BOOLEAN /\ editor' = editor
  BY <1>1 DEF TypeOK, Attach, LoadFile, LoadFails, OpenFile, SaveFails, CloseFile,
              ReadSettings, Run
<1>4. ASSUME UNCHANGED <<file, editor>>, ~ At(g, "saving"),
             NEW label \in Labels \ {"saving"}, Goto(g, label)
      PROVE  Named' = Named /\ CanRead' = CanRead
  BY <1>1, <1>4, HeldLess DEF Named, CanRead
<1>5. CASE Attach(g)
  <2>1. At(g, "off") /\ Goto(g, "loading") /\ UNCHANGED <<file, editor, ini, settings>>
    BY <1>5 DEF Attach, gameVars
  <2>2. Used(g)' = Used(g)
    BY <1>2, <2>1 DEF Used, At, Goto
  <2>3. Named' = Named /\ CanRead' = CanRead
    BY <1>4, <2>1 DEF At, Labels
  <2>4. UsedBy' = UsedBy /\ Missed' = Missed
    <3>1. UsedBy' = UsedBy /\ g \notin Missed /\ Missed' = Missed \ {g}
      BY <1>1, <2>1, <2>2, SameUse DEF At
    <3> QED
      BY ONLY <3>1
  <2> QED
    BY <2>3, <2>4 DEF Abstract!vars, UsedBy, Missed
<1>6. CASE LoadFile(g)
  <2>1. At(g, "loading") /\ CanRead /\ Goto(g, "reading")
        /\ ini' = [ini EXCEPT ![g] = LoadedFrom[file.text]]
        /\ UNCHANGED <<file, editor, settings>>
    BY <1>6 DEF LoadFile
  <2>2. Used(g) = << >> /\ Used(g)' = GetSettings(LoadedFrom[file.text])
    BY <1>2, <2>1 DEF Used, At, Goto
  <2>3. Used(g)' = Named
    BY <1>3, <2>1, <2>2, NamedFacts DEF Named, CanRead
  <2>4. Named' = Named /\ CanRead' = CanRead
    BY <1>4, <2>1 DEF At, Labels
  <2>5. UsedBy' = [UsedBy EXCEPT ![g] = Named] /\ Missed' = Missed /\ UsedBy[g] = << >>
    BY <1>1, <2>1, <2>2, <2>3, OneGame DEF Missed, At
  <2>6. Abstract!Start(g)
    BY <2>1, <2>4, <2>5 DEF Abstract!Start, Abstract!None, UsedBy, Missed
  <2> QED
    BY <2>6 DEF Abstract!Next
<1>7. CASE LoadFails(g)
  <2>1. At(g, "loading") /\ ~ CanRead /\ Goto(g, "opening")
        /\ ini' = [ini EXCEPT ![g] = DefaultIni]
        /\ UNCHANGED <<file, editor, settings>>
    BY <1>7 DEF LoadFails
  <2>2. Used(g) = << >> /\ Used(g)' = Defaults
    BY <1>2, <2>1, DefaultsAssumption DEF Used, At, Goto
  <2>3. Named' = Named /\ CanRead' = CanRead
    BY <1>4, <2>1 DEF At, Labels
  <2>4. UsedBy' = [UsedBy EXCEPT ![g] = Defaults] /\ Missed' = Missed \cup {g}
        /\ UsedBy[g] = << >>
    BY <1>1, <2>1, <2>2, OneGame
  <2>5. Abstract!StartWithoutFile(g)
    BY <2>1, <2>3, <2>4 DEF Abstract!StartWithoutFile, Abstract!None, UsedBy, Missed
  <2> QED
    BY <2>5 DEF Abstract!Next
<1>8. CASE OpenFile(g)
  <2>1. At(g, "opening") /\ file' = FileOf(<< >>) /\ Goto(g, "saving")
        /\ UNCHANGED <<editor, ini, settings>>
    BY <1>8 DEF OpenFile, gameVars
  <2>2. Used(g)' = Used(g)
    BY <1>2, <2>1 DEF Used, At, Goto
  <2>3. Named' = Defaults
    BY <2>1, NamedFacts DEF Named, FileOf, GameTexts
  <2>4. UsedBy' = UsedBy /\ Missed' = Missed /\ g \in Missed
    BY <1>1, <2>1, <2>2, SameUse DEF At
  <2>5. CanRead' \in BOOLEAN
    BY <1>1, <1>3, <2>1 DEF CanRead, Held, FileOf
  <2>6. Abstract!ReplaceFile(g)
    BY <2>3, <2>4, <2>5 DEF Abstract!ReplaceFile, UsedBy, Missed
  <2> QED
    BY <2>6 DEF Abstract!Next
<1>9. CASE SaveFails(g)
  <2>1. At(g, "opening") /\ Goto(g, "reading") /\ UNCHANGED <<file, editor, ini, settings>>
    BY <1>9 DEF SaveFails, gameVars
  <2>2. Used(g)' = Used(g)
    BY <1>2, <2>1 DEF Used, At, Goto
  <2>3. Named' = Named /\ CanRead' = CanRead
    BY <1>4, <2>1 DEF At, Labels
  <2>4. UsedBy' = UsedBy /\ Missed' = Missed \ {g}
    BY <1>1, <2>1, <2>2, SameUse DEF At
  <2>5. Abstract!GoOn(g)
    BY <2>3, <2>4 DEF Abstract!GoOn, UsedBy, Missed
  <2> QED
    BY <2>5 DEF Abstract!Next
<1>10. CASE CloseFile(g)
  <2>1. At(g, "saving") /\ file' = FileOf(DefaultText) /\ Goto(g, "reading")
        /\ UNCHANGED <<editor, ini, settings>>
    BY <1>10 DEF CloseFile, gameVars
  <2>2. Used(g)' = Used(g)
    BY <1>2, <2>1 DEF Used, At, Goto
  <2>3. Named' = Defaults
    BY <2>1, NamedFacts DEF Named, FileOf, GameTexts
  <2>4. UsedBy' = UsedBy /\ Missed' = Missed \ {g} /\ g \in Missed
    BY <1>1, <2>1, <2>2, SameUse DEF At
  <2>5. CanRead' \in BOOLEAN
    BY <1>1, <1>3, <2>1 DEF CanRead, Held, FileOf
  <2>6. Abstract!ReplaceFile(g)
    BY <2>3, <2>4, <2>5 DEF Abstract!ReplaceFile, UsedBy, Missed
  <2> QED
    BY <2>6 DEF Abstract!Next
<1>11. CASE ReadSettings(g)
  <2>1. At(g, "reading") /\ Goto(g, "patching") /\ UNCHANGED <<file, editor, ini>>
        /\ settings' = [settings EXCEPT ![g] = GetSettings(ini[g])]
    BY <1>11 DEF ReadSettings
  <2>2. Used(g)' = Used(g)
    BY <1>2, <2>1 DEF Used, At, Goto
  <2>3. Named' = Named /\ CanRead' = CanRead
    BY <1>4, <2>1 DEF At, Labels
  <2>4. UsedBy' = UsedBy /\ Missed' = Missed
    <3>1. /\ pc[g] = "reading" /\ Goto(g, "patching") /\ ini' = ini
          /\ \E x : settings' = [settings EXCEPT ![g] = x]
      BY <2>1 DEF At
    <3>2. UsedBy' = UsedBy /\ g \notin Missed /\ Missed' = Missed \ {g}
      BY ONLY <1>1, <2>2, <3>1, SameUse
    <3> QED
      BY ONLY <3>2
  <2> QED
    BY <2>3, <2>4 DEF Abstract!vars, UsedBy, Missed
<1>12. CASE Run(g)
  <2>1. At(g, "patching") /\ Goto(g, "running") /\ UNCHANGED <<file, editor, settings>>
        /\ ini' = [ini EXCEPT ![g] = EmptyIni]
    BY <1>12 DEF Run
  <2>2. Used(g)' = Used(g)
    BY <1>2, <2>1 DEF Used, At, Goto
  <2>3. Named' = Named /\ CanRead' = CanRead
    BY <1>4, <2>1 DEF At, Labels
  <2>4. UsedBy' = UsedBy /\ Missed' = Missed
    <3>1. /\ pc[g] = "patching" /\ Goto(g, "running") /\ settings' = settings
          /\ \E x : ini' = [ini EXCEPT ![g] = x]
      BY <2>1 DEF At
    <3>2. UsedBy' = UsedBy /\ g \notin Missed /\ Missed' = Missed \ {g}
      BY ONLY <1>1, <2>2, <3>1, SameUse
    <3> QED
      BY ONLY <3>2
  <2> QED
    BY <2>3, <2>4 DEF Abstract!vars, UsedBy, Missed
<1> QED
  BY <1>5, <1>6, <1>7, <1>8, <1>9, <1>10, <1>11, <1>12

\* A game that ends.  What it had written of the file names what it named before.
LEMMA StopRefines ==
    ASSUME FileInv, NEW g \in Games, Die(g)
    PROVE  Abstract!Stop(g)
<1>1. TypeOK /\ (Held => ~ editor /\ file = FileOf(<< >>))
  BY DEF FileInv
<1>2. Goto(g, "off") /\ editor' = editor
      /\ ini' = [ini EXCEPT ![g] = EmptyIni] /\ settings' = [settings EXCEPT ![g] = Defaults]
  BY DEF Die
<1>3. UsedBy' = [UsedBy EXCEPT ![g] = Used(g)'] /\ Missed' = Missed \ {g} /\ pc'[g] = "off"
  BY <1>1, <1>2, OneGame
<1>4. Used(g)' = << >>
  BY <1>3 DEF Used
<1>5. CASE At(g, "saving")
  <2>1. PICK text \in CutTexts(DefaultText) : file' = FileOf(text)
    BY <1>5 DEF Die
  <2>2. Held /\ file = FileOf(<< >>)
    BY <1>1, <1>5 DEF Held
  <2>3. Named = Defaults /\ Named' = Defaults
    BY <2>1, <2>2, NamedFacts DEF Named, FileOf, GameTexts
  <2>4. CanRead' \in BOOLEAN
    BY <1>1, <1>2, <2>1 DEF CanRead, Held, FileOf, TypeOK
  <2>5. g \in Missed
    BY <1>5 DEF Missed, At
  <2> QED
    BY <1>3, <1>4, <2>3, <2>4, <2>5 DEF Abstract!Stop, Abstract!None, UsedBy, Missed
<1>6. CASE ~ At(g, "saving")
  <2>1. file' = file
    BY <1>6 DEF Die
  <2>2. Held' = Held
    BY <1>1, <1>2, <1>6, HeldLess DEF Labels
  <2>3. Named' = Named /\ CanRead' = CanRead
    BY <1>2, <2>1, <2>2 DEF Named, CanRead
  <2>4. CanRead \in BOOLEAN
    BY <1>1, NamedType
  <2> QED
    BY <1>3, <1>4, <2>3, <2>4 DEF Abstract!Stop, Abstract!None, UsedBy, Missed
<1> QED
  BY <1>5, <1>6

LEMMA StepRefines ==
    ASSUME FileInv, FileInv', [Next]_vars
    PROVE  [Abstract!Next]_(Abstract!vars)
<1>1. ASSUME NEW g \in Games, Skip(g) \/ ReadMemory(g) \/ WriteMemory(g)
      PROVE  UNCHANGED Abstract!vars
  <2>1. UNCHANGED <<file, editor, pc, ini, settings>>
    BY <1>1 DEF Skip, ReadMemory, WriteMemory
  <2> QED
    BY <2>1 DEF Abstract!vars, Named, CanRead, Held, At, Used
<1>2. ASSUME NEW g \in Games, Attach(g) \/ DllMain(g) \/ Die(g)
      PROVE  Abstract!Next \/ UNCHANGED Abstract!vars
  <2>1. CASE Skip(g) \/ ReadMemory(g) \/ WriteMemory(g)
    BY <1>1, <2>1
  <2>2. CASE Die(g)
    BY <2>2, StopRefines DEF Abstract!Next
  <2>3. CASE ~ (Skip(g) \/ ReadMemory(g) \/ WriteMemory(g) \/ Die(g))
    BY <1>2, <2>3, StartRefines DEF DllMain
  <2> QED
    BY <2>1, <2>2, <2>3
<1>3. ASSUME OpenEditor \/ CloseEditor \/ RemoveFile PROVE Abstract!Edit
  <2>1. UNCHANGED <<pc, ini, settings>>
    BY <1>3 DEF OpenEditor, CloseEditor, RemoveFile, gameVars
  <2>2. UsedBy' = UsedBy /\ Missed' = Missed
    BY <2>1 DEF UsedBy, Missed, Used
  <2>3. TypeOK'
    BY DEF FileInv
  <2>4. Named' \in [Options -> BOOLEAN] /\ CanRead' \in BOOLEAN
    <3>1. file'.text \in FileTexts /\ file'.exists \in BOOLEAN /\ editor' \in BOOLEAN
      BY <2>3 DEF TypeOK
    <3>2. Held' \in BOOLEAN
      BY DEF Held
    <3> QED
      BY <3>1, <3>2, NamedFacts, SettingsType DEF Named, CanRead
  <2> QED
    BY <2>2, <2>4 DEF Abstract!Edit, UsedBy, Missed
<1>4. CASE UNCHANGED vars
  <2>1. UNCHANGED <<file, editor, pc, ini, settings>>
    BY <1>4 DEF vars, gameVars
  <2> QED
    BY <2>1 DEF Abstract!vars, Named, CanRead, Held, At, Used
<1> QED
  BY <1>2, <1>3, <1>4 DEF Next, Abstract!Next

\* A game's settings are those the file named when it was read, or the defaults; only a
\* game that could not read the file replaces it, by text that names the defaults
\* wherever it ends (dllmain.cpp:54-68).
THEOREM SettingsImplemented == FairSpec => ImplementsSettings
<1>1. Init /\ FileInv => Abstract!Init
  <2> SUFFICES ASSUME Init, FileInv PROVE Abstract!Init
    OBVIOUS
  <2>1. Named \in [Options -> BOOLEAN] /\ CanRead \in BOOLEAN
    BY NamedType DEF FileInv
  <2>2. \A g \in Games : pc[g] = "off"
    BY DEF Init
  <2> QED
    BY <2>1, <2>2 DEF Abstract!Init, Abstract!None, Used
<1>2. FileInv /\ FileInv' /\ [Next]_vars => [Abstract!Next]_(Abstract!vars)
  BY StepRefines
<1> QED
  BY <1>1, <1>2, FileInit, FileNext, PTL DEF FairSpec, ImplementsSettings, Abstract!Spec
=============================================================================
