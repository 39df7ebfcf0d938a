\* Two games that start in one folder while its file is edited.
SPECIFICATION FairSpec
CONSTANTS
    Padded <- NoWords
    Tags <- NoWords
    Addresses = {1, 2, 3, 4, 5, 6, 7, 8, 9}
    Games = {g1, g2}
    UserTexts <- MCUserTexts
    Truth <- MCTruth
    CutTo <- MCCutTo
INVARIANTS
    TypeOK
    PatchedAsAsked
    HookReachesGame
PROPERTIES
    ImplementsSettings
    StartEnds
