------------------------------- MODULE Settings -------------------------------
(***************************************************************************)
(* What the patcher promises of its settings.  A game starts with those    *)
(* the file names at that moment, or with the defaults when the file       *)
(* cannot be read; only such a game ever replaces the file, and only by    *)
(* the defaults, which a file half written names too, whoever dies.        *)
(***************************************************************************)
CONSTANTS
    Games,      \* the processes of the game
    Options,    \* the switches
    Defaults    \* their values when nobody has set them

VARIABLES
    named,      \* what a game that reads the file now gets
    readable,   \* whether a game can read it now
    missed,     \* the games that could not and have not gone on yet
    used        \* what each game runs with, None if it has not got that far

None == << >>      \* the function with no option in it
vars == <<named, readable, missed, used>>

Init ==
    /\ named \in [Options -> BOOLEAN]
    /\ readable \in BOOLEAN
    /\ missed = {}
    /\ used = [g \in Games |-> None]

\* The user writes the file, holds it open, or removes it.
Edit ==
    /\ named' \in [Options -> BOOLEAN]
    /\ readable' \in BOOLEAN
    /\ UNCHANGED <<missed, used>>

Start(g) ==
    /\ used[g] = None /\ readable
    /\ used' = [used EXCEPT ![g] = named]
    /\ UNCHANGED <<named, readable, missed>>

StartWithoutFile(g) ==
    /\ used[g] = None /\ ~ readable
    /\ used' = [used EXCEPT ![g] = Defaults]
    /\ missed' = missed \cup {g}
    /\ UNCHANGED <<named, readable>>

\* Opened, which makes it unreadable for a while, or written and closed.
ReplaceFile(g) ==
    /\ g \in missed
    /\ named' = Defaults
    /\ readable' \in BOOLEAN
    /\ missed' \in {missed, missed \ {g}}
    /\ UNCHANGED used

GoOn(g) ==
    /\ missed' = missed \ {g}
    /\ UNCHANGED <<named, readable, used>>

\* The file it has open is closed with it.
Stop(g) ==
    /\ used' = [used EXCEPT ![g] = None]
    /\ missed' = missed \ {g}
    /\ readable' \in IF g \in missed THEN BOOLEAN ELSE {readable}
    /\ UNCHANGED named

Next ==
    \/ Edit
    \/ \E g \in Games :
        Start(g) \/ StartWithoutFile(g) \/ ReplaceFile(g) \/ GoOn(g) \/ Stop(g)

Spec == Init /\ [][Next]_vars
=============================================================================
