----------------------------- MODULE MCSimpleIni -----------------------------
(* A small instance of SimpleIni for TLC. *)
EXTENDS SimpleIni

MCPadded == (" v" :> "v")
MCTags   == ("<<<END" :> "END") @@ ("<<<END_OF_TEXT" :> EndTag) @@ ("<<<" :> "")

\* What the program passes; the texts have more names and values.
MCSectionNames == {<<Word("a")>>}
MCKeys         == {<<Word("k")>>}
MCValues       == {<<Word("v")>>}
MCComments     == {Null, <<Comment("x")>>}

\* A file comment, a commented section and a commented key; sections that continue.
Commented ==
    <<Comment("file"), Blank, Comment("a"), Section("a"), Comment("k"), Blank, Comment("k"),
      Entry("k", "v"), Section("b"), Section("a"), Entry("k", " v")>>

\* Keys in front of the first section, one of them twice, and lines that say nothing.
Nameless == <<Entry("k", "v"), Word("w"), Entry("l", ""), Line("word", "=", "v"), Entry("k", "w")>>

\* A section name that nothing closes.
Unclosed == <<Section("a"), Open("b"), Word("w"), Entry("k", "v"), Entry("l", "w")>>

\* The same, and a comment closes it.
ClosedLate == <<Open("b"), Comment("x"), Entry("k", "<<<END_OF_TEXT"), Word("v")>>

\* Values of several lines, one of them of none.
MultiLines ==
    <<Section("a"), Entry("k", "<<<END"), Word("v"), Blank, Word("END"),
      Entry("l", "<<<END"), Word("END"), Entry("m", "v")>>

\* A value with white space, and one with the line that ends a value that is saved.
EndTagInside ==
    <<Entry("k", "<<<END"), Word(" v"), Word("END"),
      Entry("l", "<<<END"), Word("v"), Word("END_OF_TEXT"), Word("END")>>

\* The search for entries ends at an empty tag and an empty line.
EmptyTag == <<Entry("k", "v"), Entry("l", "<<<"), Blank, Entry("m", "v")>>

MCTexts == {Commented, Nameless, Unclosed, ClosedLate, MultiLines, EndTagInside, EmptyTag}
=============================================================================
