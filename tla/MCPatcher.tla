------------------------------ MODULE MCPatcher ------------------------------
(* A small instance of Patcher for TLC. *)
EXTENDS Patcher

NoWords == [w \in {} |-> ""]

MCTruth == ("true" :> TRUE) @@ ("false" :> FALSE) @@ ("t" :> TRUE) @@ ("f" :> FALSE)

\* One cut word each; nothing behind "=" is the empty word.
Cut(value, text) == value :> {text}

MCCutTo == Cut("true", "") @@ Cut("false", "f")

\* Two options turned round, one of them given twice, and one with a word that says nothing.
Good ==
    <<Comment("mine"), Section("arrowgene"), Entry("hook_vdisk", "false"),
      Entry("disable_hackshield", "false"), Entry("hook_vdisk", "true"),
      Entry("offline", "maybe")>>

\* A section that is not the patcher's, and the patcher's, not closed.
Unclosed == <<Section("other"), Entry("offline", "false"), Open("arrowgene"), Entry("hook_vdisk", "true")>>

\* An empty file, too, is what a game leaves that dies early.
MCUserTexts == {Good, Unclosed}
=============================================================================
