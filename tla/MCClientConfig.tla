---------------------------- MODULE MCClientConfig ----------------------------
(* Two runs of init, an editor that breaks, blanks and extends the file. *)
EXTENDS ClientConfig, TLC

CONSTANTS i1, i2, cursor, vscode, theme

MCContents ==
  {[shape |-> s, settings |-> x, nodered |-> Missing] :
     s \in {"object", "invalid"}, x \in {{theme}, {theme, Wide}}}
  \cup {[shape |-> "wrong", settings |-> {theme}, nodered |-> Missing],
        [shape |-> "object", settings |-> {}, nodered |-> Missing], Blank}
Identical == Permutations(Inits)
=============================================================================
