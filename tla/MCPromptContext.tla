--------------------------- MODULE MCPromptContext ---------------------------
(* An instance of PromptContext: two entries, a convention of this project    *)
(* and a pitfall of another one.                                              *)
EXTENDS PromptContext, TLC

CONSTANTS w1, t1, t2, s1, conv, other

OneWriter == {w1}
Texts == {t1, t2}
OneSession == {s1}
Entries == {conv, other}
Shapes ==
  (conv :> [scope |-> "project", category |-> "convention", project |-> "here"])
  @@ (other :> [scope |-> "project", category |-> "failure", project |-> "there"])
Nothing == {}
\* The shipped mode, and the one that tells whole entries.
Starts == [mode: {"digest", "full"}, notes: {TRUE}, hits: {TRUE}, identity: {TRUE}]

=============================================================================
