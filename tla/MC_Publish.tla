------------------------------ MODULE MC_Publish ------------------------------
(* Small instances of Publish for TLC. *)
EXTENDS Publish, TLC

CONSTANTS p, q, t, u

MCNames == {p, q}

MCTexts == {t, u}

Manifest(text, file) == [text |-> text, file |-> file]

\* The page p with its markdown.
MCInitial ==
  [f \in Files |->
     CASE f = Yaml(p) -> Manifest(t, p) [] f = Md(p) -> t [] OTHER -> Absent]

\* Every page is gone.
MCPushed == {[f \in Files |-> Absent]}

Apply(files) == [verb |-> "apply", files |-> files]

\* Each verb: p is rewritten, turned inline, patched, gone; q is created.
MCCommands ==
  {Apply(Yaml(p) :> Manifest(u, p)),
   Apply(Yaml(q) :> Manifest(t, q) @@ Md(q) :> t),
   [verb |-> "edit", name |-> p, to |-> Manifest(t, Inline)],
   [verb |-> "edit_content", name |-> p, to |-> u],
   [verb |-> "patch", name |-> p, text |-> u, file |-> Kept],
   [verb |-> "delete", names |-> {p, q}]}

Symmetry == Permutations(Writers)
=============================================================================
