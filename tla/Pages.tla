-------------------------------- MODULE Pages --------------------------------
(***************************************************************************)
(* The files of a content tree and what a writing command makes of them    *)
(* (crates/cli/src/cmd/{apply,edit,patch,delete}.rs, content.rs).          *)
(*                                                                         *)
(* A page is a manifest and the markdown it names, a file beside it, or    *)
(* holds its markdown inline.  A manifest is what the commands look at:    *)
(* which file it names, and the rest of its text.                          *)
(***************************************************************************)
CONSTANTS
  Names,        \* The pages, and the names of markdown files.
  Texts,        \* What a file may say.
  Absent,       \* No file.
  Inline,       \* A manifest that names no file.
  Kept,         \* A field that a patch does not name.
  Commands,     \* The commands that are run.
  Initial,      \* The tree the branch begins with.
  Pushed        \* The trees that others push.

Yaml(n) == <<"yaml", n>>

Md(n) == <<"md", n>>

Files == {Yaml(n) : n \in Names} \union {Md(n) : n \in Names}

Manifests == [text : Texts, file : Names \union {Inline}]

Contents == Manifests \union Texts \union {Absent}

\* What each kind of file may say.
Fits(files) ==
  \A f \in DOMAIN files :
    files[f] \in (IF f[1] = "yaml" THEN Manifests ELSE Texts) \union {Absent}

\* A commit's tree: which file says what.
Trees == {tree \in [Files -> Contents] : Fits(tree)}

\* A set of changes: Absent removes the file.
ChangeSets == {changes \in UNION {[F -> Contents] : F \in SUBSET Files} : Fits(changes)}

\* The markdown a manifest names, read without checking the rest.
NamedContent(manifest) ==
  IF manifest = Absent THEN {}
  ELSE IF manifest.file = Inline THEN {} ELSE {Md(manifest.file)}

\* What `apply` collects from its arguments: manifests that exist, each with the
\* markdown it names when that is beside it, and no markdown that none names.
Collected(files) ==
  /\ \A f \in DOMAIN files : files[f] # Absent
  /\ \A n \in Names :
       Md(n) \in DOMAIN files =>
         \E m \in Names : Yaml(m) \in DOMAIN files /\ Md(n) \in NamedContent(files[Yaml(m)])

ApplyCommand == [verb : {"apply"}, files : {files \in ChangeSets : Collected(files)}]

\* The editor's result, one that validates.
EditCommand == [verb : {"edit"}, name : Names, to : Manifests]

EditContentCommand == [verb : {"edit_content"}, name : Names, to : Texts]

\* A merge patch over the fields of a manifest.
PatchCommand ==
  [verb : {"patch"}, name : Names, text : Texts \union {Kept},
   file : Names \union {Inline, Kept}]

DeleteCommand == [verb : {"delete"}, names : SUBSET Names]

-----------------------------------------------------------------------------
(***************************************************************************)
(* The commands, each over the tree of the commit it read.                 *)
(***************************************************************************)
\* A manifest without its markdown beside it needs it on the branch.
ApplyBails(files, tree) ==
  \E n \in Names :
    /\ Yaml(n) \in DOMAIN files
    /\ \E f \in NamedContent(files[Yaml(n)]) : f \notin DOMAIN files /\ tree[f] = Absent

EditContentBails(name, tree) ==
  \/ NamedContent(tree[Yaml(name)]) = {}
  \/ \E f \in NamedContent(tree[Yaml(name)]) : tree[f] = Absent

\* The command stops with an error before it writes anything.
Bails(c, tree) ==
  CASE c.verb = "apply" -> ApplyBails(c.files, tree)
    [] c.verb \in {"edit", "patch"} -> tree[Yaml(c.name)] = Absent
    [] c.verb = "edit_content" -> EditContentBails(c.name, tree)
    [] c.verb = "delete" -> FALSE

\* The manifest with the patch merged in: a field it does not name is kept.
Merged(manifest, patch) ==
  [text |-> IF patch.text = Kept THEN manifest.text ELSE patch.text,
   file |-> IF patch.file = Kept THEN manifest.file ELSE patch.file]

\* Mutant of Deletes: the manifest alone goes.
DeletesManifests(names, tree) ==
  [f \in {Yaml(n) : n \in {m \in names : tree[Yaml(m)] # Absent}} |-> Absent]

\* A manifest that exists goes with the markdown it names; a missing one is
\* reported and the others go all the same.
Deletes(names, tree) ==
  LET found == {n \in names : tree[Yaml(n)] # Absent}
      markdown == {f \in UNION {NamedContent(tree[Yaml(n)]) : n \in found} : tree[f] # Absent}
  IN [f \in {Yaml(n) : n \in found} \union markdown |-> Absent]

\* What the files are to be.
Wants(c, tree) ==
  CASE c.verb = "apply" -> c.files
    [] c.verb = "edit" -> [f \in {Yaml(c.name)} |-> c.to]
    [] c.verb = "edit_content" -> [f \in NamedContent(tree[Yaml(c.name)]) |-> c.to]
    [] c.verb = "patch" -> [f \in {Yaml(c.name)} |-> Merged(tree[Yaml(c.name)], c)]
    [] c.verb = "delete" -> Deletes(c.names, tree)

\* Mutant of Changes: files that are so already are written too.
ChangesAll(c, tree) == Wants(c, tree)

\* Files that are so already are left out.
Changes(c, tree) ==
  [f \in {g \in DOMAIN Wants(c, tree) : Wants(c, tree)[g] # tree[g]} |-> Wants(c, tree)[f]]

\* A tree built on a base tree.
Overlay(tree, changes) ==
  [f \in Files |-> IF f \in DOMAIN changes THEN changes[f] ELSE tree[f]]

\* What a command that does not bail makes of a tree.
Result(c, tree) == Overlay(tree, Changes(c, tree))

\* The server's check of a tree: every markdown that is named exists, and every
\* one that exists is named.
Whole(tree) ==
  \A m \in Names :
    tree[Md(m)] # Absent <=> \E n \in Names : Md(m) \in NamedContent(tree[Yaml(n)])

ASSUME PagesAssumption ==
  /\ Commands \subseteq ApplyCommand \union EditCommand \union EditContentCommand
                          \union PatchCommand \union DeleteCommand
  /\ Initial \in Trees /\ Pushed \subseteq Trees
  /\ Absent \notin Manifests \union Texts /\ Inline \notin Names
=============================================================================
