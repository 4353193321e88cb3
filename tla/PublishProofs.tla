---------------------------- MODULE PublishProofs ----------------------------
(***************************************************************************)
(* Theorems about Publish, for every value of the constants.               *)
(*                                                                         *)
(* While nobody forces the branch back it is a line (Linear), and a commit *)
(* that a run built has the commit it read and all before it as ancestors  *)
(* (Built).  A commit that was made since is at the head and not among     *)
(* them, so that the branch moves forward to the run's commit only from    *)
(* the one it read (ForwardIsFromHead): what the command made of the tree  *)
(* it read is what it makes of the tree the branch shows.                  *)
(***************************************************************************)
EXTENDS Publish, TLAPS

-----------------------------------------------------------------------------
(***************************************************************************)
(* The files of a tree.                                                    *)
(***************************************************************************)
\* A file is a manifest or a markdown, and a tree holds it accordingly.
LEMMA Kinds ==
  ASSUME NEW tree \in Trees, NEW n \in Names
  PROVE  /\ tree[Yaml(n)] \in Manifests \union {Absent}
         /\ tree[Md(n)] \in Texts \union {Absent}
         /\ NamedContent(tree[Yaml(n)]) \subseteq {Md(m) : m \in Names}
<1>1. Yaml(n) \in Files /\ Md(n) \in Files /\ DOMAIN tree = Files
  BY DEF Files, Trees
<1>2. tree[Yaml(n)] \in Manifests \union {Absent}
  BY <1>1 DEF Trees, Fits, Yaml
<1>3. tree[Md(n)] \in Texts \union {Absent}
  BY <1>1 DEF Trees, Fits, Md
<1>4. NamedContent(tree[Yaml(n)]) \subseteq {Md(m) : m \in Names}
  BY <1>2 DEF NamedContent, Manifests
<1> QED  BY <1>2, <1>3, <1>4

\* Changes of some files that fit their kind are a set of changes.
LEMMA Fitting ==
  ASSUME NEW F \in SUBSET Files, NEW changes, DOMAIN changes = F,
         changes = [f \in F |-> changes[f]], Fits(changes)
  PROVE  changes \in ChangeSets
<1>1. \A f \in F : changes[f] \in Contents
  BY DEF Fits, Contents
<1>2. changes \in [F -> Contents]
  BY <1>1
<1> QED  BY <1>2 DEF ChangeSets

\* A tree built on a tree is a tree.
LEMMA OverlayTyped ==
  ASSUME NEW tree \in Trees, NEW changes \in ChangeSets
  PROVE  Overlay(tree, changes) \in Trees
<1>1. DOMAIN changes \subseteq Files /\ Fits(changes)
  BY DEF ChangeSets
<1>2. \A f \in Files : Overlay(tree, changes)[f] =
                         IF f \in DOMAIN changes THEN changes[f] ELSE tree[f]
  BY DEF Overlay
<1>3. DOMAIN tree = Files /\ Fits(tree)
  BY DEF Trees
<1>4. \A f \in Files :
        Overlay(tree, changes)[f] \in
          (IF f[1] = "yaml" THEN Manifests ELSE Texts) \union {Absent}
  BY <1>1, <1>2, <1>3 DEF Fits
<1>5. DOMAIN Overlay(tree, changes) = Files
  BY DEF Overlay
<1>6. Fits(Overlay(tree, changes))
  BY <1>4, <1>5 DEF Fits
<1>7. Overlay(tree, changes) \in [Files -> Contents]
  <2>1. \A f \in Files : Overlay(tree, changes)[f] \in Contents
    BY <1>4 DEF Contents
  <2> QED  BY <2>1 DEF Overlay
<1> QED  BY <1>6, <1>7 DEF Trees

\* Changes that say something else than the tree make another tree of it.
LEMMA OverlayDiffers ==
  ASSUME NEW tree \in Trees, NEW changes \in ChangeSets, DOMAIN changes # {},
         \A f \in DOMAIN changes : changes[f] # tree[f]
  PROVE  Overlay(tree, changes) # tree
<1>1. PICK f \in DOMAIN changes : TRUE
  OBVIOUS
<1>2. f \in Files
  BY DEF ChangeSets
<1>3. Overlay(tree, changes)[f] = changes[f]
  BY <1>2 DEF Overlay
<1> QED  BY <1>1, <1>3

\* What a command that does not bail wants of the files is a set of changes.
LEMMA WantsTyped ==
  ASSUME NEW c \in Commands, NEW tree \in Trees, ~Bails(c, tree)
  PROVE  Wants(c, tree) \in ChangeSets
<1>1. c \in ApplyCommand \union EditCommand \union EditContentCommand
              \union PatchCommand \union DeleteCommand
  BY PagesAssumption
<1>2. CASE c \in ApplyCommand
  <2>1. Wants(c, tree) = c.files
    BY <1>2 DEF Wants, ApplyCommand
  <2> QED  BY <1>2, <2>1 DEF ApplyCommand
<1>3. CASE c \in EditCommand
  <2>1. c.name \in Names /\ c.to \in Manifests /\ c.verb = "edit"
    BY <1>3 DEF EditCommand
  <2> DEFINE w == [f \in {Yaml(c.name)} |-> c.to]
  <2>2. Wants(c, tree) = w
    BY <2>1 DEF Wants
  <2>3. {Yaml(c.name)} \subseteq Files /\ Fits(w)
    BY <2>1 DEF Files, Fits, Yaml
  <2> QED  BY <2>2, <2>3, Fitting
<1>4. CASE c \in EditContentCommand
  <2>1. c.name \in Names /\ c.to \in Texts /\ c.verb = "edit_content"
    BY <1>4 DEF EditContentCommand
  <2> DEFINE F == NamedContent(tree[Yaml(c.name)])
             w == [f \in F |-> c.to]
  <2>2. Wants(c, tree) = w
    BY <2>1 DEF Wants
  <2>3. F \subseteq {Md(m) : m \in Names}
    BY <2>1, Kinds
  <2>4. F \subseteq Files
    BY <2>3 DEF Files
  <2>5. Fits(w)
    BY <2>1, <2>3 DEF Fits, Md
  <2> QED  BY <2>2, <2>4, <2>5, Fitting
<1>5. CASE c \in PatchCommand
  <2>1. /\ c.name \in Names /\ c.verb = "patch"
        /\ c.text \in Texts \union {Kept} /\ c.file \in Names \union {Inline, Kept}
    BY <1>5 DEF PatchCommand
  <2> DEFINE m == tree[Yaml(c.name)]
             w == [f \in {Yaml(c.name)} |-> Merged(m, c)]
  <2>2. m \in Manifests
    BY <2>1, Kinds DEF Bails
  <2>3. Merged(m, c) \in Manifests
    BY <2>1, <2>2 DEF Merged, Manifests
  <2>4. Wants(c, tree) = w
    BY <2>1 DEF Wants
  <2>5. {Yaml(c.name)} \subseteq Files /\ Fits(w)
    BY <2>1, <2>3 DEF Files, Fits, Yaml
  <2> QED  BY <2>4, <2>5, Fitting
<1>6. CASE c \in DeleteCommand
  <2>1. c.names \subseteq Names /\ c.verb = "delete"
    BY <1>6 DEF DeleteCommand
  <2> DEFINE w == Deletes(c.names, tree)
  <2>2. Wants(c, tree) = w
    BY <2>1 DEF Wants
  <2>3. DOMAIN w \subseteq Files
    BY <2>1, Kinds DEF Deletes, Files
  <2>4. w = [f \in DOMAIN w |-> Absent]
    BY DEF Deletes
  <2>5. w = [f \in DOMAIN w |-> w[f]] /\ Fits(w)
    BY <2>4 DEF Fits
  <2> HIDE DEF w
  <2> QED  BY <2>2, <2>3, <2>5, Fitting
<1> QED  BY <1>1, <1>2, <1>3, <1>4, <1>5, <1>6

\* So are its changes, and each of them says something new.
LEMMA ChangesTyped ==
  ASSUME NEW c \in Commands, NEW tree \in Trees, ~Bails(c, tree)
  PROVE  /\ Changes(c, tree) \in ChangeSets
         /\ \A f \in DOMAIN Changes(c, tree) : Changes(c, tree)[f] # tree[f]
<1> DEFINE w == Wants(c, tree)
           F == {g \in DOMAIN w : w[g] # tree[g]}
           ch == Changes(c, tree)
<1>1. w \in ChangeSets
  BY WantsTyped
<1>2. F \subseteq Files /\ Fits(w)
  BY <1>1 DEF ChangeSets
<1>3. ch = [f \in F |-> w[f]]
  BY DEF Changes
<1>4. Fits(ch)
  BY <1>2, <1>3 DEF Fits
<1>5. ch \in ChangeSets
  BY <1>2, <1>3, <1>4, Fitting
<1> QED  BY <1>3, <1>5

\* What a file says after a command.
LEMMA ResultAt ==
  ASSUME NEW c, NEW tree, NEW f \in Files
  PROVE  Result(c, tree)[f] = IF f \in DOMAIN Wants(c, tree) THEN Wants(c, tree)[f]
                                                           ELSE tree[f]
BY DEF Result, Overlay, Changes

\* A page that stays and keeps the file it names, names the markdown it named.
LEMMA SameNamed ==
  ASSUME NEW old, NEW new, SameFiles(old, new), NEW n \in Names,
         old[Yaml(n)] # Absent, new[Yaml(n)] # Absent
  PROVE  NamedContent(new[Yaml(n)]) = NamedContent(old[Yaml(n)])
<1>1. old[Yaml(n)].file = new[Yaml(n)].file
  BY DEF SameFiles
<1> QED  BY <1>1 DEF NamedContent

\* A command that removes nothing leaves a whole tree whole, if the markdown it
\* writes is named afterwards and what its manifests name exists afterwards.
LEMMA WritingKeepsWhole ==
  ASSUME NEW old, NEW new, NEW w, Whole(old), SameFiles(old, new),
         \A f \in Files : new[f] = IF f \in DOMAIN w THEN w[f] ELSE old[f],
         \A f \in DOMAIN w : w[f] # Absent,
         \A m \in Names : Md(m) \in DOMAIN w =>
           \E n \in Names : Md(m) \in NamedContent(new[Yaml(n)]),
         \A m, n \in Names :
           Yaml(n) \in DOMAIN w /\ Md(m) \in NamedContent(w[Yaml(n)]) => new[Md(m)] # Absent
  PROVE  Whole(new)
<1> SUFFICES ASSUME NEW m \in Names
             PROVE  new[Md(m)] # Absent <=>
                      \E n \in Names : Md(m) \in NamedContent(new[Yaml(n)])
  BY DEF Whole
<1>0. /\ Md(m) \in Files /\ \A n \in Names : Yaml(n) \in Files
      /\ old[Md(m)] # Absent <=> \E n \in Names : Md(m) \in NamedContent(old[Yaml(n)])
  BY DEF Files, Whole
<1>1. ASSUME new[Md(m)] # Absent, Md(m) \notin DOMAIN w
      PROVE  \E n \in Names : Md(m) \in NamedContent(new[Yaml(n)])
  <2>1. old[Md(m)] # Absent
    BY <1>0, <1>1
  <2>2. PICK n \in Names : Md(m) \in NamedContent(old[Yaml(n)])
    BY <1>0, <2>1
  <2>3. old[Yaml(n)] # Absent
    BY <2>2 DEF NamedContent
  <2>4. new[Yaml(n)] # Absent
    BY <1>0, <2>3
  <2> QED  BY <2>2, <2>3, <2>4, SameNamed
<1>2. ASSUME NEW n \in Names, Md(m) \in NamedContent(new[Yaml(n)])
      PROVE  new[Md(m)] # Absent
  <2>1. CASE Yaml(n) \in DOMAIN w
    BY <1>0, <1>2, <2>1
  <2>2. CASE Yaml(n) \notin DOMAIN w
    <3>1. old[Md(m)] # Absent
      BY <1>0, <1>2, <2>2
    <3> QED  BY <1>0, <3>1
  <2> QED  BY <2>1, <2>2
<1> QED  BY <1>1, <1>2

\* What a command makes of a whole tree is whole, unless a page changes the file
\* it names or two pages share one.
LEMMA ResultIsWhole ==
  ASSUME NEW c \in Commands, NEW tree \in Trees, ~Bails(c, tree),
         Whole(tree), ~Shares(tree), SameFiles(tree, Result(c, tree))
  PROVE  Whole(Result(c, tree))
<1> DEFINE new == Result(c, tree)
           w == Wants(c, tree)
<1>0. /\ c \in ApplyCommand \union EditCommand \union EditContentCommand
               \union PatchCommand \union DeleteCommand
      /\ Absent \notin Manifests \union Texts
  BY PagesAssumption
<1>1. \A f \in Files : new[f] = IF f \in DOMAIN w THEN w[f] ELSE tree[f]
  BY ResultAt
<1>2. \A n \in Names : Yaml(n) \in Files /\ Md(n) \in Files
  BY DEF Files
<1>3. \A m, n \in Names : Yaml(m) # Md(n)
  BY DEF Yaml, Md
<1>4. \A n \in Names :
        tree[Yaml(n)] # Absent /\ new[Yaml(n)] # Absent
          => NamedContent(new[Yaml(n)]) = NamedContent(tree[Yaml(n)])
  BY SameNamed
<1> HIDE DEF new, w
<1>5. ASSUME c \in ApplyCommand
      PROVE  Whole(new)
  <2>1. c.verb = "apply" /\ Collected(c.files)
    BY <1>5 DEF ApplyCommand
  <2>2. w = c.files /\ ~ApplyBails(w, tree)
    BY <2>1 DEF w, Wants, Bails
  <2>3. Collected(w)
    BY <2>1, <2>2
  <2>4. \A f \in DOMAIN w : w[f] # Absent
    BY <2>3 DEF Collected
  <2>5. ASSUME NEW m \in Names, Md(m) \in DOMAIN w
        PROVE  \E n \in Names : Md(m) \in NamedContent(new[Yaml(n)])
    <3>1. PICK n \in Names : Yaml(n) \in DOMAIN w /\ Md(m) \in NamedContent(w[Yaml(n)])
      BY <2>3, <2>5 DEF Collected
    <3>2. new[Yaml(n)] = w[Yaml(n)]
      BY <1>1, <1>2, <3>1
    <3> QED  BY <3>1, <3>2
  <2>6. ASSUME NEW m \in Names, NEW n \in Names,
               Yaml(n) \in DOMAIN w, Md(m) \in NamedContent(w[Yaml(n)])
        PROVE  new[Md(m)] # Absent
    <3>1. Md(m) \in DOMAIN w \/ tree[Md(m)] # Absent
      BY <2>2, <2>6 DEF ApplyBails
    <3> QED  BY <1>1, <1>2, <2>4, <3>1
  <2> QED  BY <1>1, <2>4, <2>5, <2>6, WritingKeepsWhole DEF new
<1>6. ASSUME c \in EditCommand \union PatchCommand
      PROVE  Whole(new)
  <2>1. /\ c.name \in Names /\ c.verb \in {"edit", "patch"}
        /\ tree[Yaml(c.name)] # Absent
    BY <1>6 DEF EditCommand, PatchCommand, Bails
  <2>2. DOMAIN w = {Yaml(c.name)} /\ w[Yaml(c.name)] # Absent
    <3>1. CASE c \in EditCommand
      <4>1. w = [f \in {Yaml(c.name)} |-> c.to] /\ c.to \in Manifests
        BY <3>1 DEF EditCommand, w, Wants
      <4> QED  BY <1>0, <4>1
    <3>2. CASE c \in PatchCommand
      <4>1. /\ c.verb = "patch" /\ c.text \in Texts \union {Kept}
            /\ c.file \in Names \union {Inline, Kept}
        BY <3>2 DEF PatchCommand
      <4>2. tree[Yaml(c.name)] \in Manifests
        BY <2>1, Kinds
      <4>3. Merged(tree[Yaml(c.name)], c) \in Manifests
        BY <4>1, <4>2 DEF Merged, Manifests
      <4>4. w = [f \in {Yaml(c.name)} |-> Merged(tree[Yaml(c.name)], c)]
        BY <4>1 DEF w, Wants
      <4> QED  BY <1>0, <4>3, <4>4
    <3> QED  BY <1>6, <3>1, <3>2
  <2>3. \A f \in DOMAIN w : w[f] # Absent
    BY <2>2
  <2>4. \A m \in Names : Md(m) \notin DOMAIN w
    BY <1>3, <2>1, <2>2
  <2>5. ASSUME NEW m \in Names, NEW n \in Names,
               Yaml(n) \in DOMAIN w, Md(m) \in NamedContent(w[Yaml(n)])
        PROVE  new[Md(m)] # Absent
    <3>1. new[Yaml(n)] = w[Yaml(n)] /\ new[Yaml(n)] # Absent /\ tree[Yaml(n)] # Absent
      BY <1>1, <1>2, <2>1, <2>2, <2>5
    <3>2. Md(m) \in NamedContent(tree[Yaml(n)])
      BY <1>4, <2>5, <3>1
    <3>3. tree[Md(m)] # Absent
      BY <3>2 DEF Whole
    <3> QED  BY <1>1, <1>2, <2>4, <3>3
  <2> QED  BY <1>1, <2>3, <2>4, <2>5, WritingKeepsWhole DEF new
<1>7. ASSUME c \in EditContentCommand
      PROVE  Whole(new)
  <2> DEFINE F == NamedContent(tree[Yaml(c.name)])
  <2>1. c.name \in Names /\ c.to \in Texts /\ c.verb = "edit_content"
    BY <1>7 DEF EditContentCommand
  <2>2. w = [f \in F |-> c.to]
    BY <2>1 DEF w, Wants
  <2>3. \A f \in DOMAIN w : w[f] # Absent
    BY <1>0, <2>1, <2>2
  <2>4. F \subseteq {Md(m) : m \in Names}
    BY <2>1, Kinds
  <2>5. \A n \in Names : Yaml(n) \notin DOMAIN w
    BY <1>3, <2>2, <2>4
  <2>6. ASSUME NEW m \in Names, Md(m) \in DOMAIN w
        PROVE  \E n \in Names : Md(m) \in NamedContent(new[Yaml(n)])
    <3>1. new[Yaml(c.name)] = tree[Yaml(c.name)]
      BY <1>1, <1>2, <2>1, <2>5
    <3> QED  BY <2>1, <2>2, <2>6, <3>1
  <2> QED  BY <1>1, <2>3, <2>5, <2>6, WritingKeepsWhole DEF new
<1>8. ASSUME c \in DeleteCommand
      PROVE  Whole(new)
  <2> DEFINE found == {n \in c.names : tree[Yaml(n)] # Absent}
  <2>1. c.verb = "delete" /\ c.names \subseteq Names
    BY <1>8 DEF DeleteCommand
  <2>2. w = Deletes(c.names, tree)
    BY <2>1 DEF w, Wants
  <2>3. \A f \in DOMAIN w : w[f] = Absent
    BY <2>2 DEF Deletes
  <2>4. \A f : f \in DOMAIN w <=>
                \/ \E n \in found : f = Yaml(n)
                \/ \E n \in found : f \in NamedContent(tree[Yaml(n)]) /\ tree[f] # Absent
    BY <2>2 DEF Deletes
  <2> SUFFICES ASSUME NEW m \in Names
               PROVE  new[Md(m)] # Absent <=>
                        \E n \in Names : Md(m) \in NamedContent(new[Yaml(n)])
    BY DEF Whole
  <2>5. tree[Md(m)] # Absent <=> \E n \in Names : Md(m) \in NamedContent(tree[Yaml(n)])
    BY DEF Whole
  <2>6. \A n \in Names : Md(m) \in NamedContent(tree[Yaml(n)]) => tree[Yaml(n)] # Absent
    BY DEF NamedContent
  <2>7. \A n \in Names : Yaml(n) \in DOMAIN w => tree[Yaml(n)] = Absent \/ n \in c.names
    <3> SUFFICES ASSUME NEW n \in Names, Yaml(n) \in DOMAIN w
                 PROVE  n \in c.names
      OBVIOUS
    <3>1. \A k \in found : Yaml(n) \notin NamedContent(tree[Yaml(k)])
      BY <1>3, <2>1, Kinds
    <3>2. PICK k \in found : Yaml(n) = Yaml(k)
      BY <2>4, <3>1
    <3> QED  BY <3>2 DEF Yaml
  <2>8. ASSUME new[Md(m)] # Absent
        PROVE  \E n \in Names : Md(m) \in NamedContent(new[Yaml(n)])
    <3>1. Md(m) \notin DOMAIN w /\ tree[Md(m)] # Absent
      BY <1>1, <1>2, <2>3, <2>8
    <3>2. PICK n \in Names : Md(m) \in NamedContent(tree[Yaml(n)]) /\ tree[Yaml(n)] # Absent
      BY <2>5, <2>6, <3>1
    <3>3. n \notin found
      BY <2>4, <3>1, <3>2
    <3>4. Yaml(n) \notin DOMAIN w
      BY <2>7, <3>2, <3>3
    <3> QED  BY <1>1, <1>2, <3>2, <3>4
  <2>9. ASSUME NEW n \in Names, Md(m) \in NamedContent(new[Yaml(n)])
        PROVE  new[Md(m)] # Absent
    <3>1. new[Yaml(n)] # Absent
      BY <2>9 DEF NamedContent
    <3>2. Yaml(n) \notin DOMAIN w /\ new[Yaml(n)] = tree[Yaml(n)]
      BY <1>1, <1>2, <2>3, <3>1
    <3>3. tree[Md(m)] # Absent
      BY <2>5, <2>9, <3>2
    <3>4. n \notin found
      BY <2>4, <3>2
    <3>5. \A k \in found : Md(m) \notin NamedContent(tree[Yaml(k)])
      BY <2>1, <2>9, <3>2, <3>4 DEF Shares
    <3>6. Md(m) \notin DOMAIN w
      BY <1>3, <2>1, <2>4, <3>5
    <3> QED  BY <1>1, <1>2, <3>3, <3>6
  <2> QED  BY <2>8, <2>9
<1> QED  BY <1>0, <1>5, <1>6, <1>7, <1>8 DEF new

-----------------------------------------------------------------------------
(***************************************************************************)
(* The inductive invariant.                                                *)
(***************************************************************************)
\* The branch is a line: it shows every commit that was ever made on it.
Linear == head = made /\ \A c \in 1 .. made : before[c] = 1 .. (c - 1)

\* What a run holds comes of a command over the tree of the commit it read.
Planned(r) ==
  \E c \in Commands :
    /\ ~Bails(c, trees[r.parent])
    /\ r.changes = Changes(c, trees[r.parent])

Built(r) ==
  /\ r.commit.before = 1 .. r.parent
  /\ r.commit.tree # trees[r.parent]
  /\ \E c \in Commands :
       /\ ~Bails(c, trees[r.parent])
       /\ r.commit.tree = Overlay(trees[r.parent], Changes(c, trees[r.parent]))

RunsFit ==
  \A w \in Writers :
    /\ At(w, "commit") => Planned(run[w])
    /\ At(w, "move") => Built(run[w])

\* Only commits that were made are told of, and only sound ones as synced.
ToldFits ==
  \A c \in Commits :
    /\ told[c] # None => c \in 1 .. made
    /\ told[c] = "synced" => Whole(trees[c])

IInv == TypeOK /\ Linear /\ RunsFit /\ ToldFits

LEMMA InitHolds == Init => IInv
<1> SUFFICES ASSUME Init PROVE IInv
  OBVIOUS
<1> USE PagesAssumption, PublishAssumption DEF Init
<1>1. TypeOK
  BY DEF TypeOK, Commits
<1>2. Linear
  BY DEF Linear, Commits
<1>3. RunsFit
  BY DEF RunsFit, At
<1>4. ToldFits
  BY DEF ToldFits
<1> QED  BY <1>1, <1>2, <1>3, <1>4 DEF IInv

\* A run that goes on, and the others as they were: what holds of each run
\* holds of all.
LEMMA RunsTyped ==
  ASSUME TypeOK, NEW w \in Writers, NEW r, r = None \/ (r \in RunType /\ RunOK(r)),
         run' = [run EXCEPT ![w] = r], made' \in Nat, made' >= made
  PROVE  /\ run' \in [Writers -> RunType \union {None}]
         /\ \A v \in Writers : run'[v] # None => RunOK(run[v])'
<1>1. run' \in [Writers -> RunType \union {None}]
  BY DEF TypeOK
<1>2. ASSUME NEW v \in Writers, run'[v] # None PROVE RunOK(run[v])'
  <2>1. CASE v = w
    <3>1. run'[v] = r /\ RunOK(r)
      BY <1>2, <2>1 DEF TypeOK
    <3> QED  BY <3>1 DEF RunOK, TypeOK, Commits
  <2>2. CASE v # w
    <3>1. run'[v] = run[v] /\ RunOK(run[v])
      BY <1>2, <2>2 DEF TypeOK
    <3> QED  BY <3>1, PublishAssumption DEF RunOK, TypeOK, Commits
  <2> QED  BY <2>1, <2>2
<1> QED  BY <1>1, <1>2

\* So does the invariant of runs, as the tree of a commit never changes.
LEMMA RunsStayFit ==
  ASSUME TypeOK, RunsFit, NEW w \in Writers, NEW r, run' = [run EXCEPT ![w] = r],
         \A c \in 1 .. made : trees'[c] = trees[c],
         r # None /\ r.step = "commit" => Planned(r)',
         r # None /\ r.step = "move" => Built(r)'
  PROVE  RunsFit'
<1> SUFFICES ASSUME NEW v \in Writers
             PROVE  /\ At(v, "commit")' => Planned(run[v])'
                    /\ At(v, "move")' => Built(run[v])'
  BY DEF RunsFit
<1>1. CASE v = w
  <2>1. run'[v] = r
    BY <1>1 DEF TypeOK
  <2> QED  BY <2>1 DEF At, Planned, Built
<1>2. CASE v # w
  <2>1. run'[v] = run[v]
    BY <1>2 DEF TypeOK
  <2>2. run[v] # None => trees'[run[v].parent] = trees[run[v].parent]
    BY DEF TypeOK, RunOK
  <2> QED  BY <2>1, <2>2 DEF RunsFit, At, Planned, Built
<1> QED  BY <1>1, <1>2

\* A commit that GitHub moves the branch to was built on its head: a line leaves
\* no other commit that it fast-forwards to.
LEMMA ForwardIsFromHead ==
  ASSUME IInv, NEW w \in Writers, At(w, "move"), FastForward(run[w].commit)
  PROVE  /\ run[w].parent = head
         /\ Built(run[w])
         /\ run[w].commit \in CommitType
<1>1. Built(run[w]) /\ run[w].parent \in 1 .. made /\ head = made /\ made \in Nat
  BY PublishAssumption DEF IInv, RunsFit, TypeOK, RunOK, At, Linear, Commits
<1>2. head \in 1 .. run[w].parent
  BY <1>1 DEF FastForward, Built
<1>3. run[w].commit \in CommitType
  BY DEF IInv, TypeOK, RunType, RunOK, At
<1> QED  BY <1>1, <1>2, <1>3

\* The branch stays a line when it moves to a commit on its head.
LEMMA LineGrows ==
  ASSUME TypeOK, Linear, NEW commit \in CommitType, commit.before = 1 .. head,
         MovesTo(commit)
  PROVE  /\ Linear'
         /\ made' \in Commits /\ head' \in 1 .. made' /\ made' = made + 1
         /\ trees' \in [Commits -> Trees]
         /\ before' \in [Commits -> SUBSET Commits]
         /\ trees'[made + 1] = commit.tree
         /\ \A c \in 1 .. made : trees'[c] = trees[c]
<1>1. /\ made \in Nat /\ LastCommit \in Nat /\ head = made /\ made < LastCommit
      /\ made' = made + 1 /\ head' = made + 1
  BY PublishAssumption DEF TypeOK, Linear, MovesTo, Commits
<1>2. made + 1 \in Commits /\ \A c \in 1 .. made : c \in Commits /\ c # made + 1
  BY <1>1 DEF Commits
<1>3. commit.tree \in Trees /\ commit.before \subseteq Commits
  BY DEF CommitType
<1>4. trees' \in [Commits -> Trees] /\ before' \in [Commits -> SUBSET Commits]
  BY <1>3 DEF TypeOK, MovesTo
<1>5. trees'[made + 1] = commit.tree /\ before'[made + 1] = 1 .. made
  BY <1>1, <1>2 DEF TypeOK, MovesTo
<1>6. \A c \in 1 .. made : trees'[c] = trees[c] /\ before'[c] = before[c]
  BY <1>2 DEF TypeOK, MovesTo
<1>7. \A c \in 1 .. made' : before'[c] = 1 .. (c - 1)
  <2> SUFFICES ASSUME NEW c \in 1 .. made' PROVE before'[c] = 1 .. (c - 1)
    OBVIOUS
  <2>1. CASE c = made + 1
    BY <1>1, <1>5, <2>1
  <2>2. CASE c # made + 1
    BY <1>1, <1>6, <2>2 DEF Linear
  <2> QED  BY <2>1, <2>2
<1>8. Linear'
  BY <1>1, <1>7 DEF Linear
<1> QED  BY <1>1, <1>2, <1>4, <1>5, <1>6, <1>8 DEF Commits

\* What was told of earlier commits stays sound when the branch grows.
LEMMA ToldStaysFit ==
  ASSUME TypeOK, ToldFits, made' = made + 1,
         \A c \in 1 .. made : trees'[c] = trees[c],
         \/ told' = told
         \/ made + 1 \in Commits /\ told' = [told EXCEPT ![made + 1] = "committed"]
  PROVE  ToldFits' /\ told' \in [Commits -> {None, "committed", "synced"}]
<1>0. made \in Nat
  BY PublishAssumption DEF TypeOK, Commits
<1>1. told' \in [Commits -> {None, "committed", "synced"}]
  BY DEF TypeOK
<1>2. ASSUME NEW c \in Commits, told'[c] # None PROVE c \in 1 .. made'
  BY <1>0, <1>2 DEF TypeOK, ToldFits
<1>3. ASSUME NEW c \in Commits, told'[c] = "synced" PROVE Whole(trees'[c])
  <2>1. told[c] = "synced"
    BY <1>3 DEF TypeOK
  <2>2. c \in 1 .. made
    BY <2>1, PublishAssumption DEF ToldFits
  <2> QED  BY <2>1, <2>2 DEF ToldFits
<1> QED  BY <1>1, <1>2, <1>3 DEF ToldFits

\* Steps that leave the commits alone and one run as `r`.
LEMMA RunSteps ==
  ASSUME IInv, NEW w \in Writers, NEW r, r = None \/ (r \in RunType /\ RunOK(r)),
         run' = [run EXCEPT ![w] = r],
         UNCHANGED <<head, made, trees, before, told, pushes>>,
         r # None /\ r.step = "commit" => Planned(r),
         r # None /\ r.step = "move" => Built(r)
  PROVE  IInv'
<1>1. made' \in Nat /\ made' >= made
  BY PublishAssumption DEF IInv, TypeOK, Commits
<1>2. TypeOK'
  BY <1>1, RunsTyped DEF IInv, TypeOK
<1>3. Linear' /\ ToldFits'
  BY DEF IInv, Linear, ToldFits
<1>4. RunsFit'
  BY RunsStayFit DEF IInv, Planned, Built
<1> QED  BY <1>2, <1>3, <1>4 DEF IInv

\* Steps that move the branch to a commit on its head.
LEMMA BranchSteps ==
  ASSUME IInv, NEW commit \in CommitType, commit.before = 1 .. head, MovesTo(commit),
         run' \in [Writers -> RunType \union {None}],
         \A v \in Writers : run'[v] # None => RunOK(run[v])',
         RunsFit',
         \/ told' = told
         \/ told' = [told EXCEPT ![made + 1] = "committed"],
         pushes' \in Nat
  PROVE  IInv'
<1>1. /\ Linear'
      /\ made' \in Commits /\ head' \in 1 .. made' /\ made' = made + 1
      /\ trees' \in [Commits -> Trees]
      /\ before' \in [Commits -> SUBSET Commits]
      /\ \A c \in 1 .. made : trees'[c] = trees[c]
  BY LineGrows DEF IInv
<1>2. ToldFits' /\ told' \in [Commits -> {None, "committed", "synced"}]
  BY <1>1, ToldStaysFit DEF IInv
<1> QED  BY <1>1, <1>2 DEF IInv, TypeOK

LEMMA StepHolds == IInv /\ [Next]_vars => IInv'
<1> SUFFICES ASSUME IInv, [Next]_vars PROVE IInv'
  OBVIOUS
<1>0. /\ TypeOK /\ Linear /\ RunsFit /\ ToldFits
      /\ head = made /\ made \in Nat /\ head \in Commits /\ head \in 1 .. made
      /\ History(head) = 1 .. head
  <2>1. TypeOK /\ Linear /\ RunsFit /\ ToldFits
    BY DEF IInv
  <2>2. head = made /\ made \in Nat /\ head \in Commits /\ head \in 1 .. made
    BY <2>1, PublishAssumption DEF TypeOK, Linear, Commits
  <2>3. History(head) = 1 .. head
    BY <2>1, <2>2 DEF Linear, History
  <2> QED  BY <2>1, <2>2, <2>3
<1>1. CASE Push
  <2>1. PICK tree \in Pushed : MovesTo(CommitOn(head, tree))
    BY <1>1 DEF Push
  <2>2. tree \in Trees /\ History(head) \subseteq Commits
    BY <1>0, PagesAssumption DEF History, TypeOK
  <2>3. CommitOn(head, tree) \in CommitType /\ CommitOn(head, tree).before = 1 .. head
    BY <1>0, <2>2 DEF CommitOn, CommitType
  <2>4. /\ made' = made + 1 /\ run' = run /\ told' = told /\ pushes' \in Nat
    BY <1>0, <1>1, <2>1 DEF Push, MovesTo, TypeOK
  <2>5. \A c \in 1 .. made : trees'[c] = trees[c]
    BY <1>0, <2>1, <2>3, LineGrows
  <2>6. /\ run' \in [Writers -> RunType \union {None}]
        /\ \A v \in Writers : run'[v] # None => RunOK(run[v])'
    BY <1>0, <2>4 DEF TypeOK, RunOK
  <2>7. RunsFit'
    <3> SUFFICES ASSUME NEW v \in Writers
                 PROVE  /\ At(v, "commit")' => Planned(run[v])'
                        /\ At(v, "move")' => Built(run[v])'
      BY DEF RunsFit
    <3>1. run[v] # None => trees'[run[v].parent] = trees[run[v].parent]
      BY <1>0, <2>5 DEF TypeOK, RunOK
    <3> QED  BY <1>0, <2>4, <3>1 DEF RunsFit, At, Planned, Built
  <2> QED  BY <2>1, <2>3, <2>4, <2>6, <2>7, BranchSteps
<1>2. ASSUME NEW w \in Writers, NEW c \in Commands, Head(w, c) PROVE IInv'
  <2> DEFINE r == [step |-> "files", parent |-> head, command |-> c, changes |-> None,
                   commit |-> None, moved |-> None]
  <2>1. r \in RunType /\ RunOK(r)
    BY <1>0, PublishAssumption DEF RunType, RunOK, Steps
  <2>2. run' = [run EXCEPT ![w] = r] /\ UNCHANGED <<head, made, trees, before, told, pushes>>
    BY <1>2 DEF Head
  <2>3. r.step = "files"
    OBVIOUS
  <2> HIDE DEF r
  <2> QED  BY <2>1, <2>2, <2>3, RunSteps
<1>3. ASSUME NEW w \in Writers, run' = [run EXCEPT ![w] = None],
             UNCHANGED <<head, made, trees, before, told, pushes>>
      PROVE  IInv'
  <2>1. None = None \/ (None \in RunType /\ RunOK(None))
    OBVIOUS
  <2> QED  BY <1>3, <2>1, RunSteps
<1>4. ASSUME NEW w \in Writers, ReadFiles(w) PROVE IInv'
  <2> DEFINE c == run[w].command
             tree == trees[run[w].parent]
             r == [run[w] EXCEPT !.changes = Changes(c, tree), !.command = None,
                                 !.step = "commit"]
  <2>1. /\ run[w] \in RunType /\ run[w].parent \in 1 .. made /\ run[w].parent \in Commits
        /\ c \in Commands
    BY <1>0, <1>4 DEF ReadFiles, At, TypeOK, RunOK, RunType
  <2>2. tree \in Trees
    BY <1>0, <2>1 DEF TypeOK
  <2>3. UNCHANGED <<head, made, trees, before, told, pushes>>
    BY <1>4 DEF ReadFiles
  <2>4. CASE Bails(c, tree) \/ Unchanged(Changes(c, tree))
    <3>1. run' = [run EXCEPT ![w] = None]
      BY <1>4, <2>4 DEF ReadFiles, Ends
    <3> QED  BY <2>3, <3>1, <1>3
  <2>5. CASE ~Bails(c, tree) /\ ~Unchanged(Changes(c, tree))
    <3>1. run' = [run EXCEPT ![w] = r]
      BY <1>4, <2>5 DEF ReadFiles, TypeOK
    <3>2. Changes(c, tree) \in ChangeSets
      BY <2>1, <2>2, <2>5, ChangesTyped
    <3>3. r \in RunType
      BY <2>1, <3>2 DEF RunType, Steps
    <3>4. RunOK(r)
      BY <2>1, <2>5, <3>2, PublishAssumption DEF RunType, RunOK, Unchanged
    <3>5. r.step = "commit" /\ Planned(r)
      BY <2>1, <2>5 DEF Planned, RunType
    <3> HIDE DEF r
    <3> QED  BY <2>3, <3>1, <3>3, <3>4, <3>5, RunSteps
  <2> QED  BY <2>4, <2>5
<1>5. ASSUME NEW w \in Writers, Commit(w) PROVE IInv'
  <2> DEFINE p == run[w].parent
             ch == run[w].changes
             m == CommitOn(p, Overlay(trees[p], ch))
             r == [run[w] EXCEPT !.commit = m, !.changes = None, !.step = "move"]
  <2>1. /\ run[w] \in RunType /\ p \in 1 .. made /\ p \in Commits
        /\ ch \in ChangeSets /\ DOMAIN ch # {} /\ Planned(run[w])
    BY <1>0, <1>5 DEF Commit, At, TypeOK, RunOK, RunType, RunsFit
  <2>2. trees[p] \in Trees
    BY <1>0, <2>1 DEF TypeOK
  <2>3. PICK c \in Commands : ~Bails(c, trees[p]) /\ ch = Changes(c, trees[p])
    BY <2>1 DEF Planned
  <2>4. Overlay(trees[p], ch) \in Trees /\ Overlay(trees[p], ch) # trees[p]
    BY <2>1, <2>2, <2>3, ChangesTyped, OverlayTyped, OverlayDiffers
  <2>5. History(p) = 1 .. p /\ History(p) \subseteq Commits
    BY <1>0, <2>1 DEF Linear, History, TypeOK
  <2>6. m \in CommitType /\ m.before = 1 .. p /\ m.tree = Overlay(trees[p], ch)
    BY <2>4, <2>5 DEF CommitOn, CommitType
  <2>7. run' = [run EXCEPT ![w] = r] /\ UNCHANGED <<head, made, trees, before, told, pushes>>
    BY <1>0, <1>5 DEF Commit, TypeOK
  <2> HIDE DEF m
  <2>8. r \in RunType /\ r.step = "move" /\ r.commit = m /\ r.parent = p
    BY <2>1, <2>6 DEF RunType, Steps
  <2>9. RunOK(r)
    BY <2>1, <2>6, <2>8, PublishAssumption DEF RunOK
  <2>10. Built(r)
    BY <2>3, <2>4, <2>6, <2>8 DEF Built
  <2> HIDE DEF r
  <2> QED  BY <2>7, <2>8, <2>9, <2>10, RunSteps
<1>6. ASSUME NEW w \in Writers, Move(w) \/ AnswerLost(w) PROVE IInv'
  <2> DEFINE m == run[w].commit
             sync == [run[w] EXCEPT !.commit = None, !.moved = made + 1, !.step = "sync"]
  <2>1. At(w, "move") /\ FastForward(m) /\ MovesTo(m) /\ pushes' = pushes
    BY <1>6 DEF Move, AnswerLost
  <2>2. m \in CommitType /\ run[w].parent = head /\ m.before = 1 .. head
    BY <2>1, ForwardIsFromHead DEF Built
  <2>3. /\ made' = made + 1 /\ made' \in Commits
        /\ \A c \in 1 .. made : trees'[c] = trees[c]
    BY <1>0, <2>1, <2>2, LineGrows
  <2>4. PICK r : /\ run' = [run EXCEPT ![w] = r]
                 /\ r = None \/ r = sync
    BY <1>0, <1>6 DEF Move, AnswerLost, Ends, TypeOK
  <2>5. run[w] \in RunType /\ RunOK(run[w])
    BY <1>0, <2>1 DEF TypeOK, At
  <2>6. sync \in RunType /\ sync.step = "sync" /\ sync.parent \in 1 .. made
        /\ sync.moved = made + 1
    BY <2>3, <2>5 DEF RunType, RunOK, Steps
  <2> HIDE DEF sync
  <2>7. r = None \/ (r \in RunType /\ RunOK(r)')
    BY <1>0, <2>3, <2>4, <2>6 DEF RunOK
  <2>8. r # None => r.step = "sync"
    BY <2>4, <2>6
  <2>9. run' \in [Writers -> RunType \union {None}]
    BY <1>0, <2>4, <2>6 DEF TypeOK
  <2>10. ASSUME NEW v \in Writers, run'[v] # None PROVE RunOK(run[v])'
    <3>1. CASE v = w
      <4>1. run'[v] = r
        BY <1>0, <2>4, <3>1 DEF TypeOK
      <4> QED  BY <2>7, <2>10, <4>1 DEF RunOK
    <3>2. CASE v # w
      <4>1. run'[v] = run[v] /\ RunOK(run[v])
        BY <1>0, <2>4, <2>10, <3>2 DEF TypeOK
      <4> QED  BY <1>0, <2>3, <4>1 DEF RunOK
    <3> QED  BY <3>1, <3>2
  <2>11. RunsFit'
    BY <1>0, <2>3, <2>4, <2>8, RunsStayFit
  <2>12. told' = told \/ told' = [told EXCEPT ![made + 1] = "committed"]
    BY <1>6 DEF Move, AnswerLost
  <2> QED  BY <1>0, <2>1, <2>2, <2>9, <2>10, <2>11, <2>12, BranchSteps DEF TypeOK
<1>7. ASSUME NEW w \in Writers, Refused(w) \/ Stops(w) PROVE IInv'
  BY <1>3, <1>7 DEF Refused, Stops, Ends
<1>8. ASSUME NEW w \in Writers, Synced(w) PROVE IInv'
  <2>1. run' = [run EXCEPT ![w] = None] /\ UNCHANGED <<head, made, trees, before, pushes>>
    BY <1>8 DEF Synced, Ends
  <2>2. told' = [told EXCEPT ![head] = "synced"] /\ Whole(trees[head])
    BY <1>8 DEF Synced
  <2>3. /\ run' \in [Writers -> RunType \union {None}]
        /\ \A v \in Writers : run'[v] # None => RunOK(run[v])'
    <3>1. made' \in Nat /\ made' >= made
      BY <1>0, <2>1
    <3>2. None = None \/ (None \in RunType /\ RunOK(None))
      OBVIOUS
    <3> QED  BY <1>0, <2>1, <3>1, <3>2, RunsTyped
  <2>4. told' \in [Commits -> {None, "committed", "synced"}]
    BY <1>0, <2>2 DEF TypeOK
  <2>5. TypeOK'
    BY <1>0, <2>1, <2>3, <2>4 DEF TypeOK
  <2>6. Linear'
    BY <1>0, <2>1 DEF Linear
  <2>7. RunsFit'
    BY <1>0, <2>1, RunsStayFit
  <2>8. ToldFits'
    BY <1>0, <2>1, <2>2 DEF ToldFits, TypeOK
  <2> QED  BY <2>5, <2>6, <2>7, <2>8 DEF IInv
<1>9. CASE UNCHANGED vars
  BY <1>9 DEF IInv, vars, TypeOK, RunOK, Linear, RunsFit, ToldFits, At, Planned, Built
<1> QED  BY <1>1, <1>2, <1>4, <1>5, <1>6, <1>7, <1>8, <1>9 DEF Next

-----------------------------------------------------------------------------
(***************************************************************************)
(* The theorems.                                                           *)
(***************************************************************************)
\* The invariant holds throughout.
THEOREM Invariance == Spec => []IInv
BY InitHolds, StepHolds, PTL DEF Spec

\* Types, of the commits and of every run at each of its steps.
THEOREM TypeCorrect == Spec => []TypeOK
<1>1. IInv => TypeOK
  BY DEF IInv
<1> QED  BY <1>1, Invariance, PTL

\* A run that was about to move the branch, and has, took one of two steps.
LEMMA MoveSteps ==
  ASSUME IInv, Next, NEW w \in Writers, Moves(w)
  PROVE  Move(w) \/ AnswerLost(w)
<1>0. /\ run \in [Writers -> RunType \union {None}] /\ made \in Nat
      /\ made' = made + 1 /\ run'[w] # run[w]
  BY PublishAssumption DEF IInv, TypeOK, Commits, Moves, At
<1>1. ~Push
  BY <1>0 DEF Push
<1>2. PICK v \in Writers : Move(v) \/ AnswerLost(v)
  <2>1. made' # made
    BY <1>0
  <2>2. ASSUME NEW v \in Writers, NEW c \in Commands, Head(v, c) PROVE FALSE
    BY <2>1, <2>2 DEF Head
  <2>3. ASSUME NEW v \in Writers,
               ReadFiles(v) \/ Commit(v) \/ Refused(v) \/ Synced(v) \/ Stops(v)
        PROVE  FALSE
    BY <2>1, <2>3 DEF ReadFiles, Commit, Refused, Synced, Stops
  <2> QED  BY <1>1, <2>2, <2>3 DEF Next
<1>3. v = w
  BY <1>0, <1>2 DEF Move, AnswerLost, Ends
<1> QED  BY <1>2, <1>3

\* A writer moves the branch only if it still points at the commit it read, as
\* long as nobody forces the branch back.
THEOREM WritesMoveFromTheirParent == Spec => MovesFromItsParent
<1>1. IInv /\ [Next]_vars => [\A w \in Writers : Moves(w) => head = run[w].parent]_vars
  <2> SUFFICES ASSUME IInv, Next, NEW w \in Writers, Moves(w)
               PROVE  head = run[w].parent
    OBVIOUS
  <2>1. At(w, "move") /\ FastForward(run[w].commit)
    BY MoveSteps DEF Move, AnswerLost
  <2> QED  BY <2>1, ForwardIsFromHead
<1> QED  BY <1>1, Invariance, PTL DEF Spec, MovesFromItsParent

\* A commit of a writer on the branch shows another tree than its parent.
THEOREM WritesChange == Spec => EveryWriteChanges
<1>1. IInv /\ [Next]_vars
        => [\A w \in Writers : Moves(w) => trees'[head'] # trees[head]]_vars
  <2> SUFFICES ASSUME IInv, Next, NEW w \in Writers, Moves(w)
               PROVE  trees'[head'] # trees[head]
    OBVIOUS
  <2> DEFINE m == run[w].commit
  <2>1. At(w, "move") /\ FastForward(m) /\ MovesTo(m)
    BY MoveSteps DEF Move, AnswerLost
  <2>2. m \in CommitType /\ m.before = 1 .. head /\ m.tree # trees[head]
    BY <2>1, ForwardIsFromHead DEF Built
  <2>3. trees'[made + 1] = m.tree /\ head' = made + 1
    BY <2>1, <2>2, LineGrows DEF IInv, MovesTo
  <2> QED  BY <2>2, <2>3
<1> QED  BY <1>1, Invariance, PTL DEF Spec, EveryWriteChanges

\* A write over a tree the server takes leaves one it takes, unless a page
\* changes the file it names or shares it with another.
THEOREM WritesKeepPagesWhole == Spec => PagesStayWhole
<1>1. IInv /\ [Next]_vars
        => [\A w \in Writers :
              Moves(w) /\ Whole(trees[head]) /\ ~Shares(trees[head])
                       /\ SameFiles(trees[head], trees'[head'])
                => Whole(trees'[head'])]_vars
  <2> SUFFICES ASSUME IInv, Next, NEW w \in Writers, Moves(w),
                      Whole(trees[head]), ~Shares(trees[head]),
                      SameFiles(trees[head], trees'[head'])
               PROVE  Whole(trees'[head'])
    OBVIOUS
  <2> DEFINE m == run[w].commit
  <2>1. At(w, "move") /\ FastForward(m) /\ MovesTo(m)
    BY MoveSteps DEF Move, AnswerLost
  <2>2. /\ m \in CommitType /\ m.before = 1 .. head
        /\ \E c \in Commands :
             ~Bails(c, trees[head]) /\ m.tree = Overlay(trees[head], Changes(c, trees[head]))
    BY <2>1, ForwardIsFromHead DEF Built
  <2>3. trees'[head'] = m.tree
    BY <2>1, <2>2, LineGrows DEF IInv, MovesTo
  <2>4. PICK c \in Commands :
          ~Bails(c, trees[head]) /\ trees'[head'] = Result(c, trees[head])
    BY <2>2, <2>3 DEF Result
  <2>5. trees[head] \in Trees
    BY PublishAssumption DEF IInv, TypeOK, Commits
  <2> QED  BY <2>4, <2>5, ResultIsWhole
<1> QED  BY <1>1, Invariance, PTL DEF Spec, PagesStayWhole

\* The command lines implement AtomicWrites: a step that moves the branch is the
\* whole of a command, over the tree the branch showed until then.
THEOREM PublishIsAtomic == Spec => Atomic
<1>1. Init => A!Init
  BY PublishAssumption DEF Init, A!Init, Commits
<1>2. IInv /\ [Next]_vars => [A!Next]_<<trees[head], pushes>>
  <2> SUFFICES ASSUME IInv, [Next]_vars
               PROVE  A!Next \/ (trees'[head'] = trees[head] /\ pushes' = pushes)
    OBVIOUS
  <2>1. CASE Push
    <3>1. PICK tree \in Pushed : MovesTo(CommitOn(head, tree))
      BY <2>1 DEF Push
    <3>2. made + 1 \in Commits /\ trees \in [Commits -> Trees]
      BY <3>1, PublishAssumption DEF IInv, TypeOK, MovesTo, Commits
    <3>3. trees'[head'] = tree
      BY <3>1, <3>2 DEF MovesTo, CommitOn
    <3> QED  BY <2>1, <3>3 DEF Push, A!Next, A!Push
  <2>2. ASSUME NEW w \in Writers, Move(w) \/ AnswerLost(w)
        PROVE  A!Next
    <3> DEFINE m == run[w].commit
    <3>1. At(w, "move") /\ FastForward(m) /\ MovesTo(m) /\ pushes' = pushes
      BY <2>2 DEF Move, AnswerLost
    <3>2. /\ m \in CommitType /\ m.before = 1 .. head
          /\ \E c \in Commands :
               ~Bails(c, trees[head]) /\ m.tree = Overlay(trees[head], Changes(c, trees[head]))
      BY <3>1, ForwardIsFromHead DEF Built
    <3>3. trees'[head'] = m.tree
      BY <3>1, <3>2, LineGrows DEF IInv, MovesTo
    <3> QED  BY <3>1, <3>2, <3>3 DEF A!Next, A!Write, Result
  <2>3. ASSUME NEW w \in Writers, NEW c \in Commands, Head(w, c)
        PROVE  trees'[head'] = trees[head] /\ pushes' = pushes
    BY <2>3 DEF Head
  <2>4. ASSUME NEW w \in Writers,
               ReadFiles(w) \/ Commit(w) \/ Refused(w) \/ Synced(w) \/ Stops(w)
        PROVE  trees'[head'] = trees[head] /\ pushes' = pushes
    BY <2>4 DEF ReadFiles, Commit, Refused, Synced, Stops
  <2>5. CASE UNCHANGED vars
    BY <2>5 DEF vars
  <2> QED  BY <2>1, <2>2, <2>3, <2>4, <2>5 DEF Next
<1> QED  BY <1>1, <1>2, Invariance, PTL DEF Spec, Atomic, A!Spec

\* What a writer was told stays true.
THEOREM AnswersStayTrue == Spec => []AnswersAreTrue
<1>1. IInv => AnswersAreTrue
  <2> SUFFICES ASSUME IInv PROVE AnswersAreTrue
    OBVIOUS
  <2>1. History(head) = 1 .. head /\ head = made
    BY PublishAssumption DEF IInv, TypeOK, Linear, History, Commits
  <2> QED  BY <2>1 DEF IInv, ToldFits, AnswersAreTrue
<1> QED  BY <1>1, Invariance, PTL
=============================================================================
