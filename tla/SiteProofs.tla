----------------------------- MODULE SiteProofs -----------------------------
(***************************************************************************)
(* Theorems about Site, for any trees, routes and cookies.                 *)
(*                                                                         *)
(* The database is the tree that was indexed last, but for the collection  *)
(* that a page is in (DatabaseFits, Like), and what a request has read of  *)
(* it is still what it holds, unless a sync crossed the request; then each *)
(* table is of one of two trees that check (ViewFits).  What is still to   *)
(* be read includes what the answer needs (ReadingFits), so that an answer *)
(* is found where the tree says it is.                                     *)
(***************************************************************************)
EXTENDS Site, FiniteSetTheorems, TLAPS

-----------------------------------------------------------------------------
(***************************************************************************)
(* Trees that check.                                                       *)
(***************************************************************************)
LEMMA Checked ==
  ASSUME NEW tree \in CheckedTrees
  PROVE  /\ tree \in Trees /\ tree # None /\ None \notin tree.pages /\ IsTree(tree) /\ Checks(tree)
         /\ FilesParse(tree) /\ NeededExist(tree) /\ TypesPair(tree) /\ NamesDiffer(tree)
         /\ DefaultThemeListed(tree)
<1>1. tree \in Trees /\ Checks(tree)
  BY DEF CheckedTrees
<1>2. tree # None /\ None \notin tree.pages /\ IsTree(tree)
  BY <1>1, TreesAssumption
<1> QED  BY <1>1, <1>2 DEF Checks

\* A collection takes no name that routes or directories of the code have.
LEMMA CollectionNames ==
  ASSUME NEW tree \in CheckedTrees, NEW collection \in tree.collections
  PROVE  collection.name \notin RESERVED_NAMES \union RESERVED_COLLECTIONS
<1>1. FilesParse(tree)
  BY Checked
<1> QED  BY <1>1 DEF FilesParse, CollectionParses

\* A member of a collection declares a type whose home that collection is.
LEMMA MemberKind ==
  ASSUME NEW tree \in CheckedTrees, NEW page \in tree.pages, IsMember(page)
  PROVE  /\ page.kind # "Page"
         /\ \E collection \in tree.collections, kind \in tree.kinds :
              collection.name = page.home /\ collection.kind = page.kind /\ kind.kind = page.kind
<1>1. FilesParse(tree)
  BY Checked
<1>2. page.kind \in {kind.kind : kind \in TypesOfHome(tree, page.home)}
  BY <1>1 DEF FilesParse, PageParses, KindsAt
<1>3. PICK kind \in TypesOfHome(tree, page.home) : kind.kind = page.kind
  BY <1>2
<1>4. PICK collection \in CollectionsNamed(tree, page.home) :
        kind \in KindsNamed(tree, collection.kind)
  BY <1>3 DEF TypesOfHome
<1>5. /\ collection \in tree.collections /\ collection.name = page.home
      /\ kind \in tree.kinds /\ kind.kind = collection.kind
  BY <1>4 DEF CollectionsNamed, KindsNamed
<1>6. PageKindParses(kind)
  BY <1>1, <1>5 DEF FilesParse
<1>7. page.kind # "Page"
  BY <1>3, <1>6 DEF PageKindParses, BUILTIN_KINDS
<1> QED  BY <1>3, <1>5, <1>7

LEMMA OtherKind ==
  ASSUME NEW tree \in CheckedTrees, NEW page \in tree.pages, ~IsMember(page)
  PROVE  page.kind = "Page" /\ page.home = "pages"
<1>1. FilesParse(tree)
  BY Checked
<1> QED  BY <1>1 DEF FilesParse, PageParses, KindsAt, IsMember

\* Kind and name tell the pages of a tree apart: a type has one home.
LEMMA KeysDiffer ==
  ASSUME NEW tree \in CheckedTrees, NEW a \in tree.pages, NEW b \in tree.pages,
         a.kind = b.kind, a.name = b.name
  PROVE  a = b
<1>1. PathsDiffer(tree) /\ TypesPair(tree)
  BY Checked DEF IsTree
<1>2. a.home = b.home => a = b
  BY <1>1 DEF PathsDiffer
<1>3. CASE IsMember(a) /\ IsMember(b)
  <2>1. PICK c \in tree.collections, kind \in tree.kinds :
          c.name = a.home /\ c.kind = a.kind /\ kind.kind = a.kind
    BY <1>3, MemberKind
  <2>2. PICK d \in tree.collections : d.name = b.home /\ d.kind = b.kind
    BY <1>3, MemberKind
  <2> DEFINE homes == {collection \in tree.collections : collection.kind = kind.kind}
  <2>3. Cardinality(homes) = 1
    BY <1>1 DEF TypesPair
  <2>4. IsFiniteSet(tree.collections)
    BY <1>1 DEF PathsDiffer
  <2>5. IsFiniteSet(homes)
    BY <2>4, FS_Subset
  <2>6. c \in homes /\ d \in homes
    BY <2>1, <2>2
  <2> HIDE DEF homes
  <2>7. c = d
    BY <2>3, <2>5, <2>6, FS_Singleton
  <2> QED  BY <1>2, <2>1, <2>2, <2>7
<1>4. CASE ~IsMember(a) /\ ~IsMember(b)
  BY <1>2, <1>4, OtherKind
<1>5. CASE IsMember(a) # IsMember(b)
  BY <1>5, MemberKind, OtherKind DEF IsMember
<1> QED  BY <1>3, <1>4, <1>5

\* A row and its page have the fields of one.
PageFields ==
  {"home", "name", "says", "kind", "title", "metadata", "content", "style", "person", "draft"}

LEMMA RowIsRow ==
  ASSUME NEW tree \in CheckedTrees, NEW row \in Rows(tree)
  PROVE  /\ row.page \in tree.pages /\ row.text = TextOf(tree, row.page)
         /\ row = [page |-> row.page, text |-> row.text]
         /\ row.page = [field \in PageFields |-> row.page[field]]
<1>1. PICK page \in tree.pages : row = Row(tree, page)
  BY DEF Rows
<1>2. row.page = page /\ row.text = TextOf(tree, page)
  BY <1>1 DEF Row
<1>3. row = [page |-> row.page, text |-> row.text]
  BY <1>1 DEF Row
<1>4. IsPageSpec(page)
  BY Checked DEF IsTree
<1>5. page = [field \in PageFields |-> page[field]]
  BY <1>4 DEF IsPageSpec, HasFields, PageFields
<1> QED  BY <1>2, <1>3, <1>5

\* What two rows of one source agree in: all but where their pages are.
LEMMA SourceSays ==
  ASSUME NEW a, NEW b,
         a = [page |-> a.page, text |-> a.text], b = [page |-> b.page, text |-> b.text],
         a.page = [field \in PageFields |-> a.page[field]],
         b.page = [field \in PageFields |-> b.page[field]],
         Source(a) = Source(b)
  PROVE  /\ a.text = b.text
         /\ \A field \in PageFields \ {"home"} : a.page[field] = b.page[field]
<1>1. /\ Source(a).text = a.text /\ Source(b).text = b.text
      /\ Source(a).page = [a.page EXCEPT !.home = None]
      /\ Source(b).page = [b.page EXCEPT !.home = None]
  BY DEF Source
<1>2. a.text = b.text
  BY <1>1
<1>3. PICK p, q : p = a.page /\ q = b.page
  OBVIOUS
<1>4. [p EXCEPT !.home = None] = [q EXCEPT !.home = None]
  BY <1>1, <1>3
<1>5. ASSUME NEW field \in PageFields \ {"home"}
      PROVE  p[field] = q[field]
  <2>1. /\ [p EXCEPT !.home = None][field] = p[field]
        /\ [q EXCEPT !.home = None][field] = q[field]
    BY <1>3
  <2> QED  BY <1>4, <2>1
<1> QED  BY <1>2, <1>3, <1>5

\* Rows that are those of a tree but for where their pages are.
Like(rows, tree) ==
  /\ \A row \in rows : \E each \in CheckedTrees : row \in Rows(each)
  /\ \A row \in rows : \E new \in Rows(tree) : Source(row) = Source(new)
  /\ \A new \in Rows(tree) : \E row \in rows : Source(row) = Source(new)

\* A row says what a file of the tree says.
LEMMA LikeSays ==
  ASSUME NEW tree \in CheckedTrees, NEW rows, Like(rows, tree), NEW row \in rows
  PROVE  \E file \in tree.pages :
           /\ Same(row.page, file) /\ row.text = TextOf(tree, file)
           /\ \A field \in PageFields \ {"home"} : row.page[field] = file[field]
<1>1. PICK new \in Rows(tree) : Source(row) = Source(new)
  BY DEF Like
<1>2. PICK each \in CheckedTrees : row \in Rows(each)
  BY DEF Like
<1>3. /\ row = [page |-> row.page, text |-> row.text]
      /\ row.page = [field \in PageFields |-> row.page[field]]
  BY <1>2, RowIsRow
<1>4. /\ new = [page |-> new.page, text |-> new.text]
      /\ new.page = [field \in PageFields |-> new.page[field]]
      /\ new.page \in tree.pages /\ new.text = TextOf(tree, new.page)
  BY RowIsRow
<1>5. row.text = new.text /\ \A field \in PageFields \ {"home"} : row.page[field] = new.page[field]
  BY <1>1, <1>3, <1>4, SourceSays
<1>6. Same(row.page, new.page)
  <2>1. /\ Source(row).page = [row.page EXCEPT !.home = None]
        /\ Source(new).page = [new.page EXCEPT !.home = None]
    BY <1>3, <1>4 DEF Source
  <2> QED  BY <1>1, <2>1 DEF Same
<1> QED  BY <1>4, <1>5, <1>6

\* Every file of the tree has its row.
LEMMA LikeHas ==
  ASSUME NEW tree \in CheckedTrees, NEW rows, Like(rows, tree), NEW file \in tree.pages
  PROVE  \E row \in rows :
           /\ Same(row.page, file)
           /\ \A field \in PageFields \ {"home"} : row.page[field] = file[field]
<1>1. Row(tree, file) \in Rows(tree) /\ Row(tree, file).page = file
  BY DEF Rows, Row
<1>2. PICK new \in Rows(tree) : new = Row(tree, file)
  BY <1>1
<1>3. PICK row \in rows : Source(row) = Source(new)
  BY DEF Like
<1>4. PICK each \in CheckedTrees : row \in Rows(each)
  BY DEF Like
<1>5. /\ row = [page |-> row.page, text |-> row.text]
      /\ row.page = [field \in PageFields |-> row.page[field]]
  BY <1>4, RowIsRow
<1>6. /\ new = [page |-> new.page, text |-> new.text] /\ new.page = file
      /\ new.page = [field \in PageFields |-> new.page[field]]
  BY <1>1, <1>2, RowIsRow
<1>7. \A field \in PageFields \ {"home"} : row.page[field] = new.page[field]
  BY <1>3, <1>5, <1>6, SourceSays
<1>8. Same(row.page, file)
  <2>1. /\ Source(row).page = [row.page EXCEPT !.home = None]
        /\ Source(new).page = [new.page EXCEPT !.home = None]
    BY <1>5, <1>6 DEF Source
  <2> QED  BY <1>3, <1>6, <2>1 DEF Same
<1> QED  BY <1>6, <1>7, <1>8

-----------------------------------------------------------------------------
(***************************************************************************)
(* What a request finds in tables that show a tree.                        *)
(***************************************************************************)
\* The rows found at a route are those whose pages are at it.
LEMMA FoundIsAt ==
  ASSUME NEW tree \in CheckedTrees, NEW tables, NEW path \in Paths, ~IsPick(path),
         tables.collections = tree.collections
  PROVE  /\ \A row \in At(tables, path) :
              row \in tables.pages /\ IsAt(row.page, tree.collections, path)
         /\ \A row \in tables.pages :
              IsAt(row.page, tree.collections, path) => row \in At(tables, path)
<1>1. path \in Seq(STRING) /\ Len(path) \in {0, 1, 2}
  <2>1. path \in Seq(STRING) /\ Len(path) <= 2
    BY TreesAssumption
  <2>2. Len(path) \in Nat
    BY <2>1
  <2>3. PICK n \in Nat : n = Len(path)
    BY <2>2
  <2> QED  BY <2>1, <2>3
<1>2. ASSUME NEW row, row \in At(tables, path)
      PROVE  row \in tables.pages /\ IsAt(row.page, tree.collections, path)
  <2>1. CASE Len(path) = 0
    <3>1. row \in PagesNamed(tables, "index")
      BY <1>2, <2>1 DEF At
    <3>2. /\ row \in tables.pages /\ ~row.page.draft /\ ~IsMember(row.page)
          /\ row.page.name = "index" /\ HasRoute(row.page)
      BY <3>1 DEF PagesNamed, Published
    <3>3. Route(row.page) = path
      BY <1>1, <2>1, <3>2 DEF Route
    <3> QED  BY <3>2, <3>3 DEF IsAt
  <2>2. CASE Len(path) = 1
    <3>1. row \in PagesNamed(tables, path[1]) /\ Route(row.page) = path
      BY <1>2, <2>2 DEF At
    <3>2. row \in tables.pages /\ ~row.page.draft /\ ~IsMember(row.page) /\ HasRoute(row.page)
      BY <3>1 DEF PagesNamed, Published
    <3> QED  BY <3>1, <3>2 DEF IsAt
  <2>3. CASE Len(path) = 2
    <3>1. /\ row \in Members(tables, path[1]) /\ row.page.name = path[2]
          /\ Enabled(tables, path[1]) # {}
      BY <1>2, <2>3 DEF At
    <3>2. row \in tables.pages /\ ~row.page.draft /\ row.page.home = path[1]
      BY <3>1 DEF Members, AllMembers, Published
    <3>3. PICK collection \in tree.collections :
            collection.name = path[1] /\ collection.enabled
      BY <3>1 DEF Enabled
    <3>4. IsMember(row.page)
      BY <3>2, <3>3, CollectionNames DEF IsMember, RESERVED_COLLECTIONS
    <3>5. Route(row.page) = path
      BY <1>1, <2>3, <3>1, <3>2, <3>4 DEF Route
    <3> QED  BY <3>2, <3>3, <3>4, <3>5 DEF IsAt, HasRoute
  <2> QED  BY <1>1, <2>1, <2>2, <2>3
<1>3. ASSUME NEW row \in tables.pages, IsAt(row.page, tree.collections, path)
      PROVE  row \in At(tables, path)
  <2>0. PICK page : page = row.page
    OBVIOUS
  <2>1. HasRoute(page) /\ ~page.draft /\ Route(page) = path
    BY <1>3, <2>0 DEF IsAt
  <2>2. row.page = page /\ row \in Published(tables)
    BY <2>0, <2>1 DEF Published
  <2>3. CASE IsMember(page)
    <3>1. /\ path = <<page.home, page.name>> /\ Len(path) = 2
          /\ path[1] = page.home /\ path[2] = page.name
      BY <2>1, <2>3 DEF Route
    <3>2. Enabled(tables, path[1]) # {}
      BY <1>3, <2>0, <2>3, <3>1 DEF IsAt, Enabled
    <3> QED  BY <2>2, <3>1, <3>2 DEF At, Members, AllMembers, Published
  <2>4. CASE ~IsMember(page) /\ page.name = "index"
    <3>1. path = <<>> /\ Len(path) = 0
      BY <2>1, <2>4 DEF Route
    <3>2. row \in PagesNamed(tables, "index")
      BY <2>1, <2>2, <2>4 DEF PagesNamed
    <3> QED  BY <3>1, <3>2 DEF At
  <2>5. CASE ~IsMember(page) /\ page.name # "index"
    <3>1. path = <<page.name>> /\ Len(path) = 1 /\ path[1] = page.name
      BY <2>1, <2>5 DEF Route
    <3>2. row \in PagesNamed(tables, path[1])
      BY <2>1, <2>2, <2>5, <3>1 DEF PagesNamed
    <3> QED  BY <2>1, <2>2, <3>1, <3>2 DEF At
  <2> QED  BY <2>3, <2>4, <2>5
<1> QED  BY <1>2, <1>3

-----------------------------------------------------------------------------
(***************************************************************************)
(* The statements of a request.                                            *)
(***************************************************************************)
ModelSet == {"site", "profile", "nav", "kinds", "collections", "pages"}

\* The names of tables and themes that a request reads.
Words == ModelSet \union {"picked", "default", "slug", "synced"}

LEMMA TailAt ==
  ASSUME NEW s \in Seq(Words), s # <<>>
  PROVE  /\ Tail(s) \in Seq(Words) /\ Len(s) \in Nat \ {0} /\ Len(Tail(s)) = Len(s) - 1
         /\ \A i \in 1 .. Len(Tail(s)) : Tail(s)[i] = s[i + 1]
         /\ Head(s) = s[1]
OBVIOUS

\* Two sequences after one another, element by element.
LEMMA ConcatAt ==
  ASSUME NEW s \in Seq(Words), NEW t \in Seq(Words)
  PROVE  /\ s \o t \in Seq(Words) /\ Len(s \o t) = Len(s) + Len(t)
         /\ \A i \in 1 .. Len(s) : (s \o t)[i] = s[i]
         /\ \A i \in 1 .. Len(t) : (s \o t)[Len(s) + i] = t[i]
<1>1. s \o t \in Seq(Words) /\ Len(s \o t) = Len(s) + Len(t)
  OBVIOUS
<1>2. Len(s) \in Nat /\ Len(t) \in Nat
  OBVIOUS
<1>3. \A i \in 1 .. Len(s) : (s \o t)[i] = s[i]
  BY <1>2
<1>4. \A i \in 1 .. Len(t) : (s \o t)[Len(s) + i] = t[i]
  BY <1>2
<1> QED  BY <1>1, <1>3, <1>4

LEMMA ChromeIs ==
  /\ Chrome \in Seq(Words) /\ Len(Chrome) = 8
  /\ Chrome[1] = "site" /\ Chrome[2] = "profile" /\ Chrome[3] = "nav" /\ Chrome[4] = "kinds"
  /\ Chrome[5] = "collections" /\ Chrome[6] = "pages"
  /\ Chrome[7] = "picked" /\ Chrome[8] = "default"
<1>1. /\ ModelTables \in Seq(Words) /\ Len(ModelTables) = 6
      /\ ModelTables[1] = "site" /\ ModelTables[2] = "profile" /\ ModelTables[3] = "nav"
      /\ ModelTables[4] = "kinds" /\ ModelTables[5] = "collections" /\ ModelTables[6] = "pages"
  BY DEF ModelTables, Words, ModelSet
<1>2. Theme \in Seq(Words) /\ Len(Theme) = 2 /\ Theme[1] = "picked" /\ Theme[2] = "default"
  BY DEF Theme, Words
<1>3. PICK s \in Seq(Words), t \in Seq(Words) : s = ModelTables /\ t = Theme
  BY <1>1, <1>2
<1>4. PICK c : c = s \o t
  OBVIOUS
<1>5. Len(s) = 6 /\ Len(t) = 2
  BY <1>1, <1>2, <1>3
<1>6. /\ c \in Seq(Words) /\ Len(c) = 6 + 2
      /\ \A i \in 1 .. 6 : c[i] = s[i]
      /\ \A i \in 1 .. 2 : c[6 + i] = t[i]
  <2>1. \A i \in 1 .. Len(s) : (s \o t)[i] = s[i]
    BY ConcatAt
  <2>2. \A i \in 1 .. Len(t) : (s \o t)[Len(s) + i] = t[i]
    BY ConcatAt
  <2>3. s \o t \in Seq(Words) /\ Len(s \o t) = Len(s) + Len(t)
    BY ConcatAt
  <2>4. c \in Seq(Words) /\ Len(c) = 6 + 2
    BY <1>4, <1>5, <2>3, Zenon
  <2>5. \A i \in 1 .. 6 : c[i] = s[i]
    BY <1>4, <1>5, <2>1, Zenon
  <2>6. \A i \in 1 .. 2 : c[6 + i] = t[i]
    BY <1>4, <1>5, <2>2, Zenon
  <2> QED  BY <2>4, <2>5, <2>6
<1>7. Len(c) = 8 /\ c[7] = t[1] /\ c[8] = t[2]
  BY <1>6
<1>8. c[1] = s[1] /\ c[2] = s[2] /\ c[3] = s[3] /\ c[4] = s[4] /\ c[5] = s[5] /\ c[6] = s[6]
  BY <1>6
<1>9. c = Chrome
  BY <1>3, <1>4 DEF Chrome
<1> QED  BY <1>1, <1>2, <1>3, <1>6, <1>7, <1>8, <1>9

-----------------------------------------------------------------------------
(***************************************************************************)
(* The inductive invariant.                                                *)
(***************************************************************************)
Tables == {"site", "profile", "nav", "kinds", "collections", "themes", "pages", "synced"}

\* The database shows a tree; `pages` is apart, as a row may be in the
\* collection of an older one.
Holds(tree) ==
  /\ db.site = tree.site /\ db.profile = tree.profile /\ db.nav = tree.nav
  /\ db.kinds = tree.kinds /\ db.collections = tree.collections /\ db.themes = tree.themes

DatabaseFits ==
  /\ DOMAIN db = Tables
  /\ db.nav # None => served # None
  /\ served # None =>
       served \in CheckedTrees /\ Holds(served) /\ Like(db.pages, served)
  /\ \A row \in db.pages : \E tree \in CheckedTrees : row \in Rows(tree)
  /\ ready => served # None

RequestFields ==
  {"path", "cookie", "reading", "again", "view", "from", "ready", "crossed", "answer"}

RequestFits(r) ==
  /\ DOMAIN r = RequestFields
  /\ r.path \in Paths
  /\ r.again \in BOOLEAN /\ r.crossed \in BOOLEAN
  /\ r.ready => r.from # None
  /\ r.from # None => r.from \in CheckedTrees /\ served # None

\* The theme of the site is looked up after the site is read, and a theme that
\* was picked stands before it.
Ordered(reading, have) ==
  /\ reading \in Seq(Words)
  /\ \A i \in 1 .. Len(reading) :
       reading[i] = "picked" => i < Len(reading) /\ reading[i + 1] = "default"
  /\ \A i \in 1 .. Len(reading) :
       reading[i] = "default" => "site" \in have \/ \E j \in 1 .. (i - 1) : reading[j] = "site"

\* The table has been read, or will be.
Comes(reading, have, table) ==
  table \in have \/ \E i \in 1 .. Len(reading) : reading[i] = table

ReadingFits(r) ==
  /\ Ordered(r.reading, DOMAIN r.view)
  /\ \A i \in 1 .. Len(r.reading) : r.reading[i] = "slug" => IsPick(r.path)
  /\ IsPick(r.path) /\ ~r.again => r.reading = <<"slug">>
  /\ ~Code(r.path) =>
       Comes(r.reading, DOMAIN r.view, "pages") /\ Comes(r.reading, DOMAIN r.view, "collections")
  /\ r.path = <<"readyz">> => Comes(r.reading, DOMAIN r.view, "nav")

\* A table of the database while it shows a tree.
Shown(tree, table, value) ==
  IF table = "pages" THEN Like(value, tree) ELSE value = tree[table]

\* Each page that a tree has at a route is in another collection.
Elsewhere(tree, path, rows) ==
  \A said \in Says(tree, path) : \E each \in Left(tree, rows) : Same(each, said)

ViewFits(r) ==
  /\ DOMAIN r.view \subseteq ModelSet \union {"synced"}
  /\ "nav" \in DOMAIN r.view /\ r.view.nav # None => served # None
  /\ r.from # None /\ ~r.crossed =>
       r.from = served /\ \A table \in DOMAIN r.view \ {"synced"} : r.view[table] = db[table]
  /\ r.from # None /\ r.crossed =>
       \A table \in DOMAIN r.view \ {"synced"} :
         \E tree \in {r.from, served} : Shown(tree, table, r.view[table])
  /\ r.from # None /\ ~r.crossed /\ r.again /\ ~Code(r.path) => Elsewhere(r.from, r.path, db.pages)

\* What the properties say of an answer to a request.
IsOf(tree, path, rows, answer) ==
  /\ IsAt(answer.page, tree.collections, path)
  /\ \E file \in tree.pages :
       /\ Same(answer.page, file) /\ answer.page \in {file} \union Left(tree, rows)
       /\ answer = [status |-> 200, page |-> answer.page, text |-> TextOf(tree, file)]

Right(r, answer) ==
  ~r.crossed /\ r.from # None /\ ~Code(r.path) =>
    IF answer.page = None THEN Elsewhere(r.from, r.path, r.view.pages)
                          ELSE IsOf(r.from, r.path, r.view.pages, answer)

Serves(r, answer) == r.ready /\ ~r.crossed => answer.status # 500

IsPublished(r, page) ==
  /\ ~page.draft /\ \E tree \in {r.from, served} : \E file \in tree.pages : Same(page, file)
  /\ IsMember(page) => \E tree \in {r.from, served} : \E collection \in tree.collections :
                         collection.name = page.home /\ collection.enabled

Explained(r, answer) ==
  r.ready /\ r.crossed =>
    /\ answer.status = 500 => r.from.site.theme \notin Slugs(served.themes)
    /\ answer.page # None => IsPublished(r, answer.page)

AnswerFits(r, answer) ==
  Serves(r, answer) /\ Right(r, answer) /\ Explained(r, answer)

InvOf(r) ==
  /\ RequestFits(r)
  /\ r.answer = None => ReadingFits(r) /\ ViewFits(r)
  /\ r.answer # None => AnswerFits(r, r.answer)

IInv == DatabaseFits /\ (request # None => InvOf(request))

-----------------------------------------------------------------------------
(***************************************************************************)
(* What is still to be read.                                               *)
(***************************************************************************)
LEMMA OrderedTail ==
  ASSUME NEW s, NEW have, NEW more, Ordered(s, have), s # <<>>, have \subseteq more,
         Head(s) = "site" => "site" \in more
  PROVE  Ordered(Tail(s), more)
<1> DEFINE t == Tail(s)
<1>0. /\ s \in Seq(Words) /\ t \in Seq(Words) /\ Len(s) \in Nat \ {0} /\ Len(t) = Len(s) - 1
      /\ \A i \in 1 .. Len(t) : t[i] = s[i + 1]
      /\ Head(s) = s[1]
  BY TailAt DEF Ordered
<1> HIDE DEF t
<1>1. ASSUME NEW i \in 1 .. Len(t), t[i] = "picked"
      PROVE  i < Len(t) /\ t[i + 1] = "default"
  <2>1. i + 1 \in 1 .. Len(s) /\ s[i + 1] = "picked"
    BY <1>0, <1>1
  <2>2. i + 1 < Len(s) /\ s[(i + 1) + 1] = "default"
    BY <2>1 DEF Ordered
  <2>3. i + 1 \in 1 .. Len(t)
    BY <1>0, <2>2
  <2> QED  BY <1>0, <2>2, <2>3
<1>2. ASSUME NEW i \in 1 .. Len(t), t[i] = "default"
      PROVE  "site" \in more \/ \E j \in 1 .. (i - 1) : t[j] = "site"
  <2>1. i + 1 \in 1 .. Len(s) /\ s[i + 1] = "default"
    BY <1>0, <1>2
  <2>2. "site" \in have \/ \E j \in 1 .. ((i + 1) - 1) : s[j] = "site"
    BY <2>1 DEF Ordered
  <2>3. ASSUME NEW j \in 1 .. ((i + 1) - 1), s[j] = "site"
        PROVE  "site" \in more \/ \E k \in 1 .. (i - 1) : t[k] = "site"
    <3>1. CASE j = 1
      BY <1>0, <2>3, <3>1
    <3>2. CASE j # 1
      <4>1. j - 1 \in 1 .. (i - 1) /\ j - 1 \in 1 .. Len(t) /\ (j - 1) + 1 = j
        BY <1>0, <3>2
      <4>2. t[j - 1] = "site"
        BY <1>0, <2>3, <4>1
      <4> QED  BY <4>1, <4>2
    <3> QED  BY <3>1, <3>2
  <2> QED  BY <2>2, <2>3
<1> QED  BY <1>0, <1>1, <1>2 DEF Ordered, t

LEMMA ComesTail ==
  ASSUME NEW s \in Seq(Words), NEW have, NEW more, NEW table, Comes(s, have, table), s # <<>>,
         have \subseteq more, Head(s) = table => table \in more
  PROVE  Comes(Tail(s), more, table)
<1> DEFINE t == Tail(s)
<1>0. /\ Len(s) \in Nat \ {0} /\ Len(t) = Len(s) - 1
      /\ \A i \in 1 .. Len(t) : t[i] = s[i + 1]
      /\ Head(s) = s[1]
  BY TailAt
<1> HIDE DEF t
<1>1. ASSUME NEW i \in 1 .. Len(s), s[i] = table
      PROVE  table \in more \/ \E k \in 1 .. Len(t) : t[k] = table
  <2>1. CASE i = 1
    BY <1>0, <1>1, <2>1
  <2>2. CASE i # 1
    <3>1. i - 1 \in 1 .. Len(t) /\ (i - 1) + 1 = i
      BY <1>0, <2>2
    <3>2. t[i - 1] = table
      BY <1>0, <1>1, <3>1
    <3> QED  BY <3>1, <3>2
  <2> QED  BY <2>1, <2>2
<1> QED  BY <1>1 DEF Comes, t

LEMMA ChromeFits ==
  /\ Ordered(Chrome, {}) /\ \A i \in 1 .. Len(Chrome) : Chrome[i] # "slug"
  /\ Comes(Chrome, {}, "pages") /\ Comes(Chrome, {}, "collections") /\ Comes(Chrome, {}, "nav")
<1>1. PICK s : s = Chrome
  OBVIOUS
<1>2. /\ s \in Seq(Words) /\ Len(s) = 8
      /\ s[1] = "site" /\ s[2] = "profile" /\ s[3] = "nav" /\ s[4] = "kinds"
      /\ s[5] = "collections" /\ s[6] = "pages" /\ s[7] = "picked" /\ s[8] = "default"
  BY <1>1, ChromeIs
<1>3. ASSUME NEW i \in 1 .. Len(s)
      PROVE  i \in {1, 2, 3, 4, 5, 6, 7, 8}
  BY <1>2
<1>4. ASSUME NEW i \in 1 .. Len(s)
      PROVE  s[i] # "slug" /\ (s[i] = "picked" => i = 7) /\ (s[i] = "default" => i = 8)
  BY <1>2, <1>3
<1>5. 1 \in 1 .. 7 /\ 3 \in 1 .. 8 /\ 5 \in 1 .. 8 /\ 6 \in 1 .. 8
  OBVIOUS
<1>6. Ordered(s, {})
  <2>1. \A i \in 1 .. Len(s) : s[i] = "picked" => i < Len(s) /\ s[i + 1] = "default"
    BY <1>2, <1>4
  <2>2. \A i \in 1 .. Len(s) : s[i] = "default" => \E j \in 1 .. (i - 1) : s[j] = "site"
    BY <1>2, <1>4, <1>5
  <2> QED  BY <1>2, <2>1, <2>2 DEF Ordered
<1>7. Comes(s, {}, "pages") /\ Comes(s, {}, "collections") /\ Comes(s, {}, "nav")
  BY <1>2, <1>5 DEF Comes
<1> QED  BY <1>1, <1>4, <1>6, <1>7

\* A list of statements that names no theme is in order.
LEMMA PlainOrdered ==
  ASSUME NEW s \in Seq(Words), \A i \in 1 .. Len(s) : s[i] \notin {"picked", "default"}
  PROVE  Ordered(s, {})
BY DEF Ordered

\* What a request is to read when it is asked.
LEMMA StatementsFit ==
  ASSUME NEW path \in Paths, NEW s, s = Statements(path)
  PROVE  /\ Ordered(s, {})
         /\ \A i \in 1 .. Len(s) : s[i] = "slug" => IsPick(path)
         /\ IsPick(path) => s = <<"slug">>
         /\ ~Code(path) => Comes(s, {}, "pages") /\ Comes(s, {}, "collections")
         /\ path = <<"readyz">> => Comes(s, {}, "nav")
<1>0. IsPick(path) => path \notin CodeRoutes /\ path # <<"readyz">>
  BY DEF IsPick, CodeRoutes
<1>1. CASE path = <<"readyz">>
  <2>1. s = <<"synced", "nav">>
    <3>1. path \notin {<<"sitemap.xml">>, <<"intro.json">>, <<"favicon.svg">>, <<"health">>}
      BY <1>1
    <3>2. ~IsPick(path)
      BY <1>1 DEF IsPick
    <3> QED  BY <1>1, <3>1, <3>2, Zenon DEF Statements
  <2>2. s \in Seq(Words) /\ Len(s) = 2 /\ s[1] = "synced" /\ s[2] = "nav"
    BY <2>1 DEF Words, ModelSet
  <2>3. \A i \in 1 .. Len(s) : s[i] \notin {"picked", "default", "slug"}
    BY <2>2
  <2>4. Comes(s, {}, "nav")
    BY <2>2 DEF Comes
  <2> QED  BY <1>0, <1>1, <2>2, <2>3, <2>4, PlainOrdered DEF Code, CodeRoutes
<1>2. CASE path = <<"sitemap.xml">>
  <2>1. s = ModelTables
    <3>1. path \notin {<<"readyz">>, <<"intro.json">>, <<"favicon.svg">>, <<"health">>}
      BY <1>2
    <3>2. ~IsPick(path)
      BY <1>2 DEF IsPick
    <3> QED  BY <1>2, <3>1, <3>2, Zenon DEF Statements
  <2>2. /\ s \in Seq(Words) /\ Len(s) = 6
        /\ s[1] = "site" /\ s[2] = "profile" /\ s[3] = "nav" /\ s[4] = "kinds"
        /\ s[5] = "collections" /\ s[6] = "pages"
    BY <2>1 DEF ModelTables, Words, ModelSet
  <2>3. \A i \in 1 .. Len(s) : s[i] \notin {"picked", "default", "slug"}
    BY <2>2
  <2> QED  BY <1>0, <1>2, <2>2, <2>3, PlainOrdered DEF Code, CodeRoutes
<1>3. CASE path = <<"intro.json">>
  <2>1. s = <<"site">>
    <3>1. path \notin {<<"readyz">>, <<"sitemap.xml">>, <<"favicon.svg">>, <<"health">>}
      BY <1>3
    <3>2. ~IsPick(path)
      BY <1>3 DEF IsPick
    <3> QED  BY <1>3, <3>1, <3>2, Zenon DEF Statements
  <2>2. s \in Seq(Words) /\ Len(s) = 1 /\ s[1] = "site"
    BY <2>1 DEF Words, ModelSet
  <2>3. \A i \in 1 .. Len(s) : s[i] \notin {"picked", "default", "slug"}
    BY <2>2
  <2> QED  BY <1>0, <1>3, <2>2, <2>3, PlainOrdered DEF Code, CodeRoutes
<1>4. CASE path = <<"favicon.svg">>
  <2>1. s = <<"site">> \o Theme
    <3>1. path \notin {<<"readyz">>, <<"sitemap.xml">>, <<"intro.json">>, <<"health">>}
      BY <1>4
    <3>2. ~IsPick(path)
      BY <1>4 DEF IsPick
    <3> QED  BY <1>4, <3>1, <3>2, Zenon DEF Statements
  <2>2. PICK a \in Seq(Words), b \in Seq(Words) :
          /\ a = <<"site">> /\ b = Theme /\ Len(a) = 1 /\ Len(b) = 2
          /\ a[1] = "site" /\ b[1] = "picked" /\ b[2] = "default"
    <3>1. <<"site">> \in Seq(Words) /\ Len(<<"site">>) = 1 /\ <<"site">>[1] = "site"
      BY DEF Words, ModelSet
    <3>2. /\ Theme \in Seq(Words) /\ Len(Theme) = 2
          /\ Theme[1] = "picked" /\ Theme[2] = "default"
      BY DEF Theme, Words
    <3> QED  BY <3>1, <3>2, Zenon
  <2>3. /\ a \o b \in Seq(Words) /\ Len(a \o b) = Len(a) + Len(b)
        /\ \A i \in 1 .. Len(a) : (a \o b)[i] = a[i]
        /\ \A i \in 1 .. Len(b) : (a \o b)[Len(a) + i] = b[i]
    BY ConcatAt
  <2>4. s = a \o b
    BY <2>1, <2>2
  <2>5. /\ s \in Seq(Words) /\ Len(s) = 1 + 2
        /\ \A i \in 1 .. 1 : s[i] = a[i]
        /\ \A i \in 1 .. 2 : s[1 + i] = b[i]
    BY <2>2, <2>3, <2>4, Zenon
  <2>6. Len(s) = 3 /\ s[1] = "site" /\ s[2] = "picked" /\ s[3] = "default"
    BY <2>2, <2>5
  <2>7. \A i \in 1 .. Len(s) : i \in {1, 2, 3}
    BY <2>6
  <2>8. Ordered(s, {}) /\ \A i \in 1 .. Len(s) : s[i] # "slug"
    BY <2>5, <2>6, <2>7 DEF Ordered
  <2> QED  BY <1>0, <1>4, <2>8 DEF Code, CodeRoutes
<1>5. CASE path = <<"health">>
  <2>1. s = Chrome \o <<"synced">>
    <3>1. path \notin {<<"readyz">>, <<"sitemap.xml">>, <<"intro.json">>, <<"favicon.svg">>}
      BY <1>5
    <3>2. ~IsPick(path)
      BY <1>5 DEF IsPick
    <3> QED  BY <1>5, <3>1, <3>2, Zenon DEF Statements
  <2>2. PICK a \in Seq(Words), b \in Seq(Words) :
          a = Chrome /\ b = <<"synced">> /\ Len(b) = 1 /\ b[1] = "synced"
    <3>1. <<"synced">> \in Seq(Words) /\ Len(<<"synced">>) = 1 /\ <<"synced">>[1] = "synced"
      BY DEF Words
    <3> QED  BY <3>1, ChromeIs, Zenon
  <2>3. /\ a \o b \in Seq(Words) /\ Len(a \o b) = Len(a) + Len(b)
        /\ \A i \in 1 .. Len(a) : (a \o b)[i] = a[i]
        /\ \A i \in 1 .. Len(b) : (a \o b)[Len(a) + i] = b[i]
    BY ConcatAt
  <2>4. s = a \o b
    BY <2>1, <2>2
  <2>5. Len(a) = 8
    BY <2>2, ChromeIs
  <2>6. /\ s \in Seq(Words) /\ Len(s) = 8 + 1
        /\ \A i \in 1 .. 8 : s[i] = a[i]
        /\ \A i \in 1 .. 1 : s[8 + i] = b[i]
    BY <2>2, <2>3, <2>4, <2>5, Zenon
  <2>7. Len(s) = 9 /\ s[9] = "synced"
    BY <2>2, <2>6
  <2>8. /\ s[1] = "site" /\ s[2] = "profile" /\ s[3] = "nav" /\ s[4] = "kinds"
        /\ s[5] = "collections" /\ s[6] = "pages" /\ s[7] = "picked" /\ s[8] = "default"
    BY <2>2, <2>6, ChromeIs
  <2>9. ASSUME NEW i \in 1 .. Len(s)
        PROVE  s[i] # "slug" /\ (s[i] = "picked" => i = 7) /\ (s[i] = "default" => i = 8)
    <3>1. i \in {1, 2, 3, 4, 5, 6, 7, 8, 9}
      BY <2>7
    <3> QED  BY <2>7, <2>8, <3>1
  <2>10. Ordered(s, {})
    <3>1. \A i \in 1 .. Len(s) : s[i] = "picked" => i < Len(s) /\ s[i + 1] = "default"
      BY <2>7, <2>8, <2>9
    <3>2. 1 \in 1 .. (8 - 1)
      OBVIOUS
    <3>3. \A i \in 1 .. Len(s) : s[i] = "default" => \E j \in 1 .. (i - 1) : s[j] = "site"
      BY <2>8, <2>9, <3>2
    <3> QED  BY <2>6, <3>1, <3>3 DEF Ordered
  <2> QED  BY <1>0, <1>5, <2>9, <2>10 DEF Code, CodeRoutes
<1>6. CASE IsPick(path)
  <2>1. s = <<"slug">>
    BY <1>6 DEF Statements, IsPick
  <2>2. s \in Seq(Words) /\ Len(s) = 1 /\ s[1] = "slug"
    BY <2>1 DEF Words
  <2>3. \A i \in 1 .. Len(s) : s[i] \notin {"picked", "default"}
    BY <2>2
  <2> QED  BY <1>0, <1>6, <2>1, <2>2, <2>3, PlainOrdered DEF Code
<1>7. CASE /\ path \notin {<<"readyz">>, <<"sitemap.xml">>, <<"intro.json">>, <<"favicon.svg">>,
                          <<"health">>}
           /\ ~IsPick(path)
  <2>1. s = Chrome
    BY <1>7 DEF Statements
  <2> QED  BY <1>7, <2>1, ChromeFits
<1> QED  BY <1>1, <1>2, <1>3, <1>4, <1>5, <1>6, <1>7

-----------------------------------------------------------------------------
(***************************************************************************)
(* Links.                                                                  *)
(***************************************************************************)
\* A collection that is enabled leads to its listing and to its pages.
LEMMA EnabledLeads ==
  ASSUME DatabaseFits, served # None, NEW name, Enabled(db, name) # {},
         NEW link \in RowLinks(name) \union {<<name>>}
  PROVE  Leads(db, link)
<1>1. PICK collection \in served.collections : collection.name = name
  BY DEF DatabaseFits, Holds, Enabled
<1>2. name # "theme"
  BY <1>1, CollectionNames DEF DatabaseFits, RESERVED_COLLECTIONS
<1>3. CASE link = <<name>>
  <2>1. Len(link) = 1 /\ link[1] = name
    BY <1>3
  <2> QED  BY <2>1 DEF Leads, IsPick, IsListing
<1>4. ASSUME NEW row \in Members(db, name), link = <<name, row.page.name>>
      PROVE  Leads(db, link)
  <2>1. Len(link) = 2 /\ link[1] = name /\ link[2] = row.page.name
    BY <1>4
  <2>2. row \in At(db, link)
    BY <2>1 DEF At
  <2> QED  BY <1>2, <2>1, <2>2 DEF Leads, IsPick
<1> QED  BY <1>3, <1>4 DEF RowLinks

\* A published page that is no member is where its route says.
LEMMA PageLeads ==
  ASSUME NEW row \in Published(db), ~IsMember(row.page), HasRoute(row.page)
  PROVE  Leads(db, Route(row.page))
<1> DEFINE path == Route(row.page)
<1>1. row \in PagesNamed(db, row.page.name)
  BY DEF PagesNamed
<1>2. CASE row.page.name = "index"
  <2>1. path = <<>> /\ Len(path) = 0
    BY <1>2 DEF Route
  <2>2. row \in At(db, path)
    BY <1>1, <1>2, <2>1 DEF At
  <2> QED  BY <2>1, <2>2 DEF Leads, IsPick
<1>3. CASE row.page.name # "index"
  <2>1. path = <<row.page.name>> /\ Len(path) = 1 /\ path[1] = row.page.name
    BY <1>3 DEF Route
  <2>2. row \in At(db, path)
    BY <1>1, <2>1 DEF At
  <2> QED  BY <2>1, <2>2 DEF Leads, IsPick
<1> QED  BY <1>2, <1>3

\* The palette is on a page that is no member.
LEMMA PickerLeads ==
  ASSUME DatabaseFits
  PROVE  Leads(db, PickerRoute(db)) \/ Dangling(PickerRoute(db))
<1>1. CASE PickerRoutes(db) = {}
  BY <1>1 DEF PickerRoute, Dangling
<1>2. CASE PickerRoutes(db) # {}
  <2>1. PickerRoute(db) \in PickerRoutes(db)
    BY <1>2 DEF PickerRoute
  <2>2. PICK row \in Published(db) :
          /\ row.page.style = "colorscheme" /\ HasRoute(row.page)
          /\ PickerRoute(db) = Route(row.page)
    BY <2>1 DEF PickerRoutes
  <2>3. PICK tree \in CheckedTrees : row \in Rows(tree)
    BY <2>2 DEF DatabaseFits, Published
  <2>4. PageSpecFits(row.page)
    BY <2>3, RowIsRow, Checked DEF FilesParse, PageParses
  <2>5. ~IsMember(row.page)
    BY <2>2, <2>4 DEF PageSpecFits
  <2> QED  BY <2>2, <2>5, PageLeads
<1> QED  BY <1>1, <1>2

LEMMA CommandLeads ==
  ASSUME DatabaseFits, NEW name \in NavCommands
  PROVE  \/ Leads(db, CommandLink(name)) \/ Dangling(CommandLink(name))
         \/ \E other : Enabled(db, other) # {} /\ CommandLink(name) = <<other>>
<1>1. CASE name = "colorscheme"
  <2>1. CommandLink(name) = PickerRoute(db)
    BY <1>1 DEF CommandLink
  <2> QED  BY <2>1, PickerLeads
<1>2. CASE name = "find"
  <2> DEFINE listed == SelectSeq(db.nav.items, LAMBDA item : item.to = "collection")
  <2>1. CommandLink(name) = IF listed = <<>> THEN <<>> ELSE <<Head(listed).name>>
    BY <1>2 DEF CommandLink
  <2> HIDE DEF listed
  <2>2. CASE CommandLink(name) = <<>>
    <3>1. PagesNamed(db, "index") # {} => Leads(db, <<>>)
      <4>1. At(db, <<>>) = PagesNamed(db, "index") /\ ~IsPick(<<>>)
        BY DEF At, IsPick
      <4> QED  BY <4>1 DEF Leads
    <3> QED  BY <2>2, <3>1 DEF Dangling
  <2>3. CASE CommandLink(name) = <<Head(listed).name>>
    <3>1. PICK other : other = Head(listed).name
      OBVIOUS
    <3>2. CommandLink("find") = <<other>>
      BY <1>2, <2>3, <3>1
    <3>3. Len(<<other>>) = 1 /\ <<other>>[1] = other
      OBVIOUS
    <3> QED  BY <1>2, <3>2, <3>3 DEF Dangling
  <2> QED  BY <2>1, <2>2, <2>3
<1>3. CASE name = "help"
  <2>1. CommandLink(name) = <<"help">>
    BY <1>3 DEF CommandLink
  <2> QED  BY <2>1 DEF Leads, CodeRoutes
<1>4. CASE name = "checkhealth"
  <2>1. CommandLink(name) = <<"health">>
    BY <1>4 DEF CommandLink
  <2> QED  BY <2>1 DEF Leads, CodeRoutes
<1> QED  BY <1>1, <1>2, <1>3, <1>4 DEF NavCommands

\* Every link leads somewhere, or is one of those that nothing checks.
LEMMA LinksFit ==
  ASSUME DatabaseFits
  PROVE  LinksLead
<1> SUFFICES ASSUME served # None, NEW link \in Links
             PROVE  Leads(db, link) \/ Dangling(link)
  BY DEF LinksLead
<1>0. /\ served \in CheckedTrees /\ Holds(served)
      /\ db.nav = served.nav /\ db.collections = served.collections
  BY DEF DatabaseFits, Holds
<1>1. ASSUME \E name : Enabled(db, name) # {} /\ link \in RowLinks(name) \union {<<name>>}
      PROVE  Leads(db, link)
  BY <1>1, EnabledLeads
<1>2. ASSUME link = <<>>
      PROVE  Leads(db, link) \/ Dangling(link)
  <2>1. At(db, <<>>) = PagesNamed(db, "index") /\ ~IsPick(<<>>)
    BY DEF At, IsPick
  <2> QED  BY <1>2, <2>1 DEF Leads, Dangling
<1>3. ASSUME link \in {<<"help">>, <<"health">>, <<"favicon.svg">>}
      PROVE  Leads(db, link)
  BY <1>3 DEF Leads, CodeRoutes
<1>4. ASSUME NEW item \in ToSet(db.nav.items), link \in ItemLinks(item)
      PROVE  Leads(db, link) \/ Dangling(link)
  <2>1. IsNavItem(item)
    <3>1. served.nav # None /\ IsTree(served)
      BY <1>0, Checked DEF NeededExist
    <3>2. IsNavSpec(served.nav)
      BY <3>1 DEF IsTree
    <3> QED  BY <1>0, <3>2 DEF IsNavSpec
  <2>2. CASE item.to = "page"
    <3>1. link \in {Route(row.page) : row \in PagesNamed(db, item.name)}
      BY <1>4, <2>2 DEF ItemLinks
    <3>2. PICK row \in PagesNamed(db, item.name) : link = Route(row.page)
      BY <3>1
    <3> QED  BY <3>2, PageLeads DEF PagesNamed
  <2>3. CASE item.to = "collection"
    <3>1. Enabled(db, item.name) # {} /\ link \in RowLinks(item.name) \union {<<item.name>>}
      BY <1>4, <2>3 DEF ItemLinks
    <3> QED  BY <1>1, <3>1
  <2>4. CASE item.to = "command"
    <3>1. item.name \in NavCommands
      BY <2>1, <2>4 DEF IsNavItem, IsNavLink
    <3>2. link = CommandLink(item.name)
      BY <1>4, <2>4 DEF ItemLinks
    <3> QED  BY <1>1, <3>1, <3>2, CommandLeads
  <2>5. CASE item.to \in {"value", "literal"}
    <3>1. IsNavLink(item)
      BY <2>1, <2>5 DEF IsNavItem
    <3>2. ItemLinks(item) = {}
      BY <2>5, <3>1 DEF ItemLinks
    <3> QED  BY <1>4, <3>2
  <2> QED  BY <2>1, <2>2, <2>3, <2>4, <2>5 DEF IsNavItem, IsNavLink
<1>5. CASE link \in FrameLinks
  <2>1. ASSUME NEW collection \in Enabled(db, db.nav.count), link = <<collection.name>>
        PROVE  Leads(db, link)
    <3>1. collection \in Enabled(db, collection.name)
      BY DEF Enabled
    <3> QED  BY <1>1, <2>1, <3>1
  <2>2. \/ \E item \in ToSet(db.nav.items) : link \in ItemLinks(item)
        \/ link \in {<<"help">>, <<"health">>, <<"favicon.svg">>}
        \/ \E collection \in Enabled(db, db.nav.count) : link = <<collection.name>>
    <3> DEFINE items == {ItemLinks(item) : item \in ToSet(db.nav.items)}
               counted == {<<collection.name>> : collection \in Enabled(db, db.nav.count)}
               fixed == {<<"help">>, <<"health">>, <<"favicon.svg">>}
    <3>1. link \in UNION items \/ link \in fixed \/ link \in counted
      BY <1>5, Zenon DEF FrameLinks
    <3>2. link \in UNION items => \E item \in ToSet(db.nav.items) : link \in ItemLinks(item)
      BY Zenon
    <3>3. link \in counted => \E collection \in Enabled(db, db.nav.count) : link = <<collection.name>>
      BY Zenon
    <3> HIDE DEF items, counted
    <3> QED  BY <3>1, <3>2, <3>3, Zenon
  <2> QED  BY <1>3, <1>4, <2>1, <2>2
<1>6. CASE link \in SitemapLinks
  <2>1. ASSUME NEW row \in Published(db), ~IsMember(row.page), row.page.name # "not-found",
               link = Route(row.page)
        PROVE  Leads(db, link)
    BY <2>1, PageLeads DEF HasRoute
  <2>2. ASSUME NEW collection \in db.collections, collection.enabled,
               link \in RowLinks(collection.name) \union {<<collection.name>>}
        PROVE  Leads(db, link)
    <3>1. collection \in Enabled(db, collection.name)
      BY <2>2 DEF Enabled
    <3> QED  BY <1>1, <2>2, <3>1
  <2>3. \/ link = <<>> \/ link = <<"help">>
        \/ \E row \in Published(db) :
             ~IsMember(row.page) /\ row.page.name # "not-found" /\ link = Route(row.page)
        \/ \E collection \in db.collections :
             collection.enabled /\ link \in RowLinks(collection.name) \union {<<collection.name>>}
    BY <1>6 DEF SitemapLinks
  <2> QED  BY <1>2, <1>3, <2>1, <2>2, <2>3
<1>7. CASE link \in PickLinks
  <2>1. PICK slug \in Slugs(db.themes) : link = <<"theme", slug>>
    BY <1>7 DEF PickLinks, Slugs
  <2>2. Len(link) = 2 /\ link[1] = "theme" /\ link[2] = slug
    BY <2>1
  <2> QED  BY <2>1, <2>2 DEF Leads, IsPick
<1>8. CASE link \in HealthLinks
  BY <1>8, PickerLeads DEF HealthLinks
<1>9. ASSUME NEW row \in Published(db), link \in DirectiveLinks(row)
      PROVE  Leads(db, link)
  <2>1. \E name : Enabled(db, name) # {} /\ link \in RowLinks(name) \union {<<name>>}
    BY <1>9 DEF DirectiveLinks
  <2> QED  BY <1>1, <2>1
<1> QED  BY <1>5, <1>6, <1>7, <1>8, <1>9 DEF Links

-----------------------------------------------------------------------------
(***************************************************************************)
(* What is drawn.                                                          *)
(***************************************************************************)
\* The two scans of a text: that of the check, and that of the renderer.
ScanStart == [fence |-> None, lines |-> {}]

Latest(S) == CHOOSE x \in S : \A y \in S : x >= y

CheckLine(scan, line) ==
  IF scan.fence # None
    THEN [scan EXCEPT !.fence = IF line = Fence(@) THEN None ELSE @]
    ELSE IF line.is = "fence" THEN [scan EXCEPT !.fence = line.mark]
         ELSE [scan EXCEPT !.lines = @ \union {line}]

DrawLine(scan, line) ==
  CASE scan.fence # None -> [scan EXCEPT !.fence = IF line = Fence(@) THEN None ELSE @]
    [] scan.fence = None /\ line.is = "fence" -> [scan EXCEPT !.fence = line.mark]
    [] OTHER -> [scan EXCEPT !.lines = @ \union {line}]

CheckScan(scans, text) ==
  [T \in SUBSET DOMAIN text |->
     IF T = {} THEN ScanStart ELSE CheckLine(scans[T \ {Latest(T)}], text[Latest(T)])]

DrawScan(scans, text) ==
  [T \in SUBSET DOMAIN text |->
     IF T = {} THEN ScanStart ELSE DrawLine(scans[T \ {Latest(T)}], text[Latest(T)])]

LEMMA CheckScans ==
  \A text :
    Unfenced(text) = (CHOOSE scans : scans = CheckScan(scans, text))[DOMAIN text].lines
BY Zenon DEF Unfenced, FoldLeft, MapThenFoldSet, Max, Latest, CheckScan, CheckLine, ScanStart

LEMMA DrawScans ==
  \A text : Drawn(text) = (CHOOSE scans : scans = DrawScan(scans, text))[DOMAIN text].lines
BY Zenon DEF Drawn, FoldLeft, MapThenFoldSet, Max, Latest, DrawScan, DrawLine, ScanStart

\* The renderer expands the lines that the check looked at.
LEMMA DrawnIsChecked == \A text : Drawn(text) = Unfenced(text)
<1>1. \A scan, line : DrawLine(scan, line) = CheckLine(scan, line)
  BY DEF DrawLine, CheckLine
<1>2. \A scans, text : DrawScan(scans, text) = CheckScan(scans, text)
  BY <1>1, Zenon DEF DrawScan, CheckScan
<1>3. ASSUME NEW text
      PROVE  Drawn(text) = Unfenced(text)
  <2>1. \A scans : (scans = DrawScan(scans, text)) <=> (scans = CheckScan(scans, text))
    BY <1>2
  <2>2. (CHOOSE scans : scans = DrawScan(scans, text))
          = (CHOOSE scans : scans = CheckScan(scans, text))
    BY <2>1
  <2> QED  BY <2>2, DrawScans, CheckScans
<1> QED  BY <1>3

\* A directive whose references resolve renders something.
LEMMA DirectiveShows ==
  ASSUME DatabaseFits, served # None, NEW part, part.is = "directive", Parses(part),
         \A reference \in ReferencesOf(part) : Resolves(served, reference)
  PROVE  Shows(part)
<1> DEFINE reference == [to |-> part.name, path |-> part.args, filter |-> part.filter]
           shape == SiteValue(served, part.args)
<1>1. served \in CheckedTrees /\ Holds(served)
  BY DEF DatabaseFits
<1>2. part.name \in {"value", "banner", "clone", "collection"} => Resolves(served, reference)
  BY DEF ReferencesOf
<1>3. reference.to = part.name /\ reference.path = part.args
  OBVIOUS
<1> HIDE DEF reference
<1>4. shape \in {"text", "number", "banner"} => Shape(part.args) = shape
  <2>1. None \notin {"text", "number", "banner"}
    BY TreesAssumption
  <2>2. db.site = served.site
    BY <1>1 DEF Holds
  <2>3. shape # None => Shape(part.args) = shape
    BY <2>2, Zenon DEF SiteValue, Shape
  <2> HIDE DEF shape
  <2> QED  BY <2>1, <2>3, Zenon
<1>5. CASE part.name = "value"
  <2>1. IsSiteValue(part.args) => shape \in {"text", "number"}
    BY <1>2, <1>3, <1>5 DEF Resolves
  <2> HIDE DEF shape
  <2> QED  BY <1>4, <1>5, <2>1 DEF Shows
<1>6. CASE part.name = "clone"
  <2>1. IsSiteValue(part.args) => shape = "text"
    BY <1>2, <1>3, <1>6 DEF Resolves
  <2> HIDE DEF shape
  <2> QED  BY <1>4, <1>6, <2>1 DEF Shows
<1>7. CASE part.name = "banner"
  <2>1. IsSiteValue(part.args) /\ shape = "banner"
    BY <1>2, <1>3, <1>7 DEF Resolves
  <2> HIDE DEF shape
  <2> QED  BY <1>4, <1>7, <2>1 DEF Shows
<1>8. CASE part.name = "link"
  BY <1>8 DEF Parses, ListsCollection, Shows
<1>9. CASE part.name = "links"
  BY <1>9 DEF Shows
<1>10. CASE part.name = "collection"
  <2>1. CollectionsNamed(served, part.args[1]) # {}
    BY <1>2, <1>3, <1>10 DEF Resolves
  <2>2. PICK collection \in served.collections : collection.name = part.args[1]
    BY <2>1 DEF CollectionsNamed
  <2>3. PICK kind \in served.kinds : kind.kind = collection.kind
    BY <1>1, Checked DEF TypesPair, KindsNamed
  <2>4. collection \in db.collections /\ kind \in KindOf(db, collection)
    BY <1>1, <2>2, <2>3 DEF Holds, KindOf
  <2> QED  BY <1>10, <2>2, <2>4 DEF Shows
<1> QED  BY <1>5, <1>6, <1>7, <1>8, <1>9, <1>10 DEF Parses, ListsCollection

\* So does a line that parses, and every line of a text that does.
LEMMA TextShows ==
  ASSUME DatabaseFits, served # None, NEW text, MarkdownParses(text),
         \A reference \in References(text) : Resolves(served, reference),
         NEW line \in Drawn(text)
  PROVE  LineShows(line)
<1>1. line \in Unfenced(text) /\ LineParses(line)
  BY DrawnIsChecked DEF MarkdownParses
<1>2. ASSUME NEW part \in ToSet(line.parts), part.is = "directive", Parses(part)
      PROVE  Shows(part)
  <2>1. \A reference \in ReferencesOf(part) : reference \in References(text)
    BY <1>1 DEF References, PartsReferences
  <2> QED  BY <1>2, <2>1, DirectiveShows
<1>3. CASE Alone(line.parts)
  <2>1. line.parts[1] \in ToSet(line.parts) /\ line.parts[1].is = "directive"
    BY <1>3 DEF Alone, ToSet, IsBlock
  <2>2. Parses(line.parts[1])
    BY <1>1, <1>3 DEF LineParses
  <2> QED  BY <1>2, <1>3, <2>1, <2>2 DEF LineShows
<1>4. CASE ~Alone(line.parts)
  <2>1. PartsParse(line.parts)
    BY <1>1, <1>4 DEF LineParses
  <2> QED  BY <1>2, <1>4, <2>1 DEF LineShows, PartsParse
<1> QED  BY <1>3, <1>4

\* The texts of a tree that checks parse, and what they refer to resolves.
LEMMA TextsResolve ==
  ASSUME NEW tree \in CheckedTrees, NEW text,
         \/ \E page \in tree.pages : text = TextOf(tree, page)
         \/ \E kind \in tree.kinds : text = kind.footer
  PROVE  MarkdownParses(text) /\ \A reference \in References(text) : Resolves(tree, reference)
<1>1. FilesParse(tree) /\ ReferencesResolve(tree)
  BY Checked DEF Checks
<1>2. MarkdownParses(text)
  BY <1>1 DEF FilesParse, PageKindParses, ContentParses
<1>3. \A reference \in References(text) : reference \in AllReferences(tree)
  BY Zenon DEF AllReferences
<1> QED  BY <1>1, <1>2, <1>3 DEF ReferencesResolve

\* The type of a page is the one of its kind, and it has one home.
LEMMA TypeOfPage ==
  ASSUME NEW tree \in CheckedTrees, NEW page \in tree.pages, NEW kind \in tree.kinds,
         page.kind = kind.kind
  PROVE  IsMember(page) /\ FieldsOf(tree, page) = kind.fields
<1>1. /\ FilesParse(tree) /\ NamesDiffer(tree) /\ PathsDiffer(tree)
  BY Checked DEF IsTree
<1>2. kind.kind # "Page"
  BY <1>1 DEF FilesParse, PageKindParses, BUILTIN_KINDS
<1>3. IsMember(page)
  BY <1>2, OtherKind
<1>4. PICK type : type = CHOOSE each \in TypesOfHome(tree, page.home) : TRUE
  OBVIOUS
<1>5. TypesOfHome(tree, page.home) # {}
  BY <1>1, <1>3 DEF FilesParse, PageParses, KindsAt
<1>6. type \in TypesOfHome(tree, page.home)
  BY <1>4, <1>5
<1>7. ASSUME NEW each \in TypesOfHome(tree, page.home)
      PROVE  each \in tree.kinds /\ each.kind = page.kind
  <2>1. PICK c \in tree.collections : c.name = page.home /\ each \in tree.kinds /\ each.kind = c.kind
    BY DEF TypesOfHome, CollectionsNamed, KindsNamed
  <2>2. PICK d \in tree.collections : d.name = page.home /\ d.kind = page.kind
    BY <1>3, MemberKind
  <2>3. c = d
    BY <1>1, <2>1, <2>2 DEF PathsDiffer
  <2> QED  BY <2>1, <2>2, <2>3
<1>8. type = kind
  BY <1>1, <1>6, <1>7 DEF NamesDiffer
<1> QED  BY <1>3, <1>4, <1>8 DEF FieldsOf

\* The metadata of a page fits its type, and what is drawn of it takes each.
LEMMA MetadataFits ==
  ASSUME NEW tree \in CheckedTrees, NEW page \in tree.pages, NEW kind \in tree.kinds,
         page.kind = kind.kind
  PROVE  /\ \A name \in DOMAIN page.metadata :
              /\ name \in DOMAIN kind.fields /\ IsFieldSpec(kind.fields[name])
              /\ FieldValue(kind.fields[name], page.metadata[name])
         /\ \A name \in DOMAIN kind.fields :
              kind.fields[name].required => name \in DOMAIN page.metadata
<1>1. FieldsOf(tree, page) = kind.fields
  BY TypeOfPage
<1>2. PageParses(tree, page) /\ IsPageKindSpec(kind)
  BY Checked DEF FilesParse, IsTree
<1> QED  BY <1>1, <1>2 DEF PageParses, IsPageKindSpec

LEMMA MetadataDraws ==
  ASSUME DatabaseFits, served # None, NEW page \in served.pages, NEW kind \in served.kinds,
         page.kind = kind.kind
  PROVE  MetadataShows(kind, page.metadata)
<1> DEFINE metadata == page.metadata
           fields == kind.fields
<1>1. /\ served \in CheckedTrees /\ db.collections = served.collections
      /\ NamesDiffer(served) /\ TypesPair(served)
  BY Checked DEF DatabaseFits, Holds
<1>2. PageKindParses(kind) /\ IsPageKindSpec(kind)
  BY <1>1, Checked DEF FilesParse, IsTree
<1>3. ASSUME NEW name \in DOMAIN metadata
      PROVE  /\ name \in DOMAIN fields /\ IsFieldSpec(fields[name])
             /\ FieldValue(fields[name], metadata[name])
  BY <1>1, MetadataFits
<1> HIDE DEF metadata
<1>4. ASSUME NEW name \in DOMAIN metadata
      PROVE  FrontmatterShows(fields[name], metadata[name])
  <2>1. fields[name].type \in FieldTypes /\ FieldValue(fields[name], metadata[name])
    BY <1>3 DEF IsFieldSpec
  <2> QED  BY <2>1 DEF FieldTypes, FieldValue, FrontmatterShows
<1>5. ASSUME NEW collection \in db.collections, collection.kind = kind.kind,
             NEW column \in collection.columns \intersect DOMAIN metadata
      PROVE  CellShows(metadata[column])
  <2>1. PICK each \in KindsNamed(served, collection.kind) : CollectionFits(collection, each)
    BY <1>1 DEF TypesPair
  <2>2. each = kind
    BY <1>1, <1>5, <2>1 DEF KindsNamed, NamesDiffer
  <2>3. fields[column].type # "links"
    BY <2>1, <2>2 DEF CollectionFits
  <2>4. fields[column].type \in FieldTypes /\ FieldValue(fields[column], metadata[column])
    BY <1>3 DEF IsFieldSpec
  <2> QED  BY <2>3, <2>4 DEF FieldTypes, FieldValue, CellShows
<1>6. ASSUME NEW source \in kind.json_ld
      PROVE  LdShows(source, metadata)
  <2>1. JsonLdSource(source, fields)
    BY <1>2 DEF PageKindParses
  <2>2. CASE source \in {<<"title">>, <<"description">>}
    BY <2>2 DEF LdShows
  <2>3. CASE Len(source) = 1
    BY <2>3 DEF LdShows
  <2>4. CASE source[1] \in DOMAIN fields /\ source[2] \in fields[source[1]].keys
    <3>1. fields[source[1]].type = "links"
      BY <1>2, <2>4 DEF PageKindParses, FieldParses
    <3>2. source[1] \in DOMAIN metadata => metadata[source[1]].is = "links"
      BY <1>3, <3>1 DEF FieldValue
    <3> QED  BY <3>2 DEF LdShows
  <2> QED  BY <2>1, <2>2, <2>3, <2>4 DEF JsonLdSource
<1>7. kind.summary \in DOMAIN metadata => metadata[kind.summary].is = "string"
  <2>1. SUFFICES ASSUME kind.summary \in DOMAIN metadata
                 PROVE  metadata[kind.summary].is = "string"
    OBVIOUS
  <2>2. kind.summary \in STRING
    BY <1>2, <1>3, <2>1 DEF IsPageKindSpec
  <2>3. fields[kind.summary].type = "string"
    BY <1>2, <2>2, TreesAssumption DEF PageKindParses
  <2> QED  BY <1>3, <2>1, <2>3 DEF FieldValue
<1> QED  BY <1>3, <1>4, <1>5, <1>6, <1>7 DEF MetadataShows, metadata

\* Whatever row the index kept, its source is that of the revision's file.
LEMMA ValuesShow ==
  ASSUME DatabaseFits
  PROVE  EveryValueShows
<1> SUFFICES ASSUME served # None, NEW row \in db.pages
             PROVE  /\ \A line \in DrawnLines(row) : LineShows(line)
                    /\ \A kind \in db.kinds :
                         kind.kind = row.page.kind => MetadataShows(kind, row.page.metadata)
  BY DEF EveryValueShows
<1>1. served \in CheckedTrees /\ db.kinds = served.kinds
  BY DEF DatabaseFits, Holds
<1>2. Like(db.pages, served)
  BY DEF DatabaseFits
<1>3. PICK page \in served.pages :
        /\ row.text = TextOf(served, page)
        /\ \A field \in PageFields \ {"home"} : row.page[field] = page[field]
  BY <1>1, <1>2, LikeSays
<1>4. row.page.kind = page.kind /\ row.page.metadata = page.metadata
  BY <1>3 DEF PageFields
<1>5. ASSUME NEW line \in DrawnLines(row)
      PROVE  LineShows(line)
  <2>1. PICK text : /\ line \in Drawn(text)
                    /\ \/ text = row.text
                       \/ \E kind \in db.kinds : text = kind.footer
    BY DEF DrawnLines
  <2>2. MarkdownParses(text) /\ \A reference \in References(text) : Resolves(served, reference)
    BY <1>1, <1>3, <2>1, TextsResolve
  <2> QED  BY <2>1, <2>2, TextShows
<1>6. ASSUME NEW kind \in db.kinds, kind.kind = row.page.kind
      PROVE  MetadataShows(kind, row.page.metadata)
  BY <1>1, <1>4, <1>6, MetadataDraws
<1> QED  BY <1>5, <1>6

-----------------------------------------------------------------------------
(***************************************************************************)
(* The private API.                                                        *)
(***************************************************************************)
\* The pages of a type are those in its home.
LEMMA PagesOfType ==
  ASSUME NEW tree \in CheckedTrees, NEW kind \in tree.kinds, NEW page \in tree.pages
  PROVE  page.kind = kind.kind <=> \E collection \in tree.collections :
                                     collection.kind = kind.kind /\ page.home = collection.name
<1>1. PathsDiffer(tree)
  BY Checked DEF IsTree
<1>2. ASSUME page.kind = kind.kind
      PROVE  \E collection \in tree.collections :
               collection.kind = kind.kind /\ page.home = collection.name
  <2>1. IsMember(page)
    BY <1>2, TypeOfPage
  <2> QED  BY <1>2, <2>1, MemberKind
<1>3. ASSUME NEW collection \in tree.collections,
             collection.kind = kind.kind, page.home = collection.name
      PROVE  page.kind = kind.kind
  <2>1. IsMember(page)
    BY <1>3, CollectionNames DEF IsMember, RESERVED_COLLECTIONS
  <2>2. PICK other \in tree.collections : other.name = page.home /\ other.kind = page.kind
    BY <2>1, MemberKind
  <2>3. other = collection
    BY <1>1, <1>3, <2>2 DEF PathsDiffer
  <2> QED  BY <1>3, <2>2, <2>3
<1> QED  BY <1>2, <1>3

\* A type has one home.
LEMMA HomeOfType ==
  ASSUME NEW tree \in CheckedTrees, NEW kind \in tree.kinds
  PROVE  \E home \in tree.collections :
           {collection \in tree.collections : collection.kind = kind.kind} = {home}
<1> DEFINE homes == {collection \in tree.collections : collection.kind = kind.kind}
<1>1. Cardinality(homes) = 1
  BY Checked DEF TypesPair
<1>2. IsFiniteSet(tree.collections)
  BY Checked DEF IsTree, PathsDiffer
<1>3. IsFiniteSet(homes) /\ homes \subseteq tree.collections
  BY <1>2, FS_Subset
<1> HIDE DEF homes
<1>4. PICK home : homes = {home}
  BY <1>1, <1>3, FS_Singleton
<1> QED  BY <1>3, <1>4 DEF homes

\* A plural that no route of the code takes is that of one type, and what it
\* lists are the pages of that type.
LEMMA Listed ==
  ASSUME DatabaseFits, served # None, NEW kind \in served.kinds, kind.plural \notin ForgottenNouns
  PROVE  /\ List(kind.plural) = {row \in db.pages : row.page.kind = kind.kind}
         /\ \A name : Item(kind.plural, name)
                        = {row \in db.pages : Key(row) = <<kind.kind, name>>}
<1>1. /\ served \in CheckedTrees
      /\ db.kinds = served.kinds /\ db.collections = served.collections
  BY DEF DatabaseFits, Holds
<1>2. kind.plural \notin AnsweredFirst \union {"metrics"}
  <2>1. Nouns(kind) \intersect BUILTIN_RESOURCES = {}
    BY <1>1, Checked DEF FilesParse, PageKindParses
  <2>2. kind.plural \notin BUILTIN_RESOURCES
    BY <2>1 DEF Nouns
  <2> QED  BY <2>2 DEF ForgottenNouns
<1>3. {each \in Paired : each.plural = kind.plural} = {kind}
  <2>1. kind \in Paired
    BY <1>1, HomeOfType DEF Paired
  <2>2. ASSUME NEW each \in served.kinds, each.plural = kind.plural
        PROVE  each = kind
    <3>1. each.plural \in Nouns(each) /\ each.plural \in Nouns(kind)
      BY <2>2 DEF Nouns
    <3>2. each # kind => Nouns(each) \intersect Nouns(kind) = {}
      BY <1>1, Checked DEF NamesDiffer
    <3> QED  BY <3>1, <3>2
  <2> QED  BY <1>1, <2>1, <2>2 DEF Paired
<1>4. List(kind.plural) = UNION {{row \in db.pages : row.page.kind = each.kind} : each \in {kind}}
  BY <1>2, <1>3, Zenon DEF List
<1>5. ASSUME NEW name
      PROVE  Item(kind.plural, name)
               = UNION {{row \in db.pages : Key(row) = <<each.kind, name>>} : each \in {kind}}
  BY <1>2, <1>3, Zenon DEF Item
<1>6. \A rows : UNION {rows} = rows
  BY Zenon
<1> QED  BY <1>4, <1>5, <1>6

\* The schema of a type takes what the API serves of its pages, the times of
\* the server in the place of fields of their names.
LEMMA SchemaDescribes ==
  ASSUME NEW tree \in CheckedTrees, NEW page \in tree.pages, NEW kind \in tree.kinds,
         page.kind = kind.kind, NEW row, row.page.metadata = page.metadata
  PROVE  Described(kind, Served(row))
<1> DEFINE metadata == row.page.metadata
           fields == kind.fields
           schemas == [name \in DOMAIN fields |-> FieldSchema(fields[name])]
           time == [is |-> "string", text |-> "time"]
<1>1. metadata = page.metadata
  OBVIOUS
<1>2. ASSUME NEW name \in DOMAIN metadata
      PROVE  /\ name \in DOMAIN fields /\ IsFieldSpec(fields[name])
             /\ FieldValue(fields[name], metadata[name])
  BY <1>1, MetadataFits
<1>3. \A name \in DOMAIN fields : fields[name].required => name \in DOMAIN metadata
  BY <1>1, MetadataFits
<1>4. /\ DOMAIN Served(row) = ServerFields \union DOMAIN metadata
      /\ \A name \in DOMAIN Served(row) :
           Served(row)[name] = IF name \in ServerFields THEN time ELSE metadata[name]
  BY DEF Served, WithServerFields
<1>5. /\ DOMAIN Schema(kind) = ServerFields \union DOMAIN fields
      /\ \A name \in DOMAIN Schema(kind) :
           Schema(kind)[name] = IF name \in ServerFields THEN [type |-> "string"]
                                ELSE FieldSchema(fields[name])
  <2>1. /\ DOMAIN schemas = DOMAIN fields
        /\ \A name \in DOMAIN fields : schemas[name] = FieldSchema(fields[name])
    OBVIOUS
  <2>2. Schema(kind) = WithServerFields([type |-> "string"], schemas)
    BY Zenon DEF Schema
  <2> HIDE DEF schemas
  <2> QED  BY <2>1, <2>2 DEF WithServerFields
<1>6. Admits([type |-> "string"], time)
  BY DEF Admits
<1>7. ASSUME NEW field, NEW value, IsFieldSpec(field), FieldValue(field, value)
      PROVE  Admits(FieldSchema(field), value)
  <2>1. field.type \in FieldTypes
    BY <1>7 DEF IsFieldSpec
  <2>2. CASE field.type = "links"
    BY <1>7, <2>2 DEF FieldValue, FieldSchema, Admits
  <2>3. CASE field.type = "list"
    BY <1>7, <2>3 DEF FieldValue, FieldSchema, Admits
  <2>4. CASE field.type = "enum"
    BY <1>7, <2>4 DEF FieldValue, FieldSchema, Admits
  <2>5. CASE field.type = "int"
    BY <1>7, <2>5 DEF FieldValue, FieldSchema, Admits
  <2>6. CASE field.type = "bool"
    BY <1>7, <2>6 DEF FieldValue, FieldSchema, Admits
  <2>7. CASE field.type \in {"string", "url"}
    BY <1>7, <2>7 DEF FieldValue, FieldSchema, Admits
  <2> QED  BY <2>1, <2>2, <2>3, <2>4, <2>5, <2>6, <2>7 DEF FieldTypes
<1> HIDE DEF metadata, fields, time
<1>8. Required(kind) \subseteq DOMAIN Served(row)
  BY <1>3, <1>4 DEF Required, fields
<1>9. ASSUME NEW name \in DOMAIN Served(row)
      PROVE  name \in DOMAIN Schema(kind) /\ Admits(Schema(kind)[name], Served(row)[name])
  <2>1. CASE name \in ServerFields
    <3>1. name \in DOMAIN Schema(kind) /\ Schema(kind)[name] = [type |-> "string"]
      BY <1>5, <2>1
    <3>2. Served(row)[name] = time
      BY <1>4, <2>1
    <3> QED  BY <1>6, <3>1, <3>2, Zenon
  <2>2. CASE name \notin ServerFields
    <3>1. name \in DOMAIN metadata /\ Served(row)[name] = metadata[name]
      BY <1>4, <2>2
    <3>2. /\ name \in DOMAIN fields /\ IsFieldSpec(fields[name])
          /\ FieldValue(fields[name], metadata[name])
      BY <1>2, <3>1
    <3>3. name \in DOMAIN Schema(kind) /\ Schema(kind)[name] = FieldSchema(fields[name])
      BY <1>5, <2>2, <3>2
    <3>4. Admits(FieldSchema(fields[name]), metadata[name])
      BY <1>7, <3>2
    <3> QED  BY <3>1, <3>3, <3>4, Zenon
  <2> QED  BY <2>1, <2>2
<1> QED  BY <1>8, <1>9 DEF Described

\* Without those times it is the metadata of the page again.
LEMMA AppliedIsServed ==
  ASSUME NEW tree \in CheckedTrees, NEW page \in tree.pages, NEW kind \in tree.kinds,
         page.kind = kind.kind, ServerFields \intersect DOMAIN kind.fields = {},
         NEW row, row.page.metadata = page.metadata
  PROVE  Applied(row).metadata = row.page.metadata
<1> DEFINE metadata == row.page.metadata
           served_as == Served(row)
<1>1. metadata = page.metadata
  OBVIOUS
<1>2. metadata = [name \in DOMAIN metadata |-> metadata[name]]
  <2>1. IsPageSpec(page)
    BY Checked DEF IsTree
  <2>2. HasFields(page.metadata, DOMAIN page.metadata)
    BY <2>1 DEF IsPageSpec
  <2> HIDE DEF metadata
  <2>3. HasFields(metadata, DOMAIN metadata)
    BY <1>1, <2>2
  <2> QED  BY <2>3, Zenon DEF HasFields
<1>3. DOMAIN metadata \intersect ServerFields = {}
  <2>1. \A name \in DOMAIN metadata : name \in DOMAIN kind.fields
    BY <1>1, MetadataFits
  <2> QED  BY <2>1
<1>4. /\ DOMAIN served_as = ServerFields \union DOMAIN metadata
      /\ \A name \in DOMAIN metadata : served_as[name] = metadata[name]
  BY <1>3 DEF Served, WithServerFields
<1> HIDE DEF served_as, metadata
<1>5. DOMAIN served_as \ ServerFields = DOMAIN metadata
  BY <1>3, <1>4
<1>6. WithoutServerFields(served_as) = [name \in DOMAIN metadata |-> served_as[name]]
  BY <1>5, Zenon DEF WithoutServerFields, Restrict
<1>7. [name \in DOMAIN metadata |-> served_as[name]] = [name \in DOMAIN metadata |-> metadata[name]]
  BY <1>4
<1>8. Applied(row).metadata = WithoutServerFields(served_as)
  BY DEF Applied, served_as
<1> QED  BY <1>2, <1>6, <1>7, <1>8 DEF metadata

\* The place discovery names for a page is the one its file is at.
LEMMA GoesBack ==
  ASSUME DatabaseFits, served # None, NEW page \in served.pages,
         NEW row, row.page.kind = page.kind, row.page.name = page.name
  PROVE  Applied(row).at = Location(page)
<1>1. served \in CheckedTrees /\ db.collections = served.collections
  BY DEF DatabaseFits, Holds
<1>2. row.page.kind = page.kind /\ row.page.name = page.name
  OBVIOUS
<1>3. Applied(row).at = Located(SourceOf(row))
  BY DEF Applied
<1>4. CASE ~IsMember(page)
  <2>1. SourceOf(row) = <<"pages", page.name>>
    BY <1>1, <1>2, <1>4, OtherKind DEF SourceOf
  <2>2. Located(<<"pages", page.name>>) = [kind |-> "Page", home |-> None, name |-> page.name]
    BY DEF Located, Directories
  <2> QED  BY <1>3, <1>4, <2>1, <2>2 DEF Location
<1>5. CASE IsMember(page)
  <2>1. page.kind # "Page"
    BY <1>1, <1>2, <1>5, MemberKind
  <2>2. PICK collection \in served.collections, kind \in served.kinds :
          collection.name = page.home /\ collection.kind = page.kind /\ kind.kind = page.kind
    BY <1>1, <1>2, <1>5, MemberKind
  <2> DEFINE homes == {each \in db.collections : each.kind = page.kind}
  <2>3. homes = {collection}
    BY <1>1, <2>2, HomeOfType
  <2>4. SourceOf(row) = <<(CHOOSE each \in homes : TRUE).name, page.name>>
    BY <2>1 DEF SourceOf
  <2>5. (CHOOSE each \in homes : TRUE) = collection
    BY <2>3
  <2>6. page.home \notin {"kinds", "collections", "themes", "pages"}
    BY <1>1, <2>2, CollectionNames DEF RESERVED_COLLECTIONS
  <2> HIDE DEF homes
  <2>7. SourceOf(row) = <<page.home, page.name>>
    BY <2>2, <2>4, <2>5
  <2>8. Located(<<page.home, page.name>>) = [kind |-> None, home |-> page.home, name |-> page.name]
    BY <2>6 DEF Located, Directories
  <2> QED  BY <1>3, <1>5, <2>7, <2>8 DEF Location
<1> QED  BY <1>4, <1>5

\* Only nouns that the check forgets are those of two resources.
LEMMA NounsFit ==
  ASSUME DatabaseFits, served # None, NEW a \in Resources, NEW b \in Resources, a # b
  PROVE  a \intersect b \subseteq ForgottenNouns
<1>1. served \in CheckedTrees /\ db.kinds = served.kinds
  BY DEF DatabaseFits, Holds
<1>2. ASSUME NEW x \in BuiltinNouns, NEW y \in BuiltinNouns, x # y
      PROVE  x \intersect y = {}
  BY <1>2 DEF BuiltinNouns, KeptNouns
<1>3. ASSUME NEW x \in BuiltinNouns, NEW kind \in served.kinds
      PROVE  x \intersect Nouns(kind) \subseteq ForgottenNouns
  <2>1. Nouns(kind) \intersect BUILTIN_RESOURCES = {}
    BY <1>1, Checked DEF FilesParse, PageKindParses
  <2>2. x \subseteq UNION BuiltinNouns
    BY Zenon
  <2> QED  BY <2>1, <2>2 DEF ForgottenNouns
<1>4. ASSUME NEW each \in served.kinds, NEW other \in served.kinds, Nouns(each) # Nouns(other)
      PROVE  Nouns(each) \intersect Nouns(other) = {}
  BY <1>1, <1>4, Checked DEF NamesDiffer
<1>5. ASSUME NEW x \in Resources
      PROVE  x \in BuiltinNouns \/ \E kind \in served.kinds : x = Nouns(kind)
  BY <1>1 DEF Resources, Paired
<1> QED  BY <1>2, <1>3, <1>4, <1>5

\* What the API answers of the page types fits the revision.
LEMMA TypesFit ==
  ASSUME DatabaseFits
  PROVE  TypesServed
<1> SUFFICES ASSUME served # None
             PROVE  TypesServed
  BY DEF TypesServed
<1>1. served \in CheckedTrees /\ Like(db.pages, served)
  BY DEF DatabaseFits
<1>2. ASSUME NEW kind \in {each \in served.kinds : each.plural \notin ForgottenNouns}
      PROVE  LET names == {page.name : page \in {each \in served.pages :
                             \E collection \in served.collections :
                               collection.kind = kind.kind /\ each.home = collection.name}}
             IN /\ {row.page.name : row \in List(kind.plural)} = names
                /\ \A name \in names : Item(kind.plural, name) # {}
                /\ \A row \in List(kind.plural) :
                     /\ Described(kind, Served(row))
                     /\ \/ Applied(row).metadata = row.page.metadata
                        \/ ServerFields \intersect DOMAIN kind.fields # {}
  <2> DEFINE pages == {each \in served.pages :
                         \E collection \in served.collections :
                           collection.kind = kind.kind /\ each.home = collection.name}
             names == {page.name : page \in pages}
             rows == List(kind.plural)
  <2>0. kind \in served.kinds /\ kind.plural \notin ForgottenNouns
    OBVIOUS
  <2>1. /\ rows = {row \in db.pages : row.page.kind = kind.kind}
        /\ \A name : Item(kind.plural, name) = {row \in db.pages : Key(row) = <<kind.kind, name>>}
    BY <2>0, Listed
  <2>2. ASSUME NEW page
        PROVE  page \in pages <=> page \in served.pages /\ page.kind = kind.kind
    BY <1>1, <2>0, PagesOfType
  <2> HIDE DEF pages, rows
  <2>3. ASSUME NEW page \in pages
        PROVE  \E row \in rows : row.page.kind = kind.kind /\ row.page.name = page.name
    <3>1. page \in served.pages /\ page.kind = kind.kind
      BY <2>2
    <3>2. PICK row \in db.pages : \A field \in PageFields \ {"home"} : row.page[field] = page[field]
      BY <1>1, <3>1, LikeHas
    <3> QED  BY <2>1, <3>1, <3>2 DEF PageFields
  <2>4. ASSUME NEW row \in rows
        PROVE  \E page \in pages : row.page.name = page.name /\ row.page.metadata = page.metadata
    <3>1. row \in db.pages /\ row.page.kind = kind.kind
      BY <2>1
    <3>2. PICK page \in served.pages :
            \A field \in PageFields \ {"home"} : row.page[field] = page[field]
      BY <1>1, <3>1, LikeSays
    <3> QED  BY <2>2, <3>1, <3>2 DEF PageFields
  <2>5. {row.page.name : row \in rows} = names
    BY <2>3, <2>4
  <2>6. ASSUME NEW name \in names
        PROVE  Item(kind.plural, name) # {}
    <3>1. PICK page \in pages : name = page.name
      OBVIOUS
    <3>2. PICK row \in rows : row.page.kind = kind.kind /\ row.page.name = name
      BY <2>3, <3>1
    <3>3. row \in db.pages /\ Key(row) = <<kind.kind, name>>
      BY <2>1, <3>2 DEF Key
    <3> QED  BY <2>1, <3>3
  <2>7. ASSUME NEW row \in rows
        PROVE  /\ Described(kind, Served(row))
               /\ \/ Applied(row).metadata = row.page.metadata
                  \/ ServerFields \intersect DOMAIN kind.fields # {}
    <3>1. PICK page \in pages : row.page.metadata = page.metadata
      BY <2>4
    <3>2. page \in served.pages /\ page.kind = kind.kind
      BY <2>2, <3>1
    <3> QED  BY <1>1, <2>0, <3>1, <3>2, SchemaDescribes, AppliedIsServed
  <2> QED  BY <2>5, <2>6, <2>7 DEF pages, rows
<1>3. ASSUME NEW row \in db.pages
      PROVE  \E file \in served.pages : Same(row.page, file) /\ Applied(row).at = Location(file)
  <2>1. PICK file \in served.pages :
          /\ Same(row.page, file)
          /\ \A field \in PageFields \ {"home"} : row.page[field] = file[field]
    BY <1>1, LikeSays
  <2>2. row.page.kind = file.kind /\ row.page.name = file.name
    BY <2>1 DEF PageFields
  <2>3. Applied(row).at = Location(file)
    BY <2>2, GoesBack
  <2> QED  BY <2>1, <2>3
<1>4. \A a, b \in Resources : a # b => a \intersect b \subseteq ForgottenNouns
  BY NounsFit
<1> QED  BY <1>2, <1>3, <1>4, Zenon DEF TypesServed

-----------------------------------------------------------------------------
(***************************************************************************)
(* Steps of a request.                                                     *)
(***************************************************************************)
\* What a request goes by, which none of its steps changes.
SameRequest(old, new) ==
  /\ DOMAIN new = DOMAIN old
  /\ new.path = old.path /\ new.from = old.from
  /\ new.ready = old.ready /\ new.crossed = old.crossed

LEMMA StaysFit ==
  ASSUME NEW old, NEW new, SameRequest(old, new), RequestFits(old), new.again \in BOOLEAN
  PROVE  RequestFits(new)
BY DEF SameRequest, RequestFits

\* A request alone takes a step.
LEMMA RequestSteps ==
  ASSUME DatabaseFits, NEW r, request' = r, InvOf(r), UNCHANGED <<db, served>>,
         UNCHANGED ready \/ (ready' => served # None)
  PROVE  IInv'
<1>1. DatabaseFits'
  BY DEF DatabaseFits, Holds
<1>2. InvOf(request)'
  <2>1. RequestFits(r)'
    BY DEF InvOf, RequestFits
  <2>2. r.answer = None => ReadingFits(r)'
    BY DEF InvOf, ReadingFits
  <2>3. r.answer = None => ViewFits(r)'
    BY DEF InvOf, ViewFits
  <2>4. r.answer # None => AnswerFits(r, r.answer)'
    BY DEF InvOf, AnswerFits, Serves, Right, Explained, IsPublished
  <2>5. InvOf(r)'
    BY <2>1, <2>2, <2>3, <2>4 DEF InvOf
  <2> QED  BY <2>5 DEF InvOf, RequestFits, ReadingFits, ViewFits, AnswerFits, Serves, Right,
                       Explained, IsPublished
<1> QED  BY <1>1, <1>2 DEF IInv

\* It is answered.
LEMMA Replies ==
  ASSUME DatabaseFits, InvOf(request), request.answer = None, NEW answer,
         Answer(answer), AnswerFits(request, answer), UNCHANGED <<db, served>>,
         UNCHANGED ready \/ (ready' => served # None)
  PROVE  IInv'
<1> DEFINE r == [request EXCEPT !.answer = answer]
<1>1. DOMAIN request = RequestFields /\ RequestFits(request)
  BY DEF InvOf, RequestFits
<1>2. /\ SameRequest(request, r) /\ r.again = request.again /\ r.answer = answer
      /\ r.reading = request.reading /\ r.view = request.view
  BY <1>1 DEF SameRequest, RequestFields
<1>3. request' = r
  BY DEF Answer
<1> HIDE DEF r
<1>4. RequestFits(r)
  BY <1>1, <1>2, StaysFit DEF RequestFits
<1>5. r.answer = None => ReadingFits(r) /\ ViewFits(r)
  BY <1>2 DEF InvOf, SameRequest, ReadingFits, ViewFits
<1>6. r.answer # None => AnswerFits(r, r.answer)
  BY <1>2 DEF SameRequest, AnswerFits, Serves, Right, Explained, IsPublished
<1>7. InvOf(r)
  BY <1>4, <1>5, <1>6 DEF InvOf
<1> QED  BY <1>3, <1>7, RequestSteps

\* It reads on, with nothing new to show for it or one table more.
LEMMA ReadsOn ==
  ASSUME DatabaseFits, InvOf(request), request.answer = None, NEW reading, NEW view,
         request' = [request EXCEPT !.reading = reading, !.view = view],
         LET r == [request EXCEPT !.reading = reading, !.view = view]
         IN  ReadingFits(r) /\ ViewFits(r),
         UNCHANGED <<db, served, ready>>
  PROVE  IInv'
<1> DEFINE r == [request EXCEPT !.reading = reading, !.view = view]
<1>1. DOMAIN request = RequestFields /\ RequestFits(request)
  BY DEF InvOf, RequestFits
<1>2. SameRequest(request, r) /\ r.again = request.again /\ r.answer = request.answer
  BY <1>1 DEF SameRequest, RequestFields
<1>3. request' = r /\ ReadingFits(r) /\ ViewFits(r)
  OBVIOUS
<1> HIDE DEF r
<1>4. RequestFits(r)
  BY <1>1, <1>2, StaysFit DEF RequestFits
<1>5. InvOf(r)
  BY <1>2, <1>3, <1>4 DEF InvOf
<1> QED  BY <1>3, <1>5, RequestSteps

\* What is left of a list that fits fits, with what has been read.
LEMMA ReadingGoesOn ==
  ASSUME NEW r, RequestFits(r), ReadingFits(r), r.reading # <<>>, NEW q, SameRequest(r, q),
         q.again = r.again, q.reading = Tail(r.reading), DOMAIN r.view \subseteq DOMAIN q.view,
         Head(r.reading) \in {"site", "nav", "pages", "collections"} =>
           Head(r.reading) \in DOMAIN q.view,
         Head(r.reading) # "slug"
  PROVE  ReadingFits(q)
<1>1. PICK s, have, more : s = r.reading /\ have = DOMAIN r.view /\ more = DOMAIN q.view
  OBVIOUS
<1>2. Ordered(s, have) /\ s # <<>> /\ have \subseteq more /\ s \in Seq(Words)
  BY <1>1 DEF ReadingFits, Ordered
<1>3. /\ Len(s) \in Nat \ {0} /\ Len(Tail(s)) = Len(s) - 1
      /\ \A i \in 1 .. Len(Tail(s)) : Tail(s)[i] = s[i + 1]
      /\ Head(s) = s[1]
  BY <1>2, TailAt
<1>4. Ordered(Tail(s), more)
  BY <1>1, <1>2, OrderedTail
<1>5. \A i \in 1 .. Len(Tail(s)) : Tail(s)[i] = "slug" => IsPick(q.path)
  BY <1>1, <1>3 DEF ReadingFits, SameRequest
<1>6. ~(IsPick(r.path) /\ ~r.again)
  <2>1. s = <<"slug">> => Head(s) = "slug"
    OBVIOUS
  <2> QED  BY <1>1, <2>1 DEF ReadingFits
<1>7. ASSUME NEW table \in {"nav", "pages", "collections"}, Comes(s, have, table)
      PROVE  Comes(Tail(s), more, table)
  BY <1>1, <1>2, <1>7, ComesTail
<1> QED  BY <1>1, <1>4, <1>5, <1>6, <1>7 DEF ReadingFits, SameRequest

\* `render_not_found` begins.
LEMMA LooksAgainFits ==
  ASSUME DatabaseFits, InvOf(request), request.answer = None, LooksAgain,
         request.from # None /\ ~request.crossed /\ ~Code(request.path)
           => Elsewhere(request.from, request.path, db.pages),
         UNCHANGED <<db, served, ready>>
  PROVE  IInv'
<1> DEFINE r == [request EXCEPT !.reading = Chrome, !.view = <<>>, !.again = TRUE]
<1>1. DOMAIN request = RequestFields /\ RequestFits(request)
  BY DEF InvOf, RequestFits
<1>2. /\ SameRequest(request, r) /\ r.again = TRUE /\ r.answer = request.answer
      /\ r.reading = Chrome /\ r.view = <<>>
  BY <1>1 DEF SameRequest, RequestFields
<1>3. request' = r
  BY DEF LooksAgain
<1> HIDE DEF r
<1>4. RequestFits(r)
  BY <1>1, <1>2, StaysFit
<1>5. DOMAIN r.view = {}
  BY <1>2
<1>6. ReadingFits(r)
  BY <1>2, <1>5, ChromeFits DEF ReadingFits
<1>7. ViewFits(r)
  BY <1>2, <1>5 DEF ViewFits, SameRequest, InvOf
<1>8. InvOf(r)
  BY <1>2, <1>4, <1>6, <1>7 DEF InvOf
<1> QED  BY <1>3, <1>8, RequestSteps

-----------------------------------------------------------------------------
(***************************************************************************)
(* The steps.                                                              *)
(***************************************************************************)
LEMMA InitHolds == Init => IInv
<1> SUFFICES ASSUME Init PROVE IInv
  OBVIOUS
<1>1. db = Empty \/ \E tree \in CheckedTrees : db = Older(tree)
  BY DEF Init
<1>2. PICK empty : empty = Empty
  OBVIOUS
<1>3. DOMAIN empty = Tables /\ empty.nav = None /\ empty.pages = {}
  BY <1>2 DEF Empty, Tables
<1>4. db = empty \/ \E tree \in CheckedTrees :
        db = [empty EXCEPT !.site = tree.site, !.profile = tree.profile,
                           !.themes = tree.themes, !.synced = TRUE]
  BY <1>1, <1>2 DEF Older
<1>5. DOMAIN db = Tables /\ db.nav = None /\ db.pages = {}
  BY <1>3, <1>4 DEF Tables
<1> QED  BY <1>5 DEF IInv, DatabaseFits, Init

\* A table of the database is that of the tree it shows.
LEMMA TableShows ==
  ASSUME DatabaseFits, served # None, NEW table \in ModelSet
  PROVE  Shown(served, table, db[table])
BY DEF DatabaseFits, Holds, ModelSet, Shown

\* No singleton is missing once a tree is indexed.
LEMMA SingletonsThere ==
  ASSUME DatabaseFits, NEW table \in DOMAIN Singletons, db[table] = None
  PROVE  served = None
<1> SUFFICES ASSUME served # None PROVE FALSE
  OBVIOUS
<1>1. served.site # None /\ served.profile # None /\ served.nav # None
  BY Checked DEF DatabaseFits, NeededExist
<1>2. table \in {"site", "profile", "nav"}
  BY DEF Singletons
<1> QED  BY <1>1, <1>2 DEF DatabaseFits, Holds

LEMMA ReadTableHolds ==
  ASSUME IInv, ReadTable
  PROVE  IInv'
<1> DEFINE r == request
           table == Head(r.reading)
<1>1. /\ DatabaseFits /\ InvOf(r) /\ r.answer = None /\ RequestFits(r) /\ ReadingFits(r)
      /\ ViewFits(r) /\ r.reading # <<>> /\ UNCHANGED <<db, served, ready>>
  BY DEF ReadTable, Reads, IInv, InvOf
<1>2. table \in ModelSet \union {"synced"}
  <2>1. ToSet(ModelTables) = ModelSet
    BY DEF ToSet, ModelTables, ModelSet
  <2> QED  BY <2>1 DEF ReadTable, Reads
<1>3. CASE table \in DOMAIN Singletons /\ db[table] = None /\ r.path # <<"readyz">>
  <2>1. Answer(Status(500))
    BY <1>3 DEF ReadTable
  <2>2. served = None
    BY <1>1, <1>3, SingletonsThere
  <2>3. r.from = None /\ ~r.ready
    BY <1>1, <2>2 DEF RequestFits
  <2>4. AnswerFits(r, Status(500))
    BY <2>3 DEF AnswerFits, Serves, Right, Explained
  <2> QED  BY <1>1, <2>1, <2>4, Replies
<1>4. CASE ~(table \in DOMAIN Singletons /\ db[table] = None /\ r.path # <<"readyz">>)
  <2> DEFINE view == WithTable(r.view, table)
             reading == Tail(r.reading)
             q == [r EXCEPT !.reading = reading, !.view = view]
  <2>1. request' = q
    BY <1>4 DEF ReadTable
  <2>2. DOMAIN r = RequestFields
    BY <1>1 DEF RequestFits
  <2>3. /\ SameRequest(r, q) /\ q.again = r.again /\ q.answer = r.answer
        /\ q.reading = Tail(r.reading) /\ q.view = view
    BY <2>2 DEF SameRequest, RequestFields
  <2>4. /\ DOMAIN view = DOMAIN r.view \union {table}
        /\ view[table] = db[table]
        /\ \A each \in DOMAIN r.view : each # table => view[each] = r.view[each]
    BY DEF WithTable
  <2> HIDE DEF view
  <2>5. ReadingFits(q)
    <3>1. table # "slug"
      BY <1>2 DEF ModelSet
    <3> HIDE DEF q
    <3> QED  BY <1>1, <2>3, <2>4, <3>1, ReadingGoesOn
  <2> HIDE DEF q
  <2>6. ViewFits(q)
    <3>1. DOMAIN q.view \subseteq ModelSet \union {"synced"}
      BY <1>1, <1>2, <2>3, <2>4 DEF ViewFits
    <3>2. "nav" \in DOMAIN q.view /\ q.view.nav # None => served # None
      BY <1>1, <2>3, <2>4 DEF ViewFits, DatabaseFits
    <3>3. q.from # None /\ ~q.crossed =>
            q.from = served /\ \A each \in DOMAIN q.view \ {"synced"} : q.view[each] = db[each]
      BY <1>1, <2>3, <2>4 DEF ViewFits, SameRequest
    <3>4. ASSUME q.from # None, q.crossed, NEW each \in DOMAIN q.view \ {"synced"}
          PROVE  \E tree \in {q.from, served} : Shown(tree, each, q.view[each])
      <4>1. CASE each = table
        <5>1. served # None
          BY <1>1, <2>3, <3>4 DEF RequestFits, SameRequest
        <5>2. Shown(served, each, db[each])
          BY <1>1, <1>2, <3>4, <4>1, <5>1, TableShows
        <5> QED  BY <2>3, <2>4, <4>1, <5>2
      <4>2. CASE each # table
        <5>1. each \in DOMAIN r.view \ {"synced"}
          BY <2>3, <2>4, <3>4, <4>2
        <5> QED  BY <1>1, <2>3, <2>4, <3>4, <4>2, <5>1 DEF ViewFits, SameRequest
      <4> QED  BY <4>1, <4>2
    <3>5. q.from # None /\ ~q.crossed /\ q.again /\ ~Code(q.path)
            => Elsewhere(q.from, q.path, db.pages)
      BY <1>1, <2>3 DEF ViewFits, SameRequest
    <3> QED  BY <3>1, <3>2, <3>3, <3>4, <3>5 DEF ViewFits
  <2> QED  BY <1>1, <2>1, <2>5, <2>6, ReadsOn DEF q
<1> QED  BY <1>3, <1>4

\* A step that only drops a statement which is no table.
LEMMA DropsHead ==
  ASSUME NEW r, RequestFits(r), ReadingFits(r), ViewFits(r), r.reading # <<>>,
         Head(r.reading) \in {"picked", "default"},
         NEW q, SameRequest(r, q), q.again = r.again, q.view = r.view,
         q.reading = Tail(r.reading)
  PROVE  RequestFits(q) /\ ReadingFits(q) /\ ViewFits(q)
<1>1. RequestFits(q)
  BY StaysFit DEF RequestFits
<1>2. ReadingFits(q)
  BY ReadingGoesOn
<1>3. ViewFits(q)
  BY DEF ViewFits, SameRequest
<1> QED  BY <1>1, <1>2, <1>3

\* A request that reads goes on with what it is to read.
LEMMA GoesOn ==
  ASSUME IInv, request # None, request.answer = None, NEW reading, GoOn(reading),
         UNCHANGED <<db, served, ready>>,
         ASSUME NEW q, SameRequest(request, q), q.again = request.again,
                q.view = request.view, q.reading = reading
         PROVE  RequestFits(q) /\ ReadingFits(q) /\ ViewFits(q)
  PROVE  IInv'
<1> DEFINE q == [request EXCEPT !.reading = reading]
<1>1. DatabaseFits /\ DOMAIN request = RequestFields
  BY DEF IInv, InvOf, RequestFits
<1>2. /\ SameRequest(request, q) /\ q.again = request.again /\ q.answer = None
      /\ q.view = request.view /\ q.reading = reading
  BY <1>1 DEF SameRequest, RequestFields
<1>3. request' = q
  BY DEF GoOn
<1> HIDE DEF q
<1>4. InvOf(q)
  BY <1>2 DEF InvOf
<1> QED  BY <1>1, <1>3, <1>4, RequestSteps

LEMMA ReadPickedHolds ==
  ASSUME IInv, ReadPicked
  PROVE  IInv'
<1> DEFINE r == request
           s == r.reading
<1>1. /\ DatabaseFits /\ InvOf(r) /\ r # None /\ r.answer = None /\ RequestFits(r)
      /\ ReadingFits(r) /\ ViewFits(r) /\ s # <<>> /\ Head(s) = "picked"
      /\ UNCHANGED <<db, served, ready>>
  BY DEF ReadPicked, Reads, IInv, InvOf
<1>2. ASSUME NEW q, SameRequest(r, q), q.again = r.again, q.view = r.view, q.reading = Tail(s)
      PROVE  RequestFits(q) /\ ReadingFits(q) /\ ViewFits(q)
  BY <1>1, <1>2, DropsHead
<1>3. CASE request.cookie \notin Slugs(db.themes)
  <2>1. GoOn(Tail(s))
    BY <1>3 DEF ReadPicked
  <2> QED  BY <1>1, <1>2, <2>1, GoesOn
<1>4. CASE request.cookie \in Slugs(db.themes)
  <2>1. GoOn(Tail(Tail(s)))
    BY <1>4 DEF ReadPicked
  <2>2. Tail(s) # <<>> /\ Head(Tail(s)) = "default"
    <3>1. PICK t : t = s
      OBVIOUS
    <3>2. t \in Seq(Words) /\ t # <<>> /\ Head(t) = "picked"
      BY <1>1, <3>1 DEF ReadingFits, Ordered
    <3>3. /\ Len(t) \in Nat \ {0} /\ Len(Tail(t)) = Len(t) - 1 /\ Tail(t) \in Seq(Words)
          /\ t[1] = "picked" /\ \A i \in 1 .. Len(Tail(t)) : Tail(t)[i] = t[i + 1]
      BY <3>2, TailAt
    <3>4. 1 < Len(t) /\ t[1 + 1] = "default"
      <4>1. PICK have : Ordered(t, have)
        BY <1>1, <3>1 DEF ReadingFits
      <4>2. 1 \in 1 .. Len(t)
        BY <3>3
      <4> QED  BY <3>3, <4>1, <4>2 DEF Ordered
    <3>5. Len(Tail(t)) # 0 /\ Tail(t)[1] = "default"
      BY <3>3, <3>4
    <3>6. PICK u \in Seq(Words) : u = Tail(t)
      BY <3>3
    <3>7. Len(u) # 0 /\ u[1] = "default"
      BY <3>5, <3>6, Zenon
    <3>8. u # <<>> /\ Head(u) = u[1]
      BY <3>7
    <3> QED  BY <3>1, <3>6, <3>7, <3>8, Zenon
  <2> DEFINE p == [r EXCEPT !.reading = Tail(s)]
  <2>3. /\ DOMAIN r = RequestFields
        /\ SameRequest(r, p) /\ p.again = r.again /\ p.view = r.view /\ p.reading = Tail(s)
    BY <1>1 DEF SameRequest, RequestFields, RequestFits
  <2> HIDE DEF p
  <2>4. RequestFits(p) /\ ReadingFits(p) /\ ViewFits(p)
    BY <1>2, <2>3
  <2>5. ASSUME NEW q, SameRequest(r, q), q.again = r.again, q.view = r.view,
               q.reading = Tail(Tail(s))
        PROVE  RequestFits(q) /\ ReadingFits(q) /\ ViewFits(q)
    <3>1. SameRequest(p, q) /\ q.again = p.again /\ q.view = p.view
      BY <2>3, <2>5 DEF SameRequest
    <3>2. p.reading # <<>> /\ Head(p.reading) = "default" /\ q.reading = Tail(p.reading)
      BY <2>2, <2>3, <2>5
    <3> QED  BY <2>4, <3>1, <3>2, DropsHead
  <2> QED  BY <1>1, <2>1, <2>5, GoesOn
<1> QED  BY <1>3, <1>4

\* The theme of the site it read is missing only if a sync took it away.
LEMMA ReadDefaultHolds ==
  ASSUME IInv, ReadDefault
  PROVE  IInv'
<1> DEFINE r == request
           s == r.reading
<1>1. /\ DatabaseFits /\ InvOf(r) /\ r # None /\ r.answer = None /\ RequestFits(r)
      /\ ReadingFits(r) /\ ViewFits(r) /\ s # <<>> /\ Head(s) = "default"
      /\ UNCHANGED <<db, served, ready>>
  BY DEF ReadDefault, Reads, IInv, InvOf
<1>2. CASE r.view.site.theme \in Slugs(db.themes)
  <2>1. GoOn(Tail(s))
    BY <1>2 DEF ReadDefault
  <2>2. ASSUME NEW q, SameRequest(r, q), q.again = r.again, q.view = r.view, q.reading = Tail(s)
        PROVE  RequestFits(q) /\ ReadingFits(q) /\ ViewFits(q)
    BY <1>1, <2>2, DropsHead
  <2> QED  BY <1>1, <2>1, <2>2, GoesOn
<1>3. CASE r.view.site.theme \notin Slugs(db.themes)
  <2>1. Answer(Status(500))
    BY <1>3 DEF ReadDefault
  <2>2. "site" \in DOMAIN r.view \ {"synced"}
    <3>1. PICK t : t = s
      OBVIOUS
    <3>2. t \in Seq(Words) /\ t # <<>> /\ Head(t) = "default"
      BY <1>1, <3>1 DEF ReadingFits, Ordered
    <3>3. 1 \in 1 .. Len(t) /\ t[1] = "default"
      BY <3>2, TailAt
    <3>4. "site" \in DOMAIN r.view \/ \E j \in 1 .. (1 - 1) : t[j] = "site"
      BY <1>1, <3>1, <3>3 DEF ReadingFits, Ordered
    <3> QED  BY <3>4
  <2>3. r.from # None => served # None /\ r.view.site # served.site
    <3>1. SUFFICES ASSUME r.from # None, r.view.site = served.site PROVE FALSE
      BY <1>1 DEF RequestFits
    <3>2. served \in CheckedTrees /\ db.themes = served.themes
      BY <1>1, <3>1 DEF RequestFits, DatabaseFits, Holds
    <3>3. PICK theme \in served.themes : theme.name = served.site.theme
      BY <3>2, Checked DEF DefaultThemeListed
    <3> QED  BY <1>3, <3>1, <3>2, <3>3 DEF Slugs
  <2>4. r.from # None => r.crossed
    BY <1>1, <2>2, <2>3 DEF ViewFits, DatabaseFits, Holds
  <2>5. r.from # None => r.from.site.theme \notin Slugs(served.themes)
    <3>1. SUFFICES ASSUME r.from # None
                   PROVE  r.from.site.theme \notin Slugs(served.themes)
      OBVIOUS
    <3>2. PICK tree \in {r.from, served} : Shown(tree, "site", r.view.site)
      BY <1>1, <2>2, <2>4, <3>1 DEF ViewFits
    <3>3. r.view.site = r.from.site
      BY <2>3, <3>1, <3>2 DEF Shown
    <3>4. db.themes = served.themes
      BY <1>1, <2>3, <3>1 DEF DatabaseFits, Holds
    <3> QED  BY <1>3, <3>3, <3>4
  <2>6. r.ready => r.from # None
    BY <1>1 DEF RequestFits
  <2>7. AnswerFits(r, Status(500))
    <3>1. Status(500).page = None
      BY DEF Status
    <3> QED  BY <2>4, <2>5, <2>6, <3>1 DEF AnswerFits, Serves, Right, Explained
  <2> QED  BY <1>1, <2>1, <2>7, Replies
<1> QED  BY <1>2, <1>3

\* An answer that shows no page, to a route that the code answers.
LEMMA CodeAnswers ==
  ASSUME NEW r, Code(r.path), NEW code, code # 500
  PROVE  AnswerFits(r, Status(code))
<1>1. Status(code).page = None /\ Status(code).status = code
  BY DEF Status
<1> QED  BY <1>1 DEF AnswerFits, Serves, Right, Explained

LEMMA ReadSlugHolds ==
  ASSUME IInv, ReadSlug
  PROVE  IInv'
<1> DEFINE r == request
           s == r.reading
<1>1. /\ DatabaseFits /\ InvOf(r) /\ r # None /\ r.answer = None /\ RequestFits(r)
      /\ ReadingFits(r) /\ ViewFits(r) /\ s # <<>> /\ Head(s) = "slug"
      /\ UNCHANGED <<db, served, ready>>
  BY DEF ReadSlug, Reads, IInv, InvOf
<1>2. Code(r.path)
  <2>1. PICK t : t = s
    OBVIOUS
  <2>2. t \in Seq(Words) /\ t # <<>> /\ Head(t) = "slug"
    BY <1>1, <2>1 DEF ReadingFits, Ordered
  <2>3. 1 \in 1 .. Len(t) /\ t[1] = "slug"
    BY <2>2, TailAt
  <2> QED  BY <1>1, <2>1, <2>3 DEF ReadingFits, Code
<1>3. CASE Answer(Status(303))
  BY <1>1, <1>2, <1>3, CodeAnswers, Replies
<1>4. CASE LooksAgain
  BY <1>1, <1>2, <1>4, LooksAgainFits
<1> QED  BY <1>3, <1>4 DEF ReadSlug

LEMMA ReadinessHolds ==
  ASSUME IInv, Readiness
  PROVE  IInv'
<1> DEFINE r == request
<1>1. /\ DatabaseFits /\ InvOf(r) /\ r # None /\ r.answer = None /\ r.reading = <<>>
      /\ ReadingFits(r) /\ ViewFits(r) /\ r.path = <<"readyz">> /\ UNCHANGED <<db, served>>
      /\ ready' = (ready \/ IsReady(r.view))
  BY DEF Readiness, HasRead, IInv, InvOf
<1>2. IsReady(r.view) => served # None
  <2>1. Comes(<<>>, DOMAIN r.view, "nav")
    BY <1>1 DEF ReadingFits
  <2>2. "nav" \in DOMAIN r.view
    BY <2>1 DEF Comes
  <2> QED  BY <1>1, <2>2 DEF ViewFits, IsReady
<1>3. ready' => served # None
  BY <1>1, <1>2 DEF DatabaseFits
<1>4. PICK code \in {200, 503} : Answer(Status(code))
  BY DEF Readiness
<1>5. Code(r.path) /\ code # 500
  BY <1>1, <1>4 DEF Code, CodeRoutes
<1>6. AnswerFits(r, Status(code))
  BY <1>5, CodeAnswers
<1> QED  BY <1>1, <1>3, <1>4, <1>6, Replies

\* What is at a route of a model is published, in a collection that it serves.
LEMMA FoundIsPublished ==
  ASSUME NEW tables, NEW path \in Paths, NEW row \in At(tables, path)
  PROVE  /\ row \in tables.pages /\ ~row.page.draft
         /\ IsMember(row.page) => Enabled(tables, row.page.home) # {}
<1>1. Len(path) \in {0, 1, 2}
  <2>1. path \in Seq(STRING) /\ Len(path) <= 2
    BY TreesAssumption
  <2>2. PICK n \in Nat : n = Len(path)
    BY <2>1
  <2> QED  BY <2>1, <2>2
<1>2. CASE Len(path) = 0
  <2>1. row \in PagesNamed(tables, "index")
    BY <1>2 DEF At
  <2> QED  BY <2>1 DEF PagesNamed, Published
<1>3. CASE Len(path) = 1
  <2>1. row \in PagesNamed(tables, path[1])
    BY <1>3 DEF At
  <2> QED  BY <2>1 DEF PagesNamed, Published
<1>4. CASE Len(path) = 2
  <2>1. row \in Members(tables, path[1]) /\ Enabled(tables, path[1]) # {}
    BY <1>4 DEF At
  <2> QED  BY <2>1 DEF Members, AllMembers, Published
<1> QED  BY <1>1, <1>2, <1>3, <1>4

\* A request that has read what it needs, to a route of the content.
LEMMA HasTables ==
  ASSUME IInv, HasRead, ~request.again, request.path \notin CodeRoutes
  PROVE  /\ ~IsPick(request.path) /\ ~Code(request.path)
         /\ {"pages", "collections"} \subseteq DOMAIN request.view \ {"synced"}
<1>1. ReadingFits(request) /\ request.reading = <<>>
  BY DEF IInv, InvOf, HasRead
<1>2. ~IsPick(request.path)
  <2>1. <<>> # <<"slug">>
    OBVIOUS
  <2> QED  BY <1>1, <2>1 DEF ReadingFits
<1>3. ~Code(request.path)
  BY <1>2 DEF Code
<1>4. /\ Comes(<<>>, DOMAIN request.view, "pages")
      /\ Comes(<<>>, DOMAIN request.view, "collections")
  BY <1>1, <1>3 DEF ReadingFits
<1>5. "pages" \in DOMAIN request.view /\ "collections" \in DOMAIN request.view
  BY <1>4 DEF Comes
<1> QED  BY <1>2, <1>3, <1>5

\* What such a request finds, if no sync crossed it, is what the tree says,
\* but for the pages that are in another collection.
LEMMA FindsWhatIsSaid ==
  ASSUME IInv, HasRead, ~request.again, request.path \notin CodeRoutes,
         request.from # None, ~request.crossed
  PROVE  /\ request.from = served /\ served \in CheckedTrees
         /\ request.view.pages = db.pages /\ Like(db.pages, served)
         /\ \A row \in At(request.view, request.path) :
              row \in db.pages /\ IsAt(row.page, served.collections, request.path)
         /\ At(request.view, request.path) = {} => Elsewhere(served, request.path, db.pages)
<1>1. /\ DatabaseFits /\ RequestFits(request) /\ ViewFits(request)
  BY DEF IInv, InvOf, HasRead
<1>2. /\ request.from = served
      /\ \A table \in DOMAIN request.view \ {"synced"} : request.view[table] = db[table]
  BY <1>1 DEF ViewFits
<1>3. /\ served \in CheckedTrees /\ Like(db.pages, served)
      /\ db.collections = served.collections
  BY <1>1, <1>2 DEF DatabaseFits, Holds
<1>4. /\ ~IsPick(request.path)
      /\ request.view.pages = db.pages /\ request.view.collections = served.collections
  BY <1>2, <1>3, HasTables
<1>5. request.path \in Paths
  BY <1>1 DEF RequestFits
<1>6. /\ \A row \in At(request.view, request.path) :
           row \in db.pages /\ IsAt(row.page, served.collections, request.path)
      /\ \A row \in db.pages : IsAt(row.page, served.collections, request.path) =>
           row \in At(request.view, request.path)
  BY <1>3, <1>4, <1>5, FoundIsAt
<1>7. ASSUME At(request.view, request.path) = {}, NEW said \in Says(served, request.path)
      PROVE  \E each \in Left(served, db.pages) : Same(each, said)
  <2>1. said \in served.pages /\ IsAt(said, served.collections, request.path)
    BY DEF Says
  <2>2. PICK row \in db.pages :
          /\ Same(row.page, said)
          /\ \A field \in PageFields \ {"home"} : row.page[field] = said[field]
    BY <1>3, <2>1, LikeHas
  <2>3. row.page.kind = said.kind /\ row.page.name = said.name
    BY <2>2 DEF PageFields
  <2>4. row.page # said
    BY <1>6, <1>7, <2>1
  <2>5. row.page \notin served.pages
    BY <1>3, <2>1, <2>3, <2>4, KeysDiffer
  <2> QED  BY <2>2, <2>5 DEF Left
<1> QED  BY <1>2, <1>3, <1>4, <1>6, <1>7 DEF Elsewhere

\* A row is found with the text of its own file.
LEMMA TextIsItsOwn ==
  ASSUME served \in CheckedTrees, Like(db.pages, served), NEW row \in db.pages
  PROVE  \E file \in served.pages :
           /\ Same(row.page, file) /\ row.page \in {file} \union Left(served, db.pages)
           /\ Text(row) = TextOf(served, file)
<1> DEFINE rows == {now \in db.pages : Key(now) = Key(row)}
           now == CHOOSE each \in rows : TRUE
<1>1. row \in rows
  OBVIOUS
<1>2. Text(row) = now.text
  BY <1>1 DEF Text
<1>3. now \in rows
  BY <1>1
<1> HIDE DEF now
<1>4. now \in db.pages /\ now.page.kind = row.page.kind /\ now.page.name = row.page.name
  BY <1>3 DEF Key
<1>5. PICK file \in served.pages :
        /\ Same(row.page, file)
        /\ \A field \in PageFields \ {"home"} : row.page[field] = file[field]
  BY LikeSays
<1>6. PICK other \in served.pages :
        /\ now.text = TextOf(served, other)
        /\ \A field \in PageFields \ {"home"} : now.page[field] = other[field]
  BY <1>4, LikeSays
<1>7. /\ row.page.kind = file.kind /\ row.page.name = file.name
      /\ now.page.kind = other.kind /\ now.page.name = other.name
  BY <1>5, <1>6 DEF PageFields
<1>8. other = file
  BY <1>4, <1>7, KeysDiffer
<1>9. row.page \in served.pages => row.page = file
  BY <1>7, KeysDiffer
<1>10. row.page \in {file} \union Left(served, db.pages)
  BY <1>9 DEF Left
<1> QED  BY <1>2, <1>5, <1>6, <1>8, <1>10

\* What a crossed request read was published by one of the two revisions.
LEMMA CrossedIsPublished ==
  ASSUME IInv, HasRead, ~request.again, request.path \notin CodeRoutes,
         request.ready, request.crossed, NEW row \in At(request.view, request.path)
  PROVE  IsPublished(request, row.page)
<1> DEFINE r == request
           trees == {r.from, served}
<1>1. DatabaseFits /\ RequestFits(r) /\ ViewFits(r)
  BY DEF IInv, InvOf, HasRead
<1>2. r.from \in CheckedTrees /\ served \in CheckedTrees /\ r.path \in Paths
  BY <1>1 DEF RequestFits, DatabaseFits
<1>3. ASSUME NEW table \in {"pages", "collections"}
      PROVE  \E tree \in trees : Shown(tree, table, r.view[table])
  <2>1. r.from # None
    BY <1>1 DEF RequestFits
  <2>2. table \in DOMAIN r.view \ {"synced"}
    BY HasTables
  <2> QED  BY <1>1, <2>1, <2>2 DEF ViewFits
<1>4. /\ row \in r.view.pages /\ ~row.page.draft
      /\ IsMember(row.page) => Enabled(r.view, row.page.home) # {}
  BY <1>2, FoundIsPublished
<1>5. \E tree \in trees : \E file \in tree.pages : Same(row.page, file)
  <2>1. PICK tree \in trees : Like(r.view.pages, tree)
    BY <1>3 DEF Shown
  <2>2. tree \in CheckedTrees
    BY <1>2
  <2> QED  BY <1>4, <2>1, <2>2, LikeSays
<1>6. ASSUME IsMember(row.page)
      PROVE  \E tree \in trees : \E collection \in tree.collections :
               collection.name = row.page.home /\ collection.enabled
  <2>1. PICK tree \in trees : r.view.collections = tree.collections
    BY <1>3 DEF Shown
  <2> QED  BY <1>4, <1>6, <2>1 DEF Enabled
<1> QED  BY <1>4, <1>5, <1>6 DEF IsPublished

LEMMA ShowPageHolds ==
  ASSUME IInv, ShowPage
  PROVE  IInv'
<1> DEFINE r == request
<1>1. /\ DatabaseFits /\ InvOf(r) /\ r # None /\ r.answer = None /\ HasRead /\ ~r.again
      /\ r.path \notin CodeRoutes /\ UNCHANGED <<db, served, ready>>
  BY DEF ShowPage, HasRead, IInv
<1>2. PICK row \in At(r.view, r.path) :
        Answer([status |-> 200, page |-> row.page, text |-> Text(row)])
  BY DEF ShowPage
<1> DEFINE answer == [status |-> 200, page |-> row.page, text |-> Text(row)]
<1>3. Serves(r, answer)
  BY DEF Serves
<1>4. Right(r, answer)
  <2>1. SUFFICES ASSUME ~r.crossed, r.from # None
                 PROVE  IsOf(r.from, r.path, r.view.pages, answer) /\ answer.page # None
    BY DEF Right
  <2>2. /\ r.from = served /\ served \in CheckedTrees /\ r.view.pages = db.pages
        /\ Like(db.pages, served)
        /\ row \in db.pages /\ IsAt(row.page, served.collections, r.path)
    BY <1>1, <1>2, <2>1, FindsWhatIsSaid
  <2>3. PICK file \in served.pages :
          /\ Same(row.page, file) /\ row.page \in {file} \union Left(served, db.pages)
          /\ Text(row) = TextOf(served, file)
    BY <2>2, TextIsItsOwn
  <2>4. answer.page = row.page /\ row.page # None
    <3>1. PICK each \in CheckedTrees : row \in Rows(each)
      BY <2>2 DEF Like
    <3>2. row.page \in each.pages
      BY <3>1, RowIsRow
    <3> QED  BY <3>2, Checked
  <2> QED  BY <2>2, <2>3, <2>4 DEF IsOf
<1>5. Explained(r, answer)
  <2>1. r.ready /\ r.crossed => IsPublished(r, row.page)
    BY <1>1, <1>2, CrossedIsPublished
  <2> QED  BY <2>1 DEF Explained
<1>6. AnswerFits(r, answer)
  BY <1>3, <1>4, <1>5 DEF AnswerFits
<1>7. Answer(answer)
  BY <1>2
<1> HIDE DEF answer
<1> QED  BY <1>1, <1>6, <1>7, Replies

\* An answer without a page fits where none is, or all are elsewhere.
LEMMA PlainAnswers ==
  ASSUME NEW r, NEW code, code # 500,
         ~r.crossed /\ r.from # None /\ ~Code(r.path) => Elsewhere(r.from, r.path, r.view.pages)
  PROVE  AnswerFits(r, Status(code))
<1>1. Status(code).page = None /\ Status(code).status = code
  BY DEF Status
<1> QED  BY <1>1 DEF AnswerFits, Serves, Right, Explained

LEMMA ShowOtherHolds ==
  ASSUME IInv, ShowOther
  PROVE  IInv'
<1> DEFINE r == request
<1>1. /\ DatabaseFits /\ InvOf(r) /\ r # None /\ r.answer = None /\ HasRead /\ ~r.again
      /\ Answer(Status(200)) /\ UNCHANGED <<db, served, ready>>
  BY DEF ShowOther, HasRead, IInv
<1>2. ~r.crossed /\ r.from # None /\ ~Code(r.path) => Elsewhere(r.from, r.path, r.view.pages)
  <2>1. SUFFICES ASSUME ~r.crossed, r.from # None, ~Code(r.path)
                 PROVE  Elsewhere(r.from, r.path, r.view.pages)
    OBVIOUS
  <2>2. r.path \notin CodeRoutes
    BY <2>1 DEF Code
  <2>3. At(r.view, r.path) = {}
    BY <2>2 DEF ShowOther, IsListing
  <2> QED  BY <1>1, <2>1, <2>2, <2>3, FindsWhatIsSaid
<1>3. AnswerFits(r, Status(200))
  BY <1>2, PlainAnswers
<1> QED  BY <1>1, <1>3, Replies

LEMMA NotFoundHolds ==
  ASSUME IInv, NotFound
  PROVE  IInv'
<1> DEFINE r == request
<1>1. /\ DatabaseFits /\ InvOf(r) /\ r # None /\ r.answer = None /\ HasRead
      /\ r.reading = <<>> /\ ReadingFits(r) /\ ViewFits(r) /\ UNCHANGED <<db, served, ready>>
  BY DEF NotFound, HasRead, IInv, InvOf
<1>2. CASE r.again /\ Answer(Status(404))
  <2>1. ASSUME ~r.crossed, r.from # None, ~Code(r.path)
        PROVE  Elsewhere(r.from, r.path, r.view.pages)
    <3>1. Comes(<<>>, DOMAIN r.view, "pages")
      BY <1>1, <2>1 DEF ReadingFits
    <3>2. "pages" \in DOMAIN r.view \ {"synced"}
      BY <3>1 DEF Comes
    <3>3. r.view.pages = db.pages
      BY <1>1, <2>1, <3>2 DEF ViewFits
    <3> QED  BY <1>1, <1>2, <2>1, <3>3 DEF ViewFits
  <2>2. AnswerFits(r, Status(404))
    BY <2>1, PlainAnswers
  <2> QED  BY <1>1, <1>2, <2>2, Replies
<1>3. CASE /\ ~r.again /\ r.path \notin CodeRoutes /\ At(r.view, r.path) = {} /\ LooksAgain
  <2>1. r.from # None /\ ~r.crossed => Elsewhere(r.from, r.path, db.pages)
    BY <1>1, <1>3, FindsWhatIsSaid
  <2> QED  BY <1>1, <1>3, <2>1, LooksAgainFits
<1> QED  BY <1>2, <1>3 DEF NotFound

LEMMA CloseHolds ==
  ASSUME IInv, Close
  PROVE  IInv'
BY DEF IInv, Close, DatabaseFits, Holds

LEMMA AskHolds ==
  ASSUME IInv, NEW path \in Paths, NEW cookie \in Cookies, Ask(path, cookie)
  PROVE  IInv'
<1> DEFINE r == [path |-> path, cookie |-> cookie, reading |-> Statements(path), again |-> FALSE,
                 view |-> <<>>, from |-> served, ready |-> ready, crossed |-> FALSE,
                 answer |-> None]
<1>1. DatabaseFits /\ request' = r /\ UNCHANGED <<db, served, ready>>
  BY DEF IInv, Ask
<1>2. /\ r.path = path /\ r.reading = Statements(path) /\ r.again = FALSE /\ r.view = <<>>
      /\ r.from = served /\ r.ready = ready /\ r.crossed = FALSE /\ r.answer = None
      /\ DOMAIN r = RequestFields
  BY DEF RequestFields
<1> HIDE DEF r
<1>3. DOMAIN r.view = {}
  BY <1>2
<1>4. RequestFits(r)
  BY <1>1, <1>2 DEF RequestFits, DatabaseFits
<1>5. ReadingFits(r)
  BY <1>2, <1>3, StatementsFit DEF ReadingFits
<1>6. ViewFits(r)
  BY <1>2, <1>3 DEF ViewFits
<1>7. InvOf(r)
  BY <1>2, <1>4, <1>5, <1>6 DEF InvOf
<1> QED  BY <1>1, <1>7, RequestSteps

\* The rows of an index are like those of its tree.
LEMMA IndexedRows ==
  ASSUME DatabaseFits, NEW tree \in CheckedTrees,
         NEW pages, pages = {Upserted(db.pages, row) : row \in Rows(tree)}
  PROVE  Like(pages, tree)
<1>1. ASSUME NEW row \in Rows(tree)
      PROVE  \/ Upserted(db.pages, row) = row
             \/ Upserted(db.pages, row) \in db.pages /\ Unchanged(Upserted(db.pages, row), row)
  BY DEF Upserted
<1>2. \A row \in pages : \E each \in CheckedTrees : row \in Rows(each)
  BY <1>1 DEF DatabaseFits
<1>3. ASSUME NEW row \in Rows(tree)
      PROVE  Source(Upserted(db.pages, row)) = Source(row)
  BY <1>1 DEF Unchanged
<1> QED  BY <1>2, <1>3 DEF Like

\* An index makes the database that of its tree.
LEMMA IndexFits ==
  ASSUME DatabaseFits, NEW tree \in CheckedTrees, Index(tree)
  PROVE  DatabaseFits'
<1> DEFINE rows == {Upserted(db.pages, row) : row \in Rows(tree)}
           base == Replaced(tree)
<1>1. DOMAIN db = Tables /\ db' = Indexed(tree) /\ served' = tree /\ ready' = ready
  BY DEF DatabaseFits, Index
<1>2. /\ DOMAIN base = Tables
      /\ base.kinds = tree.kinds /\ base.collections = tree.collections
      /\ base.themes = tree.themes
  BY <1>1 DEF Replaced, Tables
<1>3. db' = [base EXCEPT !.site = tree.site, !.profile = tree.profile, !.nav = tree.nav,
                         !.pages = rows]
  BY <1>1 DEF Indexed
<1> HIDE DEF base, rows
<1>4. DOMAIN db' = Tables /\ db'.pages = rows
  BY <1>2, <1>3 DEF Tables
<1>5. Holds(tree)'
  <2>1. /\ db'.site = tree.site /\ db'.profile = tree.profile /\ db'.nav = tree.nav
        /\ db'.kinds = base.kinds /\ db'.collections = base.collections
        /\ db'.themes = base.themes
    BY <1>2, <1>3 DEF Tables
  <2> QED  BY <1>2, <2>1 DEF Holds
<1>6. Like(rows, tree) /\ \A row \in rows : \E each \in CheckedTrees : row \in Rows(each)
  <2>1. PICK some : some = {Upserted(db.pages, row) : row \in Rows(tree)}
    OBVIOUS
  <2>2. Like(some, tree)
    BY <2>1, IndexedRows
  <2>3. Like(rows, tree)
    BY <2>1, <2>2 DEF rows
  <2> QED  BY <2>3 DEF Like
<1>7. tree # None
  BY Checked
<1> QED  BY <1>1, <1>4, <1>5, <1>6, <1>7 DEF DatabaseFits, Holds

LEMMA IndexHolds ==
  ASSUME IInv, NEW tree \in CheckedTrees, Index(tree)
  PROVE  IInv'
<1> DEFINE old == request
<1>1. DatabaseFits /\ DatabaseFits' /\ served' = tree /\ tree # None
  BY IndexFits, Checked DEF IInv, Index
<1>2. ASSUME request # None, request.answer # None
      PROVE  InvOf(request)'
  <2>1. request' = request /\ ~old.crossed /\ InvOf(old)
    BY <1>2 DEF Index, IInv
  <2>2. RequestFits(old)'
    BY <1>1, <2>1 DEF InvOf, RequestFits
  <2>3. AnswerFits(old, old.answer)'
    BY <1>2, <2>1 DEF InvOf, AnswerFits, Serves, Right, Explained
  <2> QED  BY <1>2, <2>1, <2>2, <2>3 DEF InvOf, RequestFits, AnswerFits, Serves, Right, Explained
<1>3. ASSUME request # None, request.answer = None
      PROVE  InvOf(request)'
  <2> DEFINE r == [request EXCEPT !.crossed = TRUE]
  <2>1. /\ request' = r /\ ~old.crossed /\ RequestFits(old) /\ ReadingFits(old) /\ ViewFits(old)
        /\ DOMAIN old = RequestFields
    BY <1>3 DEF Index, IInv, InvOf, RequestFits
  <2>2. /\ r.path = old.path /\ r.reading = old.reading /\ r.again = old.again
        /\ r.view = old.view /\ r.from = old.from /\ r.ready = old.ready /\ r.crossed = TRUE
        /\ r.answer = None /\ DOMAIN r = RequestFields
    BY <1>3, <2>1 DEF RequestFields
  <2> HIDE DEF r
  <2>3. /\ r.path \in Paths /\ r.again \in BOOLEAN /\ (r.ready => r.from # None)
        /\ r.from # None => r.from \in CheckedTrees
    BY <2>1, <2>2 DEF RequestFits
  <2>4. ReadingFits(r)
    BY <2>1, <2>2 DEF ReadingFits
  <2>5. DOMAIN r.view \subseteq ModelSet \union {"synced"}
    BY <2>1, <2>2 DEF ViewFits
  <2>6. ASSUME r.from # None, NEW table \in DOMAIN r.view \ {"synced"}
        PROVE  Shown(r.from, table, r.view[table])
    <3>1. r.from = served /\ r.view[table] = db[table]
      BY <2>1, <2>2, <2>6 DEF ViewFits
    <3>2. table \in ModelSet
      BY <2>5
    <3> QED  BY <1>1, <2>6, <3>1, <3>2, TableShows
  <2> DEFINE q == request'
  <2>7. RequestFits(request)'
    BY <1>1, <2>1, <2>2, <2>3 DEF RequestFits
  <2>8. ReadingFits(request)'
    BY <2>1, <2>4 DEF ReadingFits
  <2>9. ViewFits(request)'
    BY <1>1, <2>1, <2>2, <2>5, <2>6 DEF ViewFits
  <2> QED  BY <2>1, <2>2, <2>7, <2>8, <2>9 DEF InvOf
<1>4. request' # None => request # None
  BY DEF Index
<1> QED  BY <1>1, <1>2, <1>3, <1>4 DEF IInv

LEMMA RecordHolds ==
  ASSUME IInv, Record
  PROVE  IInv'
<1>1. DatabaseFits /\ db' = [db EXCEPT !.synced = TRUE] /\ UNCHANGED <<served, ready, request>>
  BY DEF IInv, Record
<1>2. DOMAIN db' = DOMAIN db /\ \A table \in Tables \ {"synced"} : db'[table] = db[table]
  BY <1>1 DEF DatabaseFits, Tables
<1>3. DatabaseFits'
  BY <1>1, <1>2 DEF DatabaseFits, Holds, Tables
<1>4. ASSUME request # None
      PROVE  InvOf(request)'
  <2>1. InvOf(request) /\ request' = request /\ served' = served
    BY <1>1, <1>4 DEF IInv
  <2>2. RequestFits(request)'
    BY <2>1 DEF InvOf, RequestFits
  <2>3. request.answer = None => ReadingFits(request)'
    BY <2>1 DEF InvOf, ReadingFits
  <2>4. request.answer = None => ViewFits(request)'
    <3>1. SUFFICES ASSUME request.answer = None PROVE ViewFits(request)'
      OBVIOUS
    <3>2. ViewFits(request)
      BY <2>1, <3>1 DEF InvOf
    <3>3. \A table \in DOMAIN request.view \ {"synced"} : db'[table] = db[table]
      BY <1>2, <3>2 DEF ViewFits, ModelSet, Tables
    <3>4. db'.pages = db.pages
      BY <1>2 DEF Tables
    <3> QED  BY <2>1, <3>2, <3>3, <3>4 DEF ViewFits, Elsewhere, Left
  <2>5. request.answer # None => AnswerFits(request, request.answer)'
    BY <2>1 DEF InvOf, AnswerFits, Serves, Right, Explained, IsPublished
  <2> QED  BY <2>1, <2>2, <2>3, <2>4, <2>5 DEF InvOf
<1> QED  BY <1>1, <1>3, <1>4 DEF IInv

\* Every step keeps the invariant.
LEMMA StepHolds ==
  ASSUME IInv, [Next]_vars
  PROVE  IInv'
<1>1. ASSUME NEW tree \in CheckedTrees, Index(tree) PROVE IInv'
  BY <1>1, IndexHolds
<1>2. ASSUME NEW path \in Paths, NEW cookie \in Cookies, Ask(path, cookie) PROVE IInv'
  BY <1>2, AskHolds
<1>3. CASE Record
  BY <1>3, RecordHolds
<1>4. CASE ReadTable
  BY <1>4, ReadTableHolds
<1>5. CASE ReadPicked
  BY <1>5, ReadPickedHolds
<1>6. CASE ReadDefault
  BY <1>6, ReadDefaultHolds
<1>7. CASE ReadSlug
  BY <1>7, ReadSlugHolds
<1>8. CASE Readiness
  BY <1>8, ReadinessHolds
<1>9. CASE ShowPage
  BY <1>9, ShowPageHolds
<1>10. CASE ShowOther
  BY <1>10, ShowOtherHolds
<1>11. CASE NotFound
  BY <1>11, NotFoundHolds
<1>12. CASE Close
  BY <1>12, CloseHolds
<1>13. CASE UNCHANGED vars
  <2>1. DatabaseFits'
    BY <1>13 DEF IInv, vars, DatabaseFits, Holds
  <2>2. request # None => InvOf(request)'
    BY <1>13 DEF IInv, vars, InvOf, RequestFits, ReadingFits, ViewFits, AnswerFits, Serves, Right,
                 Explained, IsPublished
  <2> QED  BY <1>13, <2>1, <2>2 DEF IInv, vars
<1> QED  BY <1>1, <1>2, <1>3, <1>4, <1>5, <1>6, <1>7, <1>8, <1>9, <1>10, <1>11, <1>12, <1>13
        DEF Next

THEOREM Invariance == Spec => []IInv
<1>1. Init => IInv
  BY InitHolds
<1>2. IInv /\ [Next]_vars => IInv'
  BY StepHolds
<1> QED  BY <1>1, <1>2, PTL DEF Spec

-----------------------------------------------------------------------------
(***************************************************************************)
(* The theorems.                                                           *)
(***************************************************************************)
\* Once `/readyz` has answered 200, no request that a sync leaves alone fails.
THEOREM ServesOnceReady == Spec => []ReadyServes
<1>1. IInv => ReadyServes
  BY DEF IInv, InvOf, AnswerFits, Serves, ReadyServes, Answered
<1> QED  BY <1>1, Invariance, PTL

\* The links of the nav, the frame, the sitemap, the listings and the palette
\* each lead to a page, a listing or a route, but for those nothing checks.
THEOREM EveryLinkLeads == Spec => []LinksLead
<1>1. IInv => LinksLead
  BY LinksFit DEF IInv
<1> QED  BY <1>1, Invariance, PTL

\* No line of a page is drawn as it is written, and no value of its metadata
\* is left out: what the check of a tree accepted is what the renderer finds.
THEOREM ValuesAreShown == Spec => []EveryValueShows
<1>1. IInv => EveryValueShows
  BY ValuesShow DEF IInv
<1> QED  BY <1>1, Invariance, PTL

\* The API serves each type of the revision, whatever its pages were before:
\* its list, its pages by name, and a schema and a place that fit them.  Only
\* the nouns that the check forgets are excepted.
THEOREM TypesAreServed == Spec => []TypesServed
<1>1. IInv => TypesServed
  BY TypesFit DEF IInv
<1> QED  BY <1>1, Invariance, PTL

\* A request that no sync crosses gets a page of the revision indexed last,
\* with its own text, or none if the revision has none there; a page that an
\* index left in another collection is all that is found, or not found, in the
\* place of it.
THEOREM AnswersAreOfTheTree == Spec => []PagesAnswer
<1>1. IInv => PagesAnswer
  BY DEF IInv, InvOf, AnswerFits, Right, Elsewhere, IsOf, PagesAnswer, Answered
<1> QED  BY <1>1, Invariance, PTL

\* What a request that a sync crosses shows was published, and a theme that is
\* gone is all that fails it.
THEOREM CrossedAnswersWerePublished == Spec => []CrossedAnswers
<1>1. IInv => CrossedAnswers
  BY DEF IInv, InvOf, AnswerFits, Explained, IsPublished, CrossedAnswers, Answered
<1> QED  BY <1>1, Invariance, PTL
=============================================================================
