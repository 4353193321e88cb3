-------------------------------- MODULE Site --------------------------------
(***************************************************************************)
(* What the site and the private API answer from the database              *)
(* (crates/server/src/main.rs, model.rs, html.rs, source.rs, api.rs), and  *)
(* how the index fills it from a content tree (crates/core/src/index.rs).  *)
(*                                                                         *)
(* A route is the sequence of its segments; the empty one is `/`.          *)
(***************************************************************************)
EXTENDS Content

CONSTANTS
  Trees,     \* The content trees of the revisions, those that do not check too.
  Cookies,   \* Themes a visitor's cookie may name, None among them.
  Paths      \* The routes asked for; the router knows none of three segments.

ASSUME TreesAssumption ==
  /\ None \in Cookies
  /\ None \notin Trees \union STRING \union {"text", "number", "banner"}
  /\ \A tree \in Trees : IsTree(tree) /\ None \notin tree.pages
  /\ \A path \in Paths : path \in Seq(STRING) /\ Len(path) <= 2

VARIABLES
  db,        \* The tables of the database.
  served,    \* History: the tree indexed last, or None.
  ready,     \* History: whether `/readyz` answered 200.
  request    \* A request being answered, or None.

vars == <<db, served, ready, request>>

-----------------------------------------------------------------------------
(***************************************************************************)
(* The index.                                                              *)
(***************************************************************************)
\* A row of `pages`; its hash is of the manifest and of the content file, and
\* says nothing of the directory they are in (`File::source`).
Row(tree, page) == [page |-> page, text |-> TextOf(tree, page)]

Rows(tree) == {Row(tree, page) : page \in tree.pages}

Key(row) == <<row.page.kind, row.page.name>>

Source(row) == [row EXCEPT !.page.home = None]

\* Mutant of Unchanged: a page is told by its manifest alone.
UnchangedByManifest(old, new) == Key(old) = Key(new) /\ Source(old).page = Source(new).page

\* `unchanged`: the row holds a file with this hash already.
Unchanged(old, new) == Key(old) = Key(new) /\ Source(old) = Source(new)

\* `upsert_page` leaves such a row as it is.
Upserted(rows, new) ==
  IF \E old \in rows : Unchanged(old, new)
    THEN CHOOSE old \in rows : Unchanged(old, new)
    ELSE new

\* `upsert_named` and `upsert_theme`: these rows say all of their files.
Replaced(tree) ==
  [db EXCEPT !.kinds = tree.kinds, !.collections = tree.collections, !.themes = tree.themes]

\* `sync`: every file upserted, and the rows whose file is gone deleted.
Indexed(tree) ==
  [Replaced(tree) EXCEPT
     !.site = tree.site, !.profile = tree.profile, !.nav = tree.nav,
     !.pages = {Upserted(db.pages, row) : row \in Rows(tree)}]

Empty == [site |-> None, profile |-> None, nav |-> None, kinds |-> {}, collections |-> {},
          themes |-> {}, pages |-> {}, synced |-> FALSE]

\* What a release that knew no nav left behind.
Older(tree) == [Empty EXCEPT !.site = tree.site, !.profile = tree.profile,
                             !.themes = tree.themes, !.synced = TRUE]

-----------------------------------------------------------------------------
(***************************************************************************)
(* The model a request renders from: `tables` is a database, or what a     *)
(* request read of one.                                                    *)
(***************************************************************************)
Route(page) ==
  IF IsMember(page) THEN <<page.home, page.name>>
  ELSE IF page.name = "index" THEN <<>> ELSE <<page.name>>

Published(tables) == {row \in tables.pages : ~row.page.draft}

\* `Model::page`.
PagesNamed(tables, name) ==
  {row \in Published(tables) : ~IsMember(row.page) /\ row.page.name = name /\ HasRoute(row.page)}

Enabled(tables, name) ==
  {collection \in tables.collections : collection.name = name /\ collection.enabled}

KindOf(tables, collection) == {kind \in tables.kinds : kind.kind = collection.kind}

AllMembers(tables, name) == {row \in tables.pages : row.page.home = name}

\* `Model::members`.
Members(tables, name) == AllMembers(tables, name) \intersect Published(tables)

\* `Model::picker`, when it has a route.
PickerRoutes(tables) ==
  {Route(row.page) : row \in {each \in Published(tables) :
                                each.page.style = "colorscheme" /\ HasRoute(each.page)}}

PickerRoute(tables) ==
  IF PickerRoutes(tables) = {} THEN <<"theme">> ELSE CHOOSE route \in PickerRoutes(tables) : TRUE

Slugs(themes) == {theme.name : theme \in themes}

-----------------------------------------------------------------------------
(***************************************************************************)
(* Routes.                                                                 *)
(***************************************************************************)
\* Routes of the code that read what is below before they answer; those that
\* read nothing are left out.
CodeRoutes == {<<"help">>, <<"health">>, <<"readyz">>, <<"sitemap.xml">>, <<"intro.json">>,
               <<"favicon.svg">>}

IsPick(path) == Len(path) = 2 /\ path[1] = "theme"

\* `index`, `named` and `member`: the rows a route shows.
At(tables, path) ==
  CASE Len(path) = 0 -> PagesNamed(tables, "index")
    [] Len(path) = 1 -> {row \in PagesNamed(tables, path[1]) : Route(row.page) = path}
    [] Len(path) = 2 -> {row \in Members(tables, path[1]) :
                           row.page.name = path[2] /\ Enabled(tables, path[1]) # {}}

\* `named`: a name of no page is that of a listing.
IsListing(tables, path) ==
  Len(path) = 1 /\ At(tables, path) = {} /\ Enabled(tables, path[1]) # {}

\* Whether a request for the route is answered 200 or 303 from these tables.
Leads(tables, path) ==
  \/ path \in CodeRoutes
  \/ IsPick(path) /\ path[2] \in Slugs(tables.themes)
  \/ ~IsPick(path) /\ (At(tables, path) # {} \/ IsListing(tables, path))

-----------------------------------------------------------------------------
(***************************************************************************)
(* A request, one statement of the database after another.                 *)
(***************************************************************************)
\* `Model::load`, and the theme: the visitor's, else the site's.
ModelTables == <<"site", "profile", "nav", "kinds", "collections", "pages">>

Theme == <<"picked", "default">>

Chrome == ModelTables \o Theme

Statements(path) ==
  CASE path = <<"readyz">>      -> <<"synced", "nav">>
    [] path = <<"sitemap.xml">> -> ModelTables
    [] path = <<"intro.json">>  -> <<"site">>
    [] path = <<"favicon.svg">> -> <<"site">> \o Theme
    [] path = <<"health">>      -> Chrome \o <<"synced">>
    [] IsPick(path)             -> <<"slug">>
    [] OTHER                    -> Chrome

Status(code) == [status |-> code, page |-> None, text |-> <<>>]

Ask(path, cookie) ==
  /\ request = None
  /\ request' = [path |-> path, cookie |-> cookie, reading |-> Statements(path), again |-> FALSE,
                 view |-> <<>>, from |-> served, ready |-> ready, crossed |-> FALSE,
                 answer |-> None]
  /\ UNCHANGED <<db, served, ready>>

\* A request whose next statement is one of these.
Reads(statements) ==
  /\ request # None
  /\ request.answer = None
  /\ request.reading # <<>>
  /\ Head(request.reading) \in statements

Answer(answer) == request' = [request EXCEPT !.answer = answer]

GoOn(reading) == request' = [request EXCEPT !.reading = reading]

\* What a request has read, with one more table of the database.
WithTable(view, table) ==
  [each \in DOMAIN view \union {table} |-> IF each = table THEN db[each] ELSE view[each]]

\* A singleton that is not there is an error, but for `readyz`, which looks.
ReadTable ==
  /\ Reads(ToSet(ModelTables) \union {"synced"})
  /\ LET table == Head(request.reading)
     IN IF table \in DOMAIN Singletons /\ db[table] = None /\ request.path # <<"readyz">>
          THEN Answer(Status(500))
          ELSE request' = [request EXCEPT !.reading = Tail(@), !.view = WithTable(@, table)]
  /\ UNCHANGED <<db, served, ready>>

\* `current_theme`, while the theme of the cookie still exists.
ReadPicked ==
  /\ Reads({"picked"})
  /\ GoOn(IF request.cookie \in Slugs(db.themes)
            THEN Tail(Tail(request.reading)) ELSE Tail(request.reading))
  /\ UNCHANGED <<db, served, ready>>

ReadDefault ==
  /\ Reads({"default"})
  /\ IF request.view.site.theme \in Slugs(db.themes)
       THEN GoOn(Tail(request.reading)) ELSE Answer(Status(500))
  /\ UNCHANGED <<db, served, ready>>

\* `render_not_found` loads everything again.
LooksAgain ==
  request' = [request EXCEPT !.reading = Chrome, !.view = <<>>, !.again = TRUE]

\* `set_theme`.
ReadSlug ==
  /\ Reads({"slug"})
  /\ IF request.path[2] \in Slugs(db.themes) THEN Answer(Status(303)) ELSE LooksAgain
  /\ UNCHANGED <<db, served, ready>>

HasRead == request # None /\ request.answer = None /\ request.reading = <<>>

\* Mutant of IsReady: a database that was ever synced is ready.
IsReadySynced(view) == view.synced

IsReady(view) == view.synced /\ view.nav # None

\* `readyz`.
Readiness ==
  /\ HasRead
  /\ request.path = <<"readyz">>
  /\ Answer(Status(IF IsReady(request.view) THEN 200 ELSE 503))
  /\ ready' = (ready \/ IsReady(request.view))
  /\ UNCHANGED <<db, served>>

\* `Db::content`: the text as it is now, or none.
Text(row) ==
  LET rows == {now \in db.pages : Key(now) = Key(row)}
  IN IF rows = {} THEN <<>> ELSE (CHOOSE now \in rows : TRUE).text

\* `render_page`; the themes a picker lists are read after that.
ShowPage ==
  /\ HasRead
  /\ ~request.again
  /\ request.path \notin CodeRoutes
  /\ \E row \in At(request.view, request.path) :
       Answer([status |-> 200, page |-> row.page, text |-> Text(row)])
  /\ UNCHANGED <<db, served, ready>>

\* A listing, or what the code draws.
ShowOther ==
  /\ HasRead
  /\ ~request.again
  /\ \/ request.path \in CodeRoutes \ {<<"readyz">>}
     \/ request.path \notin CodeRoutes /\ IsListing(request.view, request.path)
  /\ Answer(Status(200))
  /\ UNCHANGED <<db, served, ready>>

NotFound ==
  /\ HasRead
  /\ \/ request.again /\ Answer(Status(404))
     \/ /\ ~request.again
        /\ request.path \notin CodeRoutes
        /\ At(request.view, request.path) = {} /\ ~IsListing(request.view, request.path)
        /\ LooksAgain
  /\ UNCHANGED <<db, served, ready>>

Close ==
  /\ request # None
  /\ request.answer # None
  /\ request' = None
  /\ UNCHANGED <<db, served, ready>>

-----------------------------------------------------------------------------
(***************************************************************************)
(* Syncs.  A bound of the model: one of them in the midst of a request.    *)
(***************************************************************************)
CheckedTrees == {tree \in Trees : Checks(tree)}

Index(tree) ==
  /\ request # None => ~request.crossed
  /\ db' = Indexed(tree)
  /\ served' = tree
  /\ request' = IF request # None /\ request.answer = None
                  THEN [request EXCEPT !.crossed = TRUE] ELSE request
  /\ UNCHANGED ready

\* `record_sync`, after the index has committed.
Record ==
  /\ served # None
  /\ db' = [db EXCEPT !.synced = TRUE]
  /\ UNCHANGED <<served, ready, request>>

Init ==
  /\ db \in {Empty} \union {Older(tree) : tree \in CheckedTrees}
  /\ served = None
  /\ ready = FALSE
  /\ request = None

Next ==
  \/ \E tree \in CheckedTrees : Index(tree)
  \/ Record
  \/ \E path \in Paths, cookie \in Cookies : Ask(path, cookie)
  \/ ReadTable
  \/ ReadPicked
  \/ ReadDefault
  \/ ReadSlug
  \/ Readiness
  \/ ShowPage
  \/ ShowOther
  \/ NotFound
  \/ Close

Spec == Init /\ [][Next]_vars

-----------------------------------------------------------------------------
(***************************************************************************)
(* What is drawn.                                                          *)
(***************************************************************************)
\* `source::markdown`: the lines that are not in a fence; the footer is drawn
\* after the page's own text.
Drawn(text) ==
  FoldLeft(LAMBDA scan, line :
             CASE scan.fence # None -> [scan EXCEPT !.fence = IF line = Fence(@) THEN None ELSE @]
               [] scan.fence = None /\ line.is = "fence" -> [scan EXCEPT !.fence = line.mark]
               [] OTHER -> [scan EXCEPT !.lines = @ \union {line}],
           [fence |-> None, lines |-> {}], text).lines

DrawnLines(row) ==
  Drawn(row.text) \union UNION {Drawn(kind.footer) :
                                  kind \in {each \in db.kinds : each.kind = row.page.kind}}

\* What a directive renders: `Render::value` and `Render::block`.
Shape(path) == IF path[3] \in DOMAIN db.site.values THEN db.site.values[path[3]] ELSE None

Shows(part) ==
  CASE part.name = "value" -> IsSiteValue(part.args) => Shape(part.args) \in {"text", "number"}
    [] part.name = "clone" -> IsSiteValue(part.args) => Shape(part.args) = "text"
    [] part.name = "banner" -> IsSiteValue(part.args) /\ Shape(part.args) = "banner"
    [] part.name = "link" -> part.args[1] \in SafeUrls
    [] part.name = "links" -> TRUE
    [] part.name = "collection" ->
         \E collection \in db.collections :
           collection.name = part.args[1] /\ KindOf(db, collection) # {}

\* `expanded`: a line that does not parse is drawn as it is written.
LineShows(line) ==
  \/ Alone(line.parts) /\ Shows(line.parts[1])
  \/ ~Alone(line.parts) /\ \A part \in ToSet(line.parts) :
       \/ part.is = "text"
       \/ part.is = "directive" /\ ~IsBlock(part) /\ Shows(part)

\* `member_rows`: the pages of a listing.
RowLinks(name) == {<<name, row.page.name>> : row \in Members(db, name)}

\* Mutant of DirectiveLinks: the rows of a disabled collection are drawn too.
DirectiveLinksOfAny(row) ==
  LET blocks == {line.parts[1] : line \in {each \in DrawnLines(row) : Alone(each.parts)}}
  IN UNION {RowLinks(block.args[1]) : block \in {each \in blocks : each.name = "collection"}}

\* `collection_rows`: none of a collection that is disabled.
DirectiveLinks(row) ==
  LET blocks == {line.parts[1] : line \in {each \in DrawnLines(row) : Alone(each.parts)}}
      names == {block.args[1] : block \in {each \in blocks : each.name = "collection"}}
  IN UNION {RowLinks(name) \union {<<name>>} : name \in {each \in names : Enabled(db, each) # {}}}

\* `tree_command`.
CommandLink(name) ==
  CASE name = "colorscheme" -> PickerRoute(db)
    [] name = "find" ->
         LET listed == SelectSeq(db.nav.items, LAMBDA item : item.to = "collection")
         IN IF listed = <<>> THEN <<>> ELSE <<Head(listed).name>>
    [] name = "help" -> <<"help">>
    [] name = "checkhealth" -> <<"health">>

\* `tree_item`; a value links elsewhere.
ItemLinks(item) ==
  CASE item.to = "page" -> {Route(row.page) : row \in PagesNamed(db, item.name)}
    [] item.to = "collection" ->
         IF Enabled(db, item.name) = {} THEN {} ELSE RowLinks(item.name) \union {<<item.name>>}
    [] item.to = "command" -> {CommandLink(item.name)}
    [] IsNavLink(item) -> {}

\* `layout`, around every page; `statusline_count`.
FrameLinks ==
  {<<"help">>, <<"health">>, <<"favicon.svg">>}
    \union {<<collection.name>> : collection \in Enabled(db, db.nav.count)}
    \union UNION {ItemLinks(item) : item \in ToSet(db.nav.items)}

\* `colorscheme`: each theme that is not hidden sets its cookie.
PickLinks == {<<"theme", slug>> : slug \in Slugs({theme \in db.themes : ~theme.hidden})}

\* `sitemap`.
SitemapLinks ==
  {<<>>, <<"help">>}
    \union {Route(row.page) : row \in {each \in Published(db) :
              ~IsMember(each.page) /\ each.page.style = "markdown"
                /\ each.page.name \notin {"index", "not-found"}}}
    \union UNION {RowLinks(collection.name) \union {<<collection.name>>} :
                    collection \in {each \in db.collections : each.enabled}}

\* `health` names the theme, and links to where it is picked.
HealthLinks == {PickerRoute(db)}

Links ==
  FrameLinks \union SitemapLinks \union PickLinks \union HealthLinks
    \union UNION {DirectiveLinks(row) : row \in Published(db)}

\* What is drawn of a page's metadata: `frontmatter`, a `cell` of a listing,
\* and the structured data (`typed_ld`), which holds what a path leads to.
FrontmatterShows(field, value) ==
  \/ field.type \in {"string", "enum", "url"} /\ value.is = "string"
  \/ field.type \in {"int", "bool"}
  \/ field.type = "list" /\ value.is = "list"
  \/ field.type = "links" /\ value.is = "links" /\ value.keys \subseteq field.keys

CellShows(value) == value.is \in {"string", "number", "flag", "list"}

LdShows(source, metadata) ==
  \/ source[1] \in {"title", "description"}
  \/ source[1] \in DOMAIN metadata => Len(source) = 1 \/ metadata[source[1]].is = "links"

MetadataShows(kind, metadata) ==
  /\ \A name \in DOMAIN metadata :
       name \in DOMAIN kind.fields /\ FrontmatterShows(kind.fields[name], metadata[name])
  /\ \A collection \in {each \in db.collections : each.kind = kind.kind} :
       \A column \in collection.columns \intersect DOMAIN metadata : CellShows(metadata[column])
  /\ \A source \in kind.json_ld : LdShows(source, metadata)
  /\ kind.summary \in DOMAIN metadata => metadata[kind.summary].is = "string"

-----------------------------------------------------------------------------
(***************************************************************************)
(* The private API: the resources it names and the lists it answers.       *)
(***************************************************************************)
\* `events` and `kept`: what the server keeps, and nothing writes.
KeptNouns == {{"events", "event", "ev"}, {"server"}}

\* `api::resources`: what a resource of the code answers to.
BuiltinNouns ==
  {{"site"}, {"profile"}, {"nav"}, {"pagekinds", "pagekind", "pk"},
   {"collections", "collection", "col"}, {"pages", "page"}, {"themes", "theme", "th"}}
    \union KeptNouns

\* `paired`: a type and its home.
Paired == {kind \in db.kinds : \E collection \in db.collections : collection.kind = kind.kind}

Resources == BuiltinNouns \union {Nouns(kind) : kind \in Paired}

\* Resources the router or the handlers answer before any page type.
AnsweredFirst ==
  {"site", "profile", "nav", "pagekinds", "collections", "pages", "themes", "events", "server",
   "api-resources", "schema", "sync"}

\* `list`: the rows of the page type of a plural.
List(plural) ==
  IF plural \in AnsweredFirst THEN {}
  ELSE UNION {{row \in db.pages : row.page.kind = kind.kind} :
                kind \in {each \in Paired : each.plural = plural}}

\* `page_schema` and `field_schema`: what the schema of a page type, which
\* `hldr explain` prints, says of the metadata of its pages.
Required(kind) == {name \in DOMAIN kind.fields : kind.fields[name].required}

FieldSchema(field) ==
  CASE field.type = "links" -> [type |-> "object", keys |-> field.keys]
    [] field.type = "list" -> [type |-> "array"]
    [] field.type = "enum" -> [type |-> "string", oneOf |-> field.values]
    [] field.type = "int" -> [type |-> "integer"]
    [] field.type = "bool" -> [type |-> "boolean"]
    [] OTHER -> [type |-> "string"]

\* JSON Schema's reading of such a schema.
Admits(schema, value) ==
  CASE schema.type = "object" -> value.is = "links" /\ value.keys \subseteq schema.keys
    [] schema.type = "array" -> value.is = "list"
    [] schema.type = "integer" -> value.is = "number"
    [] schema.type = "boolean" -> value.is = "flag"
    [] schema.type = "string" ->
         value.is = "string" /\ ("oneOf" \in DOMAIN schema => value.text \in schema.oneOf)

\* The times the server keeps, in the place of fields of their names.
ServerFields == {"created_at", "updated_at"}

WithServerFields(time, fields) ==
  [name \in ServerFields \union DOMAIN fields |->
     IF name \in ServerFields THEN time ELSE fields[name]]

Schema(kind) ==
  WithServerFields([type |-> "string"],
                   [name \in DOMAIN kind.fields |-> FieldSchema(kind.fields[name])])

Described(kind, metadata) ==
  /\ Required(kind) \subseteq DOMAIN metadata
  /\ \A name \in DOMAIN metadata :
       name \in DOMAIN Schema(kind) /\ Admits(Schema(kind)[name], metadata[name])

\* `From<&store::Page>`: the metadata of a page as the API serves it.
Served(row) == WithServerFields([is |-> "string", text |-> "time"], row.page.metadata)

\* `without_server_fields`: what `hldr apply` makes of what `hldr get` printed.
WithoutServerFields(metadata) == Restrict(metadata, DOMAIN metadata \ ServerFields)

\* `page_type` and `builtin`: the manifest that discovery names for a page,
\* where every verb that writes looks for it (`path_for`).
SourceOf(row) ==
  IF row.page.kind = "Page" THEN <<"pages", row.page.name>>
  ELSE LET homes == {each \in db.collections : each.kind = row.page.kind}
       IN <<(CHOOSE collection \in homes : TRUE).name, row.page.name>>

\* `resolve`: what a file of `hldr get` is to `hldr apply`.
Applied(row) == [at |-> Located(SourceOf(row)), metadata |-> WithoutServerFields(Served(row))]

Location(page) ==
  IF IsMember(page) THEN [kind |-> None, home |-> page.home, name |-> page.name]
                    ELSE [kind |-> "Page", home |-> None, name |-> page.name]

\* `item`; under `metrics` a name is a view of the counts.
Item(plural, name) ==
  IF plural \in AnsweredFirst \union {"metrics"} THEN {}
  ELSE UNION {{row \in db.pages : Key(row) = <<kind.kind, name>>} :
                kind \in {each \in Paired : each.plural = plural}}

-----------------------------------------------------------------------------
(***************************************************************************)
(* Properties.                                                             *)
(***************************************************************************)
Answered == request # None /\ request.answer # None

Code(path) == path \in CodeRoutes \/ IsPick(path)

\* Whether a page is at a route, among these collections.
IsAt(page, collections, path) ==
  /\ HasRoute(page) /\ ~page.draft /\ Route(page) = path
  /\ IsMember(page) => \E collection \in collections :
                         collection.name = page.home /\ collection.enabled

\* What a tree says is at a route.
Says(tree, path) == {page \in tree.pages : IsAt(page, tree.collections, path)}

\* Pages that say the same, in one collection or another.
Same(a, b) == [a EXCEPT !.home = None] = [b EXCEPT !.home = None]

\* The pages that are in another collection than their files: the index left
\* their rows as they were when the collection was renamed.
Left(tree, rows) == {row.page : row \in rows} \ tree.pages

\* A request that no sync crossed gets a page of the revision indexed last,
\* with its own text, at the route that revision has it at; a route of no page
\* of it, or of a draft or a disabled collection, gets a listing or a 404, and
\* never a page.  So no row that an index left as it was is of another file or
\* of an older text.  All it may be is in the collection its page was in when
\* the row was written, where it is then found, or not at all: that is what
\* `IsOneRevision` says is wrong.
PagesAnswer ==
  Answered /\ ~request.crossed /\ request.from # None /\ ~Code(request.path) =>
    LET tree == request.from
        left == Left(tree, request.view.pages)
        page == request.answer.page
    IN IF page = None
         THEN \A said \in Says(tree, request.path) : \E each \in left : Same(each, said)
         ELSE /\ IsAt(page, tree.collections, request.path)
              /\ \E file \in tree.pages :
                   /\ Same(page, file) /\ page \in {file} \union left
                   /\ request.answer = [status |-> 200, page |-> page,
                                        text |-> TextOf(tree, file)]

\* "The database is a materialized view of one content revision": the pages
\* it holds are those of the tree that was indexed last, each in its place.
IsOneRevision == served # None => db.pages = Rows(served)

\* The links that lead nowhere, which nothing checks: `/` of a draft index,
\* the palette page when it is a draft, and `find` of a disabled collection.
Dangling(link) ==
  \/ link = <<>> /\ PagesNamed(db, "index") = {}
  \/ link = <<"theme">> /\ PickerRoutes(db) = {}
  \/ link = CommandLink("find") /\ Len(link) = 1 /\ Enabled(db, link[1]) = {}

\* Every other link the site draws or lists in its sitemap leads to a page,
\* a listing or a route of the code, though the tree, the listings and the
\* routes each look for what is published in their own way.
LinksLead == served # None => \A link \in Links : Leads(db, link) \/ Dangling(link)

\* What the check of a tree accepted is what the renderer finds: no line of a
\* served page is drawn as raw template text, and no directive of it comes to
\* nothing, though the two scan fences and look values up in code of their own.
\* No value of its metadata is left out of the frontmatter, a listing or the
\* structured data either, each of which takes only what it expects.
EveryValueShows ==
  served # None => \A row \in db.pages :
    /\ \A line \in DrawnLines(row) : LineShows(line)
    /\ \A kind \in db.kinds : kind.kind = row.page.kind => MetadataShows(kind, row.page.metadata)

\* Nouns of resources and routes of the code that `check_page_kind` does not
\* keep from a page type: "events", "event", "ev", "server", "metrics", "pk"
\* and "col".
ForgottenNouns ==
  ((UNION BuiltinNouns) \union AnsweredFirst \union {"metrics"}) \ BUILTIN_RESOURCES

\* Each page type of the revision is listed under its plural, with its pages
\* and each of them by its name, drafts included, but for a plural that the
\* check forgets and the code answers itself; the schema the API gives of the
\* type describes them all, and a page as `hldr get` prints it is what its file
\* says, but for a field of the name of a time of the server, which nothing
\* refuses.  Each page, those too that an index left in another collection,
\* goes back to the place of its file; and only the nouns that the check
\* forgets ever name two resources.
TypesServed ==
  served # None =>
    /\ \A kind \in {each \in served.kinds : each.plural \notin ForgottenNouns} :
         LET names == {page.name : page \in {each \in served.pages :
                         \E collection \in served.collections :
                           collection.kind = kind.kind /\ each.home = collection.name}}
         IN /\ {row.page.name : row \in List(kind.plural)} = names
            /\ \A name \in names : Item(kind.plural, name) # {}
            /\ \A row \in List(kind.plural) :
                 /\ Described(kind, Served(row))
                 /\ \/ Applied(row).metadata = row.page.metadata
                    \/ ServerFields \intersect DOMAIN kind.fields # {}
    /\ \A row \in db.pages : \E file \in served.pages :
         Same(row.page, file) /\ Applied(row).at = Location(file)
    /\ \A a, b \in Resources : a # b => a \intersect b \subseteq ForgottenNouns

\* "Resource names the API has before any page type: no page type can take
\* one": a noun names one resource, whatever the types of the revision.
NounsNameOne == served # None => \A a, b \in Resources : a # b => a \intersect b = {}

\* Once `/readyz` has answered 200, a request that no sync crosses never
\* fails: a container that the proxy sends visitors to has all it draws from.
ReadyServes ==
  Answered /\ request.ready /\ ~request.crossed => request.answer.status # 500

\* A request reads its tables one by one, and a sync may commit between two
\* of them.  What it shows is then still a page that one of the revisions
\* published, at home in a collection that one of them serves; and it fails
\* only when the newer revision has no more the theme the older one gave.
CrossedAnswers ==
  Answered /\ request.ready /\ request.crossed =>
    LET older == request.from
        revisions == {older, served}
        page == request.answer.page
    IN /\ request.answer.status = 500 => older.site.theme \notin Slugs(served.themes)
       /\ page # None =>
            /\ ~page.draft /\ \E tree \in revisions : \E file \in tree.pages : Same(page, file)
            /\ IsMember(page) => \E tree \in revisions : \E collection \in tree.collections :
                                   collection.name = page.home /\ collection.enabled
=============================================================================
