------------------------------- MODULE Content -------------------------------
(***************************************************************************)
(* A content tree, and the checks that decide whether a revision is served *)
(* (crates/core/src/tree.rs, manifest.rs, template.rs).                    *)
(*                                                                         *)
(* A tree is a record of its files, parsed: a singleton is None when it is *)
(* missing, the others are sets.  A name is a string of the code or of a   *)
(* small set.  Text is a sequence of lines, a line is a fence or a         *)
(* sequence of parts, and a value of a page or of the site is its shape.   *)
(* Which problems are listed, and in what words, is left out: a tree       *)
(* checks or it does not.                                                  *)
(***************************************************************************)
EXTENDS Integers, FiniteSets, SequencesExt

CONSTANT None   \* A file, a name or a field that is not there.

-----------------------------------------------------------------------------
(***************************************************************************)
(* What each kind of file declares, as far as anything below looks at it;  *)
(* a field of another name is refused (`deny_unknown_fields`).  `says` is  *)
(* the kind and the name that a file declares, `name` that of its path.    *)
(***************************************************************************)
\* Just these fields.
HasFields(record, fields) == record = [field \in fields |-> record[field]]

IsSiteSpec(site) == HasFields(site, {"theme", "values"})

\* The optional fields of the profile that are given.
IsProfileSpec(profile) == profile \subseteq {"email", "github", "linkedin", "source"}

NavCommands == {"colorscheme", "find", "help", "checkhealth"}

\* A link out is a value path, or spelled out.
IsNavLink(item) ==
  \/ item.to = "value" /\ Len(item.path) >= 2
  \/ item.to = "literal"

\* Exactly one of `page`, `collection`, `command` and `link`.
IsNavItem(item) ==
  \/ item.to \in {"page", "collection"} /\ HasFields(item, {"to", "name"})
  \/ item.to = "command" /\ item.name \in NavCommands
  \/ IsNavLink(item)

\* The items of its sections one after another, and the texts of all of them;
\* `count` is the statusline's.
IsNavSpec(nav) ==
  HasFields(nav, {"items", "texts", "count"}) /\ \A item \in ToSet(nav.items) : IsNavItem(item)

FieldTypes == {"string", "int", "bool", "enum", "list", "url", "links"}

IsFieldSpec(field) ==
  /\ HasFields(field, {"type", "required", "values", "ok", "keys"})
  /\ field.type \in FieldTypes
  /\ field.required \in BOOLEAN

\* A source of the structured data: `title`, a field, or a field and a key.
IsJsonLdSpec(sources) == \A source \in sources : Len(source) \in {1, 2}

\* The kind its pages declare, and the nouns of the API and the command line.
KindNames == {"kind", "singular", "plural", "short_names"}

IsPageKindSpec(kind) ==
  /\ HasFields(kind, {"name", "says", "fields", "summary", "footer", "json_ld"} \union KindNames)
  /\ \A name \in DOMAIN kind.fields : name \in STRING /\ IsFieldSpec(kind.fields[name])
  /\ IsJsonLdSpec(kind.json_ld)

IsCollectionSpec(collection) ==
  /\ HasFields(collection, {"name", "says", "kind", "enabled", "order", "badge", "columns"})
  /\ collection.enabled \in BOOLEAN

IsThemeSpec(theme) == HasFields(theme, {"name", "says", "hidden"}) /\ theme.hidden \in BOOLEAN

PageStyles == {"markdown", "colorscheme"}

IsPageContent(content) == content = None \/ HasFields(content, {"file", "inline"})

\* A page is a member of a collection, or at home in `pages`.
IsPageSpec(page) ==
  /\ HasFields(page, {"home", "name", "says", "kind", "title", "metadata", "content", "style",
                      "person", "draft"})
  /\ HasFields(page.metadata, DOMAIN page.metadata)
  /\ page.style \in PageStyles /\ IsPageContent(page.content)
  /\ {page.person, page.draft} \subseteq BOOLEAN

\* Finitely many files, each at a path of its own.
PathsDiffer(tree) ==
  /\ \A files \in {tree.kinds, tree.collections, tree.pages, tree.themes, tree.contents} :
       IsFiniteSet(files)
  /\ \A files \in {tree.kinds, tree.collections, tree.themes} :
       \A a, b \in files : a.name = b.name => a = b
  /\ \A a, b \in tree.pages : a.home = b.home /\ a.name = b.name => a = b
  /\ \A a, b \in tree.contents : a.home = b.home /\ a.file = b.file => a = b

IsTree(tree) ==
  /\ tree.site # None => IsSiteSpec(tree.site)
  /\ tree.profile # None => IsProfileSpec(tree.profile)
  /\ tree.nav # None => IsNavSpec(tree.nav)
  /\ \A kind \in tree.kinds : IsPageKindSpec(kind)
  /\ \A collection \in tree.collections : IsCollectionSpec(collection)
  /\ \A page \in tree.pages : IsPageSpec(page)
  /\ \A theme \in tree.themes : IsThemeSpec(theme)
  /\ \A file \in tree.contents : HasFields(file, {"home", "file", "text"})
  /\ PathsDiffer(tree)

-----------------------------------------------------------------------------
(***************************************************************************)
(* Templates.                                                              *)
(***************************************************************************)
Fence(mark) == [is |-> "fence", mark |-> mark]

Line(parts) == [is |-> "line", parts |-> parts]

\* Plain text, code or an escaped brace, in which nothing expands; and `{{`
\* that is never closed.
Plain == [is |-> "text"]

Unclosed == [is |-> "open"]

\* `{{ name args where=filter }}`; a value is a directive without a name.
Directive(name, args, filter) ==
  [is |-> "directive", name |-> name, args |-> args, filter |-> filter]

Value(path) == Directive("value", path, None)

\* They render whole lines, and must be alone on theirs.
IsBlock(part) ==
  part.is = "directive" /\ part.name \in {"banner", "clone", "links", "collection"}

\* What a directive may name beyond the text itself (`value_path`).
ValuePath(path) ==
  \/ path \in {<<"profile", field>> : field \in {"name", "headline", "bio", "email"}}
  \/ path \in {<<"profile", "links", key>> : key \in {"github", "linkedin", "source"}}
  \/ path = <<"site", "title">>
  \/ Len(path) >= 3 /\ path[1] = "site" /\ path[2] = "values"
  \/ Len(path) >= 2 /\ path[1] = "page"

\* The schemes of an address that becomes a link (`safe_url`).
SafeUrls == {"https:", "http:", "mailto:", "/", "#"}

\* `collection`: a name, which may be filtered and cut short.
ListsCollection(part) == part.name = "collection" /\ Len(part.args) = 1

\* `directive`: a link has an address, a value a path, and nothing else exists.
Parses(part) ==
  \/ part.name \in {"value", "banner", "clone"} /\ ValuePath(part.args)
  \/ part.name = "link" /\ part.args[1] \in SafeUrls
  \/ part.name = "links"
  \/ ListsCollection(part)

\* What a directive refers to, for the checks across files.
ReferencesOf(part) ==
  IF part.is = "directive" /\ part.name \in {"value", "banner", "clone", "collection"}
    THEN {[to |-> part.name, path |-> part.args, filter |-> part.filter]}
    ELSE {}

\* `segments`: a line in which no block directive stands among other parts.
PartsParse(parts) ==
  \A part \in ToSet(parts) :
    \/ part.is = "text"
    \/ part.is = "directive" /\ Parses(part) /\ ~IsBlock(part)

\* `block`: a line that holds one block directive and nothing else.
Alone(parts) == DOMAIN parts = {1} /\ IsBlock(parts[1])

LineParses(line) ==
  IF Alone(line.parts) THEN Parses(line.parts[1]) ELSE PartsParse(line.parts)

PartsReferences(parts) == UNION {ReferencesOf(part) : part \in ToSet(parts)}

\* Mutant of Unfenced: any marker closes a fence.
UnfencedByAny(text) ==
  FoldLeft(LAMBDA scan, line :
             IF line.is = "fence"
               THEN [scan EXCEPT !.fence = IF @ = None THEN line.mark ELSE None]
               ELSE IF scan.fence = None THEN [scan EXCEPT !.lines = @ \union {line}] ELSE scan,
           [fence |-> None, lines |-> {}], text).lines

\* The lines of a text outside its fences; a fence ends at its own marker or
\* with the text.  `check_markdown` looks at these.
Unfenced(text) ==
  FoldLeft(LAMBDA scan, line :
             IF scan.fence # None
               THEN [scan EXCEPT !.fence = IF line = Fence(@) THEN None ELSE @]
               ELSE IF line.is = "fence" THEN [scan EXCEPT !.fence = line.mark]
                    ELSE [scan EXCEPT !.lines = @ \union {line}],
           [fence |-> None, lines |-> {}], text).lines

MarkdownParses(text) == \A line \in Unfenced(text) : LineParses(line)

References(text) == UNION {PartsReferences(line.parts) : line \in Unfenced(text)}

\* `check_text`: a title takes values, and no link.
TextParses(parts) == PartsParse(parts) /\ \A part \in ToSet(parts) :
                       part.is = "directive" => part.name # "link"

-----------------------------------------------------------------------------
(***************************************************************************)
(* Manifests, each by itself, and pages with the type they are of.         *)
(***************************************************************************)
\* Names that routes, directories or resources of the code have.
RESERVED_NAMES == {"api", "help", "health", "healthz", "readyz"}

RESERVED_COLLECTIONS == {"theme", "pages", "kinds", "collections", "themes"}

BUILTIN_KINDS == {"Site", "Profile", "Nav", "PageKind", "Collection", "Page", "Theme"}

BUILTIN_RESOURCES ==
  {"site", "profile", "nav", "pagekinds", "pagekind", "collections", "collection", "pages",
   "page", "themes", "theme", "th", "api-resources", "schema", "sync", "list", "status"}

\* `check_page_reference`: what a page says of itself exists and fits a line.
PageReferenceFits(reference, fields) ==
  LET path == reference.path
      scalar == reference.to # "banner"
      type == fields[path[2]].type
  IN reference.to # "collection" /\ path[1] = "page" =>
       \/ Len(path) = 2 /\ path[2] \in {"name", "title", "description"} /\ scalar
       \/ Len(path) = 2 /\ path[2] \in DOMAIN fields /\ type \notin {"links", "list"} /\ scalar
       \/ Len(path) = 3 /\ path[2] \in DOMAIN fields /\ type = "links"
            /\ path[3] \in fields[path[2]].keys

\* `check_content`.
ContentParses(text, fields) ==
  MarkdownParses(text) /\ \A reference \in References(text) : PageReferenceFits(reference, fields)

\* `check_field`: an enum lists its values, the good ones among them, and
\* links list their keys.
FieldParses(field) ==
  /\ (field.values # {}) <=> (field.type = "enum")
  /\ (field.keys # {}) <=> (field.type = "links")
  /\ field.ok \subseteq field.values

\* `field_value`: a value of a page fits the type of its field.
FieldValue(field, value) ==
  CASE field.type \in {"string", "url"} -> value.is = "string"
    [] field.type = "enum" -> value.is = "string" /\ value.text \in field.values
    [] field.type = "int" -> value.is = "number"
    [] field.type = "bool" -> value.is = "flag"
    [] field.type = "list" -> value.is = "list"
    [] field.type = "links" -> value.is = "links" /\ value.keys \subseteq field.keys

\* `json_ld_source`.
JsonLdSource(source, fields) ==
  \/ source \in {<<"title">>, <<"description">>}
  \/ Len(source) = 1 /\ source[1] \in DOMAIN fields
  \/ Len(source) = 2 /\ source[1] \in DOMAIN fields /\ source[2] \in fields[source[1]].keys

Nouns(kind) == {kind.singular, kind.plural} \union kind.short_names

\* Mutant of PageKindParses: a page type may take any name.
PageKindParsesAnyName(kind) ==
  /\ \A name \in DOMAIN kind.fields : FieldParses(kind.fields[name])
  /\ kind.summary # None =>
       kind.summary \in DOMAIN kind.fields /\ kind.fields[kind.summary].type = "string"
  /\ ContentParses(kind.footer, kind.fields)
  /\ \A source \in kind.json_ld : JsonLdSource(source, kind.fields)

\* `check_page_kind`.
PageKindParses(kind) ==
  /\ kind.kind \notin BUILTIN_KINDS
  /\ Nouns(kind) \intersect BUILTIN_RESOURCES = {}
  /\ \A name \in DOMAIN kind.fields : FieldParses(kind.fields[name])
  /\ kind.summary # None =>
       kind.summary \in DOMAIN kind.fields /\ kind.fields[kind.summary].type = "string"
  /\ ContentParses(kind.footer, kind.fields)
  /\ \A source \in kind.json_ld : JsonLdSource(source, kind.fields)

\* `check_collection`.
CollectionParses(collection) ==
  collection.name \notin RESERVED_NAMES \union RESERVED_COLLECTIONS

\* `check_nav` and `check_nav_item`: the nav belongs to no page.
NavParses(nav) ==
  /\ \A text \in nav.texts : TextParses(text)
  /\ \A reference \in UNION {PartsReferences(text) : text \in nav.texts} :
       reference.path[1] # "page"
  /\ \A item \in ToSet(nav.items) :
       item.to = "value" => ValuePath(item.path) /\ item.path[1] # "page"

IsMember(page) == page.home # "pages"

\* `Kind`: the singletons, and the directories of the others.
Singletons == [site |-> "Site", profile |-> "Profile", nav |-> "Nav"]

Directories ==
  [kinds |-> "PageKind", collections |-> "Collection", themes |-> "Theme", pages |-> "Page"]

\* `locate`: what the path of a manifest holds; a member says its collection.
Located(path) ==
  CASE Len(path) = 1 /\ path[1] \in DOMAIN Singletons ->
         [kind |-> Singletons[path[1]], home |-> None, name |-> None]
    [] Len(path) = 2 /\ path[1] \in DOMAIN Directories ->
         [kind |-> Directories[path[1]], home |-> None, name |-> path[2]]
    [] Len(path) = 2 /\ path[1] \notin DOMAIN Directories ->
         [kind |-> None, home |-> path[1], name |-> path[2]]

\* `Page::path`.
PathOf(page) == <<page.home, page.name>>

\* `expect_kind` and `expect_name`: a file declares what its path holds.
Declares(file, kind) == file.says = [kind |-> kind, name |-> file.name]

\* `Registry`: the type of the pages in a directory, if one is declared.
KindsNamed(tree, kind) == {declared \in tree.kinds : declared.kind = kind}

CollectionsNamed(tree, name) == {collection \in tree.collections : collection.name = name}

TypesOfHome(tree, home) ==
  UNION {KindsNamed(tree, collection.kind) : collection \in CollectionsNamed(tree, home)}

FieldsOf(tree, page) ==
  IF IsMember(page) THEN (CHOOSE kind \in TypesOfHome(tree, page.home) : TRUE).fields ELSE <<>>

\* `check_page_spec`: the markdown is in a file or inline, and a page has what
\* its style needs.
PageSpecFits(page) ==
  /\ page.content = None => page.style # "markdown"
  /\ page.content # None => (page.content.file = None) # (page.content.inline = None)
  /\ IsMember(page) => page.style # "colorscheme" /\ ~page.person

\* `parse`: the kind that the pages at a place declare, if the place is one.
KindsAt(tree, page) ==
  IF IsMember(page) THEN {kind.kind : kind \in TypesOfHome(tree, page.home)} ELSE {"Page"}

\* `page`: the manifest declares what its place says, and its fields are those
\* of its type.
PageParses(tree, page) ==
  LET fields == FieldsOf(tree, page)
  IN /\ page.kind \in KindsAt(tree, page)
     /\ Declares(page, page.kind)
     /\ \A name \in DOMAIN page.metadata :
          name \in DOMAIN fields /\ FieldValue(fields[name], page.metadata[name])
     /\ \A name \in DOMAIN fields : fields[name].required => name \in DOMAIN page.metadata
     /\ PageSpecFits(page)
     /\ TextParses(page.title)
     /\ \A reference \in PartsReferences(page.title) : PageReferenceFits(reference, fields)

\* The markdown a page names: a file beside it, or what it holds itself.
FilesOf(tree, page) ==
  {file \in tree.contents : file.home = page.home /\ file.file = page.content.file}

IsFile(content) == content # None /\ content.file # None

TextOf(tree, page) ==
  IF page.content = None THEN <<>>
  ELSE IF IsFile(page.content) THEN (CHOOSE file \in FilesOf(tree, page) : TRUE).text
  ELSE page.content.inline

\* `Tree::read`: every file parses, a page's content is there and parses, and
\* every content file is named by a page.
FilesParse(tree) ==
  /\ tree.nav # None => NavParses(tree.nav)
  /\ \A kind \in tree.kinds : Declares(kind, "PageKind") /\ PageKindParses(kind)
  /\ \A collection \in tree.collections :
       Declares(collection, "Collection") /\ CollectionParses(collection)
  /\ \A theme \in tree.themes : Declares(theme, "Theme")
  /\ \A page \in tree.pages :
       /\ PageParses(tree, page)
       /\ IsFile(page.content) => FilesOf(tree, page) # {}
       /\ ContentParses(TextOf(tree, page), FieldsOf(tree, page))
  /\ \A file \in tree.contents :
       \E page \in tree.pages : IsFile(page.content) /\ file \in FilesOf(tree, page)

-----------------------------------------------------------------------------
(***************************************************************************)
(* `Tree::check`: what no single file can get wrong.                       *)
(***************************************************************************)
Named(tree, name) == {page \in tree.pages : ~IsMember(page) /\ page.name = name}

\* The singletons and the pages the site needs.
NeededExist(tree) ==
  /\ tree.site # None /\ tree.profile # None /\ tree.nav # None
  /\ Named(tree, "index") # {} /\ Named(tree, "not-found") # {}

\* `check_colorscheme`.
PickerFits(tree) ==
  LET pickers == {page \in tree.pages : page.style = "colorscheme"}
  IN /\ Cardinality(pickers) <= 1
     /\ (\E item \in ToSet(tree.nav.items) : item.to = "command" /\ item.name = "colorscheme")
          => pickers # {}

\* `check_collection_fields`.
CollectionFits(collection, kind) ==
  LET type == [name \in DOMAIN kind.fields |-> kind.fields[name].type]
  IN /\ collection.order # None =>
          collection.order \in DOMAIN type /\ type[collection.order] \in {"int", "string"}
     /\ collection.badge # None =>
          collection.badge \in DOMAIN type /\ kind.fields[collection.badge].ok # {}
     /\ \A column \in collection.columns : column \in DOMAIN type /\ type[column] # "links"

\* `check_types`: each collection holds a type that is declared, and each type
\* has one home.
TypesPair(tree) ==
  /\ \A collection \in tree.collections :
       \E kind \in KindsNamed(tree, collection.kind) : CollectionFits(collection, kind)
  /\ \A kind \in tree.kinds :
       Cardinality({collection \in tree.collections : collection.kind = kind.kind}) = 1

\* `check_names`: neither kinds nor nouns repeat, and a page takes the name of
\* no route of the code and of no collection.
NamesDiffer(tree) ==
  /\ \A a, b \in tree.kinds : a # b => a.kind # b.kind /\ Nouns(a) \intersect Nouns(b) = {}
  /\ \A page \in tree.pages :
       ~IsMember(page) => page.name \notin RESERVED_NAMES /\ CollectionsNamed(tree, page.name) = {}

\* The shape of a site value, or None (`site_value`).
SiteValue(tree, path) ==
  IF Len(path) = 3 /\ path[3] \in DOMAIN tree.site.values THEN tree.site.values[path[3]] ELSE None

IsSiteValue(path) == Len(path) >= 3 /\ path[1] = "site" /\ path[2] = "values"

\* `resolve`: what a reference names exists and fits where it is shown.
Resolves(tree, reference) ==
  LET shape == SiteValue(tree, reference.path)
  IN CASE reference.to = "value" -> IsSiteValue(reference.path) => shape \in {"text", "number"}
       [] reference.to = "clone" -> IsSiteValue(reference.path) => shape = "text"
       [] reference.to = "banner" -> IsSiteValue(reference.path) /\ shape = "banner"
       [] reference.to = "collection" ->
            /\ CollectionsNamed(tree, reference.path[1]) # {}
            /\ \A kind \in TypesOfHome(tree, reference.path[1]) :
                 reference.filter # None => reference.filter \in DOMAIN kind.fields

\* What the tree refers to: in the nav, the footers, the titles and the texts.
AllReferences(tree) ==
  UNION ({PartsReferences(text) : text \in tree.nav.texts}
         \union {References(kind.footer) : kind \in tree.kinds}
         \union {PartsReferences(page.title) : page \in tree.pages}
         \union {References(TextOf(tree, page)) : page \in tree.pages}
         \union {{[to |-> "value", path |-> item.path, filter |-> None] :
                    item \in {each \in ToSet(tree.nav.items) : each.to = "value"}}})

HasRoute(page) == IsMember(page) \/ page.name # "not-found"

\* `check_references`.
ReferencesResolve(tree) ==
  /\ \A reference \in AllReferences(tree) : Resolves(tree, reference)
  /\ \A item \in ToSet(tree.nav.items) :
       /\ item.to = "page" => \E page \in Named(tree, item.name) : HasRoute(page)
       /\ item.to = "collection" => CollectionsNamed(tree, item.name) # {}
  /\ tree.nav.count # None => CollectionsNamed(tree, tree.nav.count) # {}

\* The theme every visitor gets who picked none is there, and listed.
DefaultThemeListed(tree) ==
  \E theme \in tree.themes : theme.name = tree.site.theme /\ ~theme.hidden

\* Mutant of Checks: the default theme is looked up when it is drawn.
ChecksWithoutTheme(tree) ==
  /\ FilesParse(tree)
  /\ NeededExist(tree)
  /\ PickerFits(tree)
  /\ TypesPair(tree)
  /\ NamesDiffer(tree)
  /\ ReferencesResolve(tree)

\* A tree that `hldr validate` accepts, and the server indexes.
Checks(tree) ==
  /\ FilesParse(tree)
  /\ NeededExist(tree)
  /\ PickerFits(tree)
  /\ TypesPair(tree)
  /\ NamesDiffer(tree)
  /\ ReferencesResolve(tree)
  /\ DefaultThemeListed(tree)
=============================================================================
