------------------------------ MODULE MC_Site ------------------------------
(* Small content trees: one that checks, and what a change makes of it. *)
EXTENDS Site

Email == <<"site", "values", "email">>

Art == <<"site", "values", "art">>

Gone == <<"site", "values", "gone">>

Holding(part) == <<Line(<<Plain, part>>)>>

File(home, file, text) == [home |-> home, file |-> file, text |-> text]

Saying(kind, name) == [kind |-> kind, name |-> name]

APage(home, name, kind) ==
  [home |-> home, name |-> name, says |-> Saying(kind, name), kind |-> kind,
   style |-> "markdown", draft |-> FALSE, person |-> FALSE, metadata |-> <<>>,
   content |-> [file |-> None, inline |-> <<>>], title |-> <<Plain>>]

Field(type, required) ==
  [type |-> type, required |-> required, values |-> {}, ok |-> {}, keys |-> {}]

IndexPage == [APage("pages", "index", "Page") EXCEPT
  !.person = TRUE,
  !.content = [file |-> "index.md", inline |-> None]]

IndexText ==
  <<Line(<<Directive("banner", Art, None)>>), Line(<<Plain, Value(Email)>>),
    Line(<<Directive("collection", <<"projects">>, "status")>>),
    Fence("ticks"), Line(<<Unclosed>>), Fence("ticks")>>

AboutPage == [APage("pages", "about", "Page") EXCEPT
  !.content.inline = Holding(Value(<<"page", "title">>))]

NotFoundPage == APage("pages", "not-found", "Page")

PickerPage == [APage("pages", "colors", "Page") EXCEPT !.style = "colorscheme", !.content = None]

Member(home, name) == [APage(home, name, "Project") EXCEPT
  !.metadata = [status |-> [is |-> "string", text |-> "live"],
                tagline |-> [is |-> "string", text |-> "tagline"],
                links |-> [is |-> "links", keys |-> {"repo"}],
                stars |-> [is |-> "number"], tags |-> [is |-> "list"], old |-> [is |-> "flag"]],
  !.title = <<Value(<<"page", "status">>)>>]

Projects ==
  [name |-> "projects", says |-> Saying("Collection", "projects"), kind |-> "Project",
   enabled |-> TRUE, order |-> "tagline", badge |-> "status", columns |-> {"status"}]

Project ==
  [name |-> "project", says |-> Saying("PageKind", "project"), kind |-> "Project",
   singular |-> "project", plural |-> "projects", short_names |-> {"proj"},
   fields |-> [
     status |-> [Field("enum", TRUE) EXCEPT !.values = {"live", "gone"}, !.ok = {"live"}],
     stars |-> Field("int", FALSE), tags |-> Field("list", FALSE), old |-> Field("bool", FALSE),
     tagline |-> Field("string", FALSE),
     links |-> [Field("links", FALSE) EXCEPT !.keys = {"repo"}]],
   summary |-> "tagline", footer |-> Holding(Value(<<"page", "links", "repo">>)),
   json_ld |-> {<<"title">>, <<"links", "repo">>}]

ATheme(name, hidden) == [name |-> name, says |-> Saying("Theme", name), hidden |-> hidden]

Base == [
  site |-> [theme |-> "dark", values |-> [email |-> "text", art |-> "banner", tags |-> "list"]],
  profile |-> {"email", "github"},
  nav |-> [items |-> <<[to |-> "page", name |-> "index"], [to |-> "page", name |-> "about"],
                       [to |-> "collection", name |-> "projects"],
                       [to |-> "command", name |-> "colorscheme"],
                       [to |-> "command", name |-> "find"],
                       [to |-> "value", path |-> Email], [to |-> "literal"]>>,
           texts |-> {<<Value(<<"site", "title">>)>>}, count |-> "projects"],
  kinds |-> {Project},
  collections |-> {Projects},
  pages |-> {IndexPage, AboutPage, NotFoundPage, PickerPage, Member("projects", "hldr"),
             [Member("projects", "next") EXCEPT !.draft = TRUE]},
  contents |-> {File("pages", "index.md", IndexText)},
  themes |-> {ATheme("dark", FALSE), ATheme("light", TRUE)}]

Swap(set, old, new) == (set \ {old}) \union {new}

WithPage(old, new) == [Base EXCEPT !.pages = Swap(@, old, new)]

WithText(text) == [Base EXCEPT !.contents = {File("pages", "index.md", text)}]

WithKind(kind) == [Base EXCEPT !.kinds = {kind}]

Work == [Projects EXCEPT !.name = "work", !.says.name = "work"]

\* A field of the name of a time that the server keeps.
Dated == [Base EXCEPT
  !.kinds = {[Project EXCEPT !.fields = ("created_at" :> Field("int", FALSE)) @@ @]},
  !.pages = Swap(@, Member("projects", "hldr"),
    [Member("projects", "hldr") EXCEPT !.metadata = ("created_at" :> [is |-> "number"]) @@ @])]

\* The collection under another name, its pages as they were.
Renamed == [Base EXCEPT
  !.collections = {Work},
  !.nav = [items |-> <<[to |-> "collection", name |-> "work"]>>, texts |-> {}, count |-> "work"],
  !.contents = {File("pages", "index.md", <<>>)},
  !.pages = {IndexPage, AboutPage, NotFoundPage, PickerPage, Member("work", "hldr")}]

\* Its old name given to another type.
Post == [Project EXCEPT
  !.name = "post", !.says.name = "post", !.kind = "Post",
  !.singular = "post", !.plural = "posts", !.short_names = {}]

Taken == [Renamed EXCEPT
  !.kinds = @ \union {Post},
  !.collections = @ \union {[Projects EXCEPT !.kind = "Post"]}]

\* A type whose nouns are those of resources that the check forgets.
Eventful == WithKind([Project EXCEPT
  !.singular = "event", !.plural = "events", !.short_names = {"pk"}])

\* Trees that check: drafts, a disabled collection, other themes and texts, no
\* collection at all.
Sound == {
  Base,
  [Base EXCEPT !.pages = {[IndexPage EXCEPT !.draft = TRUE], [AboutPage EXCEPT !.draft = TRUE],
                          [PickerPage EXCEPT !.draft = TRUE], NotFoundPage,
                          Member("projects", "next")}],
  WithText(<<Line(<<Directive("clone", Email, None)>>), Line(<<Directive("links", <<>>, None)>>)>>),
  [Base EXCEPT !.collections = {[Projects EXCEPT !.enabled = FALSE]}],
  [Base EXCEPT !.site.theme = "paper", !.themes = {ATheme("paper", FALSE)}],
  Taken, Dated, Eventful,
  [Base EXCEPT !.kinds = {}, !.collections = {},
               !.nav = [items |-> <<[to |-> "command", name |-> "find"]>>, texts |-> {},
                        count |-> None],
               !.pages = {IndexPage, NotFoundPage},
               !.contents = {File("pages", "index.md", <<>>)}]}

\* Trees with a mistake each, which the checks are there to refuse.
Mistaken == {
  [Base EXCEPT !.nav = None],
  [Base EXCEPT !.pages = @ \ {NotFoundPage}],
  [Base EXCEPT !.site.theme = "gone"],
  [Base EXCEPT !.site.theme = "light"],
  [Base EXCEPT !.pages = @ \ {PickerPage}],
  [Base EXCEPT !.nav.items = <<[to |-> "page", name |-> "not-found"]>>],
  [Base EXCEPT !.nav.count = "posts"],
  [Base EXCEPT !.nav.texts = {<<Directive("link", <<"https:">>, None)>>}],
  WithPage(AboutPage, [AboutPage EXCEPT !.name = "projects", !.says.name = "projects"]),
  WithPage(AboutPage, [AboutPage EXCEPT !.name = "help", !.says.name = "help"]),
  WithPage(AboutPage, [AboutPage EXCEPT !.content = None]),
  WithPage(AboutPage, [AboutPage EXCEPT !.content.inline = None]),
  WithPage(AboutPage, [AboutPage EXCEPT !.says.name = "me"]),
  WithPage(Member("projects", "hldr"), [Member("projects", "hldr") EXCEPT !.home = "posts"]),
  WithPage(AboutPage, [AboutPage EXCEPT !.content.inline = Holding(Unclosed)]),
  [Base EXCEPT !.collections = {Projects, Work}],
  [Base EXCEPT !.collections = {[Projects EXCEPT !.badge = "tagline"]}],
  [Base EXCEPT !.collections = {[Projects EXCEPT !.columns = {"links"}]}],
  WithKind([Project EXCEPT !.json_ld = {<<"tagline", "repo">>}]),
  WithKind([Project EXCEPT !.plural = "pages"]),
  WithKind([Project EXCEPT !.short_names = {"theme"}]),
  WithKind([Project EXCEPT !.fields.status.values = {"gone"}]),
  WithKind([Project EXCEPT !.fields.tags.required = TRUE, !.fields.tags.type = "int"]),
  WithKind([Project EXCEPT !.summary = "status"]),
  WithKind([Project EXCEPT !.footer = Holding(Value(<<"page", "gone">>))]),
  WithText(Holding(Value(Gone))),
  WithText(<<Line(<<Directive("banner", Email, None)>>)>>),
  WithText(<<Line(<<Directive("collection", <<"posts">>, None)>>)>>),
  WithText(<<Line(<<Plain, Directive("banner", Art, None)>>)>>),
  WithText(<<Fence("ticks"), Fence("tildes"), Fence("ticks"), Line(<<Unclosed>>)>>)}

MCTrees == Sound \union Mistaken

MCPaths == {<<>>, <<"about">>, <<"colors">>, <<"not-found">>, <<"projects">>, <<"work">>,
            <<"projects", "hldr">>, <<"projects", "next">>, <<"work", "hldr">>, <<"help">>,
            <<"health">>, <<"readyz">>, <<"sitemap.xml">>, <<"favicon.svg">>,
            <<"theme", "light">>}

\* The rename and the nouns alone.
MovedTrees == {Base, Renamed}

NamedTrees == {Base, Eventful}

FewPaths == {<<"work">>, <<"projects", "hldr">>, <<"work", "hldr">>}

MCCookies == {None, "light"}
=============================================================================
