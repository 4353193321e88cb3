------------------------------ MODULE Discovery ------------------------------
(***************************************************************************)
(* What resource types the server has, and the cache of that which command *)
(* lines share (crates/cli/src/discovery.rs, skew.rs, cmd/mod.rs `fetch`). *)
(*                                                                         *)
(* A server is asked in several requests, and what it serves may change    *)
(* between any two of them, by a sync or by a deploy.  A sync commits the  *)
(* content first and records which it is afterwards, if that does not fail *)
(* (crates/server/src/content.rs); until then the server names another.  A *)
(* command resolves the types it was given one by one, over one catalog.   *)
(***************************************************************************)
EXTENDS Naturals, Sequences

CONSTANTS
  Servers,      \* The processes on the server's database: two while a deploy overlaps.
  Commands,     \* The command lines, which share one cache directory.
  Types,        \* The names of resource types.
  None,         \* No cache, no command, no sync, not asked yet.
  Wants,        \* What commands ask for: sequences of names.
  Releases,     \* Of server and client: <<major, minor>>.
  TypesOf,      \* The types that each content has; it is served in this order.
  Revisions,    \* What identifies content of a repository to `/api/v1/sync`: its commit.
  Seconds       \* Of a directory: the second of its sync, which two may share.

Contents == DOMAIN TypesOf

\* What a server serves.
Served == [release : Releases, content : Contents]

\* No two of `Contents` are of one commit: a branch is not forced back, nor does
\* a process index an older commit over a newer one.  Where that happens, what is
\* cached of the commit in between passes for the one that came again.

\* A discovery: what identifies the server's answers, and, as history, whose
\* they are and the client that took them.
Found == [release : Releases, stamp : Nat, resources : Served,
          schemas : Served, by : Releases]

Steps == {"check_release", "check_content", "release", "content", "resources", "schemas",
          "find", "missing"}

ASSUME DiscoveryAssumption ==
  /\ Wants \subseteq Seq(Types) /\ Releases \subseteq Nat \X Nat
  /\ TypesOf \in Seq(SUBSET Types) /\ Len(TypesOf) > 0 /\ Revisions \in [Contents -> Nat]
  /\ Seconds \in [Contents -> Nat] /\ \A c, d \in Contents : Revisions[c] = Revisions[d] => c = d
  /\ None \notin Served /\ None \notin Nat

VARIABLES
  stampOf,      \* Which of both the server's source is: it never changes.
  served,       \* What the server serves.
  syncing,      \* What each process has indexed and has yet to record.
  recorded,     \* The content that was recorded last (`sync_state`).
  client,       \* The release of the client that is installed.
  cache,        \* discovery.json.
  run           \* What each command does.

\* History: the types that the server lacked at some time since each command
\* began.
VARIABLES lacked

server == <<served, syncing, recorded>>

vars == <<stampOf, server, client, cache, run, lacked>>

Lacks == Types \ TypesOf[served.content]

-----------------------------------------------------------------------------
(***************************************************************************)
(* The skew of two releases (skew.rs).                                     *)
(***************************************************************************)
\* What a breaking change moves.
BreakingLine(release) == IF release[1] = 0 THEN release ELSE <<release[1], 0>>

Apart(a, b) == IF a >= b THEN a - b ELSE b - a

Skew(mine, theirs) ==
  IF BreakingLine(mine) # BreakingLine(theirs) THEN "unsupported"
  ELSE IF Apart(mine[2], theirs[2]) > 1 THEN "beyond" ELSE "supported"

-----------------------------------------------------------------------------
(***************************************************************************)
(* The server and the installer.                                           *)
(***************************************************************************)
Init ==
  /\ stampOf \in {Revisions, Seconds}
  /\ served \in [release : Releases, content : {1}]
  /\ syncing = [s \in Servers |-> None]
  /\ recorded = 1
  /\ client \in Releases
  /\ cache = None
  /\ run = [c \in Commands |-> None]
  /\ lacked = [c \in Commands |-> {}]

Serves(now) ==
  /\ served' = now
  /\ lacked' = [c \in Commands |-> lacked[c] \union (Types \ TypesOf[now.content])]
  /\ UNCHANGED <<stampOf, client, cache, run>>

\* The transaction of a sync: from now on the next content is served, or the
\* same again, as on boot and when it was not recorded.
Index(s) ==
  /\ syncing[s] = None
  /\ \E content \in Contents \intersect {served.content, served.content + 1} :
       /\ Serves([served EXCEPT !.content = content])
       /\ syncing' = [syncing EXCEPT ![s] = content]
  /\ UNCHANGED recorded

\* `record_sync`, a statement of its own.  One that fails, or whose process
\* dies, leaves the name of what was served before.
Record(s) ==
  /\ syncing[s] # None
  /\ recorded' \in {syncing[s], recorded}
  /\ syncing' = [syncing EXCEPT ![s] = None]
  /\ UNCHANGED <<stampOf, served, client, cache, run, lacked>>

Newer(a, b) == b[1] < a[1] \/ (b[1] = a[1] /\ b[2] < a[2])

\* A deploy brings a newer release.
Deploy ==
  /\ \E release \in Releases :
       Newer(release, served.release) /\ Serves([served EXCEPT !.release = release])
  /\ UNCHANGED <<syncing, recorded>>

\* The user installs another release of the client, between two commands.
Install ==
  /\ \A c \in Commands : run[c] = None
  /\ client' \in Releases \ {client}
  /\ UNCHANGED <<stampOf, server, cache, run, lacked>>

-----------------------------------------------------------------------------
(***************************************************************************)
(* A command.                                                              *)
(***************************************************************************)
At(c, step) == run[c] # None /\ run[c].step = step

Goes(c, fields) ==
  /\ run' = [run EXCEPT ![c] = fields]
  /\ UNCHANGED <<stampOf, server, client, lacked>>

Blank == [release |-> None, stamp |-> None, resources |-> None, schemas |-> None,
          by |-> client]

\* The cache is read: there is none, or it is too old or does not parse, or it
\* is checked against the server.
Begin(c) ==
  /\ run[c] = None
  /\ \E wants \in Wants :
       \E found \in {cache, None} :
         run' = [run EXCEPT ![c] =
           [wants |-> wants, step |-> IF found = None THEN "release" ELSE "check_release",
            found |-> IF found = None THEN Blank ELSE found, said |-> None,
            cached |-> found # None, settled |-> FALSE, fresh |-> FALSE]]
  /\ lacked' = [lacked EXCEPT ![c] = Lacks]
  /\ UNCHANGED <<stampOf, server, client, cache>>

Fetches(c, fields) ==
  Goes(c, [fields EXCEPT !.step = "release", !.found = Blank, !.cached = FALSE, !.said = None])

\* What `/api/v1/sync` answers that the server's content is.
Stamp == stampOf[recorded]

\* `generation`, of a cache: the server's release, then its content.
CheckRelease(c) ==
  /\ At(c, "check_release")
  /\ Goes(c, [run[c] EXCEPT !.step = "check_content", !.said = served.release])
  /\ UNCHANGED cache

\* Mutant of SameGeneration: the release is compared alone.
SameRelease(found, release, stamp) == found.release = release

\* The cache is of the server as it is.
SameGeneration(found, release, stamp) == found.release = release /\ found.stamp = stamp

CheckContent(c) ==
  /\ At(c, "check_content")
  /\ IF SameGeneration(run[c].found, run[c].said, Stamp)
       THEN Goes(c, [run[c] EXCEPT !.step = "find", !.said = None,
                                   !.settled = recorded = served.content])
       ELSE Fetches(c, run[c])
  /\ UNCHANGED cache

\* A fetch: first what identifies the answers that follow.
FetchRelease(c) ==
  /\ At(c, "release")
  /\ Goes(c, [run[c] EXCEPT !.step = "content", !.found.release = served.release])
  /\ UNCHANGED cache

FetchContent(c) ==
  /\ At(c, "content")
  /\ Goes(c, [run[c] EXCEPT !.step = "resources", !.found.stamp = Stamp])
  /\ UNCHANGED cache

FetchResources(c) ==
  /\ At(c, "resources")
  /\ Goes(c, [run[c] EXCEPT !.step = "schemas", !.found.resources = served])
  /\ UNCHANGED cache

\* Mutant of Refused: a client across a breaking release is only warned.
RefusedNever(mine, theirs) == FALSE

\* A release across a breaking one is an error.
Refused(mine, theirs) == Skew(mine, theirs) = "unsupported"

\* The last answer: the skew is checked, then the cache written.  Failing to
\* write it is no error, and a file that two commands wrote at once may be torn,
\* which reads as none.
FetchSchemas(c) ==
  /\ At(c, "schemas")
  /\ LET found == [run[c].found EXCEPT !.schemas = served]
     IN IF Refused(client, found.release)
          THEN Goes(c, None) /\ UNCHANGED cache
          ELSE /\ Goes(c, [run[c] EXCEPT !.step = "find", !.found = found, !.fresh = TRUE])
               /\ cache' \in {found, cache, None}

Has(found, name) == name \in TypesOf[found.resources.content]

\* Mutant of MayRefresh: the cache is believed.
MayRefreshNever(c) == FALSE

\* The server is asked at most once per run.
MayRefresh(c) == ~run[c].fresh

\* `resolve`, and the requests for the resource itself; the next type after it.
Resolve(c) ==
  /\ At(c, "find")
  /\ IF run[c].wants = <<>> THEN Goes(c, None)
     ELSE IF Has(run[c].found, Head(run[c].wants))
       THEN Goes(c, [run[c] EXCEPT !.wants = Tail(@)])
     ELSE IF MayRefresh(c) THEN Fetches(c, run[c])
     ELSE Goes(c, [run[c] EXCEPT !.step = "missing"])
  /\ UNCHANGED cache

\* A request fails, or the type is reported missing; the command ends.
Ends(c) ==
  /\ run[c] # None
  /\ Goes(c, None)
  /\ UNCHANGED cache

Next ==
  \/ \E s \in Servers : Index(s) \/ Record(s)
  \/ Deploy \/ Install
  \/ \E c \in Commands :
       \/ Begin(c) \/ CheckRelease(c) \/ CheckContent(c)
       \/ FetchRelease(c) \/ FetchContent(c) \/ FetchResources(c) \/ FetchSchemas(c)
       \/ Resolve(c) \/ Ends(c)

Spec == Init /\ [][Next]_vars

-----------------------------------------------------------------------------
(***************************************************************************)
(* Properties.                                                             *)
(***************************************************************************)
TypeOK ==
  /\ stampOf \in {Revisions, Seconds}
  /\ served \in Served
  /\ syncing \in [Servers -> Contents \union {None}]
  /\ recorded \in Contents
  /\ client \in Releases
  /\ cache \in Found \union {None}
  /\ lacked \in [Commands -> SUBSET Types]

\* A cached discovery that a command goes by was answered, resources and
\* schemas, by the release it is labelled with, and by the content too if that
\* was recorded when the cache was checked, and no commit is served twice
\* (`DiscoveryAssumption`), whatever changed while some command filled it or
\* another checked it (`generation` is asked first, and asked again).
CachedIsOfOneServer ==
  \A c \in Commands :
    At(c, "find") /\ run[c].cached =>
      LET found == run[c].found
      IN /\ found.resources.release = found.release /\ found.schemas.release = found.release
         /\ stampOf = Revisions /\ run[c].settled =>
              found.resources = found.schemas /\ stampOf[found.resources.content] = found.stamp

\* What is reported missing was missing: the server lacked the type at some time
\* while the command ran, however old the cache (`resolve`).
MissingWasMissing ==
  \A c \in Commands : At(c, "missing") => Head(run[c].wants) \in lacked[c]

\* No command goes by cached answers, resources or schemas, of a server across a
\* breaking release, unless it was another release of the client that cached
\* them: the file may hold answers of a server that was replaced while it was
\* asked, and those the check throws away (`check_skew`, `discovery`).
NeverCachedPast ==
  \A c \in Commands :
    LET found == run[c].found
    IN At(c, "find") /\ run[c].cached /\ found.by = client =>
         \A answer \in {found.resources, found.schemas} :
           Skew(client, answer.release) # "unsupported"

\* "A different major is an error: the API may have broken between them"
\* (`check_skew`): no command goes by what such a server answered.
NeverAcross ==
  \A c \in Commands :
    LET found == run[c].found
    IN At(c, "find") /\ found.by = client =>
         Skew(client, found.resources.release) # "unsupported"

\* The cache "is refreshed [...] when the server [...] serves another content
\* revision than the ones that filled it" (the head of discovery.rs).
CachedIsOfItsRevision ==
  \A c \in Commands :
    stampOf = Revisions /\ At(c, "find") /\ run[c].cached =>
      stampOf[run[c].found.resources.content] = run[c].found.stamp
=============================================================================
