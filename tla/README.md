# hldr, in TLA+

hldr is a personal site: a server that shows content kept in a Git repository,
and a command line, modelled on kubectl, that reads and writes it. Git is the
durable store. The server materializes one commit of it into a SQLite database,
counts page views into the same database, backs the counts up to a second
repository, and keeps a stream of events. A deploy starts a new container before
the old one stops, so **two server processes run over one database** for a while;
most of what is hard in this code comes from there, from the awaits of the
handlers, and from requests whose answer is lost.

This directory holds TLA+ modules translated from the source, the TLC runs that
check them on small instances, and proofs checked by TLAPS.

## Inventory

| Part | State | Operations | Hard because |
|---|---|---|---|
| Metrics (`server/src/metrics.rs`, `core/src/metrics.rs`) | batch and salt in memory; `page_views`, `daily`, `referrers`, `visitor_hashes`, `metrics_salt` | count a request, create the day's salt, flush, merge a failed flush back, close days, flush at shutdown | two servers, flushes that wait or fail, requests that span midnight, crashes, caps |
| Content sync (`server/src/content.rs`, `core/src/index.rs`, `core/src/store.rs`) | the content tables, `sync_state`; a lock per process | sync on boot, on a poll, on request; index in one transaction; record how it went | two servers, an index and its record in two statements, a branch that moves, clients that wait for a commit |
| Backup (`server/src/backup.rs`, `core/src/backup.rs`) | `metrics_backup`; flags in memory; one file a day in a repository | restore a lost database, upload closed days, retry after an hour | two servers writing one file, lost answers, late counts |
| Events (`core/src/events.rs`, `cli/src/cmd/get.rs`) | `events`, `event_seq` | write or count again, drop old ones, list after a position, watch | concurrent writers, watchers that resume |
| Writing content (`cli/src/github.rs`, `cli/src/content.rs`, `cli/src/cmd/`) | a branch | read a head, build a commit, move the branch without force, ask for a sync | several writers, partial failure |
| GitHub session (`cli/src/auth.rs`) | a credential file and a lock file | device flow, renewal of a single-use refresh token | concurrent runs, crashes and lost answers between the exchange and the save |
| Process life (`server/src/main.rs`, `server/src/listen.rs`, `config/deploy.yml`) | listeners, readiness | boot order, takeover of the API socket, shutdown | two containers, a first sync that fails |
| Site requests (`server/src/model.rs`, `server/src/main.rs`) | none | read the tables, render | several reads of a database that changes between them |
| Discovery and skew (`cli/src/discovery.rs`, `cli/src/skew.rs`) | a cache file | read, refresh, refuse | a server that changes between two requests |
| Content trees, manifests, templates (`core/src/tree.rs`, `manifest.rs`, `template.rs`) | none | read, check, expand | sequential |
| Rendering, printing, release scripts | none | | sequential |

The parts meet in the database and in GitHub. The metrics, the sync, the backup
and the events of both processes write the same SQLite file, one transaction at a
time; the backup uploads the days the metrics closed; a write from the command
line ends in a sync of the commit it made; a sync and a backup end in an event.

What makes each part correct, in a sentence: every count is in exactly one place
until it is in the database, and no hash outlives its day; the site shows the
whole tree of one commit, and comes to show the branch's; the repository of the
backup holds what the database says it holds; a watcher misses no event; a
write changes what its author saw or nothing; a refresh token is spent once; the
site never answers from a container that has nothing to show.

## Modules

| Module | What it is |
|---|---|
| `Metrics` | counting, flushing and closing days, by any number of processes over one database |
| `MC_Metrics` | its small instances |
| `MetricsProofs` | its theorems |
| `Materialized` | what the database promises of the content: the abstract specification |
| `Sync` | syncs by any number of processes over one database; its instance `M` is `Materialized` |
| `MC_Sync` | its small instances |
| `SyncProofs` | its theorems |
| `Backup` | the passes of any number of processes over one database and one repository |
| `MC_Backup` | its small instances |
| `BackupProofs` | its theorems |
| `Pages` | the files of a content tree, and what each writing command makes of them |
| `AtomicWrites` | what the command line promises of the branch: the abstract specification |
| `Publish` | writes by any number of command lines over one branch; its instance `A` is `AtomicWrites` |
| `MC_Publish` | its small instances |
| `PublishProofs` | its theorems |
| `Session` | the commands that use or make a GitHub session, its file and its lock, and GitHub's side |
| `MC_Session` | its small instance |
| `SessionProofs` | its theorems |
| `Events` | the event stream of any number of processes, their lives and the socket of the API, and who watches |
| `MC_Events` | its small instances |
| `EventsProofs` | its theorems |
| `Discovery` | commands over one discovery cache, what the server serves and what it says it serves, and the skew of two releases |
| `MC_Discovery` | its small instances |
| `DiscoveryProofs` | its theorems |
| `Content` | a content tree and every check of it, as operators |
| `Site` | the index of a tree, the requests of the site, what pages link and draw, and the answers of the private API |
| `MC_Site` | its trees |
| `SiteProofs` | its theorems |

`Sync`, `Publish`, `Events` and `Discovery` meet at requests: what one of them
assumes of another (a sync answers for its commit, a server is there again in the
end, content changes between two requests) is an action there and a property
here. `Site` is composed of `Content`, whose `Checks` decides which trees may be
indexed at all.

### Metrics

The state is that of the code: per process the request it answers, the batch, the
cached salt and the flushes under way; in the database the five tables of
`0009_metrics.sql`. A request is one record with the day the middleware noted; a
visitor is a pair of address and user agent, and a hash is the pair of a visitor
and a salt, which is what SHA-256 promises. A salt is the number of its creation,
so a salt created again for a day is another salt.

A handler is cut where it awaits. `Metrics::count` is `CountKnown` when the salt
is in memory (no await between the cache and the batch), else `InsertSalt` and
`SelectSalt`, two statements of their own between which a flush of either server
may delete the salt. `Metrics::flush` is `PeriodicFlush` or `FinalFlush` (the
batch leaves memory, the clock is read) and then `FlushCommits` or `FlushFails`:
the transaction writes from its first statement on, so SQLite makes it atomic.
`Write` follows its statements in their order. The periodic flush and the final
one can be under way together, because nothing joins the periodic task.

Time is a clock of ticks. `Tick` waits for whatever is overdue: a running process
begins a flush within `FLUSH_WITHIN` ticks of its last, a request takes at most
`REQUEST_TICKS`, a flush waits at most `WRITE_TICKS` for the write lock (SQLite's
busy timeout). These are the timing assumptions of the module; the runs vary
them, from punctual to hostile.

`counted`, `lost` and `came` are history: what was counted, what went down with a
process, and whom each day recognised.

What `hldr top` reads are operators over the tables (`DaysOf`, `DailyMetrics`,
`PageMetrics`): a period, its days and its pages, where the visitors of an open
day are the hashes it holds and those of a closed one are a column. `TablesAgree`
says of every period that these answers fit together. The answer of referrers is
a sum of one table and left out.

### Sync

The branch is the sequence of its commits, of which some do not check. A sync is a
record under its server's lock: how it was asked for, the commit it resolved, the
rows its transaction read, its next step and its outcome. The steps are the
awaits of `Syncer::run` and `sync_to`: `Resolve` (again and again while a client's
commit does not show), `Check`, `Download` (with the check of the whole tree),
`Begin` and `Commit` of the index, `Record`. A server that waits for the lock is
one that has not started.

The index's transaction reads before it writes. SQLite lets it go on from its
snapshot, and refuses its first write when another connection committed since
(`Busy`), be it one of the other server or of the same pool, which has five
(`OthersCommit`: a flush of the metrics, an event, a note of the backup); `fresh` is
the set of open transactions that no commit has overtaken. A
transaction with nothing to write commits from any snapshot. Between its first
write and its commit it holds the write lock, so the two are one step. A row is
what the index compares, the hash of its file; the singletons (site, profile,
navigation) are never deleted, and a tree that checks has them.

`HangUp` drops a sync with the client that asked for it: the handler of
`POST /sync` awaits the sync itself, and an HTTP server drops the handler of a
closed connection. `RecordFails` is a sync whose first read of `sync_state` or
whose last statement fails. A commit named by a client may be one that GitHub
does not show yet, or one it shows no more.

With one server, `Sync` implements `Materialized`: `last` is the commit indexed
last (a history variable), `revision` is that of `sync_state`. With two it does
not; see the findings.

### Backup

`Metrics` says what a day counts; here a day is a row with a number of views, open
or closed, and `Count`, `Close` and `Late` are the flushes as the backup sees
them. `Late` is the flush of a batch that comes after its day was closed, which
can happen once a server's flushes fail several times in a row (see the findings). `since` is the first day the running processes
may hold counts of, the day of the last loss of the volume.

A pass is a record, and its steps are the awaits of `try_pass`, `upload` and
`Repo::write`: the repository is asked for once per process (`Exists`); a database
that was never backed up is restored (`HasBackups`, `Download`, `Restore`); then
each closed day that is not noted is made into a file (`DayRecord`), looked up
(`Read`), written against the file that was read (`Put`, `PutRefused`) and noted
(`RecordBackup`). A file is its bytes, one number per day; that it is written only
over the file that was read is what GitHub promises of a blob id. `AnswerLost` is
a write that lands and is not heard of; `Fails` any request or statement that
fails. A failed pass waits for its hour (`RetryAfter`). `Stop` forgets the flags
in memory, `LoseVolume` the database.

The module does not say when an hour has passed nor when a day is closed, only
that neither comes early. The events of a pass and the warning of an expiring
token change nothing it reads, and are left out. Its first comment promises that
a loss of the database "loses at most the day in progress": the model has no such
property, because a day that has ended but is not closed, and the days closed in
the hour after a failure, are lost too.

### Writing content

A page is two files, a manifest and the markdown it names, or a manifest that
holds its markdown inline. `Pages` keeps of a manifest what the commands look at:
the file it names, and the rest of its text, which they compare and replace.
`Result(c, tree)` is what a command makes of a tree: `Wants` is what each verb
says of each file (`apply`, `edit`, `edit --content`, `patch`, `delete`),
`Changes` leaves out the files that are so already, `Overlay` is the tree that
GitHub builds on the base tree. `Bails` are the errors of a verb that depend on
the tree. `Whole` is the part of the server's check that ties the two files of a
page together.

In `Publish` a run is cut at its requests: the head of the branch (`Head`), the
files at that commit (`ReadFiles`), the commit on top of it (`Commit`), the move of
the branch (`Move`, `Refused`, `AnswerLost`) and the sync of the server
(`Synced`). Files are read by the hash of a commit, so reading them is one step;
a commit is nobody's to see before the branch points at it, so it gets its number
only then. An `edit` spends its editor session between the files and the commit;
what the user saves is chosen with the command. `Stops` ends a run at any step:
`--no-sync`, a failed request, a rate limit, an interrupt. A run whose answer is
lost ends too, and its writer may run the same command again. `FastForward` is
GitHub's, and external: what `force: false` makes it check.

Of the sync only what the writer learns is here: the server answers for exactly
that commit, when the branch showed it and its tree checks; `sync_one` shows that
the server keeps this (`ExpectedIsShown`).

The model leaves out dry runs, the checks of a manifest's fields (a command whose
result does not validate is one that is not run), and comments and layout of YAML.

### The GitHub session

In `Session` a command is a run that is cut where others can come between: at the
lock of the credential file (`RenewLocked`, `Store`), at every request to GitHub
and at every sleep of the device flow. `token` reads the file without the lock and
goes on at once while the token is fresh (`Token`); else it takes the lock, reads
the file again, renews, and saves before it uses (`RenewLocked`, `Renewed`,
`Refused`, `Unreachable`). `Login`, `Poll`, `Polled`, `User` and `Store` are the
device flow of `cmd/auth.rs`; `Logout` and `LoginWithToken` touch the file alone.
`Crash` ends a run where it stands; the lock is one of the operating system and
goes with its process, and a save is a rename, whole or not at all.

GitHub is external, as its answers are handled: `GitHubRenews` spends a refresh
token and grants a pair, `GitHubPolled` answers a poll, `Revoke` is the user at
GitHub. A request and the arrival of its answer are two steps, so an answer can be
lost (`Unreachable` after a grant) and two requests cross. A token of the model
is the pair of access and refresh token. Time passes while a request is under
way, a run waits for the lock or sleeps, and while nothing runs; no request
outlives its timeout. App tokens that never expire are left out: nothing is ever
renewed of one.

`born`, `spent` and `revoked` are what GitHub knows; `lost`, `replayed`, `given`
and `polled` are history: grants that never reached the file, tokens GitHub saw
twice, what a command was handed, and when GitHub saw each poll.

### Events and process lives

In `Events` a write is what `record_event` does: the time is read first (`Records`),
then one transaction under the write lock moves the row that repeats to the next
position or adds one, and prunes what is old (`Record`, `Written`). A write that
fails is dropped (`Drop`). Ids are rowids, so a deleted last row could give its
id out again; the order of the two statements is what prevents it.

A process boots, writes its first event, binds the socket of the API whether its
first sync worked or not, and so takes the path from the process it replaces
(`Boot`, `Bind`); told to stop it gives the socket up and writes its last event
(`Stop`); it may die anywhere (`Exit`). `Lose` is the loss of the volume between
two processes, after which positions start again. A watcher lists everything and
then polls from the position of the last answer (`List`, `Poll`); an answer of a
lost stream's successor carries a smaller position, which the watcher takes over.
`named`, `printed`, `joined`, `follows` and `stream` are history.

### Discovery and skew

In `Discovery` a command reads the cache, asks for the server's release and
content, and goes by the cache when both are as it says (`CheckRelease`,
`CheckContent`, `SameGeneration`); else it fetches release, content, resources and
schemas, in that order, checks the skew, and writes the cache (`FetchRelease` to
`FetchSchemas`). A type it does not find makes it fetch once more (`Resolve`,
`MayRefresh`). A deploy or a step of a sync may come between any two requests, and
another release of the client may be installed between two commands (`Install`).

A sync is two steps here as it is in `Sync`: `Index` changes what is served, and
`Record` the name that `/api/v1/sync` gives it (`Stamp`), later, or never when the
statement fails. Each process of a deploy may be between the two. So a name may be of
the content before; `settled` remembers of a command that its cache was checked while
the name was right, and `CachedIsOfOneServer` promises one content only then. The
release needs no such care: each process answers with its own. Content is told apart
by its commit, or, from a directory, by the second of its sync, which two syncs may
share; the promise about content is of the first case. Contents are served in one
order and no commit twice (`DiscoveryAssumption`): where a branch is forced back, or an
index of an older commit overtakes (finding 2), answers of the commit in between may
pass for those of the one that came again. `Skew` is `skew.rs`.

### Content and the site

`Content` is a tree of parsed files and every check that decides whether it is
served, in the order of the code: where a file may be (`Located`), what each kind
declares (`IsPageKindSpec` and its like, from `manifest.rs`), templates and their
fences (`Unfenced`, `MarkdownParses`, `References`), then the tree as a whole
(`NeededExist`, `TypesPair`, `NamesDiffer`, `ReferencesResolve`...). `Checks` is
their conjunction: which problems are listed, and how, is left out.

In `Site`, `Index` is the transaction of a sync as far as pages see it: rows are
upserted by kind and name, a row whose file's hash is the same is left as it is, in
whatever collection it was (`Unchanged`, `Upserted`), rows without a file go. Any tree
that checks may follow any other. `Older` is a database that an
older release left, without a navigation. A request is the list of statements it
still has to run (`Statements`), and one step runs one (`ReadTable`, `ReadPicked`,
`ReadDefault`, `ReadSlug`, and the text of a page in `ShowPage`); a sync may commit
between any two of them, once per request. A page that is not found loads
everything again. Below the machine are operators for what is drawn (`Drawn`,
`LineShows`, `FrontmatterShows`, `LdShows`), for every link the site draws or lists
(`Links`), and for the private API: nouns, lists, items, schemas, and the way of a
page through `hldr get` and `hldr apply` (`Applied`).

## Runs

All runs explore every reachable state of their instance. The bounds are named
constants in the guards (`MaxClock`, `MaxVisits`, `MaxFails`, `MaxStops`, `MaxAsks`,
`MaxViews`, `MaxLate`, `MaxLosses`, `LastCommit`, `LastToken`, `LastStart`, `LastTime`,
`LastSeq`, `Losses`) or the end of a sequence (the commits of `Sync`, the contents
of `Discovery`). Symmetry permutes servers, writers, visitors, hosts and commands,
in runs without liveness only. Deadlock is checked except in `session`, whose time
ends.

| Run | Instance | Shows |
|---|---|---|
| `metrics_overlap` | two servers, a day of two ticks, a grace of one, requests of up to two ticks, one failed write, one stop | no hash outlives its day; every count is in one place or went down with a process; what is read of any period agrees; closed visitors are frozen |
| `metrics_grace` | two punctual servers, a grace of four ticks, one failed write | visitors are counted once; nothing reaches a closed day; ended days close |
| `metrics_caps` | one server, one host and one visitor fill a batch, three requests, one failed write | conservation and bounded memory at the caps, with bots |
| `metrics_stop` | a stop, no failed write | **violation**: a graceful stop loses a batch |
| `sync_one` | one server, four commits, two failures, two crashes, two clients | `Materialized`; sound skips; answers; convergence |
| `sync_skip` | two servers, nothing fails | **violation**: a skip that is not sound |
| `backup` | two servers, two days of one view, a late view, a failure, a stop, a loss of the volume | noted days are held; files agree with rows; one commit a day; closed days are held in the end; what is held comes back |
| `publish` | two writers, one of six commands each time, somebody who pushes, four commits | `AtomicWrites`; writes move from their parent, change something and keep pages whole; answers stay true |
| `session` | two commands, a first session and one more grant, times 0 to 7, revocation, crashes | a refresh token is spent once; handed tokens live; only dead sessions go; the pace is kept; every command ends |
| `events` | two servers, one watcher, three kinds of event, retention of no tick, one loss of the volume | a watcher misses nothing; a name stands for one event; a watcher catches up unless the API is left to nobody |
| `discovery` | two commands, one process, three contents, releases 0.9 and 1.0, commits or seconds | a cache is of one release, and of one content where that was recorded; what is missing was; no command goes by cached answers across a breaking release |
| `site` | 9 trees that check, 30 with one mistake each, 15 routes, two cookies, a sync in the midst of a request | pages answer as the files say; links lead; values show; types are served; a ready container answers; crossed answers are of one of two revisions |

Why the bounds are enough. The hazards of the metrics are pairs: two flushes, a
flush and a request, a flush and a stop. Two requests, two servers, one failure
and one stop reach every such pair on both sides of a midnight and of a grace;
the caps need three requests, to fill, to overflow and to merge back. The grace
must outlast a request, a write and the interval once per failure for nothing to
be late, and `metrics_grace` sits exactly at that limit: one tick less of grace
breaks it. The four commits of the sync edit, add, restore and remove a page,
and one of them does not check; two servers and two moves of the branch suffice
for an index and its record to be overtaken, as `sync_skip` shows.

The backup needs a day that is held and a day that is not when the volume goes,
and two servers that restore and upload at once; one failure breaks a pass at any
step, and one late view makes a file disagree with a row.

Four commits of a branch are the one that two writers read, one that overtakes
them, one of the writer that runs again, and one more of either. The six
commands rewrite a page, create another, make a page inline, edit its markdown,
patch it and delete both; what others push is a tree without any.

The session begins with a token of age 1 that is stale at once, so both commands
meet at its renewal; one more grant suffices for one to renew and the other to
meet the renewed file, a lost grant or a login between. The events need two
writes of a stream: one that joins, and one that repeats it, follows it or prunes
it, on either side of a poll and of the loss. Each mistaken tree of `site` breaks
one check; the sound ones differ in theme, collections, drafts, footers,
directives and field types, and a request meets any two of them; in two of them one
collection has the name that another gave up, with its pages as they were, and one has
a type whose nouns the check forgets.

The cache of `discovery` is filled and checked by two commands while one process
indexes, records or fails to; two processes and two commands are beyond what a run
can explore, so `MC_DiscoveryOverlap` has two processes and one command, and the
theorems have any number of each.

Every property of a passing run has a mutant in `PROJECT.json`, a plausible bug
in a definition that models code, under which TLC finds the property violated.

Nine configurations are kept beside the runs, for a reader to run by hand with
`tlc -config`. `MC_MetricsLate`, `MC_PublishReset`, `MC_SiteMoves`, `MC_SiteNouns`,
`MC_DiscoveryLabel`, `MC_DiscoverySkew` and `MC_EventsDeploy` find the violations described
below. `MC_SyncOverlap` checks the types and `OneRevision` for two servers, and
`MC_DiscoveryOverlap` checks `CachedIsOfOneServer` for two processes of a deploy; both are
theorems. The `TypeOK` of a module without proofs holds
in its instance and is no property of a run.

### Fairness

`Metrics`: `WF(Tick)` and `WF(some server does what it owes)`. The runtime polls
its tasks, SQLite answers, the container is restarted, time passes. No server
needs fairness of its own, because `Tick` waits for each. Clients, failures and
stops are owed nothing.

`Sync`: weak fairness of what each server does of its own account. The ticker of
the poll ticks, and every await of a sync has a timeout (30 s for GitHub, 5 s for
SQLite, a minute for a client's commit), so a sync goes on or fails. Failures,
crashes and clients are bounded, which stands for "fail now and then".

`Backup`: weak fairness of what each process does of its own account: it is
started again, its ticker ticks every minute, an hour passes, and a request is
answered or times out after 30 s. Days need not pass nor be closed.

`Session`: weak fairness of time and of each command's own steps, since a request
that gets no answer times out. GitHub, the user and the holder of the lock are owed
nothing: a holder that dies lets go.

`Events`: when no process is left one is started again, and one that was told to stop
ends. Nothing ends a container that a failed deploy left without its socket, nor
repeats that deploy: then the API may be `Orphaned` for good, which `WatchCatchesUp`
excepts and `MC_EventsDeploy` shows. A first write, a bind, a list and a poll succeed if
they are possible again and again (strong fairness): a process may die before each,
but not for ever.

### Findings

1. `metrics_stop`. Counts are said to be flushed on shutdown. A periodic flush
   under way at that moment has taken the batch already; the final flush does not
   wait for it, and the process ends.
2. `sync_skip`. The index and the record of the revision it indexed are two
   statements, and the lock around them is the process's. Two servers of a deploy
   can leave rows of an older commit under the name of a newer one, which every
   poll then takes for current.

Checked by hand, with the configurations named:

- `MC_MetricsLate`. The comment on `GRACE` says that none of what a server counted
  before midnight reaches a closed day. It does, when a server's flushes fail
  three times in a row while the other server's do not: the views are added to
  the closed day, their visitors are not.
- `MC_PublishReset`. A write is said to move the branch only if it still points at
  the commit that was read. GitHub checks less: that the branch moves forward.
  Force the branch back to an ancestor of that commit while somebody edits, and
  their write brings the removed commits back. The stub that the tests of the
  command line run against compares the parent with the head, so no test meets
  it. Without force nothing of the kind happens, which is a theorem.
- `MC_SiteMoves`, `IsOneRevision`. `content.rs` says that "the database is a
  materialized view of one content revision". The hash of a page (`File::source`,
  `tree.rs`) says nothing of the directory it is in, and `unchanged` (`index.rs`) leaves
  a row whose hash is the same. Rename a collection with its files as they were, and the
  rows keep its old name: the listing is empty and the pages answer 404, a forced sync
  included, until each file is edited. `site` has such a move, and `PagesAnswer` says
  what a row that was left is still good for.
- `MC_SiteNouns`, `NounsNameOne`. `manifest.rs` says that the API's own nouns are such
  that "no page type can take one". Those it keeps leave out `events`, `event`, `ev`,
  `server`, `metrics`, `pk` and `col`. `site` has a type with two of them, and
  `TypesServed` excepts just these nouns (`ForgottenNouns`).
- `MC_EventsDeploy`, `NeverOrphaned`. "A deploy that cannot sync keeps the previous
  container serving" (`main.rs`). It keeps the site serving: the API's socket path was
  taken over when the new container bound it, before it was asked whether it is ready,
  and with that container it is gone, until the old one is restarted.
- `MC_DiscoveryLabel`, `CachedIsOfItsRevision`. `discovery.rs` says that a cache is
  refreshed when the server serves another revision than the one that filled it.
  Content is served before it is named, and when its record fails it is not named
  at all; cached in between it passes for the content before, for six hours or until a
  type is missing.
- `MC_DiscoverySkew`, `NeverAcross`. `discovery.rs` says that a server across a
  breaking release is an error. What is checked is the release that the first request
  of a fetch was answered with: after a deploy before the second, one command goes by
  the answers of another release. The next one finds them out (`NeverCachedPast`).

Also seen, and not a run: `content.rs` says that "whatever writes one takes the
other along", but an `apply`, `edit` or `patch` that makes a manifest name another
file, or none, leaves the old markdown behind, and a `delete` takes markdown along
that another page names as well; the server then refuses the tree until somebody
repairs it. `PagesStayWhole` states what does hold. A batch merged back after a failed flush is not cut to
the caps (`MemoryBounded` states the bound that does hold, the cap once per
failed write). A page type may declare a field `created_at` or `updated_at`: the API
serves the server's time in its place and `hldr apply` drops it, which `TypesServed`
excepts. The skew of releases is checked before a cache is written and not when
it is read, so a client that is upgraded goes by what another release cached
(`NeverCachedPast` excepts that cache). A request that a sync crosses may show the newer
text of the older page, no text, or fail when the theme it was given is gone
(`CrossedAnswers`). A draft `index` leaves `/` as a link to nothing, a draft palette
page `/theme`, and `find` leads to a collection that may be disabled (`Dangling`).

## Proofs

`MetricsProofs`, `SyncProofs`, `BackupProofs`, `PublishProofs`, `SessionProofs`,
`EventsProofs`, `DiscoveryProofs` and `SiteProofs` prove for every value of the constants, from
the assumptions named in the modules (`MetricsAssumption`, `NoneAssumption`,
`SyncAssumption`, `BackupAssumption`, `PagesAssumption`, `PublishAssumption`,
`SessionAssumption`, `EventsAssumption`, `DiscoveryAssumption`, `TreesAssumption`) and,
where a theorem says so, from one of two hypotheses: `OneServer`, which holds while
no deploy is under way, and `Timely`, which is explained below.

**Metrics.** `IInv` adds to `TypeOK` that whatever a batch recognised it also
counted a view of (`Backed`), in memory and in flight, and that the sets of hashes
are finite. `HashesDieWithTheirDay` is not inductive without it: the transaction
that writes a hash must have written the row of its day just before, or the row
could be missing. From `IInv` follow `TypeCorrect`, `HashesDie` and, as an action
property, `VisitorsFrozen`: only a commit writes the tables, and a commit closes
only open rows.

*Sums.* Counts are added up over sets with the folds of the community modules.
The library's induction theorems take an operator and cannot be used, so what
holds of a sum is shown of the sums over all subsets at once: of the subsets for
which it failed, one would have the fewest elements (`LeastSubset`), and what
`CHOOSE` picks of it leaves one with fewer. So a sum is a natural (`SumType`),
takes any of its terms first (`SumTakes`), moves by as much as one of its terms
does (`SumMoves`), and a table has one sum by rows and by columns (`SumSwaps`).

*Memory.* A batch is `Within(b, u)` if it is no larger than `u` times the caps.
Every server has a `Budget` of three such units, one for what it counts and one
for each flush, and one more per write that failed: taking a batch moves its
unit, counting stays within it (`CountWithin`), and a merge spends the units of
both (`MergeWithin`). The two flushes have at least one each, so the batch has at
most one per failure and one, which is `MemoryIsBounded`.

*Conservation.* A count is of a cell: a route, a host or the bots of a day.
`Conserved` says of each cell that what was counted is what was lost, what the
tables have, and the sum of the servers' loads. `StepBalances` is one server's
step: it moves counts between its own load, the tables and `lost`, or counts one
more; the other servers' loads stay, so the sum moves by that one term. The
invariant of the cells is `CountsConserved`, cell by cell (`ConservedCounts`).

*Grace.* `GraceInv` gives what a server holds an age, the ticks since a moment of
its day: a request is no older than it took; a batch no older than a request, an
interval per failure, and the time since its last flush began; a flush no older
than its batch was, and the time it has waited (`InTime`, `Late`, `Oldest`).
`Timely` says that the oldest of these fits in the grace:
`REQUEST_TICKS + FLUSH_WITHIN * (1 + MaxFails) + WRITE_TICKS <= GRACE`. Under it a
flush holds nothing of a closed day (`NothingLate`), which is `ClosedDaysStay`.
With a minute for each of the three, the five minutes of `metrics.rs` allow two
failures; `metrics_grace` meets it with nothing to spare, `MC_MetricsLate` does not.

*Visitors.* Under `Timely` whatever is remembered of a visitor, in a batch, a flush
or the table, has the salt its day has now (`KnownFit`), since a salt goes only
with its day and nothing that old is held. So the hashes of a day are one to one
with the visitors they hide (`HashesHideVisitors`), who came is known unless a
memory went down (`CameKnown`), and the count that closes a day is that of
`VisitorsCountedOnce`.

*Tables.* `RowsFit` says that a day's row and its pages were added to together, so
that its views are the sum of theirs, and that the visitors of a closed day are
those of a union over its pages. The same is so of the hashes of an open day
(`HashesOfPages`). `TotalsAgree` and `ColumnsAreLess` carry it from each day to the
sums of a period. `NoneAhead` says that nothing kept or held is of a day to come,
so that a period that ends today leaves nothing out. `PeriodsAgree`, which is
`TablesAgree`, needs no timing: a late count goes to both tables too.

**Sync.** `IInv` adds to `TypeOK` and `OneRevision` what a sync knows at each step
(`TasksFit`: from the download on, a commit that checks) and that a transaction no
commit overtook has seen the rows as they are (`FreshSees`). Then an index either
makes exactly the new tree (`IndexMakesTheTree`) or writes nothing
(`IdleIndexKeeps`), and `OneRevisionShown` holds for any number of servers.

The rest is of one server, whose lock then keeps every other sync out. `OneInv`
says that commits are named, shown, resolved and pushed in one order: the commit
that `sync_state` names is no later than the one shown, that no later than the one
a sync has resolved, and that no later than the branch (`InOrder`, `Alone`). A sync
that finds its commit named stands at both ends of that chain, hence `SkipsAreSound`
and `ExpectedOnesAreShown`. `Materializes` is the refinement: the commit of an
index is a step of `Materialized`, a record is one or changes nothing of it, and
every other action is a stutter. With two servers the chain breaks, as `sync_skip` shows.

**Backup.** `NotedIsHeld`, `FilesAgree` and `OneCommitADay` are proved together,
because none is inductive without the others: a second commit would need a file
that differs from the bytes to write, and a file of a closed day is what the day
counts. What ties them is `PassFits`: the bytes a pass carries are its day's
counts, the file it would write differs from them, the day it would note has a
file, and what it would restore is what the repository still holds of every day
the database lacks. `DaysEnded` and `FilesKnown` keep a view from being counted
into a day with a file.

**Writing content.** `AtomicWrites` is implemented because of one fact: while
nobody forces the branch back, it is a line (`Linear`), the commit a run built has
exactly the commit it read and those before it as ancestors (`Built`), and so a
head that is one of them is the commit that was read (`ForwardIsFromHead`). Then
the tree the command worked on is the tree the branch shows, which is
`MovesFromItsParent`, and the commit's tree is `Result` of it, which is
`PublishIsAtomic`. That every write changes the tree follows from `Changes`
(`OverlayDiffers`), and that answers stay true from the line only growing.
`WritesKeepPagesWhole` rests on `ResultIsWhole`, a fact about one tree and one
command, by cases on the command: one that removes nothing needs only that the
markdown it writes is named afterwards, which is what `apply` collects, and that
what its manifests name exists, which is where it bails (`WritingKeepsWhole`);
`delete` needs that no page it leaves shares the markdown it takes. These theorems are about `Spec`; of `ResetSpec` the first is false.

**Events.** `IInv` puts names and positions in one order (`RowsFit`): a row with a
later position has a later name, and the row written last is there whatever
retention dropped, because the write comes before the pruning. So the next name
is above every name ever given (`NamesFit`), which is `NamesAreOnes`, though SQLite
may give the rowid of a deleted row again. And every write comes after each
position a watch of this stream was told (`WatchesFit`): a row that a watch has
passed by was printed as it is now (`WatchersMissNothing`).

**Discovery.** A fetch asks for release and content first, and then for what it
caches under them. `IInv` says that each answer was served no earlier than the
request before it and no later than now, and that what is recorded, or about to be,
is no later than what is served (`Before`, `Upto`, `CacheFits`). So a release
that is the same before and after a fetch, or at the next check, is of everything
between, and so is a content that the check finds both recorded and served
(`CachesAreOfOneServer`); a type that the fetch of a second look does not
have was missing when it was answered (`WhatIsMissingWas`); and the check of a cache
throws away what another release answered, so what is left is of a server its client
was let past (`SkewIsNeverCachedPast`).

**GitHub session.** None of the properties is inductive alone; `IInv` says where
each grant is. Who renews holds the lock, and the file still names the token it
shows GitHub (`LockFits`): that is what the reload under the lock establishes, and
why a refusal is about the session in the file (`OnlyDeadSessionsGo`). A grant on
its way to the file is in no other run, not in the file and not spent
(`GrantsFit`), so a save never brings a spent token back, and a spent token that
the file still names is one whose successor was lost (`SpentFits`, from which
`SpentOnce`). The life of a session is reckoned from the client's clock, at most
two requests after its birth (`LifeFits`); with `2 * Timeout <= Grace`, which
`SessionAssumption` states of the constants of `auth.rs`, the token a command is
handed still lives. `PaceFits` carries the pace through sleep, poll and answer.

**Site.** The trees are any trees of the shape that parsing yields (`IsTree`), those
that do not check among them; the index takes the ones that do. `DatabaseFits` says
that the database shows the tree indexed last, but for the collections its pages are in,
and each of its pages a tree that checks. What the rows and the tree still have in common
is `Like`: each row has the hash of a file of the tree, and each file a row; so a row and
its file say the same but for the home (`LikeSays`, `LikeHas`), and a page in another
home than its file is one that the index left (`Left`). `ViewFits` says that what a request has read is still what the database
holds, or, once a sync crossed it, that each table is of one of two trees.
`ReadingFits` says that what a request has yet to read includes what its answer
needs, in an order in which the theme is looked up after the site. So a request
finds at a route what the tree says is there (`FindsWhatIsSaid`, and by kind and
name the text of its file, `KeysDiffer`, as a type has one home), or the page that the
tree has there is one that was left elsewhere (`Elsewhere`), and no
request fails once the server is ready (`ServesOnceReady`): a nav was found, and
only an index writes one. `EveryLinkLeads` goes through the links by where they are drawn. That the rows of an index are like the tree,
those it leaves as they were too, is `IndexedRows`; that they are the rows of the tree is
false (`MC_SiteMoves`).

`ValuesAreShown` needs no induction over the lines of a text, though both scans of one
are folds: the step of the check and that of the renderer are the same function, written
twice (`DrawnIsChecked`), so they keep the same lines. What a line refers to resolves in
the tree (`TextsResolve`), hence in the database (`DirectiveShows`), and the metadata has
the types its page type declares (`MetadataFits`). A row that an index left as it was
agrees with its file in all but the directory, which nothing drawn looks at.
`TypesAreServed` follows a page type from its plural to its
pages (`PagesOfType`, `Listed`: nouns differ, and a type has one home), and each of them
to its schema (`SchemaDescribes`), its file (`AppliedIsServed`) and its place
(`GoesBack`), whatever collection its row was left in, as the place is told by the type.
What it excepts is what the check lets through: a plural among `ForgottenNouns`, which
the API answers itself, and a noun of these that two resources share (`MC_SiteNouns`).

Only model-checked: liveness (`EndedDaysClose`, `Converges`, `HeldInTheEnd`,
`RestoredWhole`, `EveryRunEnds`, `WatchCatchesUp`), which is beyond the prover.

## Plan

Done, in this order: `Metrics`, `Materialized` and `Sync`, `Backup`, `Pages`,
`AtomicWrites` and `Publish`, `Session`, `Events`, `Discovery`, `Content` and `Site`.
Left:

1. Pure algorithms against reference definitions: the order of a collection, rate
   limits, the merge of a patch, the plan of a release.

Runs are kept few: a component has one run where one can ask all its questions,
and runs of one module whose bounds agree are merged.

## Not modelled

- Parsing of YAML and Markdown, and the wording of problems: the trees of
  `Content` are what parsing yields.
- Markup, palettes, static assets, and the scripts that run in a browser.
- The status document of the server, the answer of referrers, and the quota cell,
  overwritten by every answer of GitHub: displayed only.
- Printing, the pager, colours and the configuration of the command line: terminal
  I/O without state between two calls. The release scripts and the container
  runtime: glue whose logic is outside this repository.
- A content directory instead of a repository, used in development only (its
  stamps are in `Discovery`).
