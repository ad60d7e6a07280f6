# Verification of GoBlog

GoBlog is a blog engine in one Go process with one SQLite database. Requests,
tickers, hooks and queue workers run as goroutines over shared tables, shared
in-memory maps and caches. This directory holds TLA+ specifications of the parts
in which the interleavings of those goroutines, crashes and lost calls matter,
the TLC instances that check them and TLAPS proofs about them.

Contents: [1 the system](#1-the-system) · [2 the plan](#2-the-plan) ·
[3 modules and code](#3-modules-and-code) · [4 runs](#4-runs) ·
[5 bounds](#5-bounds) · [6 fairness](#6-fairness) · [7 proofs](#7-proofs) ·
[8 where code and promises differ](#8-where-code-and-promises-differ) ·
[9 assumptions and limits](#9-assumptions-and-limits)

## 1. The system

Everything is one process (`main.go`, `app.go`) around one SQLite file. Writes go
through a single connection, so that one statement, or one `begin; ...; commit;`
batch, is atomic and writes are totally ordered; reads use a pool of their own
(`database.go`). The database is the only memory that survives a restart: the
scheduler, the deleter and the queue workers start from its tables. A second
process may work on the same file: the commands of `main.go` (`activitypub
move-followers`, `media migrate`, ...) open it beside the running server.

### Components that are modelled

| Component | State | Operations | Interacts with |
| --- | --- | --- | --- |
| Post store (`postsDb.go`, `posts.go`) | tables posts, post_parameters, deleted; mutex pcm | createPost, replacePost, deletePost, undeletePost, replacePostParam, getPost(s) | purges the page cache and the reactions, starts hooks |
| Requests (`micropub.go`, `editor.go`) | the copy of a post in memory, the text in an open editor | create, update, delete, undelete | call the post store |
| Scheduler (`postsScheduler.go`) | list of due posts | every 30 s: publish due posts | calls replacePost |
| Deleter (`postsDeleter.go`) | list of marked posts | every hour: purge expired posts | calls deletePost |
| Hooks (`hooks.go`) | lists of functions | every hook of an event runs in a goroutine of its own | Telegram, ATProto, TTS, ActivityPub, webmentions |
| Telegram, ATProto, TTS (`telegram.go`, `atproto.go`, `tts.go`) | parameters of the post that name a message, record or file | send, edit, delete | external services, replacePostParam |
| Queue (`queue.go`) | table queue; one worker per queue | enqueue, peek, reschedule, dequeue | ActivityPub delivery, webmention verification |
| ActivityPub delivery (`activityPub.go`, `activityPubSending.go`) | queue "ap"; goroutines that enqueue | announce to inboxes, send, retry, give up | queue, shutdown of the process |
| ActivityPub inbox (`activityPub.go`) | tables activitypub_followers, comments | reply, update, delete (follow and undo are not modelled) | comments, webmentions, queue |
| Webmentions (`webmention.go`, `webmentionVerification.go`) | table webmentions; queue "wm" | receive, verify, delete | queue, comments |
| Comments (`comments.go`, `commentsEditor.go`, `commentsAdmin.go`) | table comments | create, update, edit, delete | webmentions |
| Response cache (`cache.go`, `http.go`) | rendered responses, shared calls | route, look up, render, save, purge | post store |
| Reactions (`reactions.go`) | table reactions, cached counts, shared calls | react, read | post store |
| Media (`mediaStorage.go`, `mediaOptimization.go`, `mediaMigrate.go`) | files, table media_optimized, the plan of a migration | upload, optimize, delete, migrate | posts, imgproxy |
| LRU cache (`pkgs/cache`) | map and list with costs and expiry dates | Get, Set, Delete, Clear, evict | response cache, reactions |
| Authentication (`authentication.go`, `sessions.go`, `captcha.go`, `webAuthn.go`, `authDb.go`) | table sessions with three stores over it, captchas in memory, password, TOTP, app passwords, passkeys | log in and out, ceremonies, captchas, change and remove credentials, migrate them from the configuration | settings page, comments, `main.go setup` |
| IndieAuth server (`oauth.go`) | clients, codes, tokens | register, authorize, exchange, revoke | micropub, Mastodon API |
| Settings and sections (`settings.go`, `settingsDb.go`, `config.go`) | tables settings and sections, their copy in memory | one handler per form; the start | router, response cache, posts |
| Routing (`http.go`, `httpRouters.go`, `httpMiddlewares.go`, `privateMode.go`) | the installed router | build and install | settings in memory, every handler |
| Pages and lists (`ui.go`, `uiComponents.go`, `posts.go`, `feeds.go`, `sitemap.go`, ...) | none | render a page, list posts | settings in memory, routes |
| Editor synchronisation (`editorWebsocket.go`, `editor.js`) | stored text; open connections; text of each tab | type, send, compare, store, broadcast, reconnect, submit | persistent cache (`persistentCache.go`) |

### What is hard in them, and what makes them correct

- **Stale copies.** A post is read (two queries: row, then parameters), changed
  in memory and written back whole. The mutex pcm covers the write and what the
  writing function reads itself, never the read an update or the scheduler
  started from. Correct: no row is overwritten by a move, none vanishes without
  having been marked, a marked post always carries the date it is purged by,
  the scheduler makes public only what was due when it was listed, unless the
  author has changed it since, and what subscribers were told last is true.
- **Two statements, two systems.** A delivery is acknowledged by the inbox and
  removed from the queue in two steps, a message is sent to Telegram and its two
  identifiers are saved in three, a comment is deleted and then its webmention.
  A crash, a refused statement or a lost answer in between must lose nothing and
  repeat only a bounded number of times.
- **Two workers.** The server and a command both run a worker on queue "ap" and
  write try counts back: no activity may be given up before its retries are over.
- **Late writes into caches.** A call that began before a purge stores what it
  read before it. A save that cannot read again what it has saved purges nothing.
  Correct: only these leave stale content, and it is gone in the end.
- **Unordered hooks.** The hooks of a deletion and of a restoration run at once:
  what a service shows must agree with what the post names there.
- **Verification later.** A webmention is queued, fetched with redirects and
  stored later, while its source changes: what is shown must follow the source.
- **Files and rows.** Variants of an image are files with rows that name them, changed one
  by one and without a lock; the migration deletes files that posts may name. Correct:
  what a post or a row names is there, and nothing is left that no row names.
- **Sessions loaded, saved later.** A handler loads the session of its browser, changes a
  copy and saves it, while a logout, an expiry or another request of the browser touches
  the row. A passkey login writes the name back it has read. Correct: what was ended stays
  ended, until a start that cannot read the mark of the migration inserts it again; the
  page of a browser whose requests do not overlap shows the captcha its session expects, or
  the session could not be saved; and a solved captcha stays solved.
- **The last way in.** The password may go when there is a passkey and the passkey whether
  there is a password or not, in requests that look and delete in separate statements.
  Correct: the owner can log in, unless the last passkey was deleted without a password.
- **A migration without a transaction.** Credentials of the configuration are inserted
  statement by statement at the start of every process, also of a command beside the
  server, until a mark is set; an error of reading the mark counts as no mark. Correct:
  nothing is lost, and nothing is doubled unless a start was cut short, ran beside another
  or could not read the mark.
- **Codes used once.** An authorization code is read, then deleted with a statement of its
  own. Correct: one approval, one token, for the client and the scope approved.
- **Four copies of a setting.** Row, memory, installed router and cached pages are changed
  one after the other by handlers that may overlap, fail half-way or be cut off by a
  restart. Correct: at rest they agree, and a section with posts is not removed.
- **What a page offers.** Which routes exist depends on configuration and settings, which
  links a page has on its renderer. Correct: a page leads only to what is mounted and open
  to its viewer; a list shows only what its viewer may see, also out of a shared cache.
- **One text, many tabs.** Each tab sends its text half a second after the last input and
  gets what others sent; a submit empties the stored text only. Correct: in the end all
  show the stored text, but for texts that look like format messages and tabs that have
  not sent what they show.

### Components that are not modelled yet, or not at all

`PROJECT.json` lists every component with its sources and the reason.

| Component | Why |
| --- | --- |
| Followers, moves of followers (`activityPub.go`) | follow, undo and moves race with announcements; the next to be modelled |
| Short paths (`shortPath.go`) | smallest free number under single flight; small, planned |
| Profile image (`profileImage.go`) | file, setting and resized copies; its routes and forms are in `Routes` and `Pages` |
| Notifications | one insert and calls to external services; nothing reads a state back |
| Geography (`geoMap.go`, ...) | lookups and tiles: caches of immutable answers; the page and its routes are in `Routes` and `Pages` |
| IndexNow, ActivityPub tools, remote follow | single calls to external services, never retried |
| Plugins | interpreted code that is not in the repository, or keeps no state of the blog |
| Database and migrations, process life cycle, network front end, helper packages | the write connection is the atomicity of every model; the shutdown of queue workers is in `ApDelivery`; the rest is wiring, libraries and pure functions |

Of the components that are modelled, some parts are left out; `PROJECT.json` names them at
each. The most important are replacePostParam inside `Posts` (it is in `CrossPosts`), the
full-text index, sending webmentions, approval and block list, aliases and regular
expression redirects, feed formats, markup and texts of pages.

## 2. The plan

Modules are written so that they can be proved about as well as checked:
parameters are CONSTANTS with named assumptions, operations are actions,
invariants are conjunctions of named parts, recursion is avoided.

Done, in this order (the most important behaviour first):

1. the post store with its writers, and the abstract `PostStore` it implements;
2. the queue and the ActivityPub delivery, and the abstract `Delivery`;
3. the LRU cache, and the abstract `LossyCache` its users rely on;
4. the response cache and the reactions over a reduced post store;
5. comments and webmentions over the same queue;
6. cross-posting: the hooks of posts and what three services show;
7. the media storage with its optimized variants and the migration;
8. sessions, captchas, credentials with their migration, and the IndieAuth server;
9. settings, sections, router, cached pages, the pages with their links and the lists;
10. the synchronisation of editors;
11. the proofs about 1 to 10.

To come:

12. `Followers` with the inbox: the followers table agrees with the last follow or
    undo, moves keep followers, blocked inboxes leave, announcements reach those
    who followed before them.
13. Short paths under single flight, the profile image.

## 3. Modules and code

`PROJECT.json` maps every definition to its lines. In the modules, an operator
whose comment starts with "Mistake:" is the following definition with a plausible
bug; no specification uses it.

### Posts

| Module | What it is |
| --- | --- |
| `PostTypes` | a post: status, the suffix "-deleted", visibility, the dates published and deleted; checkPost |
| `PostStore` | abstract: atomic create, replace, move, mark, remove, restore |
| `Posts` | the code: requests, scheduler, deleter, mutex, crashes |
| `PostsProofs` | theorems |

A process of `Posts` is a request handler, the scheduler or the deleter; `op` says
in which step of which function it is and with which copy. `posts[path]` stands for
a row of the table posts and the parameter "deleted" of the path; `gone` is the table
deleted; `pcm` the mutex. `SaveLock`, `SaveExec`, `Reload`, `SaveHook` are the steps
of createOrReplacePost: `SaveExec` is the whole batch with its outcomes (inserted,
updated and perhaps moved, refused because the path is taken, without effect because
the row is gone, or adding its parameters to another post that has the path now), and
`ReloadFails` the refused read after it, which leaves the hooks out.
`DeleteLock` ... `UndeleteHook` are deletePost and undeletePost, which keep pcm until
their hooks have started. An update is `BeginUpdate` (the row), `ChangeCopy` (the
parameters, the request's changes, checkPost), then a save; the scheduler lists
(`ListDue`, `LoadDueParams`) and saves copies (`PublishNext`); the deleter lists and
calls deletePost. `lastHook` records what the last hook of a
path said, or that a save left it untold.

### Queue and delivery

| Module | What it is |
| --- | --- |
| `Queue` | the table queue and its four statements |
| `Delivery` | abstract: accept, attempt, retire |
| `ApDelivery` | the code: announcing, the worker loop, stop, crash and restart of processes, refused statements, lost answers |
| `ApDeliveryProofs` | theorems |

An item of the queue is a send (an activity for one inbox), the try count its content
carries and its schedule. `Announce` starts a goroutine per inbox, `QueueSend` is its
insertion; `Peek`, `SendSucceeds`, `SendFails`, `AnswerLost`, `Reschedule`, `Dequeue`
are the worker; `Stop`, `CloseDb`, `Exit`, `Crash`, `Start` the process. One tick is
ten minutes: the n-th failure delays the next attempt by n ticks. `received`, `failed`
and `queuedAt` record what happened.

### Caches and reads

| Module | What it is |
| --- | --- |
| `LossyCache` | abstract: a key has no value or the one set last |
| `LruCache` | pkgs/cache: map, doubly linked list, costs, expiry, eviction; Get with its two locks |
| `PostRows` | what `PostStore` keeps that matters to readers; single flight: a call others wait for, which can be forgotten |
| `PageCache` | routing, the cache middleware, rendering and saving of a page |
| `Reactions` | reacting, reading, the cached answers |
| `PostReads` | writers with both caches; the composed specification |
| `PostReadsProofs` | theorems |
| `StorageProofs` | theorems about `LruCache` and about `Media`; nothing connects the two parts |

A visit goes `Route`, lead or await the shared call, hit or miss, `Handle`, `SavePage`,
`ServePage`; a reaction inserts, drops the cached answer, forgets the call and reads
again; a write commits and then purges pages (`Purge`) and reactions
(`DropReactions`). Saves and moves (`SavePost`, `MovePost`) read the post again in between:
`Reload`, or `ReloadMisses` when it is gone, or `ReloadFails` when the read is refused,
after which they clean nothing. `unpurged` and `undropped` record the paths for which that
was so, until the next purge or drop; a move drops the answer of the new path only. `PageCache` and `Reactions` take from the LRU cache only what
`LossyCache` promises: `ExpirePage` and `ExpireAnswer` are its losses.

### Comments and webmentions

| Module | What it is |
| --- | --- |
| `InteractionTables` | comments, webmentions, queue "wm", the pages of others |
| `Mentions` | receiving and the worker: dequeue, fetch with redirect, parse, look up, insert or update or delete |
| `Comments` | visitors and the fediverse create, update and edit comments, each queueing a webmention |
| `Interactions` | both with the deletions that touch both tables, and the crash |
| `InteractionsProofs` | theorems |

One target post; of a source only the version of its content is kept. `asked` records
the version of a source when its last webmention was queued, `dropped`, `forsaken` and
`overlapped` the sources, rows and notes for which something known went wrong (a lost
webmention, a row whose comment the worker had already read, a note that came twice at
the same time).

### Cross-posting

| Module | What it is |
| --- | --- |
| `HookJobs` | a hook as a job: a goroutine with the post as it was read; replacePostParam; calls that fail |
| `Telegram`, `Atproto`, `Speech` | the steps of the three hooks |
| `CrossPosts` | create, update (also from an editor opened earlier), delete, restore, a new audio file, the crash |
| `CrossPostsProofs` | theorems |

`row` is one post with its parameters, `remote` what the service shows, `jobs` the
running hooks. `causes` remembers every event after which the code lets post and
service differ: a failed call or save (`failure`, `unsent`, `unedited`), a crash, an
update that wrote back older parameters (`stale`), a move or a new creation under a
running hook (`moved`), a deletion or restoration under one (`hasty`), the restoration
of a post that was not deleted (`odd`), of one whose audio file is gone (`restored`),
and a request during the hook of an update (`racing`). The properties hold in every
history without those, and say in that way exactly which ones matter.

### Media

| Module | What it is |
| --- | --- |
| `Optimization` | the storage (`mediaStorage.go`), the table `media_optimized`; `optimizeMediaFile` and `deleteOptimizedMediaFile`, call by call, by any number of processes |
| `Migration` | `mediaMigrate`: discover and group, optimize the originals, replace references in posts, delete the others |
| `Media` | uploads, deletions and optimizations of the server, an editor that saves a text loaded earlier, the start of the migration, the death of server or command |
| `StorageProofs` | theorems |

`op[p]` is the operation a process runs, with the list of variants it has read and not
deleted yet; `Make` and `Record` of the types run in any order, as the goroutines of the
code do. `plan` is the migration: which files the table knew when it began, the confirmed
groups, the replacements still to do and the copy of the post it has read. `suspect` and
`lost` are history: files for which an operation failed, died or met another, and
references that somebody deleted or the migration could not replace.

### Accounts

| Module | What it is |
| --- | --- |
| `Sessions` | `dbSessionStore`: load, save, delete, expire; logins; the captcha before comments and contact messages |
| `Credentials` | password, TOTP, app passwords, passkeys: logging in, ceremonies, the forms that change them; the migration by every process that starts |
| `Accounts` | clients, codes and tokens of the IndieAuth server; the whole server |
| `AccountsProofs` | theorems |

`op[h]` is the request a handler serves: its next statement, the browser, the session it
has loaded and what it has read. A login, a ceremony or a captcha is two or three such
steps, from reading the session (`Reads`, whose error counts as no session) to saving it; a
form that is one statement is one action. `StartUnread` is a start that cannot read the
mark and migrates again. `sessions` is the table, `cookie` what
each browser keeps. `proc[p]` is where the start of the server or of a command is in
migrateAuthFromConfig and which app passwords it still has to insert; `marked` is the
setting that says it was done. History: `ended` names sessions, passkeys, old names of
passkeys and app passwords that were deleted while no handler and no process held a copy;
`twice` the codes that two requests had read before it was deleted, or whose deletion
failed; `causes` what excuses a property (the owner deleted the last passkey without a
password, a start was cut short, ran beside another, or could not read the mark); `calm`
what a browser knows of its captcha whose requests did not overlap and whose session was
saved.

### Site

| Module | What it is |
| --- | --- |
| `Settings` | configuration file, tables settings and sections, memory; every handler of the settings page statement by statement; router and response cache as far as they depend on settings; restart |
| `Routes` | what `buildRouter` mounts: method, path, guards, how it is cached |
| `Pages` | which links and forms each page, feed and sitemap offers |
| `EditorSync` | tabs and connections of the editor |
| `Site` | the queries of all lists, what is answered for a path of a post; the composed specification |
| `SiteProofs` | theorems |

A path is the sequence of its segments, segments in braces stand for all their values. `mem`
is the copy in memory, `built` the settings the installed router was made from, `page` and
`visit` a page in the cache and one being rendered, each with the settings it shows. A
handler walks `save`, `apply`, `build`, `install`, `purge` for settings, and `saveSection`
or `deleteSection`, then `read` and `assign` per blog, for sections. `disturbed` records
settings that overlapping or half failed requests have saved, and whether two requests
reloaded sections or installed routers at the same time; `used` are the sections of posts,
`hasty` those whose post was created while the section was being deleted. `Configurations`
are all files that differ from a usual one in at most `FewFeatures` features.

In `EditorSync` a tab has a text, perhaps a timer and a connection; a connection has
messages on their way in both directions (`line`) and a handler (`server`). `stored` is the
row of the persistent cache, `flight` the shared read that is running. `doubt` says that
since the last write a statement failed or a read from before the write was shared,
`unsent` are tabs whose text is not what they have sent last: the template button sets it
without sending it, and a submit sends an empty text instead. `posting` are the tabs whose
form is on its way; until the page is left (`pageLeft`) or the author stops waiting
(`givenUp`) they keep text, timer and connection, and a running timer stores the text
again. The server tells messages of the toolbar from texts by their prefix
(`HasPrefix`); `Odd` are the texts that have it.

## 4. Runs

| Run | Module, configuration | Question | Distinct states |
| --- | --- | --- | --- |
| `posts_race` | MCPosts, MCPostsRace | two requests, the scheduler and the deleter on one path: are rows consistent, do rows vanish only marked, does the scheduler publish nothing that was not due when listed? | 6.8 million |
| `posts_move` | MCPosts, MCPostsMove | updates that move a post between two paths under the stale copies of scheduler and deleter: is every write one atomic operation of `PostStore`, is nothing lost or unannounced? | 3.8 million |
| `posts_crash` | MCPosts, MCPostsCrash | with a crash, failing writes and refused reloads: are due posts published and expired ones purged? (liveness) | 92 000 |
| `ap_two` | ApDelivery, MCApTwo | server and command on one queue, stops, crashes, refused statements, lost answers: nothing lost, nothing given up early, `Delivery` implemented, every row leaves the queue (liveness) | 75 784 |
| `ap_exit` | ApDelivery, MCApExit | has a process that ended queued what it announced? **violated** | |
| `lru_store` | MCLruCache, MCLruStore | do map and list fit together, is no cost accounted for that is not there, and is `LossyCache` implemented? | 161 000 |
| `reads` | PostReads, MCReads | where does stale content in the caches come from, and does it go? (with liveness) | 1.2 million |
| `interactions` | MCInteractions | do comments and webmentions follow their sources, is the queue drained? (with liveness) | 920 000 |
| `crossposts` | CrossPosts, MCCrossPosts | does a service show what the live post names, without duplicates? | 1 million |
| `media` | MCMedia | do rows and variants fit together, is every file there that a post refers to? | 5.5 million |
| `accounts` | MCAccounts | does what was ended stay ended, can the owner log in, is the migration complete, is the captcha shown the one expected, does a token come of one approval? | 2 million |
| `site` | MCSite | do pages lead to what is mounted and open, do lists show only what they may, do table, memory, router and cached pages agree at rest, do sections with posts stay, do editors converge? | 1.3 million |

Every property of a passing run has a mutant in `PROJECT.json`: a plausible bug in the
code's translation under which the same run finds the property violated.

`CHECK_DEADLOCK FALSE` is used where the system may stop: when everything is delivered
(`ap_*`), when the bound on outside events is reached (`interactions`, `crossposts`, `media`,
`accounts`, `site`).
In the other runs some step is always possible.

## 5. Bounds

Bounds are constants named `Max...` (and `Failing` of `Posts`), and guards of the actions of the outside world:
requests, changes, faults, crashes and clock ticks. Nothing the program does on its
own is bounded.

- **Posts.** One path and two clients suffice for races on a row (two requests,
  scheduler and deleter are four writers); moves need a second path, with one client,
  because scheduler and deleter hold the competing stale copies. Two dates let an author
  postpone a post the scheduler has listed. Two ticks tell before
  and after a date; three let a post become due and, with Retention 0, overdue. Only the
  reloads of the processes in `Failing` may be refused, those of the client in `posts_crash`;
  with them `posts_move` has 6.7 million states and the same result, which was checked
  once. The proofs cover any number and any `Failing`.
- **Delivery.** MaxTry is 20 in the code and 3 or 2 here: what matters is the first,
  a middle and the last attempt. Two processes show the stale write-back, two sends
  the order, two faults a fault during the recovery from another. The proofs cover any
  number of processes, sends and attempts.
- **LRU cache.** Two keys, two values, costs 1 and 2 with MaxCost 2 (one large or two
  small elements), three elements (one is removed late while its key has a new one),
  two Gets between their two locks. The proofs cover any number, of elements, too.
- **Reads.** Two clients, two writes or reactions: a call and the write that overtakes it, a
  save whose reload fails and the write that repairs it. Posts move between two paths, one
  of which (`Asked`) is visited and reacted to: a move comes or goes there, and what is
  stale is the same for every path. The proofs cover any number.
- **Interactions.** Two pages, the first of which may redirect to the second, one note,
  two requests at once, two comments, three outside events and one fault. The proofs
  cover any number.
- **CrossPosts.** Two paths, six requests, one fault, one service per behaviour (Init
  chooses). Causes are never forgotten, so that a state with an excusing cause satisfies
  the properties for ever; the constraint `NotExcused` stops there. Without it four
  requests (7.4 million states) were checked once with the same result. The proofs cover
  any number of paths, requests and faults.
- **Media.** Two images with the same picture and a variant in common, which is the case in
  which deletions meet; a variant of that variant, because the command "media optimize"
  takes any file; two clients and the migration, one post, three requests (two
  before, beside or after a migration), one failing call or crash. One configured type:
  the goroutines of two types touch different rows. The proofs cover any number of files,
  types, posts, clients and requests, and any table of variants.
- **Accounts.** Two browsers, two requests at a time, three requests, two ticks with ages of
  one tick (a session expires, is renewed, and expires again), two app passwords in the
  configuration (one inserted before a crash, one after), the server and one command, one
  crash, refused read or refused statement. The passkey ceremony is the longest chain: begin, finish and
  a request that overlaps it are three requests. The proofs cover any number.
- **Site.** Configurations at rest: two blogs, one under a subpath, all files that differ
  from the usual one in at most two features, because a link and its route depend on at
  most two. Requests on settings: the usual configuration, two handlers, two requests, one
  failing statement or restart; one setting of each kind of effect (shown, silent, routed),
  and one of each form. Editors: two tabs, three connections (one breaks and comes back),
  three texts of which one has the prefix of format messages, two changes (a text typed and
  its submit, or one in each tab), one message in each direction, one trouble. Settings and editors share no
  variable, so that `Init` and `Next` give them configurations of their own (`Usual`,
  `WithoutIndexNow`) and their states are not multiplied. The proofs cover any number of
  handlers, requests, tabs, connections, messages and troubles, and any set of blogs.

Symmetry is used for paths, clients, handlers, tabs, images, processes, keys and values in
runs without liveness properties only.

## 6. Fairness

Assumed only in `FairSpec`, for `posts_crash`, `ap_two`, `reads` and `interactions`:

- `Posts`: Go's mutex does not starve a waiter (strong fairness of `Acquire` for
  scheduler and deleter, because pcm is free again and again); whoever holds pcm goes
  on (weak fairness of writes); the database does not refuse the writes of the
  scheduler and the deleter for ever (strong fairness of `Write`, which competes with
  `Fail`); the tickers keep firing and the clock goes on. Nothing is assumed of
  requests.
- `ApDelivery`: the clock, the worker's next step (an attempt ends within a timeout of
  a minute), the end of a shutdown and a restart. Nothing is assumed of the remote side:
  an inbox may fail for ever.
- `PostReads`: handlers run to their end, and what is cached expires after six hours.
- `Interactions`: the worker goes on (timeouts of ten seconds, a ticker of thirty
  seconds). Nothing is assumed of visitors, remote pages and the administrator.

## 7. Proofs

All theorems hold for every value of the constants under the named assumptions of the
modules (`TypesAssumption`, `PostsAssumption`, ...), which TLC evaluates in the runs.

**PostsProofs.** The inductive invariant `IInv` has six parts. `TypeOK` alone is not
inductive: a write needs to know that its paths are paths and its copy is a post, which
`OpsCarry` says per step of an operation. `Mutex` says that a process is between lock
and unlock iff it holds pcm; with it, `LockedReadIsCurrent` is inductive: the only steps
that change rows are those of the holder. `DueIsLive` says that the scheduler lists no
marked post, hence writes back no suffix; with the guard of `BeginUpdate` this makes
`MarkedHasDate` inductive: only `SoftDelete`, which sets the date, sets the suffix, and
a save of a copy without suffix is harmless. The stray parameters of an update whose row
is gone never remove a date. From `IInv`:

- `TypeCorrect`, `LockedReads`, `MarkedPostsAreDated`: invariants;
- `RowsVanishOnlyMarked`: only `Update` (a move) and `HardDelete` remove a row, and the
  copy `HardDelete` looks at is the row, by `LockedReadIsCurrent`;
- `Refinement`: `Spec => ImplementsStore`. Each step of `Posts` maps to the operation of
  `PostStore` of its batch or to a stutter; `LockedReadIsCurrent` makes the copies of
  delete and undelete equal to the rows the abstract operations use, `DueIsLive` and
  `OpsCarry` give `~p.suffix` of `Create` and `Replace`;
- `NothingIsEarly`: with `CopiedIsDue`, which says that a path the scheduler has listed, or
  writes back, either has been written since (`changed`) or still has a row whose date has
  passed, and the fact that stray parameters make no post announceable. The exception is
  needed: who postpones a post between listing and write is overruled by the old copy
  (TLC shows it when `changed` is left out of the property);
- `SharedPostsAreKnown`: a process owes the hooks of a path (`Owes`) from its write until
  it has triggered them, or has been refused the read before them. The invariant needs that a post stays hidden until the delete
  hooks have run (`DeletedIsHidden`), which holds because deletePost keeps pcm that long.

**ApDeliveryProofs.** `IInv` says of every copy of a row, stored or in a worker's hands,
however stale, that it is `Genuine`: its try count was used up (content <= failed) and
its schedule is the one of its count (the sum of delays, written without division). To
that it adds what a worker is about to write (`Decided`), that an item it holds was due
(`Held`), that an unfinished goroutine has queued nothing, and `NothingLost`. From it:

- `TypeCorrect`, `NothingIsLost`: invariants. No try count in the table reaches MaxTry;
- `NoneGivenUpEarly`: only `Dequeue` removes a row, its item has the last count, was due
  then, and its schedule is at least the sum of all delays after the queueing;
- `Refinement`: `Spec => ImplementsDelivery`.

**PostReadsProofs.** `Typed` is `TypeOK` with the facts that calls under way know their
path (`Known`). `PagesInv` adds of a request no purge has overtaken that the route it was
given still holds and the page it has rendered is current; `AnswersInv` adds the same of
queries whose answer was not dropped since. `late`, set by the purges themselves, is
what separates the requests that may store stale content. From them `TypeCorrect`,
`PagesAreCurrent`, `AnswersAreCurrent`. A save whose reload fails puts its paths into
`unpurged` and `undropped`; until then the write that owes the purge is at `reload`.
`MissInv` is about the calls under single flight:
the call in the table is led by a request that has not ended it (`CallsFresh`), and its
result, once there is one, counts every reaction whose sender had forgotten a call of that
path; a call that was forgotten is not joined any more. From it `MissesAreFresh`.

**InteractionsProofs.** `MentionFollowsSource` and the others speak of sources nobody is
working on; `IInv` says what holds while somebody is. Of the worker: once it has read a page,
what it read is as new as the last webmention of that source, or one more is queued
(`ReadIsNew`), and what it is about to insert is not there (`NothingStored`). Of comments: the
worker has read the current version, or a request is about to queue the comment again
(`ReadIsCurrent`); who has read a comment has its note (`NotesAgree`); a comment that goes
while the worker holds it is `forsaken`, and of any other the row is about to be deleted
(`Orphans`); two requests have one note only if it came again meanwhile (`Doubles`). That a
comment's version never passes the bound of changes needs a count of the requests that may
still change one (`Budget`). Each part depends on few variables: the lemma `Frames` lists
them, so that an action is looked at only for the parts it disturbs. From it:

- `TypesAreRight`, `MentionsFollowTheirSources`, `ShownCommentsAreCurrent`,
  `NotesHaveOneComment`, `NoneIsOrphaned`.

**CrossPostsProofs.** `IInv` is `Typed` and, as long as nothing excuses a difference,
`Protocol`: one job at a time adds the post to the service or removes it (edits aside), and
at each of its steps it is known what the service shows and what the post names (`Phase`);
without such a job the service shows what the post names (`AtRest`); after an announcement
something is shown or about to be sent, and nothing about to be removed (`AnnouncedInv`); the service gives every item a
name of its own (`NamesInv`); a message has the text of the row, or an edit with that text
is under way (`CurrentInv`). Causes are never forgotten, so that an excused state stays
excused. From it:

- `ServiceMatches`, `AnnouncedShown`, `NeverTwiceShown`, `MessageCurrent`.

**StorageProofs.** Of the cache, `CacheInv` says that the list has no element twice, what the
map has is in it under its key, what a Get is about to remove is still an element, and the
map answers with what was set last. A late removal by a Get may take the key of a newer
element out of the map; the lemma `Removing` says what that leaves. Each step is then one of
`LossyCache`, or several keys lose their values (`Means`). From it:

Costs (`CostInv`) need sums. The code's sum goes along the list; the model's `Total` is a fold
that chooses an order. `Sums` says that a function gives every set of elements the sum of
its costs, whatever is taken first; one exists (`SumExists`), it adds up over disjoint sets
(`SumSplit`), and the fold of a list without repetition is the sum of its elements
(`TotalIsSum`), hence the same for every order (`SameTotal`). So what a removal takes from
the costs is at least what it takes from the list. The induction over sizes rests on `AllNaturals`,
proved from the pigeonhole principle, as the library's induction theorems take an operator
as a parameter. From both invariants:

- `MappedElementsAreListed`, `AnswersAreWhatWasSetLast`, `ListAlwaysFits`, `CacheIsLossyCache`.

Of the media, `MediaInv` has two parts. `FilesInv` replaces "when nothing runs" by who still has
to act: a row without its file has an operation that clears the rows of that image, a
variant without a row has one that is about to record or to delete it. It rests on `Apart`:
operations whose files meet make all of them suspect, so that of a file that is not suspect
only one operation changes anything (`Works`, `OthersKeep`). The proof failed at first where
a variant that was itself optimized is deleted; TLC then showed the rows that are left
(see 8). `PostsInv` follows the migration: who deletes a file has recorded it in `lost`
or is the migration at its end; what replaces a file stays (`TargetsStay`); a file that will
be deleted is named by no post, but one that is still to be looked at or about to be saved
(`DoomedIsUnused`), and the copy about to be saved names what is there (`CopyResolves`).
From them:

- `RowsMatchFiles`, `PostsShowFiles`.

**AccountsProofs.** `IInv` has five parts. `Basic` gives every session of the table and every
session a handler has loaded an id that was generated, and no id twice. Each action is
first shown to be a move of one handler to a set of next steps (`Moved`, `Plain`), so that
the other parts need only look at the steps they are about. `CodesInv` says of every code,
stored or in the hands of an exchange, that it was approved as it is; of an exchange that
is about to insert its token, that nobody else has the code, it is gone from the table and
no token came of it, or it is in `twice`. `ProcsInv` and `WayInv` say which processes may
be running with which marks, and that whoever has passed the check of deletePassword
without being last still leaves a passkey. `EndedInv` says of everything in `ended` that no
handler is about to save it and no process to insert it; a start that cannot read the mark
takes what it may insert out of `ended` (`Insertable`). From it:

- `TokensApproved`, `OwnerGetsIn`, `EndedIsOver`.

`MigrationInv` follows the stages of the migration: what was moved stays there or its deletion
is recorded, so that whoever has reached a stage, or finished, knows that the earlier ones
were done, by itself or by somebody else (`AppsInv`, `TotpInv`, `LegacyInv`); no handler runs
before (`BusyInv`); one process migrates at a time, and none after another, or that is what
`causes` records (`OnceInv`). `CaptchaInv` says that a row of the table is in the hands of one
browser and one kind of cookie, that of its cookie and the handlers that loaded it
(`HoldersInv`), a captcha likewise (`CaptchasInv`), and that a browser whose requests do not
overlap has none under way that would ask it again (`CalmInv`). From them:

- `MigrationCompletes`, `CaptchasHold`.

**SiteProofs.** `IInv` replaces "at rest" by who still has to act. `PagesInv`: the pages in the
cache, or on their way to it, show the settings in memory, or are marked `late`, or some
handler will purge the cache. It needs of a form that either all of its values are shown or
none (`FormShaped`). `RouterInv`: the installed router is the one of the settings in
memory, or a handler will build one, or one is about to install a current one; two handlers
that are about to install at the same time are what `disturbed` records, because the older
one may come last. `SectionsInv`: who is about to delete a section has seen it unused, and
no post has come since but those of `hasty`. From them:

- `SectionsStay`, `CachedPagesCurrent`, `InstalledRouterCurrent`, the last with the lemma
  that routes depend on nothing but one switch, the sections and the reactions.

`MemoryInv` is about table and memory: a setting that is not `disturbed` is saved by one request
at a time; what that request has saved nobody else touches until it changes memory
(`KeyKept`). Of sections, who holds some that have changed meanwhile is followed by one that
reads them again (`BlogKept`). `EditorInv`: what a tab has sent last is its text (`TextsSent`),
and every write owes the new text to all registered connections until it is on its way to
them (`Converge`). Sending a text and submitting differ in what is sent only (`TextHolds`):
afterwards the tab has sent what it shows, or is `unsent`; a text with the prefix is never
stored (`PlainText`), and a tab that shows one is not spoken of. From them:

- `MemoryFollowsTheTables`, `TabsConverge`.

What visitors are listed (`HiddenStaysHidden`) is about the tables of routes. A path ends in
some word, a parameter or nothing (`EndsIn`); going through the routers one by one
(`MountedKept`) shows that only lists are mounted where lists are, that only the open paths
lack private mode's check, and that only the shared paths have the cache that owner and
visitors have in common (`ViewsKept`). Hidden sections need `RowsInv`: the sections in memory
are single, and a form that hides one keeps it so. All of this supposes `NamesAreFree`: no
subpath and no section has the path of something the server answers itself. The
configuration does not check that, and which of two routes with one path then answers is
nothing `Site` says. TLC evaluates it for the instance of the run (`MCSite`). From it:

- `HiddenIsNotListed`.

That every link is answered (`NoDeadLinks`) has two halves. What a page that can be reached
says of the configuration (`MountedTold`, then `FeatureReached` to `FollowReached`): going
through the routers again, a route whose path ends in the word of a feature is mounted for
that feature, and one that ends in a word of the owner's pages asks for a login, so who
reaches such a page has the feature, or is the owner. And what the configuration says of a
link (`ServerGets` to `EditorServed`): the route it needs is mounted and open to that viewer,
or the link is one of the known dead. Between them, part by part, each page offers nothing
but what is answered (`BaseWorks` to `SitemapsWork`); the pages ask the settings in memory
and the routes those of the router, which at rest agree on sections and webmentions
(`RestingAlike`). This supposes `LinksAreFree`: no subpath and no section has the path of a
feature's page, and some blog is at the root, where the name of the author leads. It is
evaluated for the run as well. From it:

- `LinksAreAnswered`.

**Only model-checked.** Liveness (`DueIsPublished`, `ExpiredIsPurged`, `IsSettled`,
`QueueDrains`, `CachesCatchUp`), which is out of the prover's reach. `LockedReads` is proved
without a run of its own.

## 8. Where code and promises differ

One run shows a behaviour that contradicts what the repository says:

- `ap_exit`: `activitypub move-followers` "sends a Move activity to all your followers"
  (`docs/indieweb-fediverse.md:140`), but `apSendTo` only starts goroutines
  (`activityPub.go:641`), and the command ends without waiting for them.

Behaviours the models have, which the properties name or excuse:

- Update refuses a deleted post ("post is marked as deleted, undelete it first",
  `micropub.go:213`), but it looks at a copy read before pcm is taken: a post deleted in
  between is written back as a live post;
- two Gets of one expired element subtract its cost twice (`pkgs/cache/cache.go:73`): the
  cache may then hold more than its limit. `ListFits` says the other direction, which holds;
- a post restored and deleted anew between the deleter's list and its call is purged
  before its time (`postsDeleter.go:31`);
- an update whose row is gone may add its parameters to a post that took the new path
  (`StrayParameters`);
- a webmention whose source cannot be fetched is lost, and so is one whose redirect gives
  two rows one key (`dropped`); two equal notes at once make two comments (`overlapped`);
- the answer to a reaction, "Return new values" (`reactions.go:92`), may miss the reaction: a
  query that began before it stores its result after the reaction has dropped the cached
  one (`reactions.go:105`, `:152`); `StaleAnswerIsLate` says when;
- deleting an image deletes its variants, also one that another image has in common
  (`mediaOptimization.go:292`), whose row then names a missing file (`suspect`);
- deleting a variant that was itself optimized (the command "media optimize" takes any file)
  deletes the rows that name it as a variant (`mediaOptimization.go:279`) and returns, so that the
  rows of its own variants stay and name an image that is gone (`suspect`);
- the migration deletes a compressed file although a replacement of its references failed
  (`mediaMigrate.go:137`, `lost`), and saves the copy of a post it has read over an edit
  made meanwhile (`:588`), because it is a process without the server's mutex pcm;
- when the migration dies after its second phase, the originals have variants, so that the
  next run does not see them any more (`mediaMigrate.go:195`) and the compressed files of
  the group stay; no post loses a file by that;
- publishing a draft runs the update hooks, not the post hooks (`postsDb.go:197`);
- the link to the download of the blogroll gets the prefix of a blog under a subpath twice
  (`renderBlogroll` in `ui.go`), so that it is dead there, although `docs/features.md:232`
  offers the export;
- reactions switched on in the settings have no route until a router is built for another
  reason (`settings.go:126`, `httpRouters.go:142`); `docs/features.md:203` says they can be
  enabled in the settings;
- a description that was emptied in the settings returns from the configuration at the
  next start (`migrateStringSetting`), although the settings take precedence
  (`docs/settings-ui.md:3`);
- the head of every page names the webmention endpoint, the registration of clients and the
  feeds of the home page also when these are not mounted;
- the scheduler publishes a post although its author has postponed it since it was listed
  (`postsScheduler.go:38` writes the old copy back; "publishes scheduled posts when their time
  comes", `docs/features.md:94`); `NoEarlyPublication` excuses posts changed since the
  listing (`changed`);
- when a save cannot read again what it has saved, it neither purges the cache nor drops the
  answers nor runs a hook (`postsDb.go:190`), and a move drops the answers of the new path
  only (`:205`): `unpurged`, `undropped`;
- a start that dies after it has inserted app passwords, or runs beside another one, leaves
  them twice (`authDb.go:404`), each under an id of its own that has to be deleted; a start
  that cannot read the mark of the migration (`:331`) inserts them once more, also those
  that were deleted (`unread`);
- the page with a captcha is shown though its session could not be saved (`captcha.go:82`), so
  that no answer to it is right; an error of reading a session counts as none
  (`sessions.go:87`), and a logout whose statement is refused leaves the session
  (`authentication.go:206`);
- deleting the default section leaves the setting that names it;
- of two requests that reload the router or the sections at the same time, the older result
  may be kept (`http.go:146`, `disturbed`); overlapping saves of one setting may leave
  memory and table different, and so does a form of two values whose second save fails;
- the translations of a post are listed whatever their status and visibility
  (`postsFuncs.go:151`, `docs/features.md:83`), mentions are answered with posts of any
  status that are public (`webmention.go:307`), and a home page whose sections are all
  hidden on start lists everything;
- a text that begins with "format:" is taken for a message of the toolbar, so that it is
  neither stored nor sent to the other tabs (`editorWebsocket.go:96`, `Odd`);
- submitting the editor empties the stored text, but stops no timer and leaves text and
  connection as they are (`editor.js:87`): a running timer stores the text again, and a tab
  whose author gives up waiting shows another text than the stored one (`unsent`);
- the template button of the editor sets the text without an input event, so that it is not
  sent until the next input (`editor.js:137`); a connection that shares a running read from
  before a later write may miss that write (`persistentCache.go:29`); an error of the update
  is ignored; and a connection is written to within the six hours of the sender
  (`editorWebsocket.go:47`, `:130`), so that a tab may be cut off by another one's age.

## 9. Assumptions and limits

- SQLite executes a `begin; ...; commit;` batch completely or not at all, checks UNIQUE
  and foreign keys, and serializes the statements of the write connection. A statement
  that fails changes nothing.
- Authors write no status that ends in "-deleted". Dates within one tick are equal.
- `Posts`: of a post's content nothing is kept; replacePostParam is part of `CrossPosts`
  and the full-text index is left out.
- `ApDelivery`: which inboxes an activity goes to, its content and its signature are left
  out.
- `PostReads`: a move goes to a path no post is at (another one is refused) and takes the reactions
  along; a page's key is its path, the content of a post whether it shows
  reactions; posts that are hidden, private or drafts bypass the caches. The two queries
  of a read are one (`Posts` separates them). Changing the settings of reactions drops
  all answers as a write drops one.
- `Interactions`: whether the target post is available is an open choice at each check;
  approval and notifications, the block list, sending and redirects of the target are left
  out. Queued webmentions of one source are alike.
- `CrossPosts`: one creation or update at a time (two are the subject of `Posts`), deletion
  and restoration atomic under pcm, no drafts and scheduled posts (those are the
  subject of `Posts`); the chat is constant; an audio file is named by the
  version of its text, as the code names it by the hash of its content.
- `Media`: optimization is enabled and imgproxy deterministic; saving a file is atomic; an
  uploaded file is not a variant of another; files that differ in the extension only are
  one. Groups are handled in any order, posts that use a file are found exactly, and posts
  are neither moved nor deleted. The command and the requests
  are processes of their own (`ProcessesAssumption`).
- `Accounts`: passwords, TOTP codes, signatures and PKCE are right or wrong by choice; random
  ids are counted; credentials and codes are read without error, sessions, settings and the mark of the
  migration with one or without. Sites that are not
  registered may ask for codes as the code lets them. The request behind a login or captcha
  form is not replayed. No app password of the configuration is the value that stands for
  none (`CredentialsAssumption`).
- `Site`: forms send what their checks accept; profile image and block list change nothing
  the properties compare; posts are what `used` says of them, and moving a post is
  creating one. The blogs whose settings are changed are
  configured ones (`EditedAssumption`), and subpaths and sections are at no path of the
  server (`NamesAreFree`, for `HiddenIsNotListed` only) or of a feature, with some blog at the
  root (`LinksAreFree`, for `LinksAreAnswered` only). One page stands for every cached page. A
  page is taken with everything it may show, and posts, files and ids stand for all of theirs.
- `EditorSync`: accepting a connection, registering it and starting its first read are one
  step; only the connections that synchronise are modelled, not those of the preview; a
  formatted text is some other text.
