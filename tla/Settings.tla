------------------------------ MODULE Settings ------------------------------
(***************************************************************************)
(* The settings of the site: rows of the tables settings and sections, the *)
(* copy of them in memory that every page is rendered from, the router     *)
(* built from that copy, and the handlers that change the three one after  *)
(* the other.                                                              *)
(***************************************************************************)
EXTENDS Naturals, FiniteSets, Sequences

CONSTANTS
  Blogs,         \* the configured blogs
  Prefix,        \* [Blogs -> path]: the subpath of each, <<>> for the root of the site
  Sections,      \* names of sections
  FewFeatures,   \* bound: in how many features a configuration departs from the usual one
  Handlers,      \* requests that may run at the same time
  Edited,        \* the blogs whose settings the owner changes
  Changed,       \* the settings the owner changes, by name
  MaxRequests,   \* bound on requests
  MaxFaults      \* bound on failed statements and restarts

ASSUME SectionsAssumption == "posts" \in Sections

ASSUME EditedAssumption == Edited \subseteq Blogs

ASSUME PrefixAssumption ==
  /\ Prefix \in [Blogs -> Seq(STRING)]
  /\ \A b \in Blogs, c \in Blogs : Prefix[b] = Prefix[c] => b = c

VARIABLES
  cfg,         \* the configuration file: [server |-> set of features, blog |-> [Blogs -> set of features]]
  rows,        \* table settings: [Keys -> value], "" where there is no row
  sectionRows, \* table sections: set of [blog, name, hide]
  mem,         \* the settings in memory
  built,       \* the settings the installed router was built from
  handler,     \* [Handlers -> what the request has still to do]
  page,        \* a page in the response cache, if there is one: the settings it shows
  visit,       \* a page being rendered, if there is one
  requests, faults,
  disturbed    \* history: what overlapped or failed half-way since the start

settingVars == <<rows, sectionRows, mem, built, handler, page, visit, requests, faults, disturbed>>

-----------------------------------------------------------------------------
(* The configuration file, read once when the process starts. *)

ServerFeatures == {"private", "activitypub", "indexnow", "imgproxy", "tts", "nocache",
                   "reactions", "receivingOff"}
BlogFeatures == {"postAsHome", "photos", "search", "random", "onThisDay", "comments",
                 "blogStats", "blogroll", "map", "contact", "noSections"}

Usual == [server |-> {"activitypub", "indexnow", "imgproxy", "tts"},
          blog |-> [b \in Blogs |-> BlogFeatures \ {"postAsHome", "noSections"}]]

Flip(S, f) == IF f \in S THEN S \ {f} ELSE S \cup {f}
Differently(c) ==
       {[c EXCEPT !.server = Flip(@, f)] : f \in ServerFeatures}
  \cup {[c EXCEPT !.blog[b] = Flip(@, f)] : b \in Blogs, f \in BlogFeatures}

Configurations ==
  LET Within[n \in 0..FewFeatures] ==
        IF n = 0 THEN {Usual} ELSE Within[n - 1] \cup UNION {Differently(c) : c \in Within[n - 1]}
  IN Within[FewFeatures]

Has(b, f) == f \in cfg.blog[b]

isPrivate == "private" \in cfg.server
apEnabled == ~isPrivate /\ "activitypub" \in cfg.server
indexNowEnabled == ~isPrivate /\ "indexnow" \in cfg.server

\* A path is the sequence of its segments; "{page}", "{feed}" and other segments in braces
\* stand for all their values.
getRelativePath(b, p) == Prefix[b] \o p

-----------------------------------------------------------------------------
Site == "*"
Hides == {"hideOldContentWarning", "hideShareButton", "hideTranslateButton", "hideSpeakButton"}
Adds == {"addReplyTitle", "addReplyContext", "addLikeTitle", "addLikeContext"}
Disables == {"disableSending", "disableReceiving", "disableInterGoblog"}
BlogSwitches == Hides \cup Adds \cup {"reactionsEnabled"}
Switches == (Blogs \X BlogSwitches) \cup ({Site} \X Disables)
Texts == (Blogs \X {"title", "description", "defaultSection", "reactions"})
           \cup ({Site} \X {"nick", "name"})
Keys == Switches \cup Texts

SectionRow(b, s, hide) == [blog |-> b, name |-> s, hide |-> hide]
SectionsOf(b) == {row.name : row \in {r \in mem.sections : r.blog = b}}

-----------------------------------------------------------------------------
(* The start of the process: initConfig. *)

ConfigText(k) == IF k[2] \in {"reactions", "defaultSection"} THEN "" ELSE "config"
ConfigOn(k) ==
  \/ k = <<Site, "disableReceiving">> /\ "receivingOff" \in cfg.server
  \/ k[2] = "reactionsEnabled" /\ "reactions" \in cfg.server

\* A setting without a row gets the value of the configuration file.
migrateBooleanSetting(r, k) ==
  IF r[k] # "" THEN r[k] ELSE IF ConfigOn(k) THEN "1" ELSE ""
migrateStringSetting(r, k) == IF r[k] # "" THEN r[k] ELSE ConfigText(k)

ConfigSections ==
  {SectionRow(b, s, FALSE) : b \in {c \in Blogs : ~Has(c, "noSections")}, s \in Sections}

\* Blogs without any section get the default one.
createDefaultSections(secs) ==
  secs \cup {SectionRow(b, "posts", FALSE) : b \in {c \in Blogs : \A row \in secs : row.blog # c}}

Migrated(r, default) ==
  [k \in Keys |-> CASE k \in Switches -> migrateBooleanSetting(r, k)
                    [] k[2] = "defaultSection" -> IF r[k] # "" THEN r[k] ELSE default[k[1]]
                    [] OTHER -> migrateStringSetting(r, k)]

\* The settings in memory once rows have been read.
Loaded(r, secs) ==
  [text |-> [k \in Texts |-> r[k]], on |-> {k \in Switches : r[k] = "1"}, sections |-> secs]

Idle == [pc |-> "idle"]

\* The only choice is the default section of a blog that has set none.
initConfig(r, secs) ==
  \E all \in {createDefaultSections(secs)} : \E default \in [Blogs -> Sections] :
    /\ \A b \in Blogs : \E row \in all : row.blog = b /\ row.name = default[b]
    /\ \E new \in {Migrated(r, default)} :
         rows' = new /\ mem' = Loaded(new, all) /\ built' = mem'
    /\ sectionRows' = all
    /\ handler' = [h \in Handlers |-> Idle]
    /\ page' = {} /\ visit' = {}
    /\ disturbed' = {}

\* After the first start with this configuration.
SettingsInit ==
  /\ sectionRows = createDefaultSections(ConfigSections)
  /\ rows = Migrated([k \in Keys |-> ""], [b \in Blogs |-> "posts"])
  /\ mem = Loaded(rows, sectionRows)
  /\ built = mem
  /\ handler = [h \in Handlers |-> Idle]
  /\ page = {} /\ visit = {}
  /\ requests = 0 /\ faults = 0
  /\ disturbed = {}

\* The process dies and starts again.
Restart ==
  /\ faults < MaxFaults /\ faults' = faults + 1
  /\ initConfig(rows, sectionRows)
  /\ UNCHANGED requests

-----------------------------------------------------------------------------
(* A handler that saves values: all of them are saved before the first     *)
(* takes effect in memory.                                                 *)

Put(k, v) == [key |-> k, value |-> v]

\* The forms the owner may send, with the checks on their values.
settingsUpdateSwitch ==
  {<<Put(k, v)>> : k \in {x \in Switches : x[1] \in Edited \cup {Site} /\ x[2] \in Changed}, v \in {"1", "0"}}
settingsUpdateReactions(b) == {<<Put(<<b, "reactions">>, v)>> : v \in {"", "edited"}}
settingsUpdateDefaultSection(b) == {<<Put(<<b, "defaultSection">>, s)>> : s \in SectionsOf(b)}
settingsUpdateUser == {<<Put(<<Site, "nick">>, v), Put(<<Site, "name">>, v)>> : v \in {"edited"}}
settingsUpdateBlog(b) ==
  {<<Put(<<b, "title">>, "edited"), Put(<<b, "description">>, v)>> : v \in {"", "edited"}}

FormsOf(b) ==
  (IF "blog" \in Changed THEN settingsUpdateBlog(b) ELSE {})
    \cup (IF "reactions" \in Changed THEN settingsUpdateReactions(b) ELSE {})
    \cup (IF "defaultSection" \in Changed THEN settingsUpdateDefaultSection(b) ELSE {})
Forms ==
  settingsUpdateSwitch \cup (IF "user" \in Changed THEN settingsUpdateUser ELSE {})
    \cup UNION {FormsOf(b) : b \in Edited}

Request == requests < MaxRequests /\ requests' = requests + 1
\* What else a request disturbs: the sections in memory, the router.
TheSections == <<Site, "loadSections">>
TheRouter == <<Site, "reloadRouter">>

KeysOf(puts) == {puts[i].key : i \in DOMAIN puts}
Busy(k) == \E h \in Handlers : handler[h].pc \in {"save", "apply"} /\ k \in KeysOf(handler[h].puts)
Step(h, next) == handler' = [handler EXCEPT ![h] = next]

Send(h) ==
  /\ Request /\ handler[h] = Idle
  /\ \E puts \in Forms :
       /\ Step(h, [pc |-> "save", puts |-> puts, saved |-> 0])
       /\ disturbed' = disturbed \cup {k \in KeysOf(puts) : Busy(k)}
  /\ UNCHANGED <<rows, sectionRows, mem, built, page, visit, faults>>

\* Mistake: of two values only the first is saved.
saveSettingValueFirst(h) ==
  /\ handler[h].pc = "save"
  /\ rows' = [rows EXCEPT ![handler[h].puts[1].key] = handler[h].puts[1].value]
  /\ Step(h, [pc |-> "apply", puts |-> handler[h].puts])
  /\ UNCHANGED <<sectionRows, mem, built, page, visit, requests, faults, disturbed>>
saveSettingValue(h) ==
  /\ handler[h].pc = "save"
  /\ LET puts == handler[h].puts
         next == handler[h].saved + 1 IN
       /\ rows' = [rows EXCEPT ![puts[next].key] = puts[next].value]
       /\ Step(h, IF next = Len(puts) THEN [pc |-> "apply", puts |-> puts]
                  ELSE [pc |-> "save", puts |-> puts, saved |-> next])
  /\ UNCHANGED <<sectionRows, mem, built, page, visit, requests, faults, disturbed>>

\* The statement fails: the request ends with an error, what is saved stays saved.
SaveFails(h) ==
  /\ handler[h].pc = "save" /\ faults < MaxFaults /\ faults' = faults + 1
  /\ Step(h, Idle)
  /\ disturbed' = disturbed \cup {handler[h].puts[i].key : i \in 1..handler[h].saved}
  /\ UNCHANGED <<rows, sectionRows, mem, built, page, visit, requests>>

\* Mistake: the router stays as it was.
AfterwardsPurge(k) ==
  IF k[2] \in Adds \cup {"disableSending", "disableInterGoblog", "defaultSection"} THEN Idle ELSE [pc |-> "purge"]
\* Mistake: whoever has rebuilt the router need not purge the cache.
AfterwardsBuild(k) ==
  CASE k[2] = "disableReceiving" -> [pc |-> "build", purge |-> FALSE]
    [] k[2] \in Adds \cup {"disableSending", "disableInterGoblog", "defaultSection"} -> Idle
    [] OTHER -> [pc |-> "purge"]
\* What follows the change in memory: the router is rebuilt, the cache is purged, or neither.
Afterwards(k) ==
  CASE k[2] = "disableReceiving" -> [pc |-> "build", purge |-> TRUE]
    [] k[2] \in Adds \cup {"disableSending", "disableInterGoblog", "defaultSection"} -> Idle
    [] OTHER -> [pc |-> "purge"]

Apply(h) ==
  /\ handler[h].pc = "apply"
  /\ LET puts == handler[h].puts
         Value(k) == (CHOOSE i \in DOMAIN puts : puts[i].key = k) IN
       /\ mem' =
            [text |-> [k \in Texts |-> IF k \in KeysOf(puts) THEN puts[Value(k)].value ELSE mem.text[k]],
             on |-> {k \in Switches : IF k \in KeysOf(puts) THEN puts[Value(k)].value = "1" ELSE k \in mem.on},
             sections |-> mem.sections]
       /\ Step(h, Afterwards(puts[1].key))
  /\ UNCHANGED <<rows, sectionRows, built, page, visit, requests, faults, disturbed>>

-----------------------------------------------------------------------------
(* The router and the response cache. *)

\* buildRouter reads the settings; reloadRouter then installs what was built.
buildRouter(h) ==
  /\ handler[h].pc = "build"
  /\ Step(h, [pc |-> "install", router |-> mem, purge |-> handler[h].purge])
  /\ UNCHANGED <<rows, sectionRows, mem, built, page, visit, requests, faults, disturbed>>

reloadRouter(h) ==
  /\ handler[h].pc = "install"
  /\ built' = handler[h].router
  /\ Step(h, IF handler[h].purge THEN [pc |-> "purge"] ELSE Idle)
  /\ disturbed' = disturbed \cup
       {TheRouter : g \in {g \in Handlers \ {h} : handler[g].pc = "install"}}
  /\ UNCHANGED <<rows, sectionRows, mem, page, visit, requests, faults>>

serveReloadRouter(h) ==
  /\ Request /\ handler[h] = Idle /\ "reload" \in Changed
  /\ Step(h, [pc |-> "build", purge |-> FALSE])
  /\ UNCHANGED <<rows, sectionRows, mem, built, page, visit, faults, disturbed>>

purgeCache(h) ==
  /\ handler[h].pc = "purge"
  /\ page' = {}
  /\ visit' = {[shown |-> v.shown, late |-> TRUE] : v \in visit}
  /\ Step(h, Idle)
  /\ UNCHANGED <<rows, sectionRows, mem, built, requests, faults, disturbed>>

\* What of the settings a page shows.
Shown(m) ==
  [text |-> [k \in {t \in Texts : t[2] # "defaultSection"} |-> m.text[k]],
   on |-> {k \in m.on : k[2] \in Hides \cup {"reactionsEnabled", "disableReceiving"}},
   sections |-> m.sections]

\* A visitor's page is rendered, and then stored in the cache.
Render ==
  /\ page = {} /\ visit = {} /\ "nocache" \notin cfg.server
  /\ visit' = {[shown |-> Shown(mem), late |-> FALSE]}
  /\ UNCHANGED <<rows, sectionRows, mem, built, handler, page, requests, faults, disturbed>>

saveCache ==
  /\ visit # {}
  /\ page' = visit /\ visit' = {}
  /\ UNCHANGED <<rows, sectionRows, mem, built, handler, requests, faults, disturbed>>

-----------------------------------------------------------------------------
(* The forms that add, change and delete sections, and the posts that use *)
(* them.  Each form changes a row, then reads the sections of every blog   *)
(* again, rebuilds the router and purges the cache.                        *)

VARIABLES
  used,    \* <<blog, section>> of some post
  hasty    \* history: <<blog, section>> of a post created while the section was being deleted

sectionVars == <<used, hasty>>

Reload == [pc |-> "read", todo |-> Blogs]
Reloading(h) == handler[h].pc \in {"read", "assign"}

settingsUpdateSection(h, b) ==
  /\ Request /\ handler[h] = Idle /\ "sections" \in Changed
  /\ \E s \in Sections, hide \in BOOLEAN :
       Step(h, [pc |-> "saveSection", row |-> SectionRow(b, s, hide)])
  /\ UNCHANGED <<rows, sectionRows, mem, built, page, visit, faults, disturbed, sectionVars>>

saveSection(h) ==
  /\ handler[h].pc = "saveSection"
  /\ LET new == handler[h].row IN
       sectionRows' = {row \in sectionRows : <<row.blog, row.name>> # <<new.blog, new.name>>} \cup {new}
  /\ Step(h, Reload)
  /\ UNCHANGED <<rows, mem, built, page, visit, requests, faults, disturbed, sectionVars>>

\* Mistake: nobody looks whether posts use the section.
settingsDeleteSectionUnused(h, b) ==
  /\ Request /\ handler[h] = Idle /\ "sections" \in Changed
  /\ \E s \in Sections : Step(h, [pc |-> "deleteSection", blog |-> b, name |-> s])
  /\ UNCHANGED <<rows, sectionRows, mem, built, page, visit, faults, disturbed, sectionVars>>
\* Posts of any status count.
settingsDeleteSection(h, b) ==
  /\ Request /\ handler[h] = Idle /\ "sections" \in Changed
  /\ \E s \in Sections :
       Step(h, IF <<b, s>> \in used THEN Idle ELSE [pc |-> "deleteSection", blog |-> b, name |-> s])
  /\ UNCHANGED <<rows, sectionRows, mem, built, page, visit, faults, disturbed, sectionVars>>

deleteSection(h) ==
  /\ handler[h].pc = "deleteSection"
  /\ sectionRows' = {row \in sectionRows : <<row.blog, row.name>> # <<handler[h].blog, handler[h].name>>}
  /\ Step(h, Reload)
  /\ UNCHANGED <<rows, mem, built, page, visit, requests, faults, disturbed, sectionVars>>

\* loadSections: blog by blog, in any order, the rows are read and then replace the map.
getSections(h) ==
  /\ handler[h].pc = "read"
  /\ \E b \in handler[h].todo :
       Step(h, [pc |-> "assign", todo |-> handler[h].todo \ {b}, blog |-> b,
                read |-> {row \in sectionRows : row.blog = b}])
  /\ disturbed' = disturbed \cup {TheSections : g \in {g \in Handlers \ {h} : Reloading(g)}}
  /\ UNCHANGED <<rows, sectionRows, mem, built, page, visit, requests, faults, sectionVars>>

loadSections(h) ==
  /\ handler[h].pc = "assign"
  /\ LET op == handler[h] IN
       /\ mem' = [text |-> mem.text, on |-> mem.on,
                   sections |-> {row \in mem.sections : row.blog # op.blog} \cup op.read]
       /\ Step(h, IF op.todo = {} THEN [pc |-> "build", purge |-> TRUE] ELSE [pc |-> "read", todo |-> op.todo])
  /\ UNCHANGED <<rows, sectionRows, built, page, visit, requests, faults, disturbed, sectionVars>>

\* A statement fails: the request ends with an error; memory may lack what the table holds.
SectionFails(h) ==
  /\ handler[h].pc \in {"saveSection", "deleteSection", "read"}
  /\ faults < MaxFaults /\ faults' = faults + 1
  /\ Step(h, Idle)
  /\ disturbed' = disturbed \cup (IF handler[h].pc = "read" THEN {TheSections} ELSE {})
  /\ UNCHANGED <<rows, sectionRows, mem, built, page, visit, requests, sectionVars>>

\* checkPost: a new post names a section that is in memory, or gets the default one.
CreatePost(b, s) ==
  /\ Request
  /\ s \in SectionsOf(b)
  /\ used' = used \cup {<<b, s>>}
  /\ LET rowGone == \A row \in sectionRows : <<row.blog, row.name>> # <<b, s>>
         going == \E h \in Handlers : /\ handler[h].pc = "deleteSection"
                                      /\ <<handler[h].blog, handler[h].name>> = <<b, s>> IN
     hasty' = IF rowGone \/ going THEN hasty \cup {<<b, s>>} ELSE hasty
  /\ UNCHANGED <<rows, sectionRows, mem, built, handler, page, visit, faults, disturbed>>

\* The handlers of the settings page, a visit, a restart.
SettingsNext ==
  \/ \E h \in Handlers :
       \/ \E b \in Edited : settingsUpdateSection(h, b) \/ settingsDeleteSection(h, b)
       \/ saveSection(h) \/ deleteSection(h) \/ getSections(h) \/ loadSections(h) \/ SectionFails(h)
       \/ /\ \/ Send(h) \/ saveSettingValue(h) \/ SaveFails(h) \/ Apply(h) \/ buildRouter(h)
             \/ reloadRouter(h) \/ serveReloadRouter(h) \/ purgeCache(h)
          /\ UNCHANGED sectionVars
  \/ (Render \/ saveCache \/ Restart) /\ UNCHANGED sectionVars
  \/ \E b \in Edited, s \in Sections : CreatePost(b, s)
=============================================================================
