----------------------------- MODULE SiteProofs -----------------------------
(***************************************************************************)
(* Proofs about Site: a section with posts stays; pages in the cache are   *)
(* current, because who changes what they show purges the cache later; the *)
(* router is current, because who changes what it is built from builds it  *)
(* again later, and two that install one at the same time are recorded;    *)
(* the memory has what the tables have, because one request at a time      *)
(* saves a key and who holds the sections is followed by one that reads    *)
(* them; visitors are listed what is published and public, because no      *)
(* route of the blogs, the editor or the server has the name of a list     *)
(* except the lists themselves; the tabs of the editor converge, because   *)
(* each write is owed to every connection.                                 *)
(***************************************************************************)
EXTENDS Site, SequenceTheorems, TLAPS

\* Settings that no page shows and no route depends on.
Silent == Adds \cup {"disableSending", "disableInterGoblog", "defaultSection"}
Naming == {"nick", "name", "title", "description"}

\* A form saves one value, or names.
FormShaped(puts) ==
  \/ KeysOf(puts) = {puts[1].key}
  \/ puts[1].key[2] \in Naming /\ \A k \in KeysOf(puts) : k[2] \in Naming

Shaped ==
  /\ DOMAIN handler = Handlers
  /\ mem.on \subseteq Switches
  /\ \A h \in Handlers : handler[h].pc \in {"save", "apply"} => FormShaped(handler[h].puts)

\* Nobody removes a section that posts use.
SectionsInv ==
  /\ SectionInUseStays
  /\ \A h \in Handlers :
       handler[h].pc = "deleteSection" => <<handler[h].blog, handler[h].name>> \notin used \ hasty

WillPurge(h) ==
  \/ handler[h].pc \in {"read", "assign", "purge"}
  \/ handler[h].pc \in {"build", "install"} /\ handler[h].purge = TRUE

PagesInv ==
  \/ TheSections \in disturbed
  \/ \E h \in Handlers : WillPurge(h)
  \/ \A p \in page \cup visit : p.late \/ p.shown = Shown(mem)

WillBuild(h) == handler[h].pc \in {"read", "assign", "build"}

\* What the routes depend on, but for the reactions.
Alike(s, m) == (DisableReceiving(s) <=> DisableReceiving(m)) /\ s.sections = m.sections

Upset == TheSections \in disturbed \/ TheRouter \in disturbed

RouterInv ==
  \/ Upset
  \/ \E h \in Handlers : WillBuild(h)
  \/ \E h \in Handlers : handler[h].pc = "install" /\ Alike(handler[h].router, mem)
  \/ Alike(built, mem) /\ \A h \in Handlers : handler[h].pc # "install"

IInv == Shaped /\ SectionsInv /\ PagesInv /\ RouterInv

-----------------------------------------------------------------------------
(***************************************************************************)
(* Steps of a request.                                                     *)
(***************************************************************************)

LEMMA Stepped ==
  ASSUME Shaped, NEW h \in Handlers, NEW next, Step(h, next)
  PROVE  /\ DOMAIN handler' = Handlers
         /\ handler'[h] = next
         /\ \A g \in Handlers \ {h} : handler'[g] = handler[g]
BY DEF Shaped, Step

LEMMA ShapedStep ==
  ASSUME Shaped, NEW h \in Handlers, NEW next, Step(h, next), mem'.on \subseteq Switches,
         next.pc \in {"save", "apply"} => FormShaped(next.puts)
  PROVE  Shaped'
<1>1. /\ DOMAIN handler' = Handlers
      /\ handler'[h] = next
      /\ \A g \in Handlers \ {h} : handler'[g] = handler[g]
  BY Stepped
<1>2. ASSUME NEW g \in Handlers, handler'[g].pc \in {"save", "apply"}
      PROVE  FormShaped(handler'[g].puts)
  BY <1>1, <1>2 DEF Shaped
<1>3. \A g \in Handlers : (handler[g].pc \in {"save", "apply"} => FormShaped(handler[g].puts))'
  BY <1>2 DEF FormShaped, KeysOf
<1> QED BY <1>1, <1>3 DEF Shaped

\* A step that leaves the sections and the posts alone, and does not begin to delete.
LEMMA SectionsStep ==
  ASSUME Shaped, SectionsInv, NEW h \in Handlers, NEW next, Step(h, next), next.pc # "deleteSection",
         UNCHANGED <<sectionRows, sectionVars>>
  PROVE  SectionsInv'
<1>1. handler'[h] = next /\ \A g \in Handlers \ {h} : handler'[g] = handler[g]
  BY Stepped
<1> QED BY <1>1 DEF SectionsInv, SectionInUseStays, sectionVars

\* A step that changes neither the settings nor the pages, and forgets no duty.
LEMMA PagesStep ==
  ASSUME Shaped, PagesInv, NEW h \in Handlers, NEW next, Step(h, next),
         UNCHANGED <<page, visit>>, Shown(mem)' = Shown(mem), disturbed \subseteq disturbed',
         WillPurge(h) => WillPurge(h)' \/ TheSections \in disturbed'
  PROVE  PagesInv'
<1>1. \A g \in Handlers \ {h} : handler'[g] = handler[g]
  BY Stepped
<1>2. \A g \in Handlers \ {h} : WillPurge(g) => WillPurge(g)'
  BY <1>1 DEF WillPurge
<1>3. TheSections' = TheSections
  BY DEF TheSections, Site
<1> QED BY <1>2, <1>3 DEF PagesInv

LEMMA RouterStep ==
  ASSUME Shaped, RouterInv, NEW h \in Handlers, NEW next, Step(h, next),
         built' = built, Alike(mem', mem), disturbed \subseteq disturbed',
         handler[h].pc # "install", next.pc # "install",
         WillBuild(h) => WillBuild(h)' \/ TheSections \in disturbed'
  PROVE  RouterInv'
<1>1. handler'[h] = next /\ \A g \in Handlers \ {h} : handler'[g] = handler[g]
  BY Stepped
<1>2. \A g \in Handlers \ {h} : WillBuild(g) => WillBuild(g)'
  BY <1>1 DEF WillBuild
<1>3. CASE Upset \/ \E g \in Handlers : WillBuild(g)
  BY <1>2, <1>3 DEF RouterInv, Upset, TheSections, TheRouter, Site
<1>4. CASE \E g \in Handlers : handler[g].pc = "install" /\ Alike(handler[g].router, mem)
  <2>1. PICK g \in Handlers : handler[g].pc = "install" /\ Alike(handler[g].router, mem)
    BY <1>4
  <2>2. handler'[g] = handler[g]
    BY <1>1, <2>1
  <2>3. Alike(handler[g].router, mem')
    BY <2>1 DEF Alike
  <2> QED BY <2>1, <2>2, <2>3 DEF RouterInv, Alike, DisableReceiving
<1>5. CASE Alike(built, mem) /\ \A g \in Handlers : handler[g].pc # "install"
  <2>1. Alike(built, mem') /\ \A g \in Handlers : handler'[g].pc # "install"
    BY <1>1, <1>5 DEF Alike
  <2> QED BY <2>1 DEF RouterInv, Alike, DisableReceiving
<1> QED BY <1>3, <1>4, <1>5 DEF RouterInv

\* Steps that change neither the settings in memory, the router nor a page.
LEMMA QuietStep ==
  ASSUME IInv, NEW h \in Handlers, NEW next, Step(h, next),
         UNCHANGED <<mem, built, page, visit>>, disturbed \subseteq disturbed',
         next.pc \in {"save", "apply"} => FormShaped(next.puts),
         handler[h].pc # "install", next.pc # "install",
         WillPurge(h) => WillPurge(h)' \/ TheSections \in disturbed',
         WillBuild(h) => WillBuild(h)' \/ TheSections \in disturbed'
  PROVE  Shaped' /\ PagesInv' /\ RouterInv'
<1>1. mem'.on \subseteq Switches /\ Alike(mem', mem) /\ Shown(mem)' = Shown(mem)
  BY DEF IInv, Shaped, Alike, Shown, Texts
<1> QED BY <1>1, ShapedStep, PagesStep, RouterStep DEF IInv

-----------------------------------------------------------------------------
(***************************************************************************)
(* The forms that save values.                                             *)
(***************************************************************************)

LEMMA FormsShaped ==
  ASSUME NEW puts \in Forms
  PROVE  FormShaped(puts)
<1>1. ASSUME NEW k, NEW v, puts = <<Put(k, v)>>
      PROVE  FormShaped(puts)
  <2>1. DOMAIN puts = {1} /\ puts[1].key = k
    BY <1>1 DEF Put
  <2> QED BY <2>1 DEF FormShaped, KeysOf
<1>2. ASSUME NEW k, NEW v, NEW l, NEW w, puts = <<Put(k, v), Put(l, w)>>, k[2] \in Naming, l[2] \in Naming
      PROVE  FormShaped(puts)
  <2>1. DOMAIN puts = {1, 2} /\ puts[1].key = k /\ puts[2].key = l
    BY <1>2 DEF Put
  <2> QED BY <1>2, <2>1 DEF FormShaped, KeysOf
<1>3. CASE puts \in settingsUpdateSwitch
  BY <1>1, <1>3 DEF settingsUpdateSwitch
<1>4. CASE puts \in settingsUpdateUser
  BY <1>2, <1>4 DEF settingsUpdateUser, Naming
<1>5. ASSUME NEW b, puts \in settingsUpdateBlog(b)
      PROVE  FormShaped(puts)
  <2>1. PICK v : puts = <<Put(<<b, "title">>, "edited"), Put(<<b, "description">>, v)>>
    BY <1>5 DEF settingsUpdateBlog
  <2> QED BY <1>2, <2>1 DEF Naming
<1>6. ASSUME NEW b, puts \in settingsUpdateReactions(b) \cup settingsUpdateDefaultSection(b)
      PROVE  FormShaped(puts)
  BY <1>1, <1>6 DEF settingsUpdateReactions, settingsUpdateDefaultSection
<1>7. ASSUME NEW b, puts \in FormsOf(b)
      PROVE  FormShaped(puts)
  BY <1>5, <1>6, <1>7 DEF FormsOf
<1> QED BY <1>3, <1>4, <1>7 DEF Forms

LEMMA SendHolds ==
  ASSUME IInv, NEW h \in Handlers, Send(h), UNCHANGED sectionVars
  PROVE  IInv'
<1>1. PICK next : Step(h, next) /\ next.pc = "save" /\ FormShaped(next.puts)
  BY FormsShaped DEF Send
<1>2. handler[h].pc = "idle" /\ disturbed \subseteq disturbed'
  BY DEF Send, Idle
<1>3. Shaped' /\ PagesInv' /\ RouterInv'
  BY <1>1, <1>2, QuietStep DEF Send, WillPurge, WillBuild
<1>4. SectionsInv'
  BY <1>1, SectionsStep DEF IInv, Send
<1> QED BY <1>3, <1>4 DEF IInv

LEMMA SaveHolds ==
  ASSUME IInv, NEW h \in Handlers, saveSettingValue(h) \/ SaveFails(h), UNCHANGED sectionVars
  PROVE  IInv'
<1>1. PICK next : Step(h, next) /\ next.pc \in {"save", "apply", "idle"}
                  /\ (next.pc # "idle" => next.puts = handler[h].puts)
  BY DEF saveSettingValue, SaveFails, Idle
<1>2. /\ handler[h].pc = "save" /\ FormShaped(handler[h].puts)
      /\ disturbed \subseteq disturbed'
      /\ UNCHANGED <<mem, built, page, visit, sectionRows>>
  BY DEF saveSettingValue, SaveFails, IInv, Shaped
<1>3. Shaped' /\ PagesInv' /\ RouterInv'
  BY <1>1, <1>2, QuietStep DEF WillPurge, WillBuild
<1>4. SectionsInv'
  BY <1>1, <1>2, SectionsStep DEF IInv
<1> QED BY <1>3, <1>4 DEF IInv

LEMMA Building ==
  ASSUME NEW k, k[2] = "disableReceiving"
  PROVE  Afterwards(k) = [pc |-> "build", purge |-> TRUE]
BY DEF Afterwards, Adds

\* What a form changes in memory is not shown, or the cache will be purged; no route
\* depends on it, or the router will be built again.
LEMMA ApplyHolds ==
  ASSUME IInv, NEW h \in Handlers, Apply(h), UNCHANGED sectionVars
  PROVE  IInv'
<1> DEFINE puts == handler[h].puts
           first == puts[1].key
<1>1. /\ Step(h, Afterwards(first)) /\ handler[h].pc = "apply" /\ FormShaped(puts)
      /\ UNCHANGED <<built, page, visit, disturbed, sectionRows>>
      /\ mem'.on \subseteq Switches /\ mem.on \subseteq Switches
      /\ mem'.sections = mem.sections
  BY DEF Apply, IInv, Shaped
<1>2. /\ \A k \in Texts \ KeysOf(puts) : mem'.text[k] = mem.text[k]
      /\ \A k \in Switches \ KeysOf(puts) : k \in mem'.on <=> k \in mem.on
  BY DEF Apply
<1>3. Afterwards(first) \in {Idle, [pc |-> "purge"], [pc |-> "build", purge |-> TRUE]}
  BY DEF Afterwards
<1>4. handler'[h] = Afterwards(first)
  BY <1>1, Stepped DEF IInv
<1>5. Shaped'
  BY <1>1, <1>3, ShapedStep DEF IInv, Idle
<1>6. SectionsInv'
  BY <1>1, <1>3, SectionsStep DEF IInv, Idle
<1>7. PagesInv'
  <2>1. CASE WillPurge(h)'
    BY <2>1 DEF PagesInv
  <2>2. CASE ~WillPurge(h)'
    <3>1. first[2] \in Silent
      BY <1>4, <2>2 DEF Afterwards, Silent, WillPurge
    <3>2. \A k \in KeysOf(puts) : k[2] \in Silent
      BY <1>1, <3>1 DEF FormShaped, Silent, Naming, Adds
    <3>3. \A k \in Texts : k[2] # "defaultSection" => mem'.text[k] = mem.text[k]
      BY <1>2, <3>2 DEF Texts, Silent, Adds, Site
    <3>4. \A k \in Switches : k[2] \in Hides \cup {"reactionsEnabled", "disableReceiving"} => (k \in mem'.on <=> k \in mem.on)
      BY <1>2, <3>2 DEF Silent, Adds, Hides
    <3>5. Shown(mem)' = Shown(mem)
      BY <1>1, <3>3, <3>4 DEF Shown
    <3>6. ~WillPurge(h)
      BY <1>1 DEF WillPurge
    <3> QED BY <1>1, <3>5, <3>6, PagesStep DEF IInv
  <2> QED BY <2>1, <2>2
<1>8. RouterInv'
  <2>1. CASE first[2] = "disableReceiving"
    <3>1. Afterwards(first) = [pc |-> "build", purge |-> TRUE]
      BY <2>1, Building
    <3>2. WillBuild(h)'
      BY <1>4, <3>1 DEF WillBuild
    <3> QED BY <3>2 DEF RouterInv
  <2>2. CASE first[2] # "disableReceiving"
    <3>1. \A k \in KeysOf(puts) : k[2] # "disableReceiving"
      BY <1>1, <2>2 DEF FormShaped, Naming
    <3>2. <<Site, "disableReceiving">> \notin KeysOf(puts)
      BY <3>1
    <3>3. <<Site, "disableReceiving">> \in Switches
      BY DEF Switches, Disables
    <3>4. Alike(mem', mem)
      BY <1>1, <1>2, <3>2, <3>3 DEF Alike, DisableReceiving
    <3>5. ~WillBuild(h) /\ handler[h].pc # "install" /\ Afterwards(first).pc # "install"
      BY <1>1, <1>3 DEF WillBuild, Idle
    <3> QED BY <1>1, <3>4, <3>5, RouterStep DEF IInv
  <2> QED BY <2>1, <2>2
<1> QED BY <1>5, <1>6, <1>7, <1>8 DEF IInv

-----------------------------------------------------------------------------
(***************************************************************************)
(* The forms that change sections.                                         *)
(***************************************************************************)

\* All that is read and assigned is followed by a new router and an empty cache.
LEMMA SectionFormHolds ==
  ASSUME IInv, NEW h \in Handlers, NEW b,
         settingsUpdateSection(h, b) \/ settingsDeleteSection(h, b)
  PROVE  IInv'
<1>1. PICK next : /\ Step(h, next)
                  /\ next.pc \in {"saveSection", "deleteSection", "idle"}
                  /\ next.pc = "deleteSection" => <<next.blog, next.name>> \notin used
  <2>1. CASE settingsUpdateSection(h, b)
    <3>1. PICK s, hide : Step(h, [pc |-> "saveSection", row |-> SectionRow(b, s, hide)])
      BY <2>1 DEF settingsUpdateSection
    <3> QED BY <3>1
  <2>2. CASE settingsDeleteSection(h, b)
    <3>1. PICK s : Step(h, IF <<b, s>> \in used THEN Idle ELSE [pc |-> "deleteSection", blog |-> b, name |-> s])
      BY <2>2 DEF settingsDeleteSection
    <3>2. CASE <<b, s>> \in used
      BY <3>1, <3>2 DEF Idle
    <3>3. CASE <<b, s>> \notin used
      <4>1. Step(h, [pc |-> "deleteSection", blog |-> b, name |-> s])
        BY <3>1, <3>3
      <4> QED BY <3>3, <4>1
    <3> QED BY <3>2, <3>3
  <2> QED BY <2>1, <2>2
<1>2. /\ handler[h].pc = "idle"
      /\ UNCHANGED <<mem, built, page, visit, disturbed, sectionRows, sectionVars>>
  BY DEF settingsUpdateSection, settingsDeleteSection, Idle
<1>3. Shaped' /\ PagesInv' /\ RouterInv'
  BY <1>1, <1>2, QuietStep DEF WillPurge, WillBuild
<1>4. SectionsInv'
  <2>1. handler'[h] = next /\ \A g \in Handlers \ {h} : handler'[g] = handler[g]
    BY <1>1, Stepped DEF IInv
  <2> QED BY <1>1, <1>2, <2>1 DEF IInv, SectionsInv, SectionInUseStays, sectionVars
<1> QED BY <1>3, <1>4 DEF IInv

LEMMA SectionRowHolds ==
  ASSUME IInv, NEW h \in Handlers, saveSection(h) \/ deleteSection(h)
  PROVE  IInv'
<1>1. /\ Step(h, Reload) /\ handler[h].pc \in {"saveSection", "deleteSection"}
      /\ UNCHANGED <<mem, built, page, visit, disturbed, sectionVars>>
  BY DEF saveSection, deleteSection
<1>2. Reload.pc = "read"
  BY DEF Reload
<1>3. Shaped' /\ PagesInv' /\ RouterInv'
  BY <1>1, <1>2, QuietStep DEF WillPurge, WillBuild
<1>4. handler'[h] = Reload /\ \A g \in Handlers \ {h} : handler'[g] = handler[g]
  BY <1>1, Stepped DEF IInv
<1>5. \A u \in used \ hasty : \E row \in sectionRows' : <<row.blog, row.name>> = u
  <2>1. CASE saveSection(h)
    <3>1. PICK new : sectionRows' = {row \in sectionRows : <<row.blog, row.name>> # <<new.blog, new.name>>} \cup {new}
      BY <2>1 DEF saveSection
    <3> QED BY <3>1 DEF IInv, SectionsInv, SectionInUseStays
  <2>2. CASE deleteSection(h)
    <3>1. /\ sectionRows' = {row \in sectionRows : <<row.blog, row.name>> # <<handler[h].blog, handler[h].name>>}
          /\ <<handler[h].blog, handler[h].name>> \notin used \ hasty
      BY <2>2 DEF deleteSection, IInv, SectionsInv
    <3> QED BY <3>1 DEF IInv, SectionsInv, SectionInUseStays
  <2> QED BY <2>1, <2>2
<1>6. SectionsInv'
  BY <1>1, <1>2, <1>4, <1>5 DEF IInv, SectionsInv, SectionInUseStays, sectionVars
<1> QED BY <1>3, <1>6 DEF IInv

LEMMA ReadHolds ==
  ASSUME IInv, NEW h \in Handlers, getSections(h) \/ SectionFails(h)
  PROVE  IInv'
<1>1. PICK next : Step(h, next) /\ next.pc \in {"assign", "idle"}
                  /\ (next.pc = "assign" \/ handler[h].pc # "read" \/ TheSections \in disturbed')
  <2>1. CASE getSections(h)
    <3>1. PICK b, read, todo : Step(h, [pc |-> "assign", todo |-> todo, blog |-> b, read |-> read])
      BY <2>1 DEF getSections
    <3> QED BY <3>1
  <2>2. CASE SectionFails(h)
    <3>1. Step(h, Idle) /\ (handler[h].pc = "read" => TheSections \in disturbed')
      BY <2>2 DEF SectionFails
    <3> QED BY <3>1 DEF Idle
  <2> QED BY <2>1, <2>2
<1>2. /\ handler[h].pc \in {"saveSection", "deleteSection", "read"}
      /\ disturbed \subseteq disturbed'
      /\ UNCHANGED <<mem, built, page, visit, sectionRows, sectionVars>>
  BY DEF getSections, SectionFails
<1>3. handler'[h] = next
  BY <1>1, Stepped DEF IInv
<1>4. /\ WillPurge(h) => WillPurge(h)' \/ TheSections \in disturbed'
      /\ WillBuild(h) => WillBuild(h)' \/ TheSections \in disturbed'
  BY <1>1, <1>2, <1>3 DEF WillPurge, WillBuild
<1>5. Shaped' /\ PagesInv' /\ RouterInv'
  BY <1>1, <1>2, <1>4, QuietStep
<1>6. SectionsInv'
  BY <1>1, <1>2, SectionsStep DEF IInv
<1> QED BY <1>5, <1>6 DEF IInv

LEMMA AssignHolds ==
  ASSUME IInv, NEW h \in Handlers, loadSections(h)
  PROVE  IInv'
<1>1. PICK next : /\ Step(h, next)
                  /\ next.pc = "read" \/ next = [pc |-> "build", purge |-> TRUE]
  BY DEF loadSections
<1>2. mem'.on = mem.on /\ UNCHANGED <<sectionRows, sectionVars>>
  BY DEF loadSections
<1>3. handler'[h] = next
  BY <1>1, Stepped DEF IInv
<1>4. Shaped'
  BY <1>1, <1>2, ShapedStep DEF IInv, Shaped
<1>5. SectionsInv'
  BY <1>1, <1>2, SectionsStep DEF IInv
<1>6. WillPurge(h)' /\ WillBuild(h)'
  BY <1>1, <1>3 DEF WillPurge, WillBuild
<1> QED BY <1>4, <1>5, <1>6 DEF IInv, PagesInv, RouterInv

-----------------------------------------------------------------------------
(***************************************************************************)
(* The router and the cache.                                               *)
(***************************************************************************)

LEMMA BuildHolds ==
  ASSUME IInv, NEW h \in Handlers, buildRouter(h), UNCHANGED sectionVars
  PROVE  IInv'
<1>1. PICK next : /\ Step(h, next)
                  /\ next = [pc |-> "install", router |-> mem, purge |-> handler[h].purge]
  BY DEF buildRouter
<1>2. /\ handler[h].pc = "build"
      /\ UNCHANGED <<mem, built, page, visit, disturbed, sectionRows>>
  BY DEF buildRouter
<1>3. handler'[h] = next /\ next.pc = "install" /\ next.router = mem /\ next.purge = handler[h].purge
  BY <1>1, Stepped DEF IInv
<1>4. Shaped'
  BY <1>1, <1>2, <1>3, ShapedStep DEF IInv, Shaped
<1>5. SectionsInv'
  BY <1>1, <1>2, <1>3, SectionsStep DEF IInv
<1>6. WillPurge(h) => WillPurge(h)'
  BY <1>2, <1>3 DEF WillPurge
<1>7. PagesInv'
  BY <1>1, <1>2, <1>6, PagesStep DEF IInv, Shown, Texts
<1>8. RouterInv'
  BY <1>2, <1>3 DEF RouterInv, Alike
<1> QED BY <1>4, <1>5, <1>7, <1>8 DEF IInv

LEMMA InstallHolds ==
  ASSUME IInv, NEW h \in Handlers, reloadRouter(h), UNCHANGED sectionVars
  PROVE  IInv'
<1>1. PICK next : /\ Step(h, next) /\ next.pc \in {"purge", "idle"}
                  /\ handler[h].purge = TRUE => next.pc = "purge"
  BY DEF reloadRouter, Idle
<1>2. /\ handler[h].pc = "install" /\ built' = handler[h].router
      /\ disturbed \subseteq disturbed'
      /\ UNCHANGED <<mem, page, visit, sectionRows>>
  BY DEF reloadRouter
<1>3. handler'[h] = next /\ \A g \in Handlers \ {h} : handler'[g] = handler[g]
  BY <1>1, Stepped DEF IInv
<1>4. Shaped'
  BY <1>1, <1>2, ShapedStep DEF IInv, Shaped
<1>5. SectionsInv'
  BY <1>1, <1>2, SectionsStep DEF IInv
<1>6. WillPurge(h) => WillPurge(h)'
  BY <1>1, <1>2, <1>3 DEF WillPurge
<1>7. PagesInv'
  BY <1>1, <1>2, <1>6, PagesStep DEF IInv, Shown, Texts
<1>8. RouterInv'
  <2>1. CASE \E g \in Handlers \ {h} : handler[g].pc = "install"
    <3>1. TheRouter \in disturbed'
      BY <2>1 DEF reloadRouter
    <3> QED BY <3>1 DEF RouterInv, Upset, TheRouter, Site
  <2>2. CASE \A g \in Handlers \ {h} : handler[g].pc # "install"
    <3>1. CASE Upset
      BY <1>2, <3>1 DEF RouterInv, Upset, TheSections, TheRouter, Site
    <3>2. CASE \E g \in Handlers : WillBuild(g)
      <4>1. PICK g \in Handlers : WillBuild(g)
        BY <3>2
      <4>2. g # h
        BY <1>2, <4>1 DEF WillBuild
      <4>3. WillBuild(g)'
        BY <1>3, <4>1, <4>2 DEF WillBuild
      <4> QED BY <4>3 DEF RouterInv
    <3>3. CASE Alike(handler[h].router, mem)
      <4>1. Alike(built, mem)'
        BY <1>2, <3>3 DEF Alike, DisableReceiving, Site
      <4>2. \A g \in Handlers : handler'[g].pc # "install"
        BY <1>1, <1>3, <2>2
      <4> QED BY <4>1, <4>2 DEF RouterInv
    <3> QED BY <1>2, <2>2, <3>1, <3>2, <3>3 DEF IInv, RouterInv
  <2> QED BY <2>1, <2>2
<1> QED BY <1>4, <1>5, <1>7, <1>8 DEF IInv

LEMMA ReloadHolds ==
  ASSUME IInv, NEW h \in Handlers, serveReloadRouter(h), UNCHANGED sectionVars
  PROVE  IInv'
<1>1. PICK next : Step(h, next) /\ next.pc = "build"
  BY DEF serveReloadRouter
<1>2. handler[h].pc = "idle" /\ UNCHANGED <<mem, built, page, visit, disturbed, sectionRows>>
  BY DEF serveReloadRouter, Idle
<1>3. Shaped' /\ PagesInv' /\ RouterInv'
  BY <1>1, <1>2, QuietStep DEF WillPurge, WillBuild
<1>4. SectionsInv'
  BY <1>1, <1>2, SectionsStep DEF IInv
<1> QED BY <1>3, <1>4 DEF IInv

LEMMA PurgeHolds ==
  ASSUME IInv, NEW h \in Handlers, purgeCache(h), UNCHANGED sectionVars
  PROVE  IInv'
<1>1. /\ Step(h, Idle) /\ Idle.pc = "idle" /\ handler[h].pc = "purge"
      /\ UNCHANGED <<mem, built, disturbed, sectionRows>>
  BY DEF purgeCache, Idle
<1>2. Shaped' /\ SectionsInv'
  BY <1>1, ShapedStep, SectionsStep DEF IInv, Shaped
<1>3. Alike(mem', mem)
  BY <1>1 DEF Alike
<1>4. RouterInv'
  BY <1>1, <1>3, RouterStep DEF IInv, WillBuild
<1>5. \A p \in (page \cup visit)' : p.late = TRUE
  BY DEF purgeCache
<1>6. PagesInv'
  BY <1>5 DEF PagesInv
<1> QED BY <1>2, <1>4, <1>6 DEF IInv

\* A page is rendered from the settings in memory.
LEMMA VisitHolds ==
  ASSUME IInv, Render \/ saveCache, UNCHANGED sectionVars
  PROVE  IInv'
<1>1. UNCHANGED <<sectionRows, mem, built, handler, disturbed>>
  BY DEF Render, saveCache
<1>2. \A p \in (page \cup visit)' : p \in page \cup visit \/ p.shown = Shown(mem)
  BY DEF Render, saveCache
<1>3. Shown(mem)' = Shown(mem) /\ \A h \in Handlers : WillPurge(h)' <=> WillPurge(h)
  BY <1>1 DEF Shown, Texts, WillPurge
<1>4. PagesInv'
  BY <1>1, <1>2, <1>3 DEF IInv, PagesInv, TheSections, Site
<1>5. Shaped' /\ SectionsInv'
  BY <1>1 DEF IInv, Shaped, FormShaped, KeysOf, SectionsInv, SectionInUseStays, sectionVars
<1>6. RouterInv'
  BY <1>1 DEF IInv, RouterInv, Upset, TheSections, TheRouter, Site, WillBuild, Alike, DisableReceiving
<1> QED BY <1>4, <1>5, <1>6 DEF IInv

-----------------------------------------------------------------------------
(***************************************************************************)
(* The start, new posts, and the editor.                                   *)
(***************************************************************************)

\* All that a start leaves behind.
Fresh ==
  /\ handler = [h \in Handlers |-> Idle]
  /\ mem.on \subseteq Switches
  /\ built = mem
  /\ page = {} /\ visit = {}
  /\ SectionInUseStays

LEMMA FreshHolds == Fresh => IInv
BY DEF Fresh, IInv, Shaped, SectionsInv, PagesInv, RouterInv, Alike, Idle

LEMMA InitHolds == Init => IInv
<1>1. ASSUME Init
      PROVE  Fresh
  BY <1>1 DEF Init, SettingsInit, Fresh, Loaded, SectionInUseStays
<1> QED BY <1>1, FreshHolds

LEMMA RestartHolds ==
  ASSUME IInv, Restart, UNCHANGED sectionVars
  PROVE  IInv'
<1>1. PICK new, all : /\ mem' = Loaded(new, all) /\ built' = mem' /\ sectionRows' = all
                      /\ all = createDefaultSections(sectionRows)
  BY DEF Restart, initConfig
<1>2. sectionRows \subseteq sectionRows'
  BY <1>1 DEF createDefaultSections
<1>3. SectionInUseStays'
  BY <1>2 DEF IInv, SectionsInv, SectionInUseStays, sectionVars
<1>4. mem'.on \subseteq Switches
  BY <1>1 DEF Loaded
<1>5. (handler = [h \in Handlers |-> Idle])' /\ page' = {} /\ visit' = {}
  BY DEF Restart, initConfig, Idle
<1>6. Fresh'
  BY <1>1, <1>3, <1>4, <1>5 DEF Fresh
<1> QED BY <1>6, FreshHolds, PTL

LEMMA PostHolds ==
  ASSUME IInv, NEW b, NEW s, CreatePost(b, s)
  PROVE  IInv'
<1>1. UNCHANGED <<sectionRows, mem, built, handler, page, visit, disturbed>>
  BY DEF CreatePost
<1>2. Shaped' /\ PagesInv' /\ RouterInv'
  BY <1>1 DEF IInv, Shaped, FormShaped, KeysOf, PagesInv, WillPurge, Shown, Texts, RouterInv, Upset,
     TheSections, TheRouter, Site, WillBuild, Alike, DisableReceiving
<1>3. used' \ hasty' \subseteq (used \ hasty) \cup {<<b, s>>}
  BY DEF CreatePost
<1>4. ASSUME <<b, s>> \in used' \ hasty'
      PROVE  /\ \E row \in sectionRows : <<row.blog, row.name>> = <<b, s>>
             /\ \A h \in Handlers : handler[h].pc = "deleteSection" =>
                  <<handler[h].blog, handler[h].name>> # <<b, s>>
  BY <1>4 DEF CreatePost
<1>5. SectionsInv'
  BY <1>1, <1>3, <1>4 DEF IInv, SectionsInv, SectionInUseStays
<1> QED BY <1>2, <1>5 DEF IInv

LEMMA StutterHolds ==
  ASSUME IInv, UNCHANGED <<settingVars, sectionVars>>
  PROVE  IInv'
<1>1. UNCHANGED <<sectionRows, mem, built, handler, page, visit, disturbed, used, hasty>>
  BY DEF settingVars, sectionVars
<1>2. Shaped' /\ PagesInv' /\ RouterInv'
  BY <1>1 DEF IInv, Shaped, FormShaped, KeysOf, PagesInv, WillPurge, Shown, Texts, RouterInv, Upset,
     TheSections, TheRouter, Site, WillBuild, Alike, DisableReceiving
<1>3. SectionsInv'
  BY <1>1 DEF IInv, SectionsInv, SectionInUseStays
<1> QED BY <1>2, <1>3 DEF IInv

LEMMA NextHolds ==
  ASSUME IInv, [Next]_<<cfg, settingVars, sectionVars, editorVars>>
  PROVE  IInv'
<1>1. CASE SettingsNext
  BY <1>1, SendHolds, SaveHolds, ApplyHolds, SectionFormHolds, SectionRowHolds, ReadHolds, AssignHolds,
     BuildHolds, InstallHolds, ReloadHolds, PurgeHolds, VisitHolds, RestartHolds, PostHolds DEF SettingsNext
<1>2. CASE UNCHANGED <<settingVars, sectionVars>>
  BY <1>2, StutterHolds
<1> QED BY <1>1, <1>2 DEF Next

LEMMA Invariance == Spec => []IInv
BY InitHolds, NextHolds, PTL DEF Spec

-----------------------------------------------------------------------------
\* A section that posts use stays, through overlapping forms, failed statements and restarts,
\* but for posts created while it is being deleted.
THEOREM SectionsStay == Spec => []SectionInUseStays
<1>1. IInv => SectionInUseStays
  BY DEF IInv, SectionsInv
<1> QED BY <1>1, Invariance, PTL

\* At rest the cached page shows the settings in memory, whatever forms have overlapped.
THEOREM CachedPagesCurrent == Spec => []PagesAreCurrent
<1>1. Quiet => \A h \in Handlers : ~WillPurge(h)
  BY DEF Quiet, Idle, WillPurge
<1>2. IInv => PagesAreCurrent
  BY <1>1 DEF IInv, PagesInv, PagesAreCurrent
<1> QED BY <1>2, Invariance, PTL

\* The routes depend on two settings and the sections only.
LEMMA SameRoutes ==
  ASSUME Alike(built, mem)
  PROVE  (Mounted(built) \ reactionRoutes) = (Mounted(mem) \ reactionRoutes)
<1>1. webmentionsRouter(built) = webmentionsRouter(mem)
  BY DEF Alike, webmentionsRouter
<1>2. \A b : blogRouter(b, built) = blogRouter(b, mem)
  BY DEF Alike, blogRouter, blogSectionsRouter, blogCommentsRouter, commentsEnabled
<1>3. (otherRoutesRouter(built) \ reactionRoutes) = (otherRoutesRouter(mem) \ reactionRoutes)
  BY DEF otherRoutesRouter
<1>4. UNION {blogRouter(b, built) : b \in Blogs} = UNION {blogRouter(b, mem) : b \in Blogs}
  BY <1>2
<1> QED BY <1>1, <1>3, <1>4 DEF Mounted

\* At rest the router knows the sections, and whether webmentions are received.
LEMMA RestingAlike ==
  ASSUME IInv, Undisturbed
  PROVE  Alike(built, mem)
<1>1. \A h \in Handlers : handler[h].pc = "idle"
  BY DEF Undisturbed, Quiet, Idle
<1> QED BY <1>1 DEF IInv, RouterInv, Undisturbed, Upset, WillBuild

\* At rest the installed router is the one that the settings in memory ask for, but for the
\* reactions and two requests that have installed a router at the same time.
THEOREM InstalledRouterCurrent == Spec => []RouterIsCurrent
<1>1. IInv => RouterIsCurrent
  BY RestingAlike, SameRoutes DEF RouterIsCurrent
<1> QED BY <1>1, Invariance, PTL

-----------------------------------------------------------------------------
(***************************************************************************)
(* Settings in memory and in the table.  A request writes its values one   *)
(* by one and then changes memory: between the two its keys differ, and    *)
(* only the request itself may make them agree again.                      *)
(***************************************************************************)

\* A request will have saved or has saved a value of the key.
Saves(h, k) == handler[h].pc \in {"save", "apply"} /\ k \in KeysOf(handler[h].puts)

\* The values of a request that are in the table already.
Saved(h) ==
  {i \in DOMAIN handler[h].puts :
     handler[h].pc = "apply" \/ (handler[h].pc = "save" /\ i <= handler[h].saved)}

\* A value that a restart would load as it is.
ValueFits(k, v) ==
  IF k \in Switches THEN v \in {"0", "1"} ELSE v # "" \/ ConfigText(k) = "" \/ k[2] = "description"
FormFits(puts) ==
  /\ Len(puts) \in Nat /\ DOMAIN puts = 1 .. Len(puts)
  /\ \A i \in DOMAIN puts : puts[i].key \in Keys /\ ValueFits(puts[i].key, puts[i].value)
  /\ \A i, j \in DOMAIN puts : puts[i].key = puts[j].key => i = j

Matches(k) ==
  LET loaded == migrateStringSetting(rows, k) IN
  IF k \in Switches THEN (k \in mem.on) = (migrateBooleanSetting(rows, k) = "1")
  ELSE mem.text[k] = loaded \/ (k[2] = "description" /\ mem.text[k] = "")

KeyKept(k) ==
  /\ \A h, g \in Handlers : Saves(h, k) /\ Saves(g, k) => h = g
  /\ \A h \in Handlers : Saves(h, k) =>
       \A i \in Saved(h) : handler[h].puts[i].key = k => rows[k] = handler[h].puts[i].value
  /\ \/ \E h \in Handlers : Saves(h, k) /\ \E i \in Saved(h) : handler[h].puts[i].key = k
     \/ Matches(k)

FormsFit ==
  \A h \in Handlers :
    /\ handler[h].pc \in {"save", "apply"} => FormFits(handler[h].puts)
    /\ handler[h].pc = "save" => handler[h].saved \in 0 .. Len(handler[h].puts) - 1
KeysInv == DOMAIN rows = Keys /\ FormsFit /\ \A k \in Keys \ disturbed : KeyKept(k)

\* The sections of a blog, in the table and in memory.
RowsOf(b) == {row \in sectionRows : row.blog = b}
MemoryOf(b) == {row \in mem.sections : row.blog = b}
WillRead(h, b) == Reloading(h) /\ b \in handler[h].todo
HasRead(h, b) == handler[h].pc = "assign" /\ handler[h].blog = b

SectionsTyped ==
  /\ \A row \in sectionRows \cup mem.sections : row.blog \in Blogs
  /\ \A h \in Handlers :
       /\ handler[h].pc = "saveSection" => handler[h].row.blog \in Blogs
       /\ Reloading(h) => handler[h].todo \subseteq Blogs
       /\ handler[h].pc = "assign" =>
            handler[h].blog \in Blogs /\ \A row \in handler[h].read : row.blog = handler[h].blog

\* Who holds sections that have changed meanwhile is followed by one that reads them again.
BlogKept(b) ==
  /\ \/ MemoryOf(b) = RowsOf(b)
     \/ \E h \in Handlers : WillRead(h, b) \/ (HasRead(h, b) /\ handler[h].read = RowsOf(b))
  /\ \A h \in Handlers :
       HasRead(h, b) => handler[h].read = RowsOf(b) \/ \E g \in Handlers \ {h} : WillRead(g, b)

MemoryInv ==
  /\ DOMAIN handler = Handlers
  /\ KeysInv /\ SectionsTyped
  /\ TheSections \in disturbed \/ \A b \in Blogs : BlogKept(b)

LEMMA Rigid ==
  /\ Keys' = Keys /\ Switches' = Switches /\ Texts' = Texts
  /\ TheSections' = TheSections /\ TheSections \notin Keys
BY DEF Keys, Switches, Texts, BlogSwitches, Hides, Adds, Disables, Site, TheSections

LEMMA MemoryStepped ==
  ASSUME MemoryInv, NEW h \in Handlers, NEW next, Step(h, next)
  PROVE  /\ DOMAIN handler' = Handlers
         /\ handler'[h] = next
         /\ \A g \in Handlers \ {h} : handler'[g] = handler[g]
BY DEF MemoryInv, Step

\* A setting is loaded from its row and the configuration.
LEMMA SameMatches ==
  ASSUME NEW k, UNCHANGED cfg, rows'[k] = rows[k],
         k \in Switches => (k \in mem'.on <=> k \in mem.on), k \notin Switches => mem'.text[k] = mem.text[k]
  PROVE  Matches(k)' <=> Matches(k)
<1>1. /\ migrateStringSetting(rows, k)' = migrateStringSetting(rows, k)
      /\ migrateBooleanSetting(rows, k)' = migrateBooleanSetting(rows, k)
  BY DEF migrateStringSetting, migrateBooleanSetting, ConfigText, ConfigOn, Site
<1>2. CASE k \in Switches
  <2>1. (k \in mem.on)' <=> k \in mem.on
    BY <1>2
  <2> QED BY <1>1, <1>2, <2>1, Rigid DEF Matches
<1>3. CASE k \notin Switches
  <2>1. mem'.text[k] = mem.text[k]
    BY <1>3
  <2> QED BY <1>1, <1>3, <2>1, Rigid DEF Matches
<1> QED BY <1>2, <1>3

\* A step of a request that saves no values leaves all of them in order.
LEMMA KeysStep ==
  ASSUME MemoryInv, NEW h \in Handlers, NEW next, Step(h, next),
         UNCHANGED <<cfg, rows>>, mem'.on = mem.on, mem'.text = mem.text, disturbed \subseteq disturbed',
         handler[h].pc \notin {"save", "apply"}, next.pc \notin {"save", "apply"}
  PROVE  DOMAIN handler' = Handlers /\ KeysInv'
<1>1. DOMAIN handler' = Handlers
  BY MemoryStepped
<1>2. /\ \A g \in Handlers : handler'[g].pc \in {"save", "apply"} <=> handler[g].pc \in {"save", "apply"}
      /\ \A g \in Handlers : handler'[g].pc \in {"save", "apply"} => handler'[g] = handler[g]
  BY MemoryStepped
<1>3. FormsFit'
  <2>1. \A puts : FormFits(puts)' <=> FormFits(puts)
    BY Rigid DEF FormFits, ValueFits, ConfigText
  <2> QED BY <1>2, <2>1 DEF MemoryInv, KeysInv, FormsFit
<1>4. ASSUME NEW k \in Keys \ disturbed'
      PROVE  KeyKept(k)'
  <2>1. KeyKept(k)
    BY <1>4 DEF MemoryInv, KeysInv
  <2>2. Matches(k)' <=> Matches(k)
    BY SameMatches
  <2>3. \A g \in Handlers : Saves(g, k)' <=> Saves(g, k)
    BY <1>2 DEF Saves, KeysOf
  <2>4. \A g \in Handlers : Saves(g, k) => Saved(g)' = Saved(g) /\ handler'[g] = handler[g]
    BY <1>2 DEF Saves, Saved
  <2> QED BY <2>1, <2>2, <2>3, <2>4 DEF KeyKept
<1> QED BY <1>1, <1>3, <1>4, Rigid DEF MemoryInv, KeysInv

\* A step that neither changes sections nor reads them.
LEMMA BlogsStep ==
  ASSUME MemoryInv, NEW h \in Handlers, NEW next, Step(h, next),
         UNCHANGED sectionRows, mem'.sections = mem.sections, disturbed \subseteq disturbed',
         ~Reloading(h), next.pc \notin {"read", "assign"}, next.pc = "saveSection" => next.row.blog \in Blogs
  PROVE  SectionsTyped' /\ (TheSections \in disturbed \/ \A b \in Blogs : BlogKept(b))'
<1>1. /\ handler'[h] = next
      /\ \A g \in Handlers \ {h} : handler'[g] = handler[g]
  BY MemoryStepped
<1>2. SectionsTyped'
  BY <1>1 DEF MemoryInv, SectionsTyped, Reloading
<1>3. ASSUME NEW b \in Blogs, BlogKept(b)
      PROVE  BlogKept(b)'
  <2>1. RowsOf(b)' = RowsOf(b) /\ MemoryOf(b)' = MemoryOf(b)
    BY DEF RowsOf, MemoryOf
  <2>2. \A g \in Handlers : WillRead(g, b) => WillRead(g, b)'
    BY <1>1 DEF WillRead, Reloading
  <2>3. \A g \in Handlers : HasRead(g, b)' => HasRead(g, b)
    BY <1>1 DEF HasRead, Reloading
  <2>4. \A g \in Handlers : HasRead(g, b) => HasRead(g, b)' /\ handler'[g] = handler[g]
    BY <1>1 DEF HasRead, Reloading
  <2> QED BY <1>3, <2>1, <2>2, <2>3, <2>4 DEF BlogKept
<1>4. TheSections \in disturbed => TheSections' \in disturbed'
  BY Rigid
<1> QED BY <1>2, <1>3, <1>4 DEF MemoryInv

\* Steps that concern neither.
LEMMA MemoryStep ==
  ASSUME MemoryInv, NEW h \in Handlers, NEW next, Step(h, next),
         UNCHANGED <<cfg, rows, sectionRows, mem>>, disturbed \subseteq disturbed',
         handler[h].pc \notin {"save", "apply", "read", "assign"},
         next.pc \notin {"save", "apply", "read", "assign"}, next.pc = "saveSection" => next.row.blog \in Blogs
  PROVE  MemoryInv'
<1>1. DOMAIN handler' = Handlers /\ KeysInv'
  BY KeysStep
<1>2. SectionsTyped' /\ (TheSections \in disturbed \/ \A b \in Blogs : BlogKept(b))'
  BY BlogsStep DEF Reloading
<1> QED BY <1>1, <1>2 DEF MemoryInv

\* What the forms save is loaded as it is, but for a description that was emptied.
LEMMA FormsFitKeys ==
  ASSUME NEW puts \in Forms
  PROVE  FormFits(puts) /\ 0 < Len(puts)
<1>1. ASSUME NEW k \in Keys, NEW v, ValueFits(k, v), puts = <<Put(k, v)>>
      PROVE  FormFits(puts) /\ 0 < Len(puts)
  <2>1. Len(puts) = 1 /\ DOMAIN puts = {1} /\ puts[1].key = k /\ puts[1].value = v
    BY <1>1 DEF Put
  <2> QED BY <1>1, <2>1 DEF FormFits
<1>2. ASSUME NEW k \in Keys, NEW v, ValueFits(k, v), NEW l \in Keys, NEW w, ValueFits(l, w), k # l,
             puts = <<Put(k, v), Put(l, w)>>
      PROVE  FormFits(puts) /\ 0 < Len(puts)
  <2>1. /\ Len(puts) = 2 /\ DOMAIN puts = {1, 2}
        /\ puts[1].key = k /\ puts[1].value = v /\ puts[2].key = l /\ puts[2].value = w
    BY <1>2 DEF Put
  <2> QED BY <1>2, <2>1 DEF FormFits
<1>3. CASE puts \in settingsUpdateSwitch
  <2>1. PICK k \in Switches, v \in {"1", "0"} : puts = <<Put(k, v)>>
    BY <1>3 DEF settingsUpdateSwitch
  <2>2. k \in Keys /\ ValueFits(k, v)
    BY <2>1 DEF Keys, ValueFits
  <2> QED BY <1>1, <2>1, <2>2
<1>4. \A k \in Texts : k \in Keys /\ k \notin Switches
  BY DEF Keys, Texts, Switches, BlogSwitches, Hides, Adds, Disables, Site
<1>5. CASE puts \in settingsUpdateUser
  <2>1. puts = <<Put(<<Site, "nick">>, "edited"), Put(<<Site, "name">>, "edited")>>
    BY <1>5 DEF settingsUpdateUser
  <2>2. <<Site, "nick">> \in Texts /\ <<Site, "name">> \in Texts
    BY DEF Texts
  <2>3. ValueFits(<<Site, "nick">>, "edited") /\ ValueFits(<<Site, "name">>, "edited")
    BY <1>4, <2>2 DEF ValueFits
  <2> QED BY <1>2, <1>4, <2>1, <2>2, <2>3
<1>6. ASSUME NEW b \in Blogs, puts \in FormsOf(b)
      PROVE  FormFits(puts) /\ 0 < Len(puts)
  <2>1. \A name \in {"title", "description", "reactions", "defaultSection"} : <<b, name>> \in Texts
    BY DEF Texts
  <2>2. CASE puts \in settingsUpdateBlog(b)
    <3>1. PICK v : puts = <<Put(<<b, "title">>, "edited"), Put(<<b, "description">>, v)>>
      BY <2>2 DEF settingsUpdateBlog
    <3>2. <<b, "title">> \in Texts /\ <<b, "description">> \in Texts
      BY <2>1
    <3>3. ValueFits(<<b, "title">>, "edited") /\ ValueFits(<<b, "description">>, v)
      BY <1>4, <3>2 DEF ValueFits
    <3> QED BY <1>2, <1>4, <3>1, <3>2, <3>3
  <2>3. ASSUME NEW name \in {"reactions", "defaultSection"}, NEW v, puts = <<Put(<<b, name>>, v)>>
        PROVE  FormFits(puts) /\ 0 < Len(puts)
    <3>1. <<b, name>> \in Texts
      BY <2>1
    <3>2. ValueFits(<<b, name>>, v)
      BY <1>4, <3>1 DEF ValueFits, ConfigText
    <3> QED BY <1>1, <1>4, <2>3, <3>1, <3>2
  <2>4. CASE puts \in settingsUpdateReactions(b)
    BY <2>3, <2>4 DEF settingsUpdateReactions
  <2>5. CASE puts \in settingsUpdateDefaultSection(b)
    BY <2>3, <2>5 DEF settingsUpdateDefaultSection
  <2> QED BY <1>6, <2>2, <2>4, <2>5 DEF FormsOf
<1> QED BY <1>3, <1>5, <1>6, EditedAssumption DEF Forms

LEMMA SendKeeps ==
  ASSUME MemoryInv, NEW h \in Handlers, Send(h), UNCHANGED cfg
  PROVE  MemoryInv'
<1>1. PICK puts \in Forms : /\ Step(h, [pc |-> "save", puts |-> puts, saved |-> 0])
                            /\ disturbed' = disturbed \cup {k \in KeysOf(puts) : Busy(k)}
  BY DEF Send
<1> DEFINE next == [pc |-> "save", puts |-> puts, saved |-> 0]
<1>2. /\ handler[h].pc = "idle" /\ disturbed \subseteq disturbed'
      /\ UNCHANGED <<rows, sectionRows, mem>>
  BY <1>1 DEF Send, Idle
<1>3. next.pc = "save" /\ next.puts = puts /\ next.saved = 0
  OBVIOUS
<1>4. SectionsTyped' /\ (TheSections \in disturbed \/ \A b \in Blogs : BlogKept(b))'
  <2> HIDE DEF next
  <2> QED BY <1>1, <1>2, <1>3, BlogsStep DEF Reloading, next
<1>5. /\ DOMAIN handler' = Handlers
      /\ handler'[h] = next
      /\ \A g \in Handlers \ {h} : handler'[g] = handler[g]
  BY <1>1, MemoryStepped
<1> HIDE DEF next
<1>6. \A p : FormFits(p)' <=> FormFits(p)
  BY <1>2, Rigid DEF FormFits, ValueFits, ConfigText
<1>7. FormsFit'
  <2>1. FormFits(puts) /\ 0 \in 0 .. Len(puts) - 1
    BY FormsFitKeys DEF FormFits
  <2> QED BY <1>3, <1>5, <1>6, <2>1 DEF MemoryInv, KeysInv, FormsFit
<1>8. ASSUME NEW k \in Keys \ disturbed'
      PROVE  KeyKept(k)'
  <2>1. KeyKept(k)
    BY <1>2, <1>8 DEF MemoryInv, KeysInv
  <2>2. Matches(k)' <=> Matches(k)
    BY <1>2, SameMatches
  <2>3. \A g \in Handlers : Saves(g, k) => g # h /\ Saves(g, k)' /\ Saved(g)' = Saved(g) /\ handler'[g] = handler[g]
    BY <1>2, <1>5 DEF Saves, Saved, KeysOf
  <2>4. \A g \in Handlers : Saves(g, k)' => g = h \/ Saves(g, k)
    BY <1>5 DEF Saves, KeysOf
  <2>5. Saves(h, k)' => \A g \in Handlers : ~Saves(g, k)
    BY <1>1, <1>3, <1>5, <1>8 DEF Saves, Busy, KeysOf
  <2>6. Saved(h)' = {}
    <3>1. \A i \in DOMAIN puts : i \in Nat \ {0}
      BY FormsFitKeys DEF FormFits
    <3> QED BY <1>3, <1>5, <3>1 DEF Saved
  <2> QED BY <1>2, <2>1, <2>2, <2>3, <2>4, <2>5, <2>6 DEF KeyKept
<1> QED BY <1>2, <1>4, <1>5, <1>7, <1>8, Rigid DEF MemoryInv, KeysInv

LEMMA SaveKeeps ==
  ASSUME MemoryInv, NEW h \in Handlers, saveSettingValue(h), UNCHANGED cfg
  PROVE  MemoryInv'
<1> DEFINE puts == handler[h].puts
           n == handler[h].saved + 1
           key == puts[n].key
           next == IF n = Len(puts) THEN [pc |-> "apply", puts |-> puts]
                   ELSE [pc |-> "save", puts |-> puts, saved |-> n]
<1>1. /\ handler[h].pc = "save" /\ Step(h, next)
      /\ rows' = [rows EXCEPT ![key] = puts[n].value]
      /\ UNCHANGED <<sectionRows, mem, disturbed>>
  BY DEF saveSettingValue
<1>2. /\ FormFits(puts) /\ n \in DOMAIN puts /\ handler[h].saved \in Nat /\ n \in Nat
      /\ n = Len(puts) \/ n \in 0 .. Len(puts) - 1
  BY <1>1 DEF MemoryInv, KeysInv, FormsFit, FormFits
<1>3. /\ next.puts = puts
      /\ \/ next.pc = "save" /\ next.saved = n /\ n # Len(puts)
         \/ next.pc = "apply" /\ n = Len(puts)
  <2>1. CASE n = Len(puts)
    <3>1. next = [pc |-> "apply", puts |-> puts]
      BY <2>1
    <3> QED BY <2>1, <3>1
  <2>2. CASE n # Len(puts)
    <3>1. next = [pc |-> "save", puts |-> puts, saved |-> n]
      BY <2>2
    <3> HIDE DEF next, n
    <3>2. next.puts = puts /\ next.pc = "save" /\ next.saved = n
      BY <3>1
    <3> QED BY <2>2, <3>2
  <2> QED BY <2>1, <2>2
<1>4. /\ DOMAIN handler' = Handlers
      /\ handler'[h] = next
      /\ \A g \in Handlers \ {h} : handler'[g] = handler[g]
  BY <1>1, MemoryStepped
<1>5. SectionsTyped' /\ (TheSections \in disturbed \/ \A b \in Blogs : BlogKept(b))'
  BY <1>1, <1>3, BlogsStep DEF Reloading
<1> HIDE DEF next
<1>6. \A p : FormFits(p)' <=> FormFits(p)
  BY Rigid DEF FormFits, ValueFits, ConfigText
<1>7. FormsFit'
  BY <1>2, <1>3, <1>4, <1>6 DEF MemoryInv, KeysInv, FormsFit
<1>8. Saved(h)' = Saved(h) \cup {n} /\ Saved(h) \subseteq DOMAIN puts /\ n \notin Saved(h)
  <2>1. \A i \in DOMAIN puts : i \in Nat /\ (n = Len(puts) => i <= n)
    BY <1>2 DEF FormFits
  <2>2. \A i \in DOMAIN puts : i <= n <=> i <= handler[h].saved \/ i = n
    BY <1>2, <2>1
  <2> QED BY <1>1, <1>2, <1>3, <1>4, <2>1, <2>2 DEF Saved
<1>9. DOMAIN rows' = Keys /\ key \in Keys /\ rows'[key] = puts[n].value /\ \A k \in Keys \ {key} : rows'[k] = rows[k]
  BY <1>1, <1>2 DEF MemoryInv, KeysInv, FormFits
<1>10. ASSUME NEW k \in Keys \ disturbed'
       PROVE  KeyKept(k)'
  <2>1. KeyKept(k)
    BY <1>1, <1>10 DEF MemoryInv, KeysInv
  <2>2. \A g \in Handlers : Saves(g, k)' <=> Saves(g, k)
    BY <1>1, <1>3, <1>4 DEF Saves, KeysOf
  <2>3. \A g \in Handlers \ {h} : Saved(g)' = Saved(g)
    BY <1>4 DEF Saved
  <2>4. CASE k = key
    <3>1. Saves(h, k)
      BY <1>1, <1>2, <2>4 DEF Saves, KeysOf
    <3>2. \A g \in Handlers : Saves(g, k)' => g = h
      BY <2>1, <2>2, <3>1 DEF KeyKept
    <3>3. \A i \in Saved(h)' : puts[i].key = k => i = n
      BY <1>2, <1>8, <2>4 DEF FormFits
    <3>4. Saves(h, k)' /\ \A g \in Handlers : Saves(g, k)' => g = h
      BY <2>2, <3>1, <3>2
    <3>5. n \in Saved(h)' /\ rows'[k] = puts[n].value /\ puts[n].key = k
      BY <1>8, <1>9, <2>4
    <3> QED BY <1>3, <1>4, <3>3, <3>4, <3>5 DEF KeyKept
  <2>5. CASE k # key
    <3>1. rows'[k] = rows[k]
      BY <1>9, <2>5
    <3>2. Matches(k)' <=> Matches(k)
      BY <1>1, <3>1, SameMatches
    <3> QED BY <1>3, <1>4, <1>8, <2>1, <2>2, <2>3, <2>5, <3>1, <3>2 DEF KeyKept
  <2> QED BY <2>4, <2>5
<1> QED BY <1>1, <1>4, <1>5, <1>7, <1>9, <1>10, Rigid DEF MemoryInv, KeysInv

LEMMA SaveFailsKeeps ==
  ASSUME MemoryInv, NEW h \in Handlers, SaveFails(h), UNCHANGED cfg
  PROVE  MemoryInv'
<1> DEFINE puts == handler[h].puts
<1>1. /\ handler[h].pc = "save" /\ Step(h, Idle) /\ Idle.pc = "idle"
      /\ disturbed' = disturbed \cup {puts[i].key : i \in 1 .. handler[h].saved}
      /\ UNCHANGED <<rows, sectionRows, mem>>
  BY DEF SaveFails, Idle
<1>2. /\ DOMAIN handler' = Handlers
      /\ handler'[h] = Idle
      /\ \A g \in Handlers \ {h} : handler'[g] = handler[g]
  BY <1>1, MemoryStepped
<1>3. SectionsTyped' /\ (TheSections \in disturbed \/ \A b \in Blogs : BlogKept(b))'
  BY <1>1, BlogsStep DEF Reloading
<1>4. \A p : FormFits(p)' <=> FormFits(p)
  BY Rigid DEF FormFits, ValueFits, ConfigText
<1>5. FormsFit'
  BY <1>1, <1>2, <1>4 DEF MemoryInv, KeysInv, FormsFit
<1>6. Saved(h) \subseteq 1 .. handler[h].saved
  BY <1>1 DEF MemoryInv, KeysInv, FormsFit, FormFits, Saved
<1>7. ASSUME NEW k \in Keys \ disturbed'
      PROVE  KeyKept(k)'
  <2>1. KeyKept(k)
    BY <1>1, <1>7 DEF MemoryInv, KeysInv
  <2>2. Matches(k)' <=> Matches(k)
    BY <1>1, SameMatches
  <2>3. \A i \in Saved(h) : puts[i].key # k
    BY <1>1, <1>6, <1>7
  <2>4. \A g \in Handlers : Saves(g, k)' <=> g # h /\ Saves(g, k)
    BY <1>1, <1>2 DEF Saves, KeysOf
  <2>5. \A g \in Handlers \ {h} : Saved(g)' = Saved(g)
    BY <1>2 DEF Saved
  <2> QED BY <1>1, <1>2, <2>1, <2>2, <2>3, <2>4, <2>5 DEF KeyKept
<1> QED BY <1>1, <1>2, <1>3, <1>5, <1>7, Rigid DEF MemoryInv, KeysInv

\* Memory gets the values that are in the table.
LEMMA ApplyKeeps ==
  ASSUME MemoryInv, NEW h \in Handlers, Apply(h), UNCHANGED cfg
  PROVE  MemoryInv'
<1> DEFINE puts == handler[h].puts
           next == Afterwards(puts[1].key)
           Value(k) == CHOOSE i \in DOMAIN puts : puts[i].key = k
<1>1. /\ handler[h].pc = "apply" /\ Step(h, next)
      /\ UNCHANGED <<rows, sectionRows, disturbed>>
      /\ mem'.sections = mem.sections
  BY DEF Apply
<1>2. next.pc \in {"idle", "build", "purge"}
  BY DEF Afterwards, Idle
<1>3. /\ \A k \in Texts : mem'.text[k] = IF k \in KeysOf(puts) THEN puts[Value(k)].value ELSE mem.text[k]
      /\ \A k \in Switches : k \in mem'.on <=> IF k \in KeysOf(puts) THEN puts[Value(k)].value = "1" ELSE k \in mem.on
  BY DEF Apply
<1>4. \A k \in KeysOf(puts) : Value(k) \in DOMAIN puts /\ puts[Value(k)].key = k
  BY DEF KeysOf
<1> HIDE DEF Value, next
<1>5. /\ DOMAIN handler' = Handlers
      /\ handler'[h] = next
      /\ \A g \in Handlers \ {h} : handler'[g] = handler[g]
  BY <1>1, MemoryStepped
<1>6. SectionsTyped' /\ (TheSections \in disturbed \/ \A b \in Blogs : BlogKept(b))'
  BY <1>1, <1>2, BlogsStep DEF Reloading
<1>7. \A p : FormFits(p)' <=> FormFits(p)
  BY Rigid DEF FormFits, ValueFits, ConfigText
<1>8. FormsFit'
  BY <1>2, <1>5, <1>7 DEF MemoryInv, KeysInv, FormsFit
<1>9. ASSUME NEW k \in Keys \ disturbed'
      PROVE  KeyKept(k)'
  <2>1. KeyKept(k)
    BY <1>1, <1>9 DEF MemoryInv, KeysInv
  <2>2. \A g \in Handlers : Saves(g, k)' <=> g # h /\ Saves(g, k)
    BY <1>2, <1>5 DEF Saves, KeysOf
  <2>3. \A g \in Handlers \ {h} : Saved(g)' = Saved(g)
    BY <1>5 DEF Saved
  <2>4. CASE k \in KeysOf(puts)
    <3>1. Saves(h, k) /\ Value(k) \in Saved(h)
      BY <1>1, <1>4, <2>4 DEF Saves, Saved
    <3>2. rows[k] = puts[Value(k)].value
      BY <1>4, <2>1, <2>4, <3>1 DEF KeyKept
    <3>3. ValueFits(k, rows[k])
      BY <1>1, <1>4, <2>4, <3>2 DEF MemoryInv, KeysInv, FormsFit, FormFits
    <3>4. Matches(k)'
      <4>1. CASE k \in Switches
        <5>1. rows[k] \in {"0", "1"} /\ (k \in mem'.on <=> rows[k] = "1")
          BY <1>3, <2>4, <3>2, <3>3, <4>1 DEF ValueFits
        <5>2. rows[k] # "" /\ rows'[k] = rows[k]
          BY <1>1, <5>1
        <5>3. migrateBooleanSetting(rows, k)' = rows[k]
          BY <5>2 DEF migrateBooleanSetting
        <5> QED BY <4>1, <5>1, <5>3, Rigid DEF Matches
      <4>2. CASE k \notin Switches
        <5>1. k \in Texts /\ mem'.text[k] = rows[k] /\ rows' = rows
          BY <1>1, <1>3, <1>9, <2>4, <3>2, <4>2 DEF Keys
        <5>2. rows[k] # "" \/ ConfigText(k) = "" \/ k[2] = "description"
          BY <3>3, <4>2 DEF ValueFits
        <5> QED BY <4>2, <5>1, <5>2, Rigid DEF Matches, migrateStringSetting, ConfigText
      <4> QED BY <4>1, <4>2
    <3>5. \A g \in Handlers : ~Saves(g, k)'
      BY <2>1, <2>2, <3>1 DEF KeyKept
    <3> QED BY <3>4, <3>5 DEF KeyKept
  <2>5. CASE k \notin KeysOf(puts)
    <3>1. Matches(k)' <=> Matches(k)
      <4>1. k \in Switches \/ k \in Texts
        BY <1>9 DEF Keys
      <4> QED BY <1>1, <1>3, <2>5, <4>1, SameMatches
    <3>2. ~Saves(h, k)
      BY <2>5 DEF Saves
    <3> QED BY <1>1, <1>5, <2>1, <2>2, <2>3, <3>1, <3>2 DEF KeyKept
  <2> QED BY <2>4, <2>5
<1> QED BY <1>1, <1>5, <1>6, <1>8, <1>9, Rigid DEF MemoryInv, KeysInv

LEMMA SectionFormKeeps ==
  ASSUME MemoryInv, NEW h \in Handlers, NEW b \in Edited, UNCHANGED cfg,
         settingsUpdateSection(h, b) \/ settingsDeleteSection(h, b)
  PROVE  MemoryInv'
<1>1. PICK next : /\ Step(h, next)
                  /\ next.pc \in {"saveSection", "deleteSection", "idle"}
                  /\ next.pc = "saveSection" => next.row.blog \in Blogs
  <2>1. CASE settingsUpdateSection(h, b)
    <3>1. PICK s, hide : Step(h, [pc |-> "saveSection", row |-> SectionRow(b, s, hide)])
      BY <2>1 DEF settingsUpdateSection
    <3> QED BY <3>1, EditedAssumption DEF SectionRow
  <2>2. CASE settingsDeleteSection(h, b)
    <3>1. PICK s : Step(h, IF <<b, s>> \in used THEN Idle ELSE [pc |-> "deleteSection", blog |-> b, name |-> s])
      BY <2>2 DEF settingsDeleteSection
    <3>2. CASE <<b, s>> \in used
      BY <3>1, <3>2 DEF Idle
    <3>3. CASE <<b, s>> \notin used
      <4>1. Step(h, [pc |-> "deleteSection", blog |-> b, name |-> s])
        BY <3>1, <3>3
      <4> QED BY <4>1
    <3> QED BY <3>2, <3>3
  <2> QED BY <2>1, <2>2
<1>2. handler[h].pc = "idle" /\ UNCHANGED <<rows, mem, disturbed, sectionRows>>
  BY DEF settingsUpdateSection, settingsDeleteSection, Idle
<1> QED BY <1>1, <1>2, MemoryStep

\* Whoever changes a section reads all of them again.
LEMMA SectionRowKeeps ==
  ASSUME MemoryInv, NEW h \in Handlers, saveSection(h) \/ deleteSection(h), UNCHANGED cfg
  PROVE  MemoryInv'
<1>1. /\ Step(h, Reload) /\ handler[h].pc \in {"saveSection", "deleteSection"}
      /\ UNCHANGED <<rows, mem, disturbed>>
      /\ \A row \in sectionRows' : row.blog \in Blogs
  <2>1. CASE saveSection(h)
    BY <2>1 DEF saveSection, MemoryInv, SectionsTyped
  <2>2. CASE deleteSection(h)
    BY <2>2 DEF deleteSection, MemoryInv, SectionsTyped
  <2> QED BY <2>1, <2>2
<1>2. Reload.pc = "read" /\ Reload.todo = Blogs
  BY DEF Reload
<1>3. DOMAIN handler' = Handlers /\ KeysInv'
  BY <1>1, <1>2, KeysStep
<1>4. /\ handler'[h] = Reload
      /\ \A g \in Handlers \ {h} : handler'[g] = handler[g]
  BY <1>1, MemoryStepped
<1>5. SectionsTyped'
  BY <1>1, <1>2, <1>4 DEF MemoryInv, SectionsTyped, Reloading
<1>6. ASSUME NEW b \in Blogs
      PROVE  BlogKept(b)'
  <2>1. WillRead(h, b)' /\ ~HasRead(h, b)'
    BY <1>2, <1>4 DEF WillRead, HasRead, Reloading
  <2> QED BY <2>1 DEF BlogKept
<1> QED BY <1>3, <1>5, <1>6 DEF MemoryInv

\* What has been read agrees with the table, unless another request will read again.
LEMMA GetSectionsKeeps ==
  ASSUME MemoryInv, NEW h \in Handlers, getSections(h), UNCHANGED cfg
  PROVE  MemoryInv'
<1>1. PICK b \in handler[h].todo :
        Step(h, [pc |-> "assign", todo |-> handler[h].todo \ {b}, blog |-> b, read |-> RowsOf(b)])
  BY DEF getSections, RowsOf
<1> DEFINE next == [pc |-> "assign", todo |-> handler[h].todo \ {b}, blog |-> b, read |-> RowsOf(b)]
<1>2. /\ handler[h].pc = "read" /\ disturbed \subseteq disturbed'
      /\ UNCHANGED <<rows, sectionRows, mem>>
  BY DEF getSections
<1>3. next.pc = "assign" /\ next.todo = handler[h].todo \ {b} /\ next.blog = b /\ next.read = RowsOf(b)
  OBVIOUS
<1> HIDE DEF next
<1>4. DOMAIN handler' = Handlers /\ KeysInv'
  BY <1>1, <1>2, <1>3, KeysStep DEF next
<1>5. /\ handler'[h] = next
      /\ \A g \in Handlers \ {h} : handler'[g] = handler[g]
  BY <1>1, MemoryStepped DEF next
<1>6. SectionsTyped'
  BY <1>1, <1>2, <1>3, <1>5 DEF MemoryInv, SectionsTyped, Reloading, RowsOf
<1>7. CASE \E g \in Handlers \ {h} : Reloading(g)
  <2>1. TheSections \in disturbed'
    BY <1>7 DEF getSections
  <2> QED BY <1>4, <1>6, <2>1, Rigid DEF MemoryInv
<1>8. CASE \A g \in Handlers \ {h} : ~Reloading(g)
  <2>1. ASSUME NEW c \in Blogs, BlogKept(c)
        PROVE  BlogKept(c)'
    <3>1. RowsOf(c)' = RowsOf(c) /\ MemoryOf(c)' = MemoryOf(c)
      BY <1>2 DEF RowsOf, MemoryOf
    <3>2. \A g \in Handlers \ {h} : ~WillRead(g, c) /\ ~HasRead(g, c) /\ ~HasRead(g, c)'
      BY <1>5, <1>8 DEF WillRead, HasRead, Reloading
    <3>3. CASE c = b
      <4>1. HasRead(h, c)' /\ handler'[h].read = RowsOf(c)
        BY <1>3, <1>5, <3>3 DEF HasRead
      <4> QED BY <3>1, <3>2, <4>1 DEF BlogKept
    <3>4. CASE c # b
      <4>1. ~HasRead(h, c)' /\ (WillRead(h, c) => WillRead(h, c)') /\ ~HasRead(h, c)
        BY <1>2, <1>3, <1>5, <3>4 DEF HasRead, WillRead, Reloading
      <4> QED BY <2>1, <3>1, <3>2, <4>1 DEF BlogKept
    <3> QED BY <3>3, <3>4
  <2> QED BY <1>2, <1>4, <1>6, <2>1, Rigid DEF MemoryInv
<1> QED BY <1>7, <1>8

LEMMA LoadSectionsKeeps ==
  ASSUME MemoryInv, NEW h \in Handlers, loadSections(h), UNCHANGED cfg
  PROVE  MemoryInv'
<1> DEFINE op == handler[h]
           next == IF op.todo = {} THEN [pc |-> "build", purge |-> TRUE] ELSE [pc |-> "read", todo |-> op.todo]
<1>1. /\ op.pc = "assign" /\ Step(h, next)
      /\ mem'.on = mem.on /\ mem'.text = mem.text
      /\ mem'.sections = {row \in mem.sections : row.blog # op.blog} \cup op.read
      /\ UNCHANGED <<rows, sectionRows, disturbed>>
  BY DEF loadSections
<1>2. next.pc \in {"build", "read"} /\ (op.todo # {} => next.pc = "read" /\ next.todo = op.todo)
      /\ (next.pc = "read" => next.todo = op.todo)
  <2>1. CASE op.todo = {}
    <3>1. next = [pc |-> "build", purge |-> TRUE]
      BY <2>1
    <3> HIDE DEF next, op
    <3> QED BY <2>1, <3>1
  <2>2. CASE op.todo # {}
    <3>1. next = [pc |-> "read", todo |-> op.todo]
      BY <2>2
    <3> HIDE DEF next
    <3> QED BY <3>1
  <2> QED BY <2>1, <2>2
<1> HIDE DEF next
<1>3. DOMAIN handler' = Handlers /\ KeysInv'
  BY <1>1, <1>2, KeysStep
<1>4. /\ handler'[h] = next
      /\ \A g \in Handlers \ {h} : handler'[g] = handler[g]
  BY <1>1, MemoryStepped
<1>5. /\ op.blog \in Blogs /\ op.todo \subseteq Blogs
      /\ \A row \in op.read : row.blog = op.blog
  BY <1>1 DEF MemoryInv, SectionsTyped, Reloading
<1>6. SectionsTyped'
  BY <1>1, <1>2, <1>4, <1>5 DEF MemoryInv, SectionsTyped, Reloading
<1>7. ASSUME NEW b \in Blogs, BlogKept(b)
      PROVE  BlogKept(b)'
  <2>1. RowsOf(b)' = RowsOf(b)
    BY <1>1 DEF RowsOf
  <2>2. \A g \in Handlers : WillRead(g, b) => WillRead(g, b)'
    BY <1>1, <1>2, <1>4 DEF WillRead, Reloading
  <2>3. \A g \in Handlers : HasRead(g, b)' <=> g # h /\ HasRead(g, b)
    BY <1>2, <1>4 DEF HasRead
  <2>4. CASE b = op.blog
    <3>1. MemoryOf(b)' = op.read
      BY <1>1, <1>5, <2>4 DEF MemoryOf
    <3>2. HasRead(h, b)
      BY <1>1, <2>4 DEF HasRead
    <3> QED BY <1>4, <1>7, <2>1, <2>2, <2>3, <3>1, <3>2 DEF BlogKept
  <2>5. CASE b # op.blog
    <3>1. MemoryOf(b)' = MemoryOf(b)
      BY <1>1, <1>5, <2>5 DEF MemoryOf
    <3>2. ~HasRead(h, b)
      BY <2>5 DEF HasRead
    <3> QED BY <1>4, <1>7, <2>1, <2>2, <2>3, <3>1, <3>2 DEF BlogKept
  <2> QED BY <2>4, <2>5
<1> QED BY <1>1, <1>3, <1>6, <1>7, Rigid DEF MemoryInv

LEMMA SectionFailsKeeps ==
  ASSUME MemoryInv, NEW h \in Handlers, SectionFails(h), UNCHANGED cfg
  PROVE  MemoryInv'
<1>1. /\ Step(h, Idle) /\ Idle.pc = "idle" /\ disturbed \subseteq disturbed'
      /\ handler[h].pc \in {"saveSection", "deleteSection", "read"}
      /\ UNCHANGED <<rows, sectionRows, mem>>
  BY DEF SectionFails, Idle
<1>2. CASE handler[h].pc # "read"
  BY <1>1, <1>2, MemoryStep
<1>3. CASE handler[h].pc = "read"
  <2>1. TheSections \in disturbed'
    BY <1>3 DEF SectionFails
  <2>2. DOMAIN handler' = Handlers /\ KeysInv'
    BY <1>1, KeysStep
  <2>3. SectionsTyped'
    BY <1>1, MemoryStepped DEF MemoryInv, SectionsTyped, Reloading
  <2> QED BY <2>1, <2>2, <2>3, Rigid DEF MemoryInv
<1> QED BY <1>2, <1>3

\* The router, the cache and their request.
LEMMA RouterKeeps ==
  ASSUME MemoryInv, NEW h \in Handlers, UNCHANGED cfg,
         buildRouter(h) \/ reloadRouter(h) \/ serveReloadRouter(h) \/ purgeCache(h)
  PROVE  MemoryInv'
<1>1. PICK next : Step(h, next) /\ next.pc \in {"install", "purge", "idle", "build"}
  <2>1. CASE buildRouter(h)
    <3>1. Step(h, [pc |-> "install", router |-> mem, purge |-> handler[h].purge])
      BY <2>1 DEF buildRouter
    <3> QED BY <3>1
  <2>2. CASE reloadRouter(h)
    BY <2>2 DEF reloadRouter, Idle
  <2>3. CASE serveReloadRouter(h)
    BY <2>3 DEF serveReloadRouter
  <2>4. CASE purgeCache(h)
    BY <2>4 DEF purgeCache, Idle
  <2> QED BY <2>1, <2>2, <2>3, <2>4
<1>2. /\ handler[h].pc \in {"install", "purge", "idle", "build"} /\ disturbed \subseteq disturbed'
      /\ UNCHANGED <<rows, sectionRows, mem>>
  BY DEF buildRouter, reloadRouter, serveReloadRouter, purgeCache, Idle
<1> QED BY <1>1, <1>2, MemoryStep

\* Visits, posts and the editor.
LEMMA OthersKeep ==
  ASSUME MemoryInv, UNCHANGED <<cfg, rows, sectionRows, mem, handler, disturbed>>
  PROVE  MemoryInv'
<1>1. \A k : Matches(k)' <=> Matches(k)
  BY SameMatches
<1>2. \A p : FormFits(p)' <=> FormFits(p)
  BY Rigid DEF FormFits, ValueFits, ConfigText
<1>3. KeysInv'
  BY <1>1, <1>2, Rigid DEF MemoryInv, KeysInv, KeyKept, FormsFit, Saves, Saved, KeysOf
<1>4. SectionsTyped' /\ (TheSections \in disturbed \/ \A b \in Blogs : BlogKept(b))'
  BY Rigid DEF MemoryInv, SectionsTyped, BlogKept, RowsOf, MemoryOf, WillRead, HasRead, Reloading
<1> QED BY <1>3, <1>4 DEF MemoryInv

\* A start writes the values it finds and keeps them in memory.
Started ==
  /\ \E r, default : rows = Migrated(r, default)
  /\ mem = Loaded(rows, sectionRows)
  /\ handler = [h \in Handlers |-> Idle]
  /\ \A row \in sectionRows : row.blog \in Blogs

LEMMA StartKeeps == Started => MemoryInv
<1> SUFFICES ASSUME Started PROVE MemoryInv
  OBVIOUS
<1> PICK r, default : rows = Migrated(r, default)
  BY DEF Started
<1> USE DEF Started
<1>1. \A h \in Handlers : handler[h].pc = "idle"
  BY DEF Idle
<1>2. ASSUME NEW k \in Keys
      PROVE  Matches(k)
  <2>1. CASE k \in Switches
    <3>1. k[2] # "defaultSection"
      BY <2>1 DEF Switches, BlogSwitches, Hides, Adds, Disables
    <3>2. rows[k] = migrateBooleanSetting(r, k)
      BY <1>2, <2>1, <3>1 DEF Migrated
    <3>3. migrateBooleanSetting(rows, k) = rows[k]
      BY <3>2 DEF migrateBooleanSetting
    <3>4. k \in mem.on <=> rows[k] = "1"
      BY <2>1 DEF Loaded
    <3> QED BY <2>1, <3>3, <3>4 DEF Matches
  <2>2. CASE k \notin Switches
    <3>1. k \in Texts /\ mem.text[k] = rows[k]
      BY <1>2, <2>2 DEF Keys, Loaded
    <3>2. CASE k[2] = "defaultSection"
      BY <2>2, <3>1, <3>2 DEF Matches, migrateStringSetting, ConfigText
    <3>3. CASE k[2] # "defaultSection"
      <4>1. rows[k] = migrateStringSetting(r, k)
        BY <2>2, <3>3 DEF Migrated
      <4> QED BY <2>2, <3>1, <4>1 DEF Matches, migrateStringSetting
    <3> QED BY <3>2, <3>3
  <2> QED BY <2>1, <2>2
<1>3. KeysInv
  BY <1>1, <1>2 DEF KeysInv, KeyKept, FormsFit, Saves, Migrated
<1>4. mem.sections = sectionRows
  BY DEF Loaded
<1>5. SectionsTyped /\ \A b \in Blogs : BlogKept(b)
  BY <1>1, <1>4 DEF SectionsTyped, BlogKept, RowsOf, MemoryOf, HasRead, Reloading
<1> QED BY <1>3, <1>5 DEF MemoryInv

LEMMA SectionsOfBlogs ==
  ASSUME NEW secs, \A row \in secs : row.blog \in Blogs
  PROVE  \A row \in createDefaultSections(secs) : row.blog \in Blogs
BY DEF createDefaultSections, SectionRow

LEMMA MemoryInitHolds == Init => MemoryInv
<1> SUFFICES ASSUME Init PROVE MemoryInv
  OBVIOUS
<1>1. \A row \in ConfigSections : row.blog \in Blogs
  BY DEF ConfigSections, SectionRow
<1>2. \A row \in sectionRows : row.blog \in Blogs
  BY <1>1, SectionsOfBlogs DEF Init, SettingsInit
<1>3. rows = Migrated([k \in Keys |-> ""], [b \in Blogs |-> "posts"])
  BY DEF Init, SettingsInit
<1>4. Started
  BY <1>2, <1>3 DEF Init, SettingsInit, Started
<1> QED BY <1>4, StartKeeps

LEMMA RestartKeeps ==
  ASSUME MemoryInv, Restart, UNCHANGED cfg
  PROVE  MemoryInv'
<1>1. PICK default : /\ sectionRows' = createDefaultSections(sectionRows)
                     /\ rows' = Migrated(rows, default)
                     /\ mem' = Loaded(rows', sectionRows')
                     /\ handler' = [h \in Handlers |-> Idle]
  BY DEF Restart, initConfig
<1>2. \A row \in sectionRows' : row.blog \in Blogs
  BY <1>1, SectionsOfBlogs DEF MemoryInv, SectionsTyped
<1>3. \A r : Migrated(r, default)' = Migrated(r, default)
  BY Rigid DEF Migrated, migrateStringSetting, migrateBooleanSetting, ConfigText, ConfigOn, Site
<1>4. (\E r, d : rows = Migrated(r, d))'
  BY <1>1, <1>3
<1>5. Started'
  BY <1>1, <1>2, <1>4 DEF Started, Loaded, Texts, Switches, BlogSwitches, Hides, Adds, Disables, Site, Idle
<1> QED BY <1>5, StartKeeps, PTL

LEMMA MemoryNextHolds ==
  ASSUME MemoryInv, [Next]_<<cfg, settingVars, sectionVars, editorVars>>
  PROVE  MemoryInv'
<1>1. CASE UNCHANGED <<settingVars, sectionVars, cfg>>
  BY <1>1, OthersKeep DEF settingVars
<1>2. CASE SettingsNext /\ UNCHANGED cfg
  <2>1. ASSUME Render \/ saveCache
        PROVE  MemoryInv'
    BY <1>2, <2>1, OthersKeep DEF Render, saveCache
  <2>2. ASSUME NEW b, NEW s, CreatePost(b, s)
        PROVE  MemoryInv'
    BY <1>2, <2>2, OthersKeep DEF CreatePost
  <2> QED BY <1>2, <2>1, <2>2, SendKeeps, SaveKeeps, SaveFailsKeeps, ApplyKeeps, SectionFormKeeps, SectionRowKeeps,
      GetSectionsKeeps, LoadSectionsKeeps, SectionFailsKeeps, RouterKeeps, RestartKeeps DEF SettingsNext
<1> QED BY <1>1, <1>2 DEF Next

LEMMA MemoryInvariance == Spec => []MemoryInv
BY MemoryInitHolds, MemoryNextHolds, PTL DEF Spec

\* At rest a restart would change nothing in memory, whatever forms have overlapped, but for
\* what was saved by overlapping or half failed requests and a description that was emptied.
THEOREM MemoryFollowsTheTables == Spec => []MemoryIsStored
<1>1. ASSUME MemoryInv, Quiet
      PROVE  /\ \A k \in Keys \ disturbed : Matches(k)
             /\ TheSections \notin disturbed => mem.sections = sectionRows
  <2>1. \A h \in Handlers : handler[h].pc = "idle"
    BY <1>1 DEF Quiet, Idle
  <2>2. \A k \in Keys \ disturbed : Matches(k)
    BY <1>1, <2>1 DEF MemoryInv, KeysInv, KeyKept, Saves
  <2>3. ASSUME TheSections \notin disturbed
        PROVE  mem.sections = sectionRows
    <3>1. \A b \in Blogs : MemoryOf(b) = RowsOf(b)
      BY <1>1, <2>1, <2>3 DEF MemoryInv, BlogKept, WillRead, HasRead, Reloading
    <3>2. \A row : row \in mem.sections <=> row \in sectionRows
      BY <1>1, <3>1 DEF MemoryInv, SectionsTyped, MemoryOf, RowsOf
    <3> QED BY <3>2
  <2> QED BY <2>2, <2>3
<1>2. MemoryInv => MemoryIsStored
  BY <1>1 DEF MemoryIsStored, Matches
<1> QED BY <1>2, MemoryInvariance, PTL

-----------------------------------------------------------------------------
(***************************************************************************)
(* Ends of paths.  Whether two routes or views can have one path is seen   *)
(* from the last word of it.                                               *)
(***************************************************************************)
IsPath(p) == \E S : p \in Seq(S)
\* The last word of the path is in S.
EndsIn(p, S) == IsPath(p) /\ p # <<>> /\ p[Len(p)] \in S

LEMMA JoinedEnd ==
  ASSUME NEW p, NEW q, IsPath(p), IsPath(q)
  PROVE  IsPath(p \o q) /\ \A S : EndsIn(q, S) => EndsIn(p \o q, S)
<1>1. PICK P : p \in Seq(P)
  BY DEF IsPath
<1>2. PICK Q : q \in Seq(Q)
  BY DEF IsPath
<1>3. p \in Seq(P \cup Q) /\ q \in Seq(P \cup Q)
  BY <1>1, <1>2
<1>4. p \o q \in Seq(P \cup Q) /\ Len(p \o q) = Len(p) + Len(q)
  BY <1>3
<1>5. ASSUME q # <<>>
      PROVE  p \o q # <<>> /\ (p \o q)[Len(p) + Len(q)] = q[Len(q)]
  <2>1. Len(q) \in Nat \ {0} /\ Len(p) \in Nat
    BY <1>3, <1>5
  <2> QED BY <1>3, <2>1
<1> QED BY <1>4, <1>5 DEF EndsIn, IsPath

LEMMA RelativeEnd ==
  ASSUME NEW b \in Blogs, NEW t, IsPath(t)
  PROVE  IsPath(getRelativePath(b, t)) /\ \A S : EndsIn(t, S) => EndsIn(getRelativePath(b, t), S)
<1>1. IsPath(Prefix[b])
  BY PrefixAssumption DEF IsPath
<1> QED BY <1>1, JoinedEnd DEF getRelativePath

LEMMA AppendEnd ==
  ASSUME NEW p, NEW w, IsPath(p)
  PROVE  EndsIn(Append(p, w), {w}) /\ IsPath(Append(p, w))
<1>1. PICK S : p \in Seq(S)
  BY DEF IsPath
<1>2. p \in Seq(S \cup {w})
  BY <1>1
<1> QED BY <1>2 DEF EndsIn, IsPath

LEMMA ShortPaths ==
  /\ IsPath(<<>>)
  /\ \A u : EndsIn(<<u>>, {u}) 
  /\ \A u, v : EndsIn(<<u, v>>, {v}) 
  /\ \A u, v, w : EndsIn(<<u, v, w>>, {w}) 
  /\ \A t, u, v, w : EndsIn(<<t, u, v, w>>, {w}) 
<1>1. /\ IsPath(<<>>)
  BY DEF IsPath
<1>2. ASSUME NEW u PROVE EndsIn(<<u>>, {u}) 
  <2>1. <<u>> \in Seq({u})
    OBVIOUS
  <2> QED BY <2>1 DEF IsPath, EndsIn
<1>3. ASSUME NEW u, NEW v PROVE EndsIn(<<u, v>>, {v}) 
  <2>1. <<u, v>> \in Seq({u, v})
    OBVIOUS
  <2> QED BY <2>1 DEF IsPath, EndsIn
<1>4. ASSUME NEW u, NEW v, NEW w PROVE EndsIn(<<u, v, w>>, {w}) 
  <2>1. <<u, v, w>> \in Seq({u, v, w})
    OBVIOUS
  <2> QED BY <2>1 DEF IsPath, EndsIn
<1>5. ASSUME NEW t, NEW u, NEW v, NEW w PROVE EndsIn(<<t, u, v, w>>, {w}) 
  <2>1. <<t, u, v, w>> \in Seq({t, u, v, w})
    OBVIOUS
  <2> QED BY <2>1 DEF IsPath, EndsIn
<1> QED BY <1>1, <1>2, <1>3, <1>4, <1>5

LEMMA PagedEnd ==
  ASSUME NEW p, IsPath(p)
  PROVE  EndsIn(Paged(p), {"{page}"})
<1>1. EndsIn(<<"page", "{page}">>, {"{page}"})
  BY ShortPaths
<1> QED BY <1>1, JoinedEnd DEF Paged, EndsIn

LEMMA Appending ==
  /\ \A v, w : Append(<<v>>, w) = <<v, w>>
  /\ \A u, v, w : Append(<<u, v>>, w) = <<u, v, w>>
<1>1. ASSUME NEW v, NEW w
      PROVE  Append(<<v>>, w) = <<v, w>>
  <2> DEFINE a == Append(<<v>>, w)
             b == <<v, w>>
  <2>1. <<v>> \in Seq({v, w})
    OBVIOUS
  <2>2. /\ a \in Seq({v, w}) /\ Len(a) = 2 /\ a[1] = v /\ a[2] = w
        /\ b \in Seq({v, w}) /\ Len(b) = 2 /\ b[1] = v /\ b[2] = w
    BY <2>1
  <2> HIDE DEF a, b
  <2>3. \A i \in 1 .. Len(a) : a[i] = b[i]
    BY <2>2
  <2>4. a = b
    BY <2>2, <2>3, SeqEqual
  <2> QED BY <2>4 DEF a, b
<1>2. ASSUME NEW u, NEW v, NEW w
      PROVE  Append(<<u, v>>, w) = <<u, v, w>>
  <2> DEFINE a == Append(<<u, v>>, w)
             b == <<u, v, w>>
  <2>1. <<u, v>> \in Seq({u, v, w})
    OBVIOUS
  <2>2. /\ a \in Seq({u, v, w}) /\ Len(a) = 3 /\ a[1] = u /\ a[2] = v /\ a[3] = w
        /\ b \in Seq({u, v, w}) /\ Len(b) = 3 /\ b[1] = u /\ b[2] = v /\ b[3] = w
    BY <2>1
  <2> HIDE DEF a, b
  <2>3. \A i \in 1 .. Len(a) : a[i] = b[i]
    BY <2>2
  <2>4. a = b
    BY <2>2, <2>3, SeqEqual
  <2> QED BY <2>4 DEF a, b
<1> QED BY <1>1, <1>2

LEMMA ListEnd ==
  ASSUME NEW p \in ListPaths
  PROVE  EndsIn(p, PostLists) /\ Len(p) - 1 \in DOMAIN p /\ p[Len(p) - 1] = "editor"
<1>1. PICK b \in Blogs, l \in PostLists : p = Append(getRelativePath(b, <<"editor">>), l)
  BY DEF ListPaths, Under, editorPath
<1> DEFINE q == getRelativePath(b, <<"editor">>)
<1>2. EndsIn(q, {"editor"})
  BY ShortPaths, RelativeEnd DEF EndsIn
<1> HIDE DEF q
<1>3. PICK S : q \in Seq(S)
  BY <1>2 DEF EndsIn, IsPath
<1>4. q \in Seq(S \cup {l}) /\ q # <<>> /\ q[Len(q)] = "editor" /\ Len(q) \in Nat \ {0} 
  BY <1>2, <1>3 DEF EndsIn
<1>5. Append(q, l) \in Seq(S \cup {l}) /\ Len(Append(q, l)) = Len(q) + 1 /\ Append(q, l)[Len(q)] = "editor" /\ Append(q, l)[Len(q) + 1] = l
  BY <1>4
<1>6. p = Append(q, l)
  BY <1>1 DEF q
<1> QED BY <1>4, <1>5, <1>6 DEF EndsIn, IsPath

\* A path that is none of the lists of the editor.
Free(p) == IsPath(p) /\ p \notin ListPaths

LEMMA FreeEnd ==
  ASSUME NEW p, NEW w, EndsIn(p, {w}), w \notin PostLists
  PROVE  Free(p)
BY ListEnd DEF Free, EndsIn

LEMMA FreeRelative ==
  ASSUME NEW b \in Blogs
  PROVE  /\ \A w : w \notin PostLists => Free(getRelativePath(b, <<w>>))
         /\ \A v, w : w \notin PostLists => Free(getRelativePath(b, <<v, w>>))
         /\ \A u, v, w : w \notin PostLists => Free(getRelativePath(b, <<u, v, w>>))
BY FreeEnd, RelativeEnd, ShortPaths DEF EndsIn

LEMMA FreeShort ==
  /\ \A w : w \notin PostLists => Free(<<w>>)
  /\ \A v, w : w \notin PostLists => Free(<<v, w>>)
  /\ \A u, v, w : w \notin PostLists => Free(<<u, v, w>>)
BY FreeEnd, ShortPaths

LEMMA FreeAppend ==
  ASSUME NEW p, Free(p), NEW w, w \notin PostLists
  PROVE  Free(Append(p, w))
BY FreeEnd, AppendEnd DEF Free

LEMMA FreeIndex ==
  ASSUME NEW p, Free(p)
  PROVE  \A q \in registerIndexRoutes(p) : Free(q)
<1>1. "{feed}" \notin PostLists /\ "{page}" \notin PostLists
  BY DEF PostLists
<1> QED BY <1>1, FreeEnd, AppendEnd, PagedEnd DEF Free, registerIndexRoutes

LEMMA FreeDates ==
  ASSUME NEW p, Free(p)
  PROVE  \A q \in dateRoutes(p) : Free(q)
<1>1. "{year}" \notin PostLists /\ "{month}" \notin PostLists /\ "{day}" \notin PostLists
  BY DEF PostLists
<1>2. ASSUME NEW date, NEW w, EndsIn(date, {w}), w \notin PostLists
      PROVE  Free(p \o date)
  BY <1>2, JoinedEnd, FreeEnd DEF Free, EndsIn
<1>3. /\ EndsIn(<<"{year}">>, {"{year}"}) /\ EndsIn(<<"{year}", "{month}">>, {"{month}"})
      /\ EndsIn(<<"{year}", "{month}", "{day}">>, {"{day}"})
  BY ShortPaths
<1>4. \A date \in {<<"{year}">>, <<"{year}", "{month}">>, <<"{year}", "{month}", "{day}">>} : Free(p \o date)
  BY <1>1, <1>2, <1>3
<1> QED BY <1>4, FreeIndex DEF dateRoutes

-----------------------------------------------------------------------------
(***************************************************************************)
(* Routes.  A route that asks for no login is not at a list of the editor; *)
(* in private mode it asks, or its path is open; what is answered from the *)
(* shared cache is at a shared path.                                       *)
(***************************************************************************)
Guarded(r) == r.guards \cap {"login", "oauth"} # {}
Kept(r) ==
  r.method = "GET" /\ ~Guarded(r) =>
    /\ r.path \notin ListPaths
    /\ "private" \in r.guards \/ ~isPrivate \/ r.path \in OpenPaths
    /\ r.cache = "all" => r.path \in OpenPaths \cup SharedPaths
AllKept(routes) == \A r \in routes : Kept(r)

LEMMA OfRoute ==
  ASSUME NEW methods, NEW paths, NEW guards, NEW cache, NEW r \in Route(methods, paths, guards, cache)
  PROVE  r.method \in methods /\ r.path \in paths /\ r.guards = guards /\ r.cache = cache
BY DEF Route

LEMMA GuardedKept ==
  ASSUME NEW methods, NEW paths, NEW guards, NEW cache, guards \cap {"login", "oauth"} # {}
  PROVE  AllKept(Route(methods, paths, guards, cache))
BY OfRoute DEF AllKept, Kept, Guarded

LEMMA FormsKept ==
  ASSUME NEW paths, NEW guards, NEW cache
  PROVE  AllKept(Route({"POST"}, paths, guards, cache))
BY OfRoute DEF AllKept, Kept

LEMMA PrivateKept ==
  ASSUME NEW methods, NEW paths, NEW cache \in {"none", "visitors"}, \A p \in paths : Free(p)
  PROVE  AllKept(Route(methods, paths, {"private"}, cache))
BY OfRoute DEF AllKept, Kept, Free

LEMMA SharedKept ==
  ASSUME NEW methods, NEW paths, \A p \in paths : Free(p) /\ p \in SharedPaths
  PROVE  AllKept(Route(methods, paths, {"private"}, "all"))
BY OfRoute DEF AllKept, Kept, Free

LEMMA OpenKept ==
  ASSUME NEW methods, NEW paths, NEW cache, \A p \in paths : Free(p) /\ p \in OpenPaths
  PROVE  AllKept(Route(methods, paths, {}, cache))
BY OfRoute DEF AllKept, Kept, Free

LEMMA PublicKept ==
  ASSUME NEW methods, NEW paths, NEW cache \in {"none", "visitors"}, ~isPrivate, \A p \in paths : Free(p)
  PROVE  AllKept(Route(methods, paths, {}, cache))
BY OfRoute DEF AllKept, Kept, Free

-----------------------------------------------------------------------------
(***************************************************************************)
(* The routes of the server.                                               *)
(***************************************************************************)
LEMMA ServerKept ==
  /\ AllKept(loginRouter) /\ AllKept(micropubRouter) /\ AllKept(notificationsRouter)
  /\ \A s : AllKept(webmentionsRouter(s))
BY GuardedKept, FormsKept, OfRoute DEF AllKept, loginRouter, micropubRouter, notificationsRouter, webmentionsRouter, Get, Post, Kept

LEMMA ActivityPubKept == AllKept(activityPubRouter)
<1> SUFFICES ASSUME apEnabled PROVE AllKept(activityPubRouter)
  BY DEF AllKept, activityPubRouter
<1>1. ASSUME NEW p \in Under(<<"activitypub", "followers">>, Blogs) \cup Under(<<"activitypub", "remote_follow">>, Blogs)
      PROVE  Free(p)
  <2>1. PICK v \in {"followers", "remote_follow"}, b \in Blogs : p = Append(<<"activitypub", v>>, b)
    BY <1>1 DEF Under
  <2>2. p = <<"activitypub", v, b>>
    BY <2>1, Appending
  <2>3. IsPath(p)
    BY <2>2, ShortPaths DEF EndsIn
  <2>4. Len(p) = 3 /\ p[2] = v
    BY <2>2
  <2>5. v # "editor"
    BY <2>1
  <2>6. Len(p) - 1 = 2
    BY <2>4
  <2>7. p \in ListPaths => p[Len(p) - 1] = "editor"
    BY ListEnd
  <2>8. p \notin ListPaths
    BY <2>4, <2>5, <2>6, <2>7
  <2> QED BY <2>3, <2>8 DEF Free
<1>2. ASSUME NEW p \in wellKnown
      PROVE  Free(p) /\ p \in OpenPaths
  BY <1>2, FreeShort DEF wellKnown, OpenPaths, PostLists
<1>3. ~isPrivate
  BY DEF apEnabled
<1>4. AllKept(Get(Under(<<"activitypub", "followers">>, Blogs), {}))
  BY <1>1, <1>3, PublicKept DEF Get
<1>5. AllKept(CachedGet(Under(<<"activitypub", "remote_follow">>, Blogs), {}))
  BY <1>1, <1>3, PublicKept DEF CachedGet
<1>6. AllKept(SharedGet(wellKnown, {}))
  BY <1>2, OpenKept DEF SharedGet
<1>7. \A paths : AllKept(Post(paths, {}))
  BY FormsKept DEF Post
<1> QED BY <1>4, <1>5, <1>6, <1>7 DEF AllKept, activityPubRouter

LEMMA OauthKept == AllKept(oauthRouter)
<1>1. AllKept(SharedGet({oauthMetadataPath}, {}))
  BY FreeShort, OpenKept DEF SharedGet, OpenPaths, oauthMetadataPath, PostLists
<1>2. AllKept(Get({authorizePath, tokenPath}, {}))
  BY FreeShort, OpenKept DEF Get, OpenPaths, authorizePath, tokenPath, PostLists
<1>3. \A paths, guards : AllKept(Post(paths, guards))
  BY FormsKept DEF Post
<1>4. \A paths : AllKept(Get(paths, {"oauth"}))
  BY GuardedKept DEF Get
<1> QED BY <1>1, <1>2, <1>3, <1>4 DEF AllKept, oauthRouter

LEMMA FilesKept ==
  /\ AllKept(assetsRouter) /\ AllKept(staticFilesRouter) /\ AllKept(mediaFilesRouter) /\ AllKept(profileImageRouter)
  /\ AllKept(Get({<<"captcha", "{id}">>}, {})) /\ AllKept(SharedGet({<<"sitemap.xml">>}, {"private"}))
  /\ AllKept(SharedGet({<<"{key}.txt">>}, {})) /\ AllKept(SharedGet({<<"robots.txt">>}, {}))
  /\ AllKept(CachedGet({<<"favicon.ico">>}, {}))
<1>1. /\ \A p \in {<<"profile.jpg">>, <<"profile.png">>, <<"{key}.txt">>, <<"robots.txt">>, <<"favicon.ico">>,
                   <<"assets", "{file}">>, <<"captcha", "{id}">>} : Free(p) /\ p \in OpenPaths
      /\ Free(<<"{static}">>) /\ Free(<<"m", "{file}">>) /\ Free(<<"sitemap.xml">>) /\ <<"sitemap.xml">> \in SharedPaths
  BY FreeShort DEF OpenPaths, SharedPaths, PostLists
<1>2. AllKept(staticFilesRouter) /\ AllKept(mediaFilesRouter)
  BY <1>1, PrivateKept DEF staticFilesRouter, mediaFilesRouter, Get
<1>3. AllKept(SharedGet({<<"sitemap.xml">>}, {"private"}))
  BY <1>1, SharedKept DEF SharedGet
<1>4. AllKept(assetsRouter) /\ AllKept(Get({<<"captcha", "{id}">>}, {}))
  BY <1>1, OpenKept DEF assetsRouter, Get
<1>5. AllKept(profileImageRouter)
  BY <1>1, OpenKept DEF profileImageRouter, SharedGet
<1>6. AllKept(SharedGet({<<"{key}.txt">>}, {})) /\ AllKept(SharedGet({<<"robots.txt">>}, {}))
  BY <1>1, OpenKept DEF SharedGet
<1>7. AllKept(CachedGet({<<"favicon.ico">>}, {}))
  BY <1>1, OpenKept DEF CachedGet
<1> QED BY <1>2, <1>3, <1>4, <1>5, <1>6, <1>7

LEMMA OthersKept == \A s : AllKept(otherRoutesRouter(s))
<1>1. AllKept(Get({<<"-", "tiles", "{tile}">>}, {"private"}))
  BY FreeShort, PrivateKept DEF Get, PostLists
<1>2. AllKept(Route({"GET", "POST"}, Under(<<"-">>, {"leaflet", "hlsjs"}), {"private"}, "all"))
  <2>1. Under(<<"-">>, {"leaflet", "hlsjs"}) = {<<"-", "leaflet">>, <<"-", "hlsjs">>}
    <3>1. \A w : Append(<<"-">>, w) = <<"-", w>>
      BY Appending
    <3> QED BY <3>1 DEF Under
  <2>2. \A p \in Under(<<"-">>, {"leaflet", "hlsjs"}) : Free(p) /\ p \in SharedPaths
    BY <2>1, FreeShort DEF SharedPaths, PostLists
  <2> QED BY <2>2, SharedKept
<1>3. AllKept(reactionRoutes)
  BY FreeShort, PrivateKept DEF reactionRoutes, PostLists
<1>4. AllKept(Get({<<"-", "reload">>}, {"private", "login"}))
  BY GuardedKept DEF Get
<1> QED BY <1>1, <1>2, <1>3, <1>4 DEF AllKept, otherRoutesRouter

-----------------------------------------------------------------------------
(***************************************************************************)
(* The routes of a blog.                                                   *)
(***************************************************************************)
Known(secs) == \A row \in secs : row.name \in Sections

LEMMA IndexKept ==
  ASSUME NEW p, Free(p)
  PROVE  AllKept(CachedGet(registerIndexRoutes(p), {"private"}))
BY FreeIndex, PrivateKept DEF CachedGet

LEMMA CachedKept ==
  ASSUME NEW paths, \A p \in paths : Free(p)
  PROVE  AllKept(CachedGet(paths, {"private"})) /\ AllKept(Get(paths, {"private"}))
BY PrivateKept DEF CachedGet, Get

LEMMA EditorKept ==
  ASSUME NEW b \in Blogs
  PROVE  AllKept(blogEditorRouter(b)) /\ AllKept(blogSettingsRouter(b))
<1>1. \A paths : AllKept(Get(paths, {"login"})) /\ AllKept(Post(paths, {"login"}))
  BY GuardedKept DEF Get, Post
<1> QED BY <1>1 DEF AllKept, blogEditorRouter, blogSettingsRouter

LEMMA Named == \A b \in Blogs : home(b) \in NamedPaths /\ \A n \in Sections : getRelativePath(b, <<n>>) \in NamedPaths
<1> SUFFICES ASSUME NEW b \in Blogs
             PROVE  home(b) \in NamedPaths /\ \A n \in Sections : getRelativePath(b, <<n>>) \in NamedPaths
  OBVIOUS
<1>1. home(b) \in NamedPaths
  BY DEF NamedPaths
<1>2. ASSUME NEW n \in Sections PROVE getRelativePath(b, <<n>>) \in NamedPaths
  <2>1. getRelativePath(b, <<n>>) \in {getRelativePath(c, <<s>>) : c \in Blogs, s \in Sections}
    OBVIOUS
  <2> QED BY <2>1 DEF NamedPaths
<1> QED BY <1>1, <1>2

LEMMA NamedFree ==
  ASSUME NamesAreFree, NEW p \in NamedPaths
  PROVE  p \notin OpenPaths /\ p \notin SharedPaths /\ p \notin ListPaths
BY DEF NamesAreFree

LEMMA SectionsKept ==
  ASSUME NamesAreFree, NEW b \in Blogs, NEW s, Known(s.sections)
  PROVE  AllKept(blogSectionsRouter(b, s)) /\ AllKept(blogHomeRouter(b))
<1>1. Free(home(b)) /\ \A n \in Sections : Free(getRelativePath(b, <<n>>))
  BY RelativeEnd, ShortPaths, Named, NamedFree DEF Free, EndsIn, home
<1>2. AllKept(blogHomeRouter(b))
  BY <1>1, IndexKept DEF blogHomeRouter, AllKept, home
<1> DEFINE names == {row.name : row \in {r \in s.sections : r.blog = b}}
           paths == UNION {registerIndexRoutes(getRelativePath(b, <<n>>)) \cup dateRoutes(getRelativePath(b, <<n>>)) : n \in names}
<1>3. \A n \in names : n \in Sections
  BY DEF Known
<1>4. \A p \in paths : Free(p)
  BY <1>1, <1>3, FreeIndex, FreeDates
<1>5. AllKept(CachedGet(paths, {"private"}))
  BY <1>4, CachedKept
<1> QED BY <1>2, <1>5 DEF blogSectionsRouter

LEMMA ListsKept ==
  ASSUME NamesAreFree, NEW b \in Blogs
  PROVE  AllKept(blogTaxonomiesRouter(b)) /\ AllKept(blogDatesRouter(b)) /\ AllKept(blogPhotosRouter(b))
<1>1. /\ Free(home(b)) /\ Free(getRelativePath(b, <<"photos">>)) /\ Free(getRelativePath(b, <<"{taxonomy}">>))
      /\ Free(Append(getRelativePath(b, <<"{taxonomy}">>), "{taxValue}"))
  <2>1. IsPath(home(b)) /\ home(b) \notin ListPaths
    BY RelativeEnd, ShortPaths, Named, NamedFree DEF home
  <2> QED BY <2>1, RelativeEnd, ShortPaths, FreeRelative, FreeAppend DEF Free, EndsIn, PostLists
<1>2. AllKept(blogTaxonomiesRouter(b))
  BY <1>1, FreeIndex, CachedKept DEF blogTaxonomiesRouter
<1>3. AllKept(blogDatesRouter(b))
  BY <1>1, FreeDates, CachedKept DEF blogDatesRouter, home
<1>4. AllKept(blogPhotosRouter(b))
  BY <1>1, IndexKept DEF blogPhotosRouter, Feature, AllKept
<1> QED BY <1>2, <1>3, <1>4

LEMMA SearchKept ==
  ASSUME NEW b \in Blogs
  PROVE  AllKept(blogSearchRouter(b))
<1>1. Free(searchPath(b))
  BY FreeRelative DEF searchPath, PostLists
<1>2. Free(Append(searchPath(b), "{search}")) /\ Free(openSearchURL(b)) /\ openSearchURL(b) \in OpenPaths
  BY <1>1, FreeAppend DEF openSearchURL, OpenPaths, PostLists
<1>3. AllKept(CachedGet({searchPath(b)} \cup registerIndexRoutes(Append(searchPath(b), "{search}")), {"private"}))
  BY <1>1, <1>2, FreeIndex, CachedKept
<1>4. AllKept(CachedGet({Append(searchPath(b), "opensearch.xml")}, {}))
  BY <1>2, OpenKept DEF CachedGet, openSearchURL
<1>5. AllKept(Route({"POST"}, {searchPath(b)}, {"private"}, "visitors"))
  BY FormsKept
<1> QED BY <1>3, <1>4, <1>5 DEF AllKept, blogSearchRouter, Feature

LEMMA FeaturesKept ==
  ASSUME NEW b \in Blogs
  PROVE  /\ AllKept(blogRandomRouter(b)) /\ AllKept(blogOnThisDayRouter(b)) /\ AllKept(blogStatsRouter(b))
         /\ AllKept(blogContactRouter(b))
<1>1. /\ Free(getRelativePath(b, <<"random">>)) /\ Free(getRelativePath(b, <<"onthisday">>))
      /\ Free(getRelativePath(b, <<"statistics">>)) /\ Free(contactPath(b))
  BY FreeRelative DEF contactPath, PostLists
<1>2. AllKept(Get({getRelativePath(b, <<"random">>)}, {"private"})) /\ AllKept(Get({getRelativePath(b, <<"onthisday">>)}, {"private"}))
  BY <1>1, CachedKept
<1>3. AllKept(CachedGet({getRelativePath(b, <<"statistics">>)}, {"private"})) /\ AllKept(CachedGet({contactPath(b)}, {"private"}))
  BY <1>1, CachedKept
<1>4. AllKept(Route({"POST"}, {contactPath(b)}, {"private", "captcha"}, "visitors"))
  BY FormsKept
<1> QED BY <1>2, <1>3, <1>4 DEF AllKept, blogRandomRouter, blogOnThisDayRouter, blogStatsRouter, blogContactRouter, Feature

LEMMA CommentsKept ==
  ASSUME NEW b \in Blogs, NEW s
  PROVE  AllKept(blogCommentsRouter(b, s))
<1>1. Free(Append(commentPath(b), "{id}"))
  BY FreeRelative, FreeAppend DEF commentPath, PostLists
<1>2. AllKept(CachedGet({Append(commentPath(b), "{id}")}, {"private"}))
  BY <1>1, CachedKept
<1>3. \A paths, guards : AllKept(Post(paths, guards))
  BY FormsKept DEF Post
<1>4. \A paths : AllKept(Get(paths, {"private", "login"}))
  BY GuardedKept DEF Get
<1> QED BY <1>2, <1>3, <1>4 DEF AllKept, blogCommentsRouter

LEMMA PlacesKept ==
  ASSUME NEW b \in Blogs
  PROVE  AllKept(blogBlogrollRouter(b)) /\ AllKept(blogGeoMapRouter(b)) /\ AllKept(blogSitemapRouter(b))
<1>1. Free(getBlogrollPath(b)) /\ Free(opmlPath(b))
  BY FreeRelative, FreeAppend DEF getBlogrollPath, opmlPath, PostLists
<1>2. AllKept(blogBlogrollRouter(b))
  <2>1. AllKept(CachedGet({getBlogrollPath(b), opmlPath(b)}, {"private"}))
    BY <1>1, CachedKept
  <2>2. AllKept(Post({Append(getBlogrollPath(b), "refresh")}, {"private", "login"}))
    BY FormsKept DEF Post
  <2> QED BY <2>1, <2>2 DEF AllKept, blogBlogrollRouter, Feature
<1>3. AllKept(blogGeoMapRouter(b))
  <2> DEFINE p == getRelativePath(b, <<"map">>)
  <2>1. Free(p)
    BY FreeRelative DEF PostLists
  <2>2. "tracks.json" \notin PostLists /\ "locations.json" \notin PostLists
    BY DEF PostLists
  <2>3. \A q \in Under(p, {"tracks.json", "locations.json"}) : Free(q)
    <3> HIDE DEF p
    <3> QED BY <2>1, <2>2, FreeAppend DEF Under
  <2>4. AllKept(CachedGet({p} \cup Under(p, {"tracks.json", "locations.json"}), {"private"}))
    <3> HIDE DEF p
    <3> QED BY <2>1, <2>3, CachedKept
  <2> QED BY <2>4 DEF AllKept, blogGeoMapRouter, Feature
<1>4. AllKept(blogSitemapRouter(b))
  <2>1. IsPath(Prefix[b])
    BY PrefixAssumption DEF IsPath
  <2>2. \A w \in SitemapParts : w \notin PostLists
    BY DEF SitemapParts, PostLists
  <2>3. \A q \in Under(Prefix[b], SitemapParts) : Free(q) /\ q \in SharedPaths
    BY <2>1, <2>2, AppendEnd, FreeEnd DEF Under, SharedPaths
  <2> QED BY <2>3, SharedKept DEF blogSitemapRouter, SharedGet
<1> QED BY <1>2, <1>3, <1>4

\* Whatever sections the router was built from.
LEMMA MountedKept ==
  ASSUME NamesAreFree, NEW s, Known(s.sections)
  PROVE  AllKept(Mounted(s))
<1>1. ASSUME NEW b \in Blogs
      PROVE  AllKept(blogRouter(b, s))
  BY EditorKept, SectionsKept, ListsKept, SearchKept, FeaturesKept, CommentsKept, PlacesKept DEF AllKept, blogRouter
<1>2. AllKept(otherRoutesRouter(s)) /\ AllKept(webmentionsRouter(s))
  BY OthersKept, ServerKept
<1>3. AllKept(UNION {blogRouter(b, s) : b \in Blogs})
  BY <1>1 DEF AllKept
<1>4. AllKept(IF indexNowEnabled THEN SharedGet({<<"{key}.txt">>}, {}) ELSE {})
  BY FilesKept DEF AllKept
<1> DEFINE captcha == Get({<<"captcha", "{id}">>}, {})
           blogs == UNION {blogRouter(b, s) : b \in Blogs}
           sitemap == SharedGet({<<"sitemap.xml">>}, {"private"})
           key == IF indexNowEnabled THEN SharedGet({<<"{key}.txt">>}, {}) ELSE {}
           robots == SharedGet({<<"robots.txt">>}, {})
           favicon == CachedGet({<<"favicon.ico">>}, {})
<1>5. Mounted(s) =
        loginRouter \cup micropubRouter \cup oauthRouter \cup activityPubRouter \cup webmentionsRouter(s)
          \cup notificationsRouter \cup assetsRouter \cup staticFilesRouter \cup mediaFilesRouter
          \cup profileImageRouter \cup otherRoutesRouter(s) \cup captcha \cup blogs \cup sitemap \cup key
          \cup robots \cup favicon
  BY DEF Mounted
<1>6. AllKept(captcha) /\ AllKept(sitemap) /\ AllKept(robots) /\ AllKept(favicon)
  BY FilesKept
<1> HIDE DEF captcha, blogs, sitemap, key, robots, favicon
<1>7. AllKept(blogs) /\ AllKept(key)
  BY <1>3, <1>4 DEF blogs, key
<1> QED BY <1>2, <1>5, <1>6, <1>7, ServerKept, ActivityPubKept, OauthKept, FilesKept DEF AllKept

-----------------------------------------------------------------------------
(***************************************************************************)
(* Views.  What a visitor finds outside of the lists of the editor is      *)
(* published and public, and a view at a shared path is the owner's too.   *)
(***************************************************************************)
Only(q) == \A p \in AnyPost : buildPostsQuery(q, p) => p.status = "published" /\ p.visibility = "public"

ViewKept(b, v) ==
  /\ v.path \notin OpenPaths
  /\ v.path \in SharedPaths => v \in Views(b, TRUE)
  /\ v.path \in ListPaths \/ Only(v.query)

\* The last words of open and of shared paths.
FileNames ==
  {"webfinger", "host-meta", "nodeinfo", "oauth-authorization-server", "authorize", "token", "{file}", "profile.jpg",
   "profile.png", "{id}", "{key}.txt", "robots.txt", "favicon.ico", "opensearch.xml"}
SharedNames == {"leaflet", "hlsjs", "sitemap.xml"} \cup SitemapParts

LEMMA OpenEnd ==
  ASSUME NEW p \in OpenPaths
  PROVE  EndsIn(p, FileNames)
<1>1. ASSUME NEW w \in FileNames, EndsIn(p, {w})
      PROVE  EndsIn(p, FileNames)
  BY <1>1 DEF EndsIn
<1>2. CASE \E b \in Blogs : p = openSearchURL(b)
  <2>1. PICK b \in Blogs : p = openSearchURL(b)
    BY <1>2
  <2>2. EndsIn(p, {"opensearch.xml"})
    BY <2>1, RelativeEnd, ShortPaths, AppendEnd DEF openSearchURL, searchPath, EndsIn
  <2> QED BY <1>1, <2>2 DEF FileNames
<1>3. CASE ~ \E b \in Blogs : p = openSearchURL(b)
  <2>1. \A w \in FileNames : EndsIn(<<w>>, FileNames) /\ \A v : EndsIn(<<v, w>>, FileNames)
    BY ShortPaths DEF EndsIn
  <2> QED BY <1>3, <2>1 DEF OpenPaths, FileNames, wellKnown, oauthMetadataPath, authorizePath, tokenPath
<1> QED BY <1>2, <1>3

LEMMA SharedEnd ==
  ASSUME NEW p \in SharedPaths
  PROVE  EndsIn(p, SharedNames)
<1>1. ASSUME NEW w \in SharedNames, EndsIn(p, {w})
      PROVE  EndsIn(p, SharedNames)
  BY <1>1 DEF EndsIn
<1>2. CASE \E b \in Blogs : p \in Under(Prefix[b], SitemapParts)
  <2>1. PICK b \in Blogs, w \in SitemapParts : p = Append(Prefix[b], w)
    BY <1>2 DEF Under
  <2>2. EndsIn(p, {w})
    BY <2>1, AppendEnd, PrefixAssumption DEF IsPath
  <2> QED BY <1>1, <2>1, <2>2 DEF SharedNames
<1>3. CASE p \in {<<"-", "leaflet">>, <<"-", "hlsjs">>, <<"sitemap.xml">>}
  <2>1. \A w \in SharedNames : EndsIn(<<w>>, SharedNames) /\ \A v : EndsIn(<<v, w>>, SharedNames)
    BY ShortPaths DEF EndsIn
  <2> QED BY <1>3, <2>1 DEF SharedNames
<1> QED BY <1>2, <1>3 DEF SharedPaths

LEMMA OnlyPublished ==
  /\ \A b, sections : Only(Default(FALSE, b, sections)) /\ Only(PublishedPublic(b, sections))
  /\ \A b : Only(serveGeoMap(b, FALSE)) /\ Only(serveEditorFilesUsesResults(FALSE))
BY DEF Only, Default, serveIndex, DefaultStatus, DefaultVisibility, Query, PublishedPublic, serveGeoMap,
       serveEditorFilesUsesResults, buildPostsQuery

\* A view at a path that ends in a word of its own.
LEMMA ApartKept ==
  ASSUME NEW b, NEW v, NEW w, EndsIn(v.path, {w}), w \notin FileNames \cup SharedNames, Only(v.query) \/ v.path \in ListPaths
  PROVE  ViewKept(b, v)
<1>1. v.path \notin OpenPaths /\ v.path \notin SharedPaths
  BY OpenEnd, SharedEnd DEF EndsIn
<1> QED BY <1>1 DEF ViewKept

LEMMA ViewsKept ==
  ASSUME NamesAreFree, Known(mem.sections), NEW b \in Blogs, NEW v \in Views(b, FALSE)
  PROVE  ViewKept(b, v)
<1> DEFINE In(p, query) == View(getRelativePath(b, p), query)
           Editor(name, query) == View(Append(editorPath(b), name), query)
<1>0. \A p, q : View(p, q).path = p /\ View(p, q).query = q
  BY DEF View
<1>1. ASSUME NEW p, NEW w, NEW query, EndsIn(p, {w}), w \notin FileNames \cup SharedNames, Only(query), v = In(p, query)
      PROVE  ViewKept(b, v)
  <2>1. v.path = getRelativePath(b, p) /\ v.query = query
    BY <1>0, <1>1
  <2>2. EndsIn(getRelativePath(b, p), {w})
    BY <1>1, RelativeEnd DEF EndsIn
  <2> QED BY <1>1, <2>1, <2>2, ApartKept
<1>2. ASSUME NEW l \in PostLists, NEW query, v = Editor(l, query)
      PROVE  ViewKept(b, v)
  <2>0. v.path = Append(editorPath(b), l)
    BY <1>0, <1>2
  <2>1. v.path \in ListPaths
    BY <1>2, <2>0 DEF ListPaths, Under
  <2>2. EndsIn(v.path, PostLists)
    BY <2>1, ListEnd
  <2>3. \A w \in PostLists : w \notin FileNames \cup SharedNames
    BY DEF PostLists, FileNames, SharedNames, SitemapParts
  <2>4. v.path \notin OpenPaths /\ v.path \notin SharedPaths
    BY <2>2, <2>3, OpenEnd, SharedEnd DEF EndsIn
  <2> QED BY <2>1, <2>4 DEF ViewKept
<1>3. ASSUME NEW p \in {home(b)} \cup {getRelativePath(b, <<s>>) : s \in Sections}, NEW query, Only(query), v = View(p, query)
      PROVE  ViewKept(b, v)
  <2>1. v.path \notin OpenPaths /\ v.path \notin SharedPaths
    <3>1. v.path = p
      BY <1>0, <1>3
    <3>2. p \in NamedPaths
      BY <1>3, Named
    <3> QED BY <3>1, <3>2, NamedFree
  <2> QED BY <1>0, <1>3, <2>1 DEF ViewKept
<1>4. CASE v \in {In(<<"photos">>, servePhotos(b, FALSE)), In(<<"map">>, serveGeoMap(b, FALSE)),
                  In(<<"search", "{search}">>, serveSearchResult(b, FALSE)), In(<<"{year}">>, serveDate(b, FALSE)),
                  In(<<"{taxonomy}", "{taxValue}">>, serveTaxonomyValue(b, FALSE)),
                  In(<<"{taxonomy}">>, allTaxonomyValues(b)), In(<<"random">>, getRandomPostPath(b)),
                  In(<<"statistics">>, blogStats(b))}
  <2>1. /\ Only(servePhotos(b, FALSE)) /\ Only(serveGeoMap(b, FALSE)) /\ Only(serveSearchResult(b, FALSE))
        /\ Only(serveDate(b, FALSE)) /\ Only(serveTaxonomyValue(b, FALSE)) /\ Only(allTaxonomyValues(b))
        /\ Only(getRandomPostPath(b)) /\ Only(blogStats(b))
    BY OnlyPublished DEF servePhotos, serveSearchResult, serveDate, serveTaxonomyValue, allTaxonomyValues,
       getRandomPostPath, blogStats
  <2>2. \A w \in {"photos", "map", "{search}", "{year}", "{taxValue}", "{taxonomy}", "random", "statistics"} :
          w \notin FileNames \cup SharedNames
    BY DEF FileNames, SharedNames, SitemapParts
  <2> HIDE DEF In
  <2>3. CASE v = In(<<"search", "{search}">>, serveSearchResult(b, FALSE)) \/ v = In(<<"{taxonomy}", "{taxValue}">>, serveTaxonomyValue(b, FALSE))
    <3>1. EndsIn(<<"search", "{search}">>, {"{search}"}) /\ EndsIn(<<"{taxonomy}", "{taxValue}">>, {"{taxValue}"})
      BY ShortPaths
    <3> QED BY <1>1, <2>1, <2>2, <2>3, <3>1
  <2>4. ASSUME NEW w \in {"photos", "map", "{year}", "{taxonomy}", "random", "statistics"}, NEW query, Only(query), v = In(<<w>>, query)
        PROVE  ViewKept(b, v)
    BY <1>1, <2>2, <2>4, ShortPaths
  <2> QED BY <1>4, <2>1, <2>3, <2>4
<1>5. CASE v \in {In(<<"sitemap-blog-posts.xml">>, sitemapPosts(b)), In(<<"sitemap-blog-archives.xml">>, sitemapPosts(b))}
  <2>1. v \in Views(b, TRUE)
    BY <1>5 DEF Views
  <2>2. Only(v.query)
    <3>1. v.query = sitemapPosts(b)
      BY <1>0, <1>5
    <3> QED BY <3>1, OnlyPublished DEF sitemapPosts
  <2>3. EndsIn(v.path, {"sitemap-blog-posts.xml"}) \/ EndsIn(v.path, {"sitemap-blog-archives.xml"})
    <3>1. \/ v.path = getRelativePath(b, <<"sitemap-blog-posts.xml">>)
          \/ v.path = getRelativePath(b, <<"sitemap-blog-archives.xml">>)
      BY <1>0, <1>5
    <3>2. \A w : EndsIn(getRelativePath(b, <<w>>), {w})
      BY RelativeEnd, ShortPaths DEF EndsIn
    <3> QED BY <3>1, <3>2
  <2>4. "sitemap-blog-posts.xml" \notin FileNames /\ "sitemap-blog-archives.xml" \notin FileNames
    BY DEF FileNames
  <2>5. v.path \notin OpenPaths
    BY <2>3, <2>4, OpenEnd DEF EndsIn
  <2> QED BY <2>1, <2>2, <2>5 DEF ViewKept
<1>6. CASE v \in {Editor("drafts", serveDrafts(b, FALSE)), Editor("private", servePrivate(b, FALSE)),
                  Editor("unlisted", serveUnlisted(b, FALSE)), Editor("scheduled", serveScheduled(b, FALSE)),
                  Editor("deleted", serveDeleted(b, FALSE))}
  <2> HIDE DEF Editor
  <2> QED BY <1>2, <1>6 DEF PostLists
<1>7. CASE v = View(editorPath(b) \o <<"files", "uses", "{filename}">>, serveEditorFilesUsesResults(FALSE))
  <2>1. IsPath(editorPath(b))
    BY RelativeEnd, ShortPaths DEF editorPath, EndsIn
  <2>2. EndsIn(<<"files", "uses", "{filename}">>, {"{filename}"})
    BY ShortPaths
  <2>3. EndsIn(v.path, {"{filename}"}) /\ Only(v.query)
    <3>1. /\ v.path = editorPath(b) \o <<"files", "uses", "{filename}">>
          /\ v.query = serveEditorFilesUsesResults(FALSE)
      BY <1>0, <1>7
    <3> QED BY <2>1, <2>2, <3>1, JoinedEnd, OnlyPublished DEF EndsIn
  <2>4. "{filename}" \notin FileNames \cup SharedNames
    BY DEF FileNames, SharedNames, SitemapParts
  <2> QED BY <2>3, <2>4, ApartKept
<1>8. CASE v = In(<<>>, serveHome(b, FALSE))
  BY <1>3, <1>8, OnlyPublished DEF serveHome, home
<1>9. CASE v \in {In(<<s>>, serveSection(b, FALSE, s)) : s \in SectionsOf(b)}
  <2>1. PICK s \in Sections : v = View(getRelativePath(b, <<s>>), serveSection(b, FALSE, s))
    BY <1>9 DEF Known, SectionsOf
  <2> QED BY <1>3, <2>1, OnlyPublished DEF serveSection
<1> HIDE DEF In, Editor
<1>10. \/ v \in {In(<<"photos">>, servePhotos(b, FALSE)), In(<<"map">>, serveGeoMap(b, FALSE)),
                  In(<<"search", "{search}">>, serveSearchResult(b, FALSE)), In(<<"{year}">>, serveDate(b, FALSE)),
                  In(<<"{taxonomy}", "{taxValue}">>, serveTaxonomyValue(b, FALSE)),
                  In(<<"{taxonomy}">>, allTaxonomyValues(b)), In(<<"random">>, getRandomPostPath(b)),
                  In(<<"statistics">>, blogStats(b))}
       \/ v \in {In(<<"sitemap-blog-posts.xml">>, sitemapPosts(b)), In(<<"sitemap-blog-archives.xml">>, sitemapPosts(b))}
       \/ v \in {Editor("drafts", serveDrafts(b, FALSE)), Editor("private", servePrivate(b, FALSE)),
                  Editor("unlisted", serveUnlisted(b, FALSE)), Editor("scheduled", serveScheduled(b, FALSE)),
                  Editor("deleted", serveDeleted(b, FALSE))}
       \/ v = View(editorPath(b) \o <<"files", "uses", "{filename}">>, serveEditorFilesUsesResults(FALSE))
       \/ v = In(<<>>, serveHome(b, FALSE))
       \/ v \in {In(<<s>>, serveSection(b, FALSE, s)) : s \in SectionsOf(b)}
  BY DEF Views, In, Editor
<1> QED BY <1>4, <1>5, <1>6, <1>7, <1>8, <1>9, <1>10

-----------------------------------------------------------------------------
(***************************************************************************)
(* Sections have the names that are free, and a blog has none twice.       *)
(***************************************************************************)
Single(secs) == \A r, q \in secs : r.blog = q.blog /\ r.name = q.name => r = q
Proper(secs) == Single(secs) /\ Known(secs)

RowsInv ==
  /\ DOMAIN handler = Handlers
  /\ Proper(sectionRows) /\ Proper(mem.sections) /\ Known(built.sections)
  /\ \A h \in Handlers :
       /\ handler[h].pc = "saveSection" => handler[h].row.name \in Sections
       /\ handler[h].pc = "assign" => Proper(handler[h].read)
       /\ handler[h].pc = "install" => Known(handler[h].router.sections)

LEMMA RowsStep ==
  ASSUME RowsInv, NEW h \in Handlers, NEW next, Step(h, next),
         Proper(sectionRows'), Proper(mem'.sections), Known(built'.sections),
         next.pc = "saveSection" => next.row.name \in Sections,
         next.pc = "assign" => Proper(next.read),
         next.pc = "install" => Known(next.router.sections)
  PROVE  RowsInv'
<1>1. /\ DOMAIN handler' = Handlers /\ handler'[h] = next
      /\ \A g \in Handlers \ {h} : handler'[g] = handler[g]
  BY DEF RowsInv, Step
<1> QED BY <1>1 DEF RowsInv, Proper, Single, Known

LEMMA FormRows ==
  ASSUME RowsInv, NEW h \in Handlers, Send(h) \/ saveSettingValue(h) \/ SaveFails(h) \/ Apply(h) \/ SectionFails(h)
                                        \/ serveReloadRouter(h) \/ purgeCache(h) 
  PROVE  RowsInv'
<1>1. /\ UNCHANGED <<sectionRows, built>> /\ mem'.sections = mem.sections
      /\ \E next : Step(h, next) /\ next.pc \in {"save", "apply", "idle", "purge", "build"}
  <2>1. CASE Send(h)
    BY <2>1 DEF Send
  <2>2. CASE saveSettingValue(h)
    BY <2>2 DEF saveSettingValue
  <2>3. CASE SaveFails(h) \/ SectionFails(h)
    BY <2>3 DEF SaveFails, SectionFails, Idle
  <2>4. CASE Apply(h)
    <3>1. \A k : Afterwards(k).pc \in {"build", "idle", "purge"}
      BY DEF Afterwards, Idle
    <3> QED BY <2>4, <3>1 DEF Apply
  <2>5. CASE serveReloadRouter(h) \/ purgeCache(h)
    BY <2>5 DEF serveReloadRouter, purgeCache, Idle
  <2> QED BY <2>1, <2>2, <2>3, <2>4, <2>5
<1> QED BY <1>1, RowsStep DEF RowsInv

LEMMA RouterRows ==
  ASSUME RowsInv, NEW h \in Handlers, buildRouter(h) \/ reloadRouter(h)
  PROVE  RowsInv'
<1>1. CASE buildRouter(h)
  <2> DEFINE next == [pc |-> "install", router |-> mem, purge |-> handler[h].purge]
  <2>1. Step(h, next) /\ UNCHANGED <<sectionRows, mem, built>>
    BY <1>1 DEF buildRouter
  <2>2. next.pc = "install" /\ next.router = mem
    OBVIOUS
  <2> HIDE DEF next
  <2> QED BY <2>1, <2>2, RowsStep DEF RowsInv, Proper
<1>2. CASE reloadRouter(h)
  <2>1. /\ built' = handler[h].router /\ handler[h].pc = "install" /\ UNCHANGED <<sectionRows, mem>>
        /\ \E next : Step(h, next) /\ next.pc \in {"purge", "idle"}
    BY <1>2 DEF reloadRouter, Idle
  <2> QED BY <2>1, RowsStep DEF RowsInv
<1> QED BY <1>1, <1>2

LEMMA SectionRows ==
  ASSUME RowsInv, NEW h \in Handlers, NEW b,
         settingsUpdateSection(h, b) \/ settingsDeleteSection(h, b) \/ saveSection(h) \/ deleteSection(h)
  PROVE  RowsInv'
<1>1. CASE settingsUpdateSection(h, b)
  <2>1. PICK s \in Sections, hide \in BOOLEAN : Step(h, [pc |-> "saveSection", row |-> SectionRow(b, s, hide)])
    BY <1>1 DEF settingsUpdateSection
  <2>2. SectionRow(b, s, hide).name = s
    BY DEF SectionRow
  <2> QED BY <1>1, <2>1, <2>2, RowsStep DEF RowsInv, settingsUpdateSection
<1>2. CASE settingsDeleteSection(h, b)
  <2>1. \E next : Step(h, next) /\ next.pc \in {"deleteSection", "idle"}
    BY <1>2 DEF settingsDeleteSection, Idle
  <2> QED BY <1>2, <2>1, RowsStep DEF RowsInv, settingsDeleteSection
<1>3. CASE saveSection(h)
  <2>1. Proper(sectionRows')
    BY <1>3 DEF saveSection, RowsInv, Proper, Single, Known
  <2>2. Step(h, Reload) /\ Reload.pc = "read" /\ UNCHANGED <<mem, built>>
    BY <1>3 DEF saveSection, Reload
  <2> QED BY <2>1, <2>2, RowsStep DEF RowsInv
<1>4. CASE deleteSection(h)
  <2>1. Proper(sectionRows')
    BY <1>4 DEF deleteSection, RowsInv, Proper, Single, Known
  <2>2. Step(h, Reload) /\ Reload.pc = "read" /\ UNCHANGED <<mem, built>>
    BY <1>4 DEF deleteSection, Reload
  <2> QED BY <2>1, <2>2, RowsStep DEF RowsInv
<1> QED BY <1>1, <1>2, <1>3, <1>4

\* A blog at a time is replaced in memory by what was read of it.
LEMMA ReadRows ==
  ASSUME RowsInv, MemoryInv, NEW h \in Handlers, getSections(h) \/ loadSections(h)
  PROVE  RowsInv'
<1>1. CASE getSections(h)
  <2>1. PICK b : Step(h, [pc |-> "assign", todo |-> handler[h].todo \ {b}, blog |-> b, read |-> RowsOf(b)])
    BY <1>1 DEF getSections, RowsOf
  <2>2. Proper(RowsOf(b)) /\ UNCHANGED <<sectionRows, mem, built>>
    BY <1>1 DEF getSections, RowsOf, RowsInv, Proper, Single, Known
  <2> QED BY <2>1, <2>2, RowsStep DEF RowsInv
<1>2. CASE loadSections(h)
  <2> DEFINE op == handler[h]
             next == IF op.todo = {} THEN [pc |-> "build", purge |-> TRUE] ELSE [pc |-> "read", todo |-> op.todo]
  <2>1. /\ op.pc = "assign" /\ Step(h, next) /\ UNCHANGED <<sectionRows, built>>
        /\ mem'.sections = {row \in mem.sections : row.blog # op.blog} \cup op.read
    BY <1>2 DEF loadSections
  <2>2. next.pc \in {"build", "read"}
    <3> HIDE DEF op
    <3> QED OBVIOUS
  <2> HIDE DEF next
  <2>3. Proper(op.read) /\ \A row \in op.read : row.blog = op.blog
    BY <2>1 DEF RowsInv, MemoryInv, SectionsTyped
  <2>4. Proper(mem'.sections)
    BY <2>1, <2>3 DEF RowsInv, Proper, Single, Known
  <2> QED BY <2>1, <2>2, <2>4, RowsStep DEF RowsInv
<1> QED BY <1>1, <1>2

\* A blog without sections gets one.
LEMMA DefaultRows ==
  ASSUME NEW secs, Proper(secs)
  PROVE  Proper(createDefaultSections(secs))
<1>1. \A b : SectionRow(b, "posts", FALSE).blog = b /\ SectionRow(b, "posts", FALSE).name = "posts"
  BY DEF SectionRow
<1> DEFINE new == {SectionRow(b, "posts", FALSE) : b \in {c \in Blogs : \A row \in secs : row.blog # c}}
<1>2. Proper(new)
  <2>1. \A r \in new : r = SectionRow(r.blog, "posts", FALSE) /\ r.name = "posts"
    BY <1>1
  <2> HIDE DEF new
  <2> QED BY <2>1, SectionsAssumption DEF Proper, Single, Known
<1>3. \A row \in new, old \in secs : row.blog # old.blog
  BY <1>1
<1>4. createDefaultSections(secs) = secs \cup new
  BY DEF createDefaultSections
<1> HIDE DEF new
<1> QED BY <1>2, <1>3, <1>4 DEF Proper, Single, Known

LEMMA RowsInitHolds == Init => RowsInv
<1> SUFFICES ASSUME Init PROVE RowsInv
  OBVIOUS
<1>1. Proper(ConfigSections)
  <2>1. \A r \in ConfigSections : r = [blog |-> r.blog, name |-> r.name, hide |-> FALSE] /\ r.name \in Sections
    BY DEF ConfigSections, SectionRow
  <2> QED BY <2>1 DEF Proper, Single, Known
<1>2. Proper(sectionRows) /\ mem.sections = sectionRows /\ built.sections = sectionRows
  BY <1>1, DefaultRows DEF Init, SettingsInit, Loaded
<1>3. DOMAIN handler = Handlers /\ \A h \in Handlers : handler[h].pc = "idle"
  BY DEF Init, SettingsInit, Idle
<1> QED BY <1>2, <1>3 DEF RowsInv, Proper

LEMMA RestartRows ==
  ASSUME RowsInv, Restart
  PROVE  RowsInv'
<1>1. /\ sectionRows' = createDefaultSections(sectionRows)
      /\ mem'.sections = sectionRows' /\ built'.sections = sectionRows'
      /\ handler' = [h \in Handlers |-> Idle]
  BY DEF Restart, initConfig, Loaded
<1>2. Proper(sectionRows')
  BY <1>1, DefaultRows DEF RowsInv
<1>3. DOMAIN handler' = Handlers /\ \A h \in Handlers : handler'[h].pc = "idle"
  BY <1>1 DEF Idle
<1> QED BY <1>1, <1>2, <1>3 DEF RowsInv, Proper, Single, Known

LEMMA RowsNextHolds ==
  ASSUME RowsInv, MemoryInv, [Next]_<<cfg, settingVars, sectionVars, editorVars>>
  PROVE  RowsInv'
<1>1. ASSUME UNCHANGED <<sectionRows, mem, built, handler>>
      PROVE  RowsInv'
  BY <1>1 DEF RowsInv, Proper, Single, Known
<1>2. CASE SettingsNext
  <2>1. ASSUME Render \/ saveCache
        PROVE  RowsInv'
    BY <1>1, <2>1 DEF Render, saveCache
  <2>2. ASSUME NEW b, NEW s, CreatePost(b, s)
        PROVE  RowsInv'
    BY <1>1, <2>2 DEF CreatePost
  <2> QED BY <1>2, <2>1, <2>2, FormRows, RouterRows, SectionRows, ReadRows, RestartRows DEF SettingsNext
<1> QED BY <1>1, <1>2 DEF Next, settingVars

LEMMA RowsInvariance == Spec => []RowsInv
BY RowsInitHolds, RowsNextHolds, MemoryInvariance, PTL DEF Spec

\* What is listed at a path that answers visitors is published and public.
LEMMA ListedIsPublic ==
  ASSUME NamesAreFree, RowsInv, NEW b \in Blogs, NEW v \in Views(b, FALSE),
         NEW r \in Mounted(built), r.method = "GET", r.path = v.path, Open(r.guards, FALSE),
         NEW p \in AnyPost, buildPostsQuery(v.query, p)
  PROVE  /\ ~isPrivate /\ p.status = "published" /\ p.visibility = "public"
         /\ r.cache = "all" => v \in Views(b, TRUE)
<1>1. Kept(r)
  BY MountedKept DEF AllKept, RowsInv
<1>2. ViewKept(b, v)
  BY ViewsKept DEF RowsInv, Proper
<1>3. ~Guarded(r) /\ ~("private" \in r.guards /\ isPrivate)
  BY DEF Open, Guarded
<1>4. ~isPrivate /\ v.path \notin ListPaths /\ (r.cache = "all" => v \in Views(b, TRUE))
  BY <1>1, <1>2, <1>3 DEF Kept, ViewKept
<1> QED BY <1>2, <1>4 DEF ViewKept, Only

\* Posts at their own paths.
LEMMA PostsStayHidden ==
  ASSUME NEW owner \in BOOLEAN, NEW p \in AnyPost
  PROVE  LET a == servePostsAliasesRedirects(p, owner) IN
         /\ a.shows = "post" /\ Open(a.guards, owner) =>
              owner \/ (p.status = "published" /\ p.visibility # "private" /\ ~isPrivate)
         /\ a.cache # "none" => a = servePostsAliasesRedirects(p, ~owner) \/ ~owner
BY DEF servePostsAliasesRedirects, Answer, Open, AnyPost, Statuses, Visibilities

LEMMA HiddenSections ==
  ASSUME RowsInv, NEW b \in Blogs, NEW owner \in BOOLEAN, NEW p \in AnyPost, buildPostsQuery(serveHome(b, owner), p),
         NEW row \in mem.sections, row.blog = b, row.name = p.section, row.hide
  PROVE  ShownOnStart(b) = {}
<1>1. serveHome(b, owner).sections = ShownOnStart(b)
  BY DEF serveHome, Default, serveIndex, Query
<1>2. p.section \notin ShownOnStart(b)
  BY DEF RowsInv, Proper, Single, ShownOnStart
<1> QED BY <1>1, <1>2 DEF buildPostsQuery

\* Visitors are listed published public posts only, nothing in private mode; the cache that
\* the owner shares answers both alike; hidden sections are not on the home page: for every
\* configuration whose subpaths and sections are at no path of the server.
THEOREM HiddenIsNotListed ==
  ASSUME NamesAreFree
  PROVE  Spec => []HiddenStaysHidden
<1>1. RowsInv => HiddenStaysHidden
  <2> SUFFICES ASSUME RowsInv PROVE HiddenStaysHidden
    OBVIOUS
  <2> QED BY ListedIsPublic, PostsStayHidden, HiddenSections DEF HiddenStaysHidden
<1> QED BY <1>1, RowsInvariance, PTL

-----------------------------------------------------------------------------
(***************************************************************************)
(* Pages of features.  A route that answers where such a page is was       *)
(* mounted for that feature, and asks for a login where the page is the    *)
(* owner's: no other route ends in the same words.                         *)
(***************************************************************************)
LEMMA SamePaths ==
  ASSUME NEW p, NEW q, NEW v, NEW w, IsPath(p), IsPath(q), Append(p, v) = Append(q, w)
  PROVE  p = q /\ v = w
<1>1. PICK P : p \in Seq(P)
  BY DEF IsPath
<1>2. PICK Q : q \in Seq(Q)
  BY DEF IsPath
<1> DEFINE S == P \cup Q \cup {v, w}
<1>3. p \in Seq(S) /\ q \in Seq(S) /\ v \in S /\ w \in S
  BY <1>1, <1>2
<1> HIDE DEF S
<1>4. /\ Len(Append(p, v)) = Len(p) + 1 /\ Len(Append(q, w)) = Len(q) + 1 /\ Len(p) \in Nat /\ Len(q) \in Nat
      /\ Append(p, v)[Len(p) + 1] = v /\ Append(q, w)[Len(q) + 1] = w
      /\ \A i \in 1 .. Len(p) : Append(p, v)[i] = p[i]
      /\ \A i \in 1 .. Len(q) : Append(q, w)[i] = q[i]
  BY <1>3
<1>5. Len(p) = Len(q) /\ \A i \in 1 .. Len(p) : p[i] = q[i]
  BY <1>4
<1>6. p = q
  BY <1>3, <1>5, SeqEqual
<1> QED BY <1>4, <1>6

LEMMA JoinAppend ==
  ASSUME NEW p, NEW q, NEW w, IsPath(p), IsPath(q)
  PROVE  p \o Append(q, w) = Append(p \o q, w)
<1>1. PICK P : p \in Seq(P)
  BY DEF IsPath
<1>2. PICK Q : q \in Seq(Q)
  BY DEF IsPath
<1> DEFINE S == P \cup Q \cup {w}
<1>3. p \in Seq(S) /\ q \in Seq(S) /\ w \in S
  BY <1>1, <1>2
<1> DEFINE a == p \o Append(q, w)
           b == Append(p \o q, w)
<1> HIDE DEF S
<1>4. /\ a \in Seq(S) /\ b \in Seq(S) /\ Len(a) = Len(p) + Len(q) + 1 /\ Len(b) = Len(p) + Len(q) + 1
      /\ Len(p) \in Nat /\ Len(q) \in Nat
  BY <1>3
<1>5. ASSUME NEW i \in 1 .. Len(a)
      PROVE  a[i] = b[i]
  <2>1. CASE i \in 1 .. Len(p)
    BY <1>3, <1>4, <2>1
  <2>2. CASE i \in Len(p) + 1 .. Len(p) + Len(q)
    BY <1>3, <1>4, <2>2
  <2>3. CASE i = Len(p) + Len(q) + 1
    BY <1>3, <1>4, <2>3
  <2> QED BY <1>4, <2>1, <2>2, <2>3
<1> HIDE DEF a, b
<1>6. a = b
  BY <1>4, <1>5, SeqEqual
<1> QED BY <1>6 DEF a, b

LEMMA FirstWord == \A w : <<w>> = Append(<<>>, w)
<1> SUFFICES ASSUME NEW w PROVE <<w>> = Append(<<>>, w)
  OBVIOUS
<1> DEFINE a == <<w>>
           b == Append(<<>>, w)
<1>1. /\ a \in Seq({w}) /\ Len(a) = 1 /\ a[1] = w
      /\ b \in Seq({w}) /\ Len(b) = 1 /\ b[1] = w
  OBVIOUS
<1> HIDE DEF a, b
<1>2. \A i \in 1 .. Len(a) : a[i] = b[i]
  BY <1>1
<1>3. a = b
  BY <1>1, <1>2, SeqEqual
<1> QED BY <1>3 DEF a, b

\* A path in a blog, word by word.
LEMMA InBlog ==
  ASSUME NEW b \in Blogs
  PROVE  /\ IsPath(home(b)) /\ home(b) = Prefix[b]
         /\ \A w : getRelativePath(b, <<w>>) = Append(home(b), w) /\ IsPath(getRelativePath(b, <<w>>))
         /\ \A v, w : getRelativePath(b, <<v, w>>) = Append(getRelativePath(b, <<v>>), w)
<1>1. IsPath(Prefix[b]) /\ IsPath(<<>>) /\ (\A v : IsPath(<<v>>))
  BY PrefixAssumption, ShortPaths DEF IsPath, EndsIn
<1>2. Prefix[b] \o <<>> = Prefix[b]
  BY PrefixAssumption
<1>3. \A w : getRelativePath(b, <<w>>) = Append(home(b), w)
  <2> SUFFICES ASSUME NEW w PROVE Prefix[b] \o <<w>> = Append(Prefix[b] \o <<>>, w)
    BY DEF getRelativePath, home
  <2>1. Prefix[b] \o Append(<<>>, w) = Append(Prefix[b] \o <<>>, w)
    BY <1>1, JoinAppend
  <2> QED BY <2>1, FirstWord
<1>4. \A v, w : getRelativePath(b, <<v, w>>) = Append(getRelativePath(b, <<v>>), w)
  <2> SUFFICES ASSUME NEW v, NEW w PROVE Prefix[b] \o <<v, w>> = Append(Prefix[b] \o <<v>>, w)
    BY DEF getRelativePath
  <2>1. Prefix[b] \o Append(<<v>>, w) = Append(Prefix[b] \o <<v>>, w)
    BY <1>1, JoinAppend
  <2> QED BY <2>1, Appending
<1>5. home(b) = Prefix[b]
  BY <1>2 DEF home, getRelativePath
<1> QED BY <1>1, <1>3, <1>4, <1>5, AppendEnd

LEMMA OfBlog ==
  ASSUME NEW b \in Blogs, NEW c \in Blogs, NEW w, getRelativePath(b, <<w>>) = getRelativePath(c, <<w>>)
  PROVE  b = c
<1>1. home(b) = home(c)
  BY InBlog, SamePaths
<1> QED BY <1>1, InBlog, PrefixAssumption

LEMMA OneEnd ==
  ASSUME NEW p, NEW v, NEW S, EndsIn(p, {v}), EndsIn(p, S)
  PROVE  v \in S
BY DEF EndsIn

\* Paths under these end in the name of a blog, whatever it is; no other path is the like.
Follows == {<<"activitypub", "followers">>, <<"activitypub", "remote_follow">>}
Calm(q) == IsPath(q) /\ (q \in NamedPaths \/ ~EndsIn(q, {"followers", "remote_follow"}))

FeatureNames == {"photos", "search", "map", "blogroll", "contact"}
OwnNames == PostLists \cup {"editor", "files", "links", "settings", "{filename}", "notifications", "comment", "edit", "webmention"}
Telling == FeatureNames \cup OwnNames \cup {"{search}", "opensearch.xml", "{id}"}

\* What the last word w of the path p of a route with guards g tells of the configuration.
Tells(w, p, g) ==
  /\ w \in FeatureNames => \E c \in Blogs : p = getRelativePath(c, <<w>>) /\ Has(c, w)
  /\ w \in {"{search}", "opensearch.xml"} => \E c \in Blogs : p = Append(searchPath(c), w) /\ Has(c, "search")
  /\ w \in {"{id}", "edit"} =>
       p = <<"captcha", "{id}">> \/ \E c \in Blogs : p = Append(commentPath(c), w) /\ commentsEnabled(c, built)
  /\ w = "comment" => \E c \in Blogs : p = commentPath(c) /\ commentsEnabled(c, built)
  /\ w = "webmention" => ~DisableReceiving(built)
  /\ w \in OwnNames => "login" \in g
TellsPath(p, g) == p \in NamedPaths \/ \E w : EndsIn(p, {w}) /\ Tells(w, p, g)

\* A feed tells the same as what it is the feed of.
Told(p, g) ==
  \/ p \in NamedPaths
  \/ apEnabled /\ \E f \in Follows, b \in Blogs : p = Append(f, b)
  \/ /\ TellsPath(p, g)
     /\ \A q : IsPath(q) /\ p = Append(q, "{feed}") => TellsPath(q, g)
     /\ \A f \in Follows, b \in Blogs : p # Append(f, b)

\* What holds of all paths but those under Follows.
Stands(p, g) == Calm(p) /\ TellsPath(p, g) /\ Told(p, g)

LEMMA FollowsEnd ==
  ASSUME LinksAreFree, NEW q, Calm(q)
  PROVE  q \notin Follows /\ \A f \in Follows : \A v, w : Append(q, w) # Append(f, v)
<1>1. \A f \in Follows : EndsIn(f, {"followers"}) \/ EndsIn(f, {"remote_follow"})
  BY ShortPaths DEF Follows
<1>2. \A f \in Follows : IsPath(f) /\ EndsIn(f, {"followers", "remote_follow"})
  BY <1>1 DEF EndsIn
<1>3. q \notin Follows
  BY <1>2 DEF Calm, LinksAreFree, Follows
<1> QED BY <1>2, <1>3, SamePaths DEF Calm

LEMMA CalmAppend ==
  ASSUME NEW q, IsPath(q), NEW w, w \notin {"followers", "remote_follow"}
  PROVE  Calm(Append(q, w))
BY AppendEnd, OneEnd DEF Calm

LEMMA WordTold ==
  ASSUME LinksAreFree, NEW q, Calm(q), NEW w, NEW g, w \notin {"{feed}", "followers", "remote_follow"}, Tells(w, Append(q, w), g)
  PROVE  Stands(Append(q, w), g)
<1>1. IsPath(q) /\ EndsIn(Append(q, w), {w})
  BY AppendEnd DEF Calm
<1>2. TellsPath(Append(q, w), g)
  BY <1>1 DEF TellsPath
<1>3. \A p : IsPath(p) => Append(q, w) # Append(p, "{feed}")
  BY <1>1, SamePaths
<1>4. Calm(Append(q, w))
  BY <1>1, CalmAppend
<1> QED BY <1>2, <1>3, <1>4, FollowsEnd DEF Told, Stands

LEMMA FeedTold ==
  ASSUME LinksAreFree, NEW q, Calm(q), NEW g, TellsPath(q, g)
  PROVE  Stands(Append(q, "{feed}"), g)
<1>1. IsPath(q) /\ EndsIn(Append(q, "{feed}"), {"{feed}"})
  BY AppendEnd DEF Calm
<1>2. Tells("{feed}", Append(q, "{feed}"), g)
  BY DEF Tells, FeatureNames, OwnNames, PostLists
<1>3. TellsPath(Append(q, "{feed}"), g)
  BY <1>1, <1>2 DEF TellsPath
<1>4. \A p : IsPath(p) /\ Append(q, "{feed}") = Append(p, "{feed}") => p = q
  BY <1>1, SamePaths
<1>5. Calm(Append(q, "{feed}"))
  BY <1>1, CalmAppend
<1> QED BY <1>3, <1>4, <1>5, FollowsEnd DEF Told, Stands

LEMMA PlainTold ==
  ASSUME LinksAreFree, NEW q, Calm(q), NEW w, NEW g, w \notin {"{feed}", "followers", "remote_follow"}, w \notin Telling
  PROVE  Stands(Append(q, w), g)
<1>1. Tells(w, Append(q, w), g)
  BY DEF Tells, Telling, FeatureNames, OwnNames
<1> QED BY <1>1, WordTold

LEMMA OwnTold ==
  ASSUME LinksAreFree, NEW q, Calm(q), NEW g, "login" \in g,
         NEW w \in OwnNames \ {"comment", "edit", "webmention"}
  PROVE  Stands(Append(q, w), g)
<1>1. /\ w \notin FeatureNames /\ w \notin {"{search}", "opensearch.xml", "{id}", "edit"}
      /\ w \notin {"{feed}", "followers", "remote_follow"} /\ w # "comment" /\ w # "webmention"
  BY DEF FeatureNames, OwnNames, PostLists
<1>2. Tells(w, Append(q, w), g)
  BY <1>1 DEF Tells
<1> QED BY <1>1, <1>2, WordTold

\* Two words more.
LEMMA JoinTwo ==
  ASSUME NEW q, IsPath(q), NEW v, NEW w
  PROVE  q \o <<v>> = Append(q, v) /\ q \o <<v, w>> = Append(Append(q, v), w)
<1>1. IsPath(<<>>) /\ IsPath(<<v>>) /\ q \o <<>> = q
  <2>1. PICK S : q \in Seq(S)
    BY DEF IsPath
  <2> QED BY <2>1, ShortPaths DEF EndsIn
<1>2. q \o <<v>> = Append(q, v)
  BY <1>1, FirstWord, JoinAppend
<1>3. q \o <<v, w>> = Append(q \o <<v>>, w)
  BY <1>1, Appending, JoinAppend
<1> QED BY <1>2, <1>3

LEMMA JoinThree ==
  ASSUME NEW q, IsPath(q), NEW u, NEW v, NEW w
  PROVE  q \o <<u, v, w>> = Append(Append(Append(q, u), v), w)
<1> DEFINE two == <<u, v>>
<1>1. IsPath(two) /\ q \o two = Append(Append(q, u), v) /\ <<u, v, w>> = Append(two, w)
  BY ShortPaths, JoinTwo, Appending DEF EndsIn
<1> HIDE DEF two
<1>2. q \o Append(two, w) = Append(q \o two, w)
  BY <1>1, JoinAppend
<1> QED BY <1>1, <1>2

LEMMA JoinDate ==
  ASSUME NEW q, IsPath(q)
  PROVE  q \o <<"{year}", "{month}", "{day}">> = Append(Append(Append(q, "{year}"), "{month}"), "{day}")
<1>1. ASSUME NEW u, NEW v, NEW w, u = "{year}", v = "{month}", w = "{day}"
      PROVE  q \o <<u, v, w>> = Append(Append(Append(q, u), v), w)
  BY JoinThree
<1> QED BY <1>1

\* The same for words that are written out.
LEMMA JoinPage ==
  ASSUME NEW q, IsPath(q)
  PROVE  Paged(q) = Append(Append(q, "page"), "{page}")
<1>1. ASSUME NEW v, NEW w, v = "page", w = "{page}" PROVE q \o <<v, w>> = Append(Append(q, v), w)
  BY JoinTwo
<1>2. q \o <<"page", "{page}">> = Append(Append(q, "page"), "{page}")
  BY <1>1
<1> QED BY <1>2 DEF Paged

LEMMA JoinMonth ==
  ASSUME NEW q, IsPath(q)
  PROVE  q \o <<"{year}", "{month}">> = Append(Append(q, "{year}"), "{month}")
<1>1. ASSUME NEW v, NEW w, v = "{year}", w = "{month}" PROVE q \o <<v, w>> = Append(Append(q, v), w)
  BY JoinTwo
<1> QED BY <1>1

LEMMA JoinYear ==
  ASSUME NEW q, IsPath(q)
  PROVE  q \o <<"{year}">> = Append(q, "{year}")
<1>1. ASSUME NEW v, v = "{year}" PROVE q \o <<v>> = Append(q, v)
  BY JoinTwo
<1> QED BY <1>1

LEMMA JoinName ==
  ASSUME NEW q, IsPath(q)
  PROVE  q \o <<"uses", "{filename}">> = Append(Append(q, "uses"), "{filename}")
<1>1. ASSUME NEW v, NEW w, v = "uses", w = "{filename}" PROVE q \o <<v, w>> = Append(Append(q, v), w)
  BY JoinTwo
<1> QED BY <1>1

LEMMA IndexTold ==
  ASSUME LinksAreFree, NEW q, NEW g, Stands(q, g)
  PROVE  \A p \in registerIndexRoutes(q) : Stands(p, g)
<1>2. Stands(Append(q, "{feed}"), g)
  BY FeedTold DEF Stands
<1>3. Stands(Paged(q), g)
  <2>1. IsPath(q) /\ Calm(Append(q, "page"))
    BY CalmAppend DEF Calm, Stands
  <2>2. Paged(q) = Append(Append(q, "page"), "{page}")
    BY <2>1, JoinPage
  <2>3. "{page}" \notin Telling
    BY DEF Telling, FeatureNames, OwnNames, PostLists
  <2> QED BY <2>1, <2>2, <2>3, PlainTold
<1> QED BY <1>2, <1>3 DEF registerIndexRoutes

LEMMA DatesTold ==
  ASSUME LinksAreFree, NEW q, Calm(q), NEW g
  PROVE  \A p \in dateRoutes(q) : Stands(p, g)
<1> DEFINE y == Append(q, "{year}")
           m == Append(y, "{month}")
           d == Append(m, "{day}")
<1>1. IsPath(q) /\ IsPath(y) /\ IsPath(m) /\ Calm(y) /\ Calm(m) /\ Calm(d)
  BY CalmAppend, AppendEnd DEF Calm
<1>2. "{year}" \notin Telling /\ "{month}" \notin Telling /\ "{day}" \notin Telling
  BY DEF Telling, FeatureNames, OwnNames, PostLists
<1>3. Stands(y, g) /\ Stands(m, g) /\ Stands(d, g)
  BY <1>1, <1>2, PlainTold
<1>4. q \o <<"{year}">> = y /\ q \o <<"{year}", "{month}">> = m
  BY <1>1, JoinYear, JoinMonth
<1>5. q \o <<"{year}", "{month}", "{day}">> = d
  BY <1>1, JoinDate
<1> HIDE DEF y, m, d
<1>6. dateRoutes(q) = registerIndexRoutes(y) \cup registerIndexRoutes(m) \cup registerIndexRoutes(d)
  BY <1>4, <1>5 DEF dateRoutes
<1> QED BY <1>1, <1>3, <1>6, IndexTold

LEMMA NamedTold ==
  ASSUME NEW p \in NamedPaths, NEW g
  PROVE  Stands(p, g)
<1>1. IsPath(p)
  <2>1. ASSUME NEW b \in Blogs, p = home(b) \/ \E w \in Sections : p = getRelativePath(b, <<w>>)
        PROVE  IsPath(p)
    BY <2>1, InBlog
  <2> QED BY <2>1 DEF NamedPaths
<1> QED BY <1>1 DEF Stands, Calm, TellsPath, Told

\* Plain words at the end of a path.
Plain(w) == w \notin {"{feed}", "followers", "remote_follow"} /\ w \notin Telling

LEMMA CalmShort ==
  /\ Calm(<<>>)
  /\ \A w : w \notin {"followers", "remote_follow"} => Calm(<<w>>)
  /\ \A v, w : w \notin {"followers", "remote_follow"} => Calm(<<v, w>>)
<1>1. Calm(<<>>)
  BY ShortPaths DEF Calm, EndsIn
<1> QED BY <1>1, FirstWord, Appending, CalmAppend, ShortPaths DEF Calm, EndsIn

LEMMA ShortTold ==
  ASSUME LinksAreFree, NEW g, NEW w, Plain(w)
  PROVE  /\ Stands(<<w>>, g)
         /\ \A v : v \notin {"followers", "remote_follow"} => Stands(<<v, w>>, g)
         /\ \A u, v : v \notin {"followers", "remote_follow"} => Stands(<<u, v, w>>, g)
<1>1. Stands(Append(<<>>, w), g)
  BY CalmShort, PlainTold DEF Plain
<1>2. ASSUME NEW v, v \notin {"followers", "remote_follow"}
      PROVE  Stands(Append(<<v>>, w), g)
  BY <1>2, CalmShort, PlainTold DEF Plain
<1>3. ASSUME NEW u, NEW v, v \notin {"followers", "remote_follow"}
      PROVE  Stands(Append(<<u, v>>, w), g)
  BY <1>3, CalmShort, PlainTold DEF Plain
<1>4. Stands(<<w>>, g)
  BY <1>1, FirstWord
<1>5. \A v : v \notin {"followers", "remote_follow"} => Stands(<<v, w>>, g)
  BY <1>2, Appending
<1>6. \A u, v : v \notin {"followers", "remote_follow"} => Stands(<<u, v, w>>, g)
  BY <1>3, Appending
<1> QED BY <1>4, <1>5, <1>6

LEMMA BlogTold ==
  ASSUME LinksAreFree, NEW b \in Blogs, NEW g
  PROVE  /\ Calm(home(b))
         /\ \A w : w \notin {"followers", "remote_follow"} => Calm(getRelativePath(b, <<w>>))
         /\ \A w : Plain(w) => Stands(getRelativePath(b, <<w>>), g)
         /\ \A v, w : v \notin {"followers", "remote_follow"} /\ Plain(w) => Stands(getRelativePath(b, <<v, w>>), g)
<1>1. Calm(home(b))
  BY InBlog DEF Calm, NamedPaths
<1>2. \A w : w \notin {"followers", "remote_follow"} => Calm(getRelativePath(b, <<w>>))
  <2> SUFFICES ASSUME NEW w, w \notin {"followers", "remote_follow"} PROVE Calm(getRelativePath(b, <<w>>))
    OBVIOUS
  <2>1. getRelativePath(b, <<w>>) = Append(home(b), w) /\ IsPath(home(b))
    BY InBlog
  <2> QED BY <2>1, CalmAppend
<1>3. \A w : Plain(w) => Stands(getRelativePath(b, <<w>>), g)
  BY <1>1, InBlog, PlainTold DEF Plain
<1>4. \A v, w : v \notin {"followers", "remote_follow"} /\ Plain(w) => Stands(getRelativePath(b, <<v, w>>), g)
  BY <1>2, InBlog, PlainTold DEF Plain
<1> QED BY <1>1, <1>2, <1>3, <1>4

AllTold(routes) == \A r \in routes : r.method = "GET" => Told(r.path, r.guards)

LEMMA RoutesTold ==
  ASSUME NEW methods, NEW paths, NEW g, NEW cache, \A p \in paths : Stands(p, g)
  PROVE  /\ AllTold(Route(methods, paths, g, cache)) /\ AllTold(Get(paths, g))
         /\ AllTold(CachedGet(paths, g)) /\ AllTold(SharedGet(paths, g))
BY OfRoute DEF AllTold, Stands, Get, CachedGet, SharedGet

LEMMA FormsTold == \A paths, g, cache : AllTold(Route({"POST"}, paths, g, cache)) /\ AllTold(Post(paths, g))
BY OfRoute DEF AllTold, Post

LEMMA ServerTold ==
  ASSUME LinksAreFree
  PROVE  /\ AllTold(loginRouter) /\ AllTold(micropubRouter) /\ AllTold(notificationsRouter)
         /\ AllTold(webmentionsRouter(built)) /\ AllTold(oauthRouter)
<1>1. AllTold(loginRouter)
  <2>1. Plain("login") /\ Plain("logout")
    BY DEF Plain, Telling, FeatureNames, OwnNames, PostLists
  <2>2. AllTold(Get({<<"login">>, <<"logout">>}, {"login"}))
    BY <2>1, ShortTold, RoutesTold
  <2> QED BY <2>2, FormsTold DEF AllTold, loginRouter
<1>2. AllTold(micropubRouter)
  <2>1. Plain("micropub") /\ Plain("media")
    BY DEF Plain, Telling, FeatureNames, OwnNames, PostLists
  <2> QED BY <2>1, ShortTold, RoutesTold DEF micropubRouter
<1>3. AllTold(notificationsRouter)
  <2> DEFINE p == <<"notifications">>
  <2>1. "notifications" \in OwnNames \ {"comment", "edit", "webmention"}
    BY DEF OwnNames
  <2>2. Stands(Append(<<>>, "notifications"), {"login"})
    BY <2>1, CalmShort, OwnTold
  <2>3. Stands(p, {"login"})
    BY <2>2, FirstWord
  <2> HIDE DEF p
  <2>4. Stands(Paged(p), {"login"})
    BY <2>3, IndexTold DEF registerIndexRoutes
  <2>5. AllTold(Get({p, Paged(p)}, {"login"}))
    BY <2>3, <2>4, RoutesTold
  <2> QED BY <2>5, FormsTold DEF AllTold, notificationsRouter, p
<1>4. AllTold(webmentionsRouter(built))
  <2> SUFFICES ASSUME ~DisableReceiving(built) PROVE AllTold(webmentionsRouter(built))
    BY DEF AllTold, webmentionsRouter
  <2> DEFINE p == <<"webmention">>
  <2>1. Tells("webmention", Append(<<>>, "webmention"), {"login"})
    BY DEF Tells, FeatureNames
  <2>2. Stands(Append(<<>>, "webmention"), {"login"})
    BY <2>1, CalmShort, WordTold
  <2>3. Stands(p, {"login"})
    BY <2>2, FirstWord
  <2> HIDE DEF p
  <2>4. Stands(Paged(p), {"login"})
    BY <2>3, IndexTold DEF registerIndexRoutes
  <2>5. AllTold(Get({p, Paged(p)}, {"login"}))
    BY <2>3, <2>4, RoutesTold
  <2> QED BY <2>5, FormsTold DEF AllTold, webmentionsRouter, p
<1>5. AllTold(oauthRouter)
  <2>1. Plain("oauth-authorization-server") /\ Plain("authorize") /\ Plain("token") /\ Plain("verify_credentials")
    BY DEF Plain, Telling, FeatureNames, OwnNames, PostLists
  <2>2. AllTold(SharedGet({oauthMetadataPath}, {})) /\ AllTold(Get({authorizePath, tokenPath}, {}))
    BY <2>1, ShortTold, RoutesTold DEF oauthMetadataPath, authorizePath, tokenPath
  <2>3. AllTold(Get({<<"api", "v1", "accounts", "verify_credentials">>}, {"oauth"}))
    <3> DEFINE q == <<"api", "v1", "accounts">>
    <3>1. q \o <<>> = q /\ IsPath(q) /\ EndsIn(q, {"accounts"})
      BY ShortPaths DEF EndsIn
    <3>2. Calm(q)
      BY <3>1 DEF Calm, EndsIn
    <3>3. <<"api", "v1", "accounts", "verify_credentials">> = Append(q, "verify_credentials")
      OBVIOUS
    <3>4. Stands(Append(q, "verify_credentials"), {"oauth"})
      BY <2>1, <3>2, PlainTold DEF Plain
    <3> QED BY <3>3, <3>4, RoutesTold
  <2> QED BY <2>2, <2>3, FormsTold DEF AllTold, oauthRouter
<1> QED BY <1>1, <1>2, <1>3, <1>4, <1>5

LEMMA ActivityPubTold ==
  ASSUME LinksAreFree
  PROVE  AllTold(activityPubRouter)
<1> SUFFICES ASSUME apEnabled PROVE AllTold(activityPubRouter)
  BY DEF AllTold, activityPubRouter
<1>1. ASSUME NEW p \in Under(<<"activitypub", "followers">>, Blogs) \cup Under(<<"activitypub", "remote_follow">>, Blogs), NEW g
      PROVE  Told(p, g)
  BY <1>1 DEF Under, Told, Follows
<1>2. AllTold(Get(Under(<<"activitypub", "followers">>, Blogs), {}))
  BY <1>1, OfRoute DEF AllTold, Get
<1>3. AllTold(CachedGet(Under(<<"activitypub", "remote_follow">>, Blogs), {}))
  BY <1>1, OfRoute DEF AllTold, CachedGet
<1>4. AllTold(SharedGet(wellKnown, {}))
  <2>1. Plain("webfinger") /\ Plain("host-meta") /\ Plain("nodeinfo")
    BY DEF Plain, Telling, FeatureNames, OwnNames, PostLists
  <2>2. \A p \in wellKnown : Stands(p, {})
    BY <2>1, ShortTold DEF wellKnown
  <2> QED BY <2>2, RoutesTold
<1> QED BY <1>2, <1>3, <1>4, FormsTold DEF AllTold, activityPubRouter

LEMMA FilesTold ==
  ASSUME LinksAreFree
  PROVE  /\ AllTold(assetsRouter) /\ AllTold(staticFilesRouter) /\ AllTold(mediaFilesRouter) /\ AllTold(profileImageRouter)
         /\ AllTold(Get({<<"captcha", "{id}">>}, {})) /\ AllTold(SharedGet({<<"sitemap.xml">>}, {"private"}))
         /\ AllTold(SharedGet({<<"{key}.txt">>}, {})) /\ AllTold(SharedGet({<<"robots.txt">>}, {}))
         /\ AllTold(CachedGet({<<"favicon.ico">>}, {}))
<1>1. /\ Plain("{file}") /\ Plain("{static}") /\ Plain("profile.jpg") /\ Plain("profile.png") /\ Plain("sitemap.xml")
      /\ Plain("{key}.txt") /\ Plain("robots.txt") /\ Plain("favicon.ico")
  BY DEF Plain, Telling, FeatureNames, OwnNames, PostLists
<1>2. /\ AllTold(assetsRouter) /\ AllTold(staticFilesRouter) /\ AllTold(mediaFilesRouter) /\ AllTold(profileImageRouter)
  BY <1>1, ShortTold, RoutesTold DEF assetsRouter, staticFilesRouter, mediaFilesRouter, profileImageRouter
<1>3. /\ AllTold(SharedGet({<<"sitemap.xml">>}, {"private"})) /\ AllTold(SharedGet({<<"{key}.txt">>}, {}))
      /\ AllTold(SharedGet({<<"robots.txt">>}, {})) /\ AllTold(CachedGet({<<"favicon.ico">>}, {}))
  BY <1>1, ShortTold, RoutesTold
<1>4. AllTold(Get({<<"captcha", "{id}">>}, {}))
  <2>1. Append(<<"captcha">>, "{id}") = <<"captcha", "{id}">> /\ Calm(<<"captcha">>)
    BY Appending, CalmShort
  <2>2. Tells("{id}", <<"captcha", "{id}">>, {})
    BY DEF Tells, FeatureNames, OwnNames, PostLists
  <2>3. Stands(<<"captcha", "{id}">>, {})
    BY <2>1, <2>2, WordTold
  <2> QED BY <2>3, RoutesTold
<1> QED BY <1>2, <1>3, <1>4

LEMMA OthersTold ==
  ASSUME LinksAreFree
  PROVE  AllTold(otherRoutesRouter(built))
<1>1. Plain("{tile}") /\ Plain("leaflet") /\ Plain("hlsjs") /\ Plain("reactions") /\ Plain("reload")
  BY DEF Plain, Telling, FeatureNames, OwnNames, PostLists
<1>2. AllTold(Get({<<"-", "tiles", "{tile}">>}, {"private"})) /\ AllTold(Get({<<"-", "reload">>}, {"private", "login"}))
  BY <1>1, ShortTold, RoutesTold
<1>3. AllTold(Route({"GET", "POST"}, Under(<<"-">>, {"leaflet", "hlsjs"}), {"private"}, "all"))
  <2>1. \A w : Append(<<"-">>, w) = <<"-", w>>
    BY Appending
  <2>2. \A p \in Under(<<"-">>, {"leaflet", "hlsjs"}) : Stands(p, {"private"})
    BY <1>1, <2>1, ShortTold DEF Under
  <2> QED BY <2>2, RoutesTold
<1>4. AllTold(reactionRoutes)
  BY <1>1, ShortTold, RoutesTold DEF reactionRoutes
<1> QED BY <1>2, <1>3, <1>4 DEF AllTold, otherRoutesRouter

LEMMA IndexesTold ==
  ASSUME LinksAreFree, NEW q, NEW g, Stands(q, g)
  PROVE  AllTold(CachedGet(registerIndexRoutes(q), g)) /\ AllTold(Get(registerIndexRoutes(q), g))
BY IndexTold, RoutesTold

\* The page of a feature, if the blog has it.
LEMMA FeatureTold ==
  ASSUME LinksAreFree, NEW b \in Blogs, NEW w \in FeatureNames, Has(b, w), NEW g
  PROVE  Stands(getRelativePath(b, <<w>>), g) /\ Calm(getRelativePath(b, <<w>>))
<1>1. /\ w \notin OwnNames /\ w \notin {"{search}", "opensearch.xml", "{id}", "edit", "comment", "webmention"}
      /\ w \notin {"{feed}", "followers", "remote_follow"}
  BY DEF FeatureNames, OwnNames, PostLists
<1>2. getRelativePath(b, <<w>>) = Append(home(b), w) /\ Calm(home(b))
  BY InBlog, BlogTold
<1>3. Tells(w, Append(home(b), w), g)
  BY <1>1, <1>2 DEF Tells
<1>4. Stands(Append(home(b), w), g)
  BY <1>1, <1>2, <1>3, WordTold
<1> QED BY <1>2, <1>4 DEF Stands

LEMMA SectionsTold ==
  ASSUME LinksAreFree, NEW b \in Blogs, Known(built.sections)
  PROVE  AllTold(blogSectionsRouter(b, built)) /\ AllTold(blogHomeRouter(b))
<1> DEFINE g == {"private"}
           names == {row.name : row \in {r \in built.sections : r.blog = b}}
           Paths(n) == registerIndexRoutes(getRelativePath(b, <<n>>)) \cup dateRoutes(getRelativePath(b, <<n>>))
<1>1. Stands(home(b), g) /\ \A n \in Sections : Stands(getRelativePath(b, <<n>>), g)
  <2> HIDE DEF names, g
  <2>1. home(b) \in NamedPaths
    BY DEF NamedPaths
  <2>2. ASSUME NEW n \in Sections
        PROVE  getRelativePath(b, <<n>>) \in NamedPaths
    BY DEF NamedPaths
  <2> QED BY <2>1, <2>2, NamedTold
<1>2. AllTold(blogHomeRouter(b))
  BY <1>1, IndexesTold DEF blogHomeRouter, AllTold, home
<1>3. \A n \in names : n \in Sections
  BY DEF Known
<1> HIDE DEF names, g
<1>4. ASSUME NEW n \in names
      PROVE  \A p \in Paths(n) : Stands(p, g)
  BY <1>1, <1>3, IndexTold, DatesTold DEF Stands
<1>5. \A p \in UNION {Paths(n) : n \in names} : Stands(p, g)
  BY <1>4
<1>6. AllTold(CachedGet(UNION {Paths(n) : n \in names}, g))
  BY <1>5, RoutesTold
<1> QED BY <1>2, <1>6 DEF blogSectionsRouter, names, g

LEMMA ListsTold ==
  ASSUME LinksAreFree, NEW b \in Blogs
  PROVE  AllTold(blogTaxonomiesRouter(b)) /\ AllTold(blogDatesRouter(b)) /\ AllTold(blogPhotosRouter(b))
<1>1. AllTold(blogTaxonomiesRouter(b))
  <2> DEFINE p == getRelativePath(b, <<"{taxonomy}">>)
  <2>1. Plain("{taxonomy}") /\ Plain("{taxValue}")
    BY DEF Plain, Telling, FeatureNames, OwnNames, PostLists
  <2>2. Stands(p, {"private"})
    BY <2>1, BlogTold
  <2> HIDE DEF p
  <2>3. Stands(Append(p, "{taxValue}"), {"private"})
    BY <2>1, <2>2, PlainTold DEF Stands, Plain
  <2>4. \A q \in {p} \cup registerIndexRoutes(Append(p, "{taxValue}")) : Stands(q, {"private"})
    BY <2>2, <2>3, IndexTold
  <2> QED BY <2>4, RoutesTold DEF blogTaxonomiesRouter, p
<1>2. AllTold(blogDatesRouter(b))
  BY BlogTold, DatesTold, RoutesTold DEF blogDatesRouter, home
<1>3. AllTold(blogPhotosRouter(b))
  <2> SUFFICES ASSUME Has(b, "photos") PROVE AllTold(blogPhotosRouter(b))
    BY DEF AllTold, blogPhotosRouter, Feature
  <2>1. "photos" \in FeatureNames
    BY DEF FeatureNames
  <2> QED BY <2>1, FeatureTold, IndexesTold DEF blogPhotosRouter, Feature
<1> QED BY <1>1, <1>2, <1>3

LEMMA SearchTold ==
  ASSUME LinksAreFree, NEW b \in Blogs
  PROVE  AllTold(blogSearchRouter(b))
<1> SUFFICES ASSUME Has(b, "search") PROVE AllTold(blogSearchRouter(b))
  BY DEF AllTold, blogSearchRouter, Feature
<1> DEFINE p == searchPath(b)
<1>1. \A g : Stands(p, g) /\ Calm(p)
  <2>1. "search" \in FeatureNames
    BY DEF FeatureNames
  <2> QED BY <2>1, FeatureTold DEF searchPath
<1> HIDE DEF p
<1>2. ASSUME NEW w \in {"{search}", "opensearch.xml"}, NEW g
      PROVE  Stands(Append(p, w), g)
  <2>1. /\ w \notin FeatureNames /\ w \notin OwnNames
        /\ w \notin {"{feed}", "followers", "remote_follow", "{id}", "edit", "comment", "webmention"}
    BY <1>2 DEF FeatureNames, OwnNames, PostLists
  <2>2. Tells(w, Append(p, w), g)
    BY <2>1 DEF Tells, p
  <2> QED BY <1>1, <2>1, <2>2, WordTold
<1>3. AllTold(CachedGet({p} \cup registerIndexRoutes(Append(p, "{search}")), {"private"}))
  <2>1. \A q \in {p} \cup registerIndexRoutes(Append(p, "{search}")) : Stands(q, {"private"})
    BY <1>1, <1>2, IndexTold
  <2> QED BY <2>1, RoutesTold
<1>4. AllTold(CachedGet({Append(p, "opensearch.xml")}, {}))
  BY <1>2, RoutesTold
<1> QED BY <1>3, <1>4, FormsTold DEF AllTold, blogSearchRouter, Feature, p

LEMMA EditorTold ==
  ASSUME LinksAreFree, NEW b \in Blogs
  PROVE  AllTold(blogEditorRouter(b)) /\ AllTold(blogSettingsRouter(b))
<1> DEFINE g == {"login"}
           editor == editorPath(b)
           files == Append(editor, "files")
           uses == files \o <<"uses", "{filename}">>
<1>1. ASSUME NEW q, Calm(q), NEW w \in PostLists \cup {"editor", "files", "links", "settings", "{filename}"}
      PROVE  Stands(Append(q, w), g)
  BY <1>1, OwnTold DEF OwnNames, PostLists
<1>2. Stands(editor, g) /\ Stands(settingsPath(b), g)
  <2>1. editorPath(b) = Append(home(b), "editor") /\ settingsPath(b) = Append(home(b), "settings") /\ Calm(home(b))
    BY InBlog, BlogTold DEF editorPath, settingsPath
  <2> QED BY <1>1, <2>1
<1> HIDE DEF editor, g
<1>3. Stands(files, g) /\ Stands(Append(editor, "links"), g) /\ \A l \in PostLists : Stands(Append(editor, l), g)
  BY <1>1, <1>2 DEF Stands
<1>4. Stands(Append(editor, "ws"), g)
  <2>1. Plain("ws")
    BY DEF Plain, Telling, FeatureNames, OwnNames, PostLists
  <2> QED BY <1>2, <2>1, PlainTold DEF Stands, Plain
<1> HIDE DEF files
<1>5. Stands(uses, g)
  <2>1. IsPath(files) /\ Calm(Append(files, "uses"))
    BY <1>3, CalmAppend DEF Stands, Calm
  <2>2. uses = Append(Append(files, "uses"), "{filename}")
    BY <2>1, JoinName
  <2> HIDE DEF uses
  <2> QED BY <1>1, <2>1, <2>2
<1> HIDE DEF uses
<1>6. Stands(Paged(uses), g)
  BY <1>5, IndexTold DEF registerIndexRoutes
<1>7. AllTold(Get({editor, files, uses, Paged(uses), Append(editor, "links"), Append(editor, "ws")}, g))
  BY <1>2, <1>3, <1>4, <1>5, <1>6, RoutesTold
<1>8. AllTold(Get(UNION {registerIndexRoutes(Append(editor, l)) : l \in PostLists}, g))
  <2>1. \A q \in UNION {registerIndexRoutes(Append(editor, l)) : l \in PostLists} : Stands(q, g)
    BY <1>3, IndexTold
  <2> QED BY <2>1, RoutesTold
<1>9. AllTold(blogEditorRouter(b))
  BY <1>7, <1>8, FormsTold DEF AllTold, blogEditorRouter, editor, files, uses, g
<1>10. AllTold(blogSettingsRouter(b))
  BY <1>2, FormsTold, RoutesTold DEF AllTold, blogSettingsRouter, g
<1> QED BY <1>9, <1>10

LEMMA CommentsTold ==
  ASSUME LinksAreFree, NEW b \in Blogs
  PROVE  AllTold(blogCommentsRouter(b, built))
<1> SUFFICES ASSUME commentsEnabled(b, built) PROVE AllTold(blogCommentsRouter(b, built))
  BY DEF AllTold, blogCommentsRouter
<1> DEFINE p == commentPath(b)
           g == {"private", "login"}
<1>0. "login" \in g
  OBVIOUS
<1>1. Stands(p, g)
  <2>1. commentPath(b) = Append(home(b), "comment") /\ Calm(home(b))
    BY InBlog, BlogTold DEF commentPath
  <2>2. Tells("comment", commentPath(b), g)
    BY <1>0 DEF Tells, FeatureNames
  <2> QED BY <2>1, <2>2, WordTold
<1> HIDE DEF p, g
<1>2. Stands(Append(p, "edit"), g)
  <2>1. Tells("edit", Append(p, "edit"), g)
    BY <1>0 DEF Tells, FeatureNames, p
  <2> QED BY <1>1, <2>1, WordTold DEF Stands
<1>3. Stands(Append(p, "{id}"), {"private"})
  <2>1. Tells("{id}", Append(p, "{id}"), {"private"})
    BY DEF Tells, FeatureNames, OwnNames, PostLists, p
  <2> QED BY <1>1, <2>1, WordTold DEF Stands
<1>4. Stands(Paged(p), g)
  BY <1>1, IndexTold DEF registerIndexRoutes
<1>5. AllTold(CachedGet({Append(p, "{id}")}, {"private"})) /\ AllTold(Get({p, Paged(p), Append(p, "edit")}, g))
  BY <1>1, <1>2, <1>3, <1>4, RoutesTold
<1> QED BY <1>5, FormsTold DEF AllTold, blogCommentsRouter, p, g

LEMMA PlacesTold ==
  ASSUME LinksAreFree, NEW b \in Blogs
  PROVE  /\ AllTold(blogRandomRouter(b)) /\ AllTold(blogOnThisDayRouter(b)) /\ AllTold(blogStatsRouter(b))
         /\ AllTold(blogContactRouter(b)) /\ AllTold(blogBlogrollRouter(b)) /\ AllTold(blogGeoMapRouter(b))
         /\ AllTold(blogSitemapRouter(b))
<1>1. /\ Plain("random") /\ Plain("onthisday") /\ Plain("statistics") /\ Plain(".opml") /\ Plain("tracks.json")
      /\ Plain("locations.json") /\ \A w \in SitemapParts : Plain(w)
  BY DEF Plain, Telling, FeatureNames, OwnNames, PostLists, SitemapParts
<1>2. AllTold(blogRandomRouter(b)) /\ AllTold(blogOnThisDayRouter(b)) /\ AllTold(blogStatsRouter(b))
  <2>1. /\ AllTold(Get({getRelativePath(b, <<"random">>)}, {"private"}))
        /\ AllTold(Get({getRelativePath(b, <<"onthisday">>)}, {"private"}))
        /\ AllTold(CachedGet({getRelativePath(b, <<"statistics">>)}, {"private"}))
    BY <1>1, BlogTold, RoutesTold
  <2> QED BY <2>1 DEF blogRandomRouter, blogOnThisDayRouter, blogStatsRouter, Feature, AllTold
<1>3. ASSUME NEW w \in {"contact", "blogroll", "map"}, Has(b, w)
      PROVE  Stands(getRelativePath(b, <<w>>), {"private"}) /\ Calm(getRelativePath(b, <<w>>))
  BY <1>3, FeatureTold DEF FeatureNames
<1>4. AllTold(blogContactRouter(b))
  <2> SUFFICES ASSUME Has(b, "contact") PROVE AllTold(blogContactRouter(b))
    BY DEF AllTold, blogContactRouter, Feature
  <2>1. AllTold(CachedGet({contactPath(b)}, {"private"}))
    BY <1>3, RoutesTold DEF contactPath
  <2> QED BY <2>1, FormsTold DEF AllTold, blogContactRouter, Feature
<1>5. AllTold(blogBlogrollRouter(b))
  <2> SUFFICES ASSUME Has(b, "blogroll") PROVE AllTold(blogBlogrollRouter(b))
    BY DEF AllTold, blogBlogrollRouter, Feature
  <2>1. Stands(getBlogrollPath(b), {"private"}) /\ Calm(getBlogrollPath(b))
    BY <1>3 DEF getBlogrollPath
  <2>2. Stands(opmlPath(b), {"private"})
    BY <1>1, <2>1, PlainTold DEF opmlPath, Plain
  <2>3. AllTold(CachedGet({getBlogrollPath(b), opmlPath(b)}, {"private"}))
    BY <2>1, <2>2, RoutesTold
  <2> QED BY <2>3, FormsTold DEF AllTold, blogBlogrollRouter, Feature
<1>6. AllTold(blogGeoMapRouter(b))
  <2> SUFFICES ASSUME Has(b, "map") PROVE AllTold(blogGeoMapRouter(b))
    BY DEF AllTold, blogGeoMapRouter, Feature
  <2> DEFINE p == getRelativePath(b, <<"map">>)
  <2>1. Stands(p, {"private"}) /\ Calm(p)
    BY <1>3
  <2> HIDE DEF p
  <2>2. \A q \in {p} \cup Under(p, {"tracks.json", "locations.json"}) : Stands(q, {"private"})
    BY <1>1, <2>1, PlainTold DEF Plain, Under
  <2>3. AllTold(CachedGet({p} \cup Under(p, {"tracks.json", "locations.json"}), {"private"}))
    BY <2>2, RoutesTold
  <2> QED BY <2>3 DEF blogGeoMapRouter, Feature, p
<1>7. AllTold(blogSitemapRouter(b))
  <2>1. Calm(Prefix[b])
    BY BlogTold, InBlog
  <2>2. \A q \in Under(Prefix[b], SitemapParts) : Stands(q, {"private"})
    BY <1>1, <2>1, PlainTold DEF Plain, Under
  <2> QED BY <2>2, RoutesTold DEF blogSitemapRouter
<1> QED BY <1>2, <1>4, <1>5, <1>6, <1>7

LEMMA MountedTold ==
  ASSUME LinksAreFree, Known(built.sections)
  PROVE  AllTold(Mounted(built))
<1>1. ASSUME NEW b \in Blogs
      PROVE  AllTold(blogRouter(b, built))
  BY SectionsTold, ListsTold, SearchTold, EditorTold, CommentsTold, PlacesTold DEF AllTold, blogRouter
<1> DEFINE captcha == Get({<<"captcha", "{id}">>}, {})
           blogs == UNION {blogRouter(b, built) : b \in Blogs}
           sitemap == SharedGet({<<"sitemap.xml">>}, {"private"})
           key == IF indexNowEnabled THEN SharedGet({<<"{key}.txt">>}, {}) ELSE {}
           robots == SharedGet({<<"robots.txt">>}, {})
           favicon == CachedGet({<<"favicon.ico">>}, {})
<1>2. Mounted(built) =
        loginRouter \cup micropubRouter \cup oauthRouter \cup activityPubRouter \cup webmentionsRouter(built)
          \cup notificationsRouter \cup assetsRouter \cup staticFilesRouter \cup mediaFilesRouter
          \cup profileImageRouter \cup otherRoutesRouter(built) \cup captcha \cup blogs \cup sitemap \cup key
          \cup robots \cup favicon
  BY DEF Mounted
<1>3. AllTold(captcha) /\ AllTold(sitemap) /\ AllTold(key) /\ AllTold(robots) /\ AllTold(favicon)
  BY FilesTold DEF AllTold
<1>4. AllTold(blogs)
  BY <1>1 DEF AllTold
<1> HIDE DEF captcha, blogs, sitemap, key, robots, favicon
<1> QED BY <1>2, <1>3, <1>4, ServerTold, ActivityPubTold, FilesTold, OthersTold DEF AllTold

-----------------------------------------------------------------------------
\* What follows from that a page can be reached.
Reached(p, owner) == <<"GET", p>> \in Reachable(Mounted(built), owner)

LEMMA PostEnds == EndsIn(post, {"{post}"}) /\ EndsIn(<<"s", "{id}">>, {"{id}"})
BY ShortPaths DEF post

LEMMA ReachedRoute ==
  ASSUME LinksAreFree, Known(built.sections), NEW p, NEW owner \in BOOLEAN, Reached(p, owner), p \notin NamedPaths,
         p # post, p # <<"s", "{id}">>
  PROVE  \E g : Open(g, owner) /\ Told(p, g)
<1>1. \A b \in Blogs : home(b) \in NamedPaths
  BY Named
<1>2. p \notin PostPaths
  BY <1>1 DEF PostPaths
<1>3. PICK r \in Mounted(built) : Open(r.guards, owner) /\ r.method = "GET" /\ r.path = p
  BY <1>2 DEF Reached, Reachable, Link
<1> QED BY <1>3, MountedTold DEF AllTold

LEMMA ReachedWord ==
  ASSUME LinksAreFree, Known(built.sections), NEW q, Calm(q), NEW w, NEW owner \in BOOLEAN, Reached(Append(q, w), owner),
         Append(q, w) \notin NamedPaths, w # "{post}", w # "{id}" \/ q # <<"s">>
  PROVE  \E g : Open(g, owner) /\ Tells(w, Append(q, w), g)
<1> DEFINE p == Append(q, w)
<1>0. IsPath(q) /\ EndsIn(p, {w})
  BY AppendEnd DEF Calm
<1>1. p # post
  BY <1>0, PostEnds, OneEnd
<1>2. p # <<"s", "{id}">>
  <2>1. <<"s", "{id}">> = Append(<<"s">>, "{id}") /\ IsPath(<<"s">>)
    BY Appending, ShortPaths DEF EndsIn
  <2>2. Append(q, w) = Append(<<"s">>, "{id}") => q = <<"s">> /\ w = "{id}"
    BY <1>0, <2>1, SamePaths
  <2> QED BY <2>1, <2>2
<1>3. PICK g : Open(g, owner) /\ Told(p, g)
  BY <1>1, <1>2, ReachedRoute
<1>4. TellsPath(p, g)
  BY <1>3, FollowsEnd DEF Told
<1>5. PICK v : EndsIn(p, {v}) /\ Tells(v, p, g)
  BY <1>4 DEF TellsPath
<1>6. v = w
  BY <1>0, <1>5, OneEnd
<1> QED BY <1>3, <1>5, <1>6

LEMMA ReachedFeed ==
  ASSUME LinksAreFree, Known(built.sections), NEW q, IsPath(q), NEW w, w \notin {"followers", "remote_follow"}, NEW owner \in BOOLEAN,
         Reached(Append(Append(q, w), "{feed}"), owner),
         Append(q, w) \notin NamedPaths, Append(Append(q, w), "{feed}") \notin NamedPaths
  PROVE  \E g : Open(g, owner) /\ Tells(w, Append(q, w), g)
<1> DEFINE i == Append(q, w)
           p == Append(i, "{feed}")
<1>0. IsPath(i) /\ EndsIn(i, {w}) /\ EndsIn(p, {"{feed}"}) /\ Calm(i)
  BY AppendEnd, CalmAppend
<1> HIDE DEF i, p
<1>1. p # post /\ p # <<"s", "{id}">>
  <2>1. ASSUME p = post PROVE FALSE
    <3>1. EndsIn(p, {"{post}"})
      BY <2>1, PostEnds
    <3>2. "{feed}" \in {"{post}"}
      BY <1>0, <3>1, OneEnd
    <3> QED BY <3>2
  <2>2. ASSUME p = <<"s", "{id}">> PROVE FALSE
    <3>1. EndsIn(p, {"{id}"})
      BY <2>2, PostEnds
    <3>2. "{feed}" \in {"{id}"}
      BY <1>0, <3>1, OneEnd
    <3> QED BY <3>2
  <2> QED BY <2>1, <2>2
<1>2. PICK g : Open(g, owner) /\ Told(p, g)
  BY <1>1, ReachedRoute DEF i, p
<1>3. TellsPath(i, g)
  BY <1>0, <1>2, FollowsEnd DEF Told, i, p
<1>4. PICK v : EndsIn(i, {v}) /\ Tells(v, i, g)
  BY <1>3 DEF TellsPath, i
<1>5. v = w
  BY <1>0, <1>4, OneEnd
<1> QED BY <1>2, <1>4, <1>5 DEF i

\* The owner alone is let through by a login.
LEMMA LoginOpen ==
  ASSUME NEW g, NEW owner \in BOOLEAN, Open(g, owner), "login" \in g
  PROVE  owner = TRUE
BY DEF Open

LEMMA Unnamed ==
  ASSUME LinksAreFree, NEW b \in Blogs
  PROVE  \A p \in FeaturePages(b) : p \notin NamedPaths
BY DEF LinksAreFree

LEMMA FeatureReached ==
  ASSUME LinksAreFree, Known(built.sections), NEW b \in Blogs, NEW owner \in BOOLEAN,
         NEW w \in FeatureNames, Reached(getRelativePath(b, <<w>>), owner)
  PROVE  Has(b, w)
<1>1. getRelativePath(b, <<w>>) = Append(home(b), w) /\ Calm(home(b))
  BY InBlog, BlogTold
<1>2. getRelativePath(b, <<w>>) \in FeaturePages(b)
  BY DEF FeaturePages, FeatureNames
<1>3. w # "{post}" /\ w # "{id}"
  BY DEF FeatureNames
<1>4. PICK g : Tells(w, Append(home(b), w), g)
  BY <1>1, <1>2, <1>3, Unnamed, ReachedWord
<1>5. PICK c \in Blogs : Append(home(b), w) = getRelativePath(c, <<w>>) /\ Has(c, w)
  BY <1>4 DEF Tells
<1> QED BY <1>1, <1>5, OfBlog

\* What the search has found, and the description of the search.
LEMMA SearchReached ==
  ASSUME LinksAreFree, Known(built.sections), NEW b \in Blogs, NEW owner \in BOOLEAN,
         NEW w \in {"{search}", "opensearch.xml"}, Reached(Append(searchPath(b), w), owner)
  PROVE  Has(b, "search")
<1>1. Calm(searchPath(b)) /\ \A c \in Blogs : IsPath(searchPath(c))
  BY InBlog, BlogTold DEF searchPath
<1>2. Append(searchPath(b), w) \in FeaturePages(b)
  BY DEF FeaturePages, openSearchURL
<1>3. PICK g : Tells(w, Append(searchPath(b), w), g)
  BY <1>1, <1>2, Unnamed, ReachedWord
<1>4. PICK c \in Blogs : Append(searchPath(b), w) = Append(searchPath(c), w) /\ Has(c, "search")
  BY <1>3 DEF Tells
<1>5. searchPath(b) = searchPath(c)
  BY <1>1, <1>4, SamePaths DEF Calm
<1> QED BY <1>4, <1>5, OfBlog DEF searchPath

LEMMA ResultsFeedReached ==
  ASSUME LinksAreFree, Known(built.sections), NEW b \in Blogs, NEW owner \in BOOLEAN,
         Reached(Append(Append(searchPath(b), "{search}"), "{feed}"), owner)
  PROVE  Has(b, "search")
<1>1. \A c \in Blogs : IsPath(searchPath(c))
  BY InBlog DEF searchPath
<1>2. Append(searchPath(b), "{search}") \in FeaturePages(b) /\ Append(Append(searchPath(b), "{search}"), "{feed}") \in FeaturePages(b)
  BY DEF FeaturePages
<1>3. PICK g : Tells("{search}", Append(searchPath(b), "{search}"), g)
  BY <1>1, <1>2, Unnamed, ReachedFeed
<1>4. PICK c \in Blogs : Append(searchPath(b), "{search}") = Append(searchPath(c), "{search}") /\ Has(c, "search")
  BY <1>3 DEF Tells
<1>5. searchPath(b) = searchPath(c)
  BY <1>1, <1>4, SamePaths
<1> QED BY <1>4, <1>5, OfBlog DEF searchPath

LEMMA PhotosFeedReached ==
  ASSUME LinksAreFree, Known(built.sections), NEW b \in Blogs, NEW owner \in BOOLEAN,
         Reached(Append(getRelativePath(b, <<"photos">>), "{feed}"), owner)
  PROVE  Has(b, "photos")
<1> DEFINE p == getRelativePath(b, <<"photos">>)
<1>1. p = Append(home(b), "photos") /\ IsPath(home(b))
  BY InBlog
<1>2. p \in FeaturePages(b) /\ Append(p, "{feed}") \in FeaturePages(b)
  BY DEF FeaturePages
<1>3. p \notin NamedPaths /\ Append(p, "{feed}") \notin NamedPaths
  BY <1>2, Unnamed
<1> HIDE DEF p
<1>4. Reached(Append(Append(home(b), "photos"), "{feed}"), owner)
  BY <1>1 DEF p
<1>5. PICK g : Tells("photos", p, g)
  BY <1>1, <1>3, <1>4, ReachedFeed
<1>6. PICK c \in Blogs : p = getRelativePath(c, <<"photos">>) /\ Has(c, "photos")
  BY <1>5 DEF Tells, FeatureNames
<1> QED BY <1>6, OfBlog DEF p

\* Comments, where a blog has them.
LEMMA CommentsReached ==
  ASSUME LinksAreFree, Known(built.sections), NEW b \in Blogs, NEW owner \in BOOLEAN,
         \/ Reached(commentPath(b), owner)
         \/ \E w \in {"{id}", "edit"} : Reached(Append(commentPath(b), w), owner)
  PROVE  commentsEnabled(b, built)
<1>1. /\ \A c \in Blogs : IsPath(commentPath(c)) /\ commentPath(c) = Append(home(c), "comment")
      /\ Calm(commentPath(b)) /\ Calm(home(b))
  BY InBlog, BlogTold DEF commentPath
<1>2. commentPath(b) \notin NamedPaths /\ \A w \in {"{id}", "edit"} : Append(commentPath(b), w) \notin NamedPaths
  <2>1. commentPath(b) \in FeaturePages(b) /\ \A w \in {"{id}", "edit"} : Append(commentPath(b), w) \in FeaturePages(b)
    BY DEF FeaturePages, Under, commentPath
  <2> QED BY <2>1, Unnamed
<1>3. ASSUME NEW c \in Blogs, commentPath(c) = commentPath(b) PROVE b = c
  BY <1>3, OfBlog DEF commentPath
<1>4. CASE Reached(commentPath(b), owner)
  <2>1. PICK g : Tells("comment", commentPath(b), g)
    BY <1>1, <1>2, <1>4, ReachedWord
  <2> QED BY <1>3, <2>1 DEF Tells
<1>5. ASSUME NEW w \in {"{id}", "edit"}, Reached(Append(commentPath(b), w), owner)
      PROVE  commentsEnabled(b, built)
  <2>1. EndsIn(commentPath(b), {"comment"})
    BY <1>1, InBlog, AppendEnd
  <2>2. EndsIn(<<"s">>, {"s"}) /\ EndsIn(<<"captcha">>, {"captcha"}) /\ <<"captcha", "{id}">> = Append(<<"captcha">>, "{id}")
    BY ShortPaths, Appending
  <2>3. commentPath(b) # <<"s">> /\ commentPath(b) # <<"captcha">>
    BY <2>1, <2>2, OneEnd
  <2>4. PICK g : Tells(w, Append(commentPath(b), w), g)
    BY <1>1, <1>2, <1>5, <2>3, ReachedWord
  <2>5. Append(commentPath(b), w) # <<"captcha", "{id}">>
    <3>1. IsPath(<<"captcha">>) /\ IsPath(commentPath(b))
      BY <1>1, <2>2 DEF EndsIn
    <3>2. Append(commentPath(b), w) # Append(<<"captcha">>, "{id}")
      BY <2>3, <3>1, SamePaths
    <3> QED BY <2>2, <3>2
  <2>6. PICK c \in Blogs : Append(commentPath(b), w) = Append(commentPath(c), w) /\ commentsEnabled(c, built)
    BY <2>4, <2>5 DEF Tells
  <2>7. commentPath(b) = commentPath(c)
    BY <1>1, <2>6, SamePaths
  <2> QED BY <1>3, <2>6, <2>7
<1> QED BY <1>4, <1>5

\* Pages of the owner.
LEMMA OwnReached ==
  ASSUME LinksAreFree, Known(built.sections), NEW owner \in BOOLEAN, NEW q, Calm(q), NEW w \in OwnNames, Reached(Append(q, w), owner),
         Append(q, w) \notin NamedPaths
  PROVE  owner = TRUE
<1>1. w # "{post}" /\ w # "{id}"
  BY DEF OwnNames, PostLists
<1>2. PICK g : Open(g, owner) /\ Tells(w, Append(q, w), g)
  BY <1>1, ReachedWord
<1> QED BY <1>2, LoginOpen DEF Tells

LEMMA JoinUses ==
  ASSUME NEW q, IsPath(q)
  PROVE  q \o <<"files", "uses", "{filename}">> = Append(Append(Append(q, "files"), "uses"), "{filename}")
<1>1. ASSUME NEW u, NEW v, NEW w, u = "files", v = "uses", w = "{filename}"
      PROVE  q \o <<u, v, w>> = Append(Append(Append(q, u), v), w)
  BY JoinThree
<1> QED BY <1>1

LEMMA EditorReached ==
  ASSUME LinksAreFree, Known(built.sections), NEW b \in Blogs, NEW owner \in BOOLEAN,
         \/ Reached(editorPath(b), owner) \/ Reached(settingsPath(b), owner)
         \/ \E w \in PostLists \cup {"files", "links"} : Reached(Append(editorPath(b), w), owner)
         \/ Reached(editorPath(b) \o <<"files", "uses", "{filename}">>, owner)
         \/ \E l \in PostLists : Reached(Append(Append(editorPath(b), l), "{feed}"), owner)
         \/ Reached(commentPath(b), owner) \/ Reached(Append(commentPath(b), "edit"), owner)
  PROVE  owner = TRUE
<1> DEFINE editor == editorPath(b)
           uses == editor \o <<"files", "uses", "{filename}">>
<1>1. /\ editor = Append(home(b), "editor") /\ settingsPath(b) = Append(home(b), "settings") 
      /\ commentPath(b) = Append(home(b), "comment") /\ Calm(home(b)) /\ Calm(editor) /\ Calm(commentPath(b))
  BY InBlog, BlogTold DEF editorPath, settingsPath, commentPath
<1>2. /\ editor \notin NamedPaths /\ settingsPath(b) \notin NamedPaths /\ commentPath(b) \notin NamedPaths
      /\ Append(commentPath(b), "edit") \notin NamedPaths /\ uses \notin NamedPaths
      /\ \A w \in PostLists \cup {"files", "links"} : Append(editor, w) \notin NamedPaths
      /\ \A l \in PostLists : Append(Append(editor, l), "{feed}") \notin NamedPaths
  <2>1. editor \in FeaturePages(b) /\ settingsPath(b) \in FeaturePages(b) /\ commentPath(b) \in FeaturePages(b)
    BY DEF FeaturePages, editorPath, settingsPath, commentPath
  <2>2. Append(commentPath(b), "edit") \in FeaturePages(b) /\ uses \in FeaturePages(b)
    BY DEF FeaturePages, Under
  <2>3. \A w \in PostLists \cup {"files", "links"} : Append(editor, w) \in FeaturePages(b)
    BY DEF FeaturePages, Under
  <2>4. \A l \in PostLists : Append(Append(editor, l), "{feed}") \in FeaturePages(b)
    BY DEF FeaturePages, Under
  <2> HIDE DEF editor, uses
  <2> QED BY <2>1, <2>2, <2>3, <2>4, Unnamed
<1>3. \A w \in PostLists \cup {"editor", "settings", "comment", "edit", "files", "links", "{filename}"} : w \in OwnNames
  BY DEF OwnNames
<1> HIDE DEF editor
<1>4. CASE Reached(editor, owner) \/ Reached(settingsPath(b), owner) \/ Reached(commentPath(b), owner)
  BY <1>1, <1>2, <1>3, <1>4, OwnReached
<1>5. CASE Reached(Append(commentPath(b), "edit"), owner)
  BY <1>1, <1>2, <1>3, <1>5, OwnReached
<1>6. CASE \E w \in PostLists \cup {"files", "links"} : Reached(Append(editor, w), owner)
  BY <1>1, <1>2, <1>3, <1>6, OwnReached
<1>7. CASE Reached(uses, owner)
  <2> DEFINE q == Append(Append(editor, "files"), "uses")
  <2>1. IsPath(editor) /\ IsPath(Append(editor, "files")) /\ Calm(q)
    BY <1>1, AppendEnd, CalmAppend DEF Calm
  <2>2. uses = Append(q, "{filename}")
    BY <2>1, JoinUses
  <2> HIDE DEF q, uses
  <2> QED BY <1>2, <1>3, <1>7, <2>1, <2>2, OwnReached
<1>8. CASE \E l \in PostLists : Reached(Append(Append(editor, l), "{feed}"), owner)
  <2>1. PICK l \in PostLists : Reached(Append(Append(editor, l), "{feed}"), owner)
    BY <1>8
  <2>2. IsPath(editor) /\ l \notin {"followers", "remote_follow"} /\ l \in OwnNames
    BY <1>1, <1>3 DEF Calm, PostLists
  <2>3. PICK g : Open(g, owner) /\ Tells(l, Append(editor, l), g)
    BY <1>2, <2>1, <2>2, ReachedFeed
  <2> QED BY <2>2, <2>3, LoginOpen DEF Tells
<1> QED BY <1>4, <1>5, <1>6, <1>7, <1>8 DEF editor

LEMMA ServerReached ==
  ASSUME LinksAreFree, Known(built.sections), NEW owner \in BOOLEAN
  PROVE  /\ Reached(<<"notifications">>, owner) => owner = TRUE
         /\ Reached(<<"webmention">>, owner) => owner = TRUE /\ ~DisableReceiving(built)
<1>1. /\ <<"notifications">> = Append(<<>>, "notifications") /\ <<"webmention">> = Append(<<>>, "webmention")
      /\ <<"notifications">> \notin NamedPaths /\ <<"webmention">> \notin NamedPaths /\ Calm(<<>>)
  BY FirstWord, CalmShort DEF LinksAreFree
<1>2. "notifications" \in OwnNames /\ "webmention" \in OwnNames
  BY DEF OwnNames
<1>3. ASSUME Reached(Append(<<>>, "notifications"), owner) PROVE owner = TRUE
  BY <1>1, <1>2, <1>3, OwnReached
<1>4. ASSUME Reached(Append(<<>>, "webmention"), owner) PROVE owner = TRUE /\ ~DisableReceiving(built)
  <2>1. PICK g : Open(g, owner) /\ Tells("webmention", Append(<<>>, "webmention"), g)
    BY <1>1, <1>4, ReachedWord
  <2> QED BY <1>2, <2>1, LoginOpen DEF Tells
<1> QED BY <1>1, <1>3, <1>4

LEMMA FollowReached ==
  ASSUME LinksAreFree, Known(built.sections), NEW b \in Blogs, NEW owner \in BOOLEAN, Reached(<<"activitypub", "remote_follow", b>>, owner)
  PROVE  apEnabled
<1> DEFINE p == <<"activitypub", "remote_follow", b>>
<1>1. p = Append(<<"activitypub", "remote_follow">>, b) /\ <<"activitypub", "remote_follow">> \in Follows
  BY Appending DEF Follows
<1>2. p \in FeaturePages(b)
  BY DEF FeaturePages
<1>3. p # post /\ p # <<"s", "{id}">>
  BY DEF post
<1>4. \E g : Told(p, g)
  BY <1>2, <1>3, Unnamed, ReachedRoute
<1> QED BY <1>1, <1>2, <1>4, Unnamed DEF Told

-----------------------------------------------------------------------------
(***************************************************************************)
(* Links and forms.  What is answered to whom, router by router; then what *)
(* the parts of pages offer.                                               *)
(***************************************************************************)
Answered(owner) ==
  KnownDead \cup ForClients(Mounted(built))
    \cup (IF isPrivate THEN Reachable(Mounted(built), TRUE) ELSE Reachable(Mounted(built), owner))
CanGet(p, owner) == <<"GET", p>> \in Answered(owner)
CanPost(p, owner) == <<"POST", p>> \in Answered(owner)

Mounts(routes) == routes \subseteq Mounted(built)
Lets(g, owner) == owner = TRUE \/ g \cap {"login", "oauth"} = {}

LEMMA FreeGuards ==
  /\ \A owner : Lets({}, owner) /\ Lets({"private"}, owner) /\ Lets({"private", "captcha"}, owner)
  /\ \A g : Lets(g, TRUE)
BY DEF Lets

LEMMA Served ==
  ASSUME NEW methods, NEW paths, NEW g, NEW cache, Mounts(Route(methods, paths, g, cache)),
         NEW owner \in BOOLEAN, Lets(g, owner)
  PROVE  /\ "GET" \in methods => \A p \in paths : CanGet(p, owner)
         /\ "POST" \in methods => \A p \in paths : CanPost(p, owner)
<1>1. ASSUME NEW m \in methods, NEW p \in paths
      PROVE  <<m, p>> \in Answered(owner)
  <2> DEFINE r == [method |-> m, path |-> p, guards |-> g, cache |-> cache]
  <2>1. r \in Mounted(built)
    BY DEF Route, Mounts
  <2>2. r.method = m /\ r.path = p /\ r.guards = g
    OBVIOUS
  <2>3. Open(g, TRUE) /\ (isPrivate \/ Open(g, owner))
    BY DEF Open, Lets
  <2> HIDE DEF r
  <2>4. <<m, p>> \in Reachable(Mounted(built), TRUE) /\ (isPrivate \/ <<m, p>> \in Reachable(Mounted(built), owner))
    BY <2>1, <2>2, <2>3 DEF Reachable
  <2> QED BY <2>4 DEF Answered
<1> QED BY <1>1 DEF CanGet, CanPost

LEMMA GetServed ==
  ASSUME NEW paths, NEW g, NEW owner \in BOOLEAN, Lets(g, owner),
         Mounts(Get(paths, g)) \/ Mounts(CachedGet(paths, g)) \/ Mounts(SharedGet(paths, g))
  PROVE  \A p \in paths : CanGet(p, owner)
<1>1. "GET" \in {"GET"}
  OBVIOUS
<1>2. CASE Mounts(Get(paths, g))
  BY <1>1, <1>2, Served DEF Get
<1>3. CASE Mounts(CachedGet(paths, g))
  BY <1>1, <1>3, Served DEF CachedGet
<1>4. CASE Mounts(SharedGet(paths, g))
  BY <1>1, <1>4, Served DEF SharedGet
<1> QED BY <1>2, <1>3, <1>4

LEMMA PostServed ==
  ASSUME NEW paths, NEW g, NEW owner \in BOOLEAN, Lets(g, owner),
         Mounts(Post(paths, g)) \/ Mounts(Route({"POST"}, paths, g, "visitors"))
  PROVE  \A p \in paths : CanPost(p, owner)
<1>1. "POST" \in {"POST"}
  OBVIOUS
<1>2. CASE Mounts(Post(paths, g))
  BY <1>1, <1>2, Served DEF Post
<1>3. CASE Mounts(Route({"POST"}, paths, g, "visitors"))
  BY <1>1, <1>3, Served
<1> QED BY <1>2, <1>3

LEMMA DeadServed ==
  ASSUME NEW owner \in BOOLEAN
  PROVE  \A p \in PostPaths : CanGet(p, owner)
<1>1. \A p \in PostPaths : \A o : <<"GET", p>> \in Reachable(Mounted(built), o)
  BY DEF Reachable, Link
<1> QED BY <1>1 DEF CanGet, Answered

\* The routers are parts of what is mounted.
LEMMA Parts ==
  /\ Mounts(loginRouter) /\ Mounts(micropubRouter) /\ Mounts(oauthRouter)
  /\ Mounts(activityPubRouter) /\ Mounts(webmentionsRouter(built))
  /\ Mounts(notificationsRouter) /\ Mounts(assetsRouter)
  /\ Mounts(profileImageRouter) /\ Mounts(otherRoutesRouter(built))
  /\ Mounts(Get({<<"captcha", "{id}">>}, {}))
  /\ Mounts(SharedGet({<<"sitemap.xml">>}, {"private"}))
  /\ \A b \in Blogs : Mounts(blogRouter(b, built))
<1> DEFINE captcha == Get({<<"captcha", "{id}">>}, {})
           blogs == UNION {blogRouter(b, built) : b \in Blogs}
           sitemap == SharedGet({<<"sitemap.xml">>}, {"private"})
           key == IF indexNowEnabled THEN SharedGet({<<"{key}.txt">>}, {}) ELSE {}
           robots == SharedGet({<<"robots.txt">>}, {})
           favicon == CachedGet({<<"favicon.ico">>}, {})
<1>1. Mounted(built) =
        loginRouter \cup micropubRouter \cup oauthRouter \cup activityPubRouter \cup webmentionsRouter(built)
          \cup notificationsRouter \cup assetsRouter \cup staticFilesRouter \cup mediaFilesRouter
          \cup profileImageRouter \cup otherRoutesRouter(built) \cup captcha \cup blogs \cup sitemap \cup key
          \cup robots \cup favicon
  BY DEF Mounted
<1>2. \A b \in Blogs : blogRouter(b, built) \subseteq blogs
  OBVIOUS
<1> HIDE DEF captcha, blogs, sitemap, key, robots, favicon
<1>3. captcha \subseteq Mounted(built) /\ sitemap \subseteq Mounted(built) /\ blogs \subseteq Mounted(built)
  BY <1>1
<1> QED BY <1>1, <1>2, <1>3 DEF captcha, sitemap, Mounts

LEMMA ServerGets ==
  ASSUME NEW owner \in BOOLEAN
  PROVE  /\ CanGet(<<"assets", "{file}">>, owner) /\ CanGet(<<"profile.jpg">>, owner) /\ CanGet(<<"profile.png">>, owner)
         /\ CanGet(authorizePath, owner) /\ CanGet(tokenPath, owner) /\ CanGet(oauthMetadataPath, owner)
         /\ CanGet(<<"captcha", "{id}">>, owner) /\ CanGet(<<"sitemap.xml">>, owner)
         /\ CanGet(<<"-", "tiles", "{tile}">>, owner) /\ CanGet(<<"-", "leaflet">>, owner) /\ CanGet(<<"-", "hlsjs">>, owner)
         /\ CanGet(<<"-", "reactions">>, owner) /\ CanGet(post, owner) /\ CanGet(<<"s", "{id}">>, owner)
<1>1. CanGet(<<"assets", "{file}">>, owner) /\ CanGet(<<"captcha", "{id}">>, owner)
  BY Parts, GetServed, FreeGuards DEF assetsRouter
<1>2. CanGet(<<"profile.jpg">>, owner) /\ CanGet(<<"profile.png">>, owner)
  BY Parts, GetServed, FreeGuards DEF profileImageRouter
<1>3. CanGet(authorizePath, owner) /\ CanGet(tokenPath, owner) /\ CanGet(oauthMetadataPath, owner)
  <2>1. Mounts(SharedGet({oauthMetadataPath}, {})) /\ Mounts(Get({authorizePath, tokenPath}, {}))
    BY Parts DEF oauthRouter, Mounts
  <2> QED BY <2>1, GetServed, FreeGuards
<1>4. CanGet(<<"sitemap.xml">>, owner)
  BY Parts, GetServed, FreeGuards
<1>5. CanGet(<<"-", "tiles", "{tile}">>, owner)
  <2>1. Mounts(Get({<<"-", "tiles", "{tile}">>}, {"private"}))
    BY Parts DEF otherRoutesRouter, Mounts
  <2> QED BY <2>1, GetServed, FreeGuards
<1>6. CanGet(<<"-", "leaflet">>, owner) /\ CanGet(<<"-", "hlsjs">>, owner)
  <2>1. Mounts(Route({"GET", "POST"}, Under(<<"-">>, {"leaflet", "hlsjs"}), {"private"}, "all"))
    BY Parts DEF otherRoutesRouter, Mounts
  <2>2. <<"-", "leaflet">> = Append(<<"-">>, "leaflet") /\ <<"-", "hlsjs">> = Append(<<"-">>, "hlsjs")
    BY Appending
  <2>3. "GET" \in {"GET", "POST"}
    OBVIOUS
  <2>4. \A p \in Under(<<"-">>, {"leaflet", "hlsjs"}) : CanGet(p, owner)
    BY <2>1, <2>3, Served, FreeGuards
  <2> QED BY <2>2, <2>4 DEF Under
<1>7. CanGet(<<"-", "reactions">>, owner)
  <2>1. CASE anyReactionsEnabled(built)
    <3>1. Mounts(reactionRoutes)
      BY <2>1, Parts DEF otherRoutesRouter, Mounts
    <3> QED BY <3>1, Served, FreeGuards DEF reactionRoutes
  <2>2. CASE ~anyReactionsEnabled(built)
    BY <2>2 DEF CanGet, Answered, KnownDead
  <2> QED BY <2>1, <2>2
<1>8. CanGet(post, owner) /\ CanGet(<<"s", "{id}">>, owner)
  BY DeadServed DEF PostPaths
<1> QED BY <1>1, <1>2, <1>3, <1>4, <1>5, <1>6, <1>7, <1>8

LEMMA ServerPosts ==
  ASSUME NEW owner \in BOOLEAN
  PROVE  /\ CanPost(tokenPath, owner) /\ CanPost(revokePath, owner) /\ CanPost(createAppPath, owner)
         /\ CanPost(<<"micropub">>, owner) /\ CanPost(<<"webmention">>, owner) /\ CanPost(<<"-", "reactions">>, owner)
         /\ \A p \in Under(<<"webauthn", "login">>, {"begin", "finish"}) : CanPost(p, owner)
<1>1. CanPost(tokenPath, owner) /\ CanPost(revokePath, owner)
  <2>1. Mounts(Post({tokenPath, revokePath}, {}))
    BY Parts DEF oauthRouter, Mounts
  <2> QED BY <2>1, PostServed, FreeGuards
<1>2. CanPost(createAppPath, owner)
  <2>1. CASE apEnabled
    <3>1. Mounts(Post({createAppPath}, {}))
      BY <2>1, Parts DEF oauthRouter, Mounts
    <3> QED BY <3>1, PostServed, FreeGuards
  <2>2. CASE ~apEnabled
    BY <2>2 DEF CanPost, Answered, KnownDead, Form
  <2> QED BY <2>1, <2>2
<1>3. CanPost(<<"micropub">>, owner)
  <2> DEFINE r == [method |-> "POST", path |-> <<"micropub">>, guards |-> {"oauth"}, cache |-> "none"]
  <2>1. r \in Mounted(built)
    BY Parts DEF micropubRouter, Route, Mounts
  <2>2. r.method = "POST" /\ r.path = <<"micropub">> /\ "oauth" \in r.guards
    OBVIOUS
  <2> HIDE DEF r
  <2> QED BY <2>1, <2>2 DEF CanPost, Answered, ForClients
<1>4. CanPost(<<"webmention">>, owner)
  <2>1. CASE DisableReceiving(built)
    BY <2>1 DEF CanPost, Answered, KnownDead, Form
  <2>2. CASE ~DisableReceiving(built)
    <3>1. Mounts(Post({<<"webmention">>}, {}))
      BY <2>2, Parts DEF webmentionsRouter, Mounts
    <3> QED BY <3>1, PostServed, FreeGuards
  <2> QED BY <2>1, <2>2
<1>5. CanPost(<<"-", "reactions">>, owner)
  <2>1. CASE anyReactionsEnabled(built)
    <3>1. Mounts(reactionRoutes)
      BY <2>1, Parts DEF otherRoutesRouter, Mounts
    <3> QED BY <3>1, Served, FreeGuards DEF reactionRoutes
  <2>2. CASE ~anyReactionsEnabled(built)
    BY <2>2 DEF CanPost, Answered, KnownDead
  <2> QED BY <2>1, <2>2
<1>6. \A p \in Under(<<"webauthn", "login">>, {"begin", "finish"}) : CanPost(p, owner)
  <2>1. Mounts(Post(Under(<<"webauthn", "login">>, {"begin", "finish"}), {}))
    BY Parts DEF loginRouter, Mounts
  <2> QED BY <2>1, PostServed, FreeGuards
<1> QED BY <1>1, <1>2, <1>3, <1>4, <1>5, <1>6

\* What the owner has logged in for.
LEMMA OwnerServed ==
  /\ CanGet(<<"notifications">>, TRUE) /\ CanGet(Paged(<<"notifications">>), TRUE) /\ CanGet(<<"logout">>, TRUE)
  /\ CanPost(<<"notifications", "delete">>, TRUE) /\ CanPost(authorizePath, TRUE)
  /\ \A p \in Under(<<"webauthn", "registration">>, {"begin", "finish"}) : CanPost(p, TRUE)
  /\ ~DisableReceiving(built) =>
       /\ CanGet(<<"webmention">>, TRUE) /\ CanGet(Paged(<<"webmention">>), TRUE)
       /\ \A p \in Under(<<"webmention">>, {"approve", "delete", "reverify"}) : CanPost(p, TRUE)
<1>1. CanGet(<<"notifications">>, TRUE) /\ CanGet(Paged(<<"notifications">>), TRUE)
  <2>1. Mounts(Get({<<"notifications">>, Paged(<<"notifications">>)}, {"login"}))
    BY Parts DEF notificationsRouter, Mounts
  <2> QED BY <2>1, GetServed, FreeGuards
<1>2. CanPost(<<"notifications", "delete">>, TRUE)
  <2>1. Mounts(Post({<<"notifications", "delete">>}, {"login"}))
    BY Parts DEF notificationsRouter, Mounts
  <2> QED BY <2>1, PostServed, FreeGuards
<1>3. CanGet(<<"logout">>, TRUE)
  <2>1. Mounts(Get({<<"login">>, <<"logout">>}, {"login"}))
    BY Parts DEF loginRouter, Mounts
  <2> QED BY <2>1, GetServed, FreeGuards
<1>4. CanPost(authorizePath, TRUE)
  <2>1. Mounts(Post({authorizePath}, {"login"}))
    BY Parts DEF oauthRouter, Mounts
  <2> QED BY <2>1, PostServed, FreeGuards
<1>5. \A p \in Under(<<"webauthn", "registration">>, {"begin", "finish"}) : CanPost(p, TRUE)
  <2>1. Mounts(Post(Under(<<"webauthn", "registration">>, {"begin", "finish"}), {"login"}))
    BY Parts DEF loginRouter, Mounts
  <2> QED BY <2>1, PostServed, FreeGuards
<1>6. ASSUME ~DisableReceiving(built)
      PROVE  /\ CanGet(<<"webmention">>, TRUE) /\ CanGet(Paged(<<"webmention">>), TRUE)
             /\ \A p \in Under(<<"webmention">>, {"approve", "delete", "reverify"}) : CanPost(p, TRUE)
  <2>1. /\ Mounts(Get({<<"webmention">>, Paged(<<"webmention">>)}, {"login"}))
        /\ Mounts(Post(Under(<<"webmention">>, {"delete", "approve", "reverify"}), {"login"}))
    BY <1>6, Parts DEF webmentionsRouter, Mounts
  <2>2. Under(<<"webmention">>, {"delete", "approve", "reverify"}) = Under(<<"webmention">>, {"approve", "delete", "reverify"})
    BY DEF Under
  <2> QED BY <2>1, <2>2, GetServed, PostServed, FreeGuards
<1> QED BY <1>1, <1>2, <1>3, <1>4, <1>5, <1>6

\* The forms of visitors of ActivityPub.
LEMMA FollowServed ==
  ASSUME apEnabled, NEW owner \in BOOLEAN, NEW b \in Blogs
  PROVE  CanPost(<<"activitypub", "remote_follow", b>>, owner)
<1> DEFINE inbox == Under(<<"activitypub", "inbox">>, Blogs)
           follow == Under(<<"activitypub", "remote_follow">>, Blogs)
<1>1. Mounts(Post(inbox \cup follow, {}))
  BY Parts DEF activityPubRouter, Mounts
<1>2. <<"activitypub", "remote_follow", b>> = Append(<<"activitypub", "remote_follow">>, b)
  BY Appending
<1>3. <<"activitypub", "remote_follow", b>> \in follow
  BY <1>2 DEF Under
<1> HIDE DEF inbox, follow
<1>4. \A p \in inbox \cup follow : CanPost(p, owner)
  BY <1>1, PostServed, FreeGuards
<1> QED BY <1>3, <1>4

-----------------------------------------------------------------------------
LEMMA BlogParts ==
  ASSUME NEW b \in Blogs
  PROVE  /\ Mounts(blogHomeRouter(b)) /\ Mounts(blogSectionsRouter(b, built))
         /\ Mounts(blogTaxonomiesRouter(b)) /\ Mounts(blogDatesRouter(b))
         /\ Mounts(blogPhotosRouter(b)) /\ Mounts(blogSearchRouter(b))
         /\ Mounts(blogEditorRouter(b)) /\ Mounts(blogCommentsRouter(b, built))
         /\ Mounts(blogStatsRouter(b)) /\ Mounts(blogBlogrollRouter(b))
         /\ Mounts(blogGeoMapRouter(b)) /\ Mounts(blogContactRouter(b))
         /\ Mounts(blogSitemapRouter(b)) /\ Mounts(blogSettingsRouter(b))
<1>1. Mounts(blogRouter(b, built))
  BY Parts DEF Mounts
<1> QED BY <1>1 DEF blogRouter, Mounts

LEMMA HomeServed ==
  ASSUME NEW b \in Blogs, NEW owner \in BOOLEAN
  PROVE  /\ CanGet(home(b), owner) /\ CanGet(Append(home(b), "{feed}"), owner)
         /\ ~Has(b, "postAsHome") => \A p \in registerIndexRoutes(home(b)) : CanGet(p, owner)
<1>1. CASE Has(b, "postAsHome")
  <2>1. home(b) \in PostPaths
    BY <1>1 DEF PostPaths
  <2>2. CanGet(Append(home(b), "{feed}"), owner)
    BY <1>1 DEF CanGet, Answered, KnownDead, Link
  <2> QED BY <1>1, <2>1, <2>2, DeadServed
<1>2. CASE ~Has(b, "postAsHome")
  <2>1. Mounts(CachedGet(registerIndexRoutes(home(b)), {"private"}))
    BY <1>2, BlogParts DEF blogHomeRouter, home, Mounts
  <2>2. \A p \in registerIndexRoutes(home(b)) : CanGet(p, owner)
    BY <2>1, GetServed, FreeGuards
  <2> QED BY <2>2 DEF registerIndexRoutes
<1> QED BY <1>1, <1>2

LEMMA SectionsServed ==
  ASSUME Alike(built, mem), NEW b \in Blogs, NEW n \in SectionsOf(b), NEW owner \in BOOLEAN
  PROVE  \A p \in registerIndexRoutes(getRelativePath(b, <<n>>)) \cup dateRoutes(getRelativePath(b, <<n>>)) : CanGet(p, owner)
<1> DEFINE names == {row.name : row \in {r \in built.sections : r.blog = b}}
           Paths(m) == registerIndexRoutes(getRelativePath(b, <<m>>)) \cup dateRoutes(getRelativePath(b, <<m>>))
           paths == UNION {Paths(m) : m \in names}
<1>1. Mounts(CachedGet(paths, {"private"}))
  BY BlogParts DEF blogSectionsRouter, Mounts
<1>2. n \in names
  BY DEF SectionsOf, Alike
<1> HIDE DEF names
<1>3. Paths(n) \subseteq paths
  BY <1>2
<1> HIDE DEF paths
<1>4. \A p \in paths : CanGet(p, owner)
  BY <1>1, GetServed, FreeGuards
<1> QED BY <1>3, <1>4

LEMMA ListsServed ==
  ASSUME NEW b \in Blogs, NEW owner \in BOOLEAN
  PROVE  /\ CanGet(getRelativePath(b, <<"{taxonomy}">>), owner)
         /\ \A p \in registerIndexRoutes(getRelativePath(b, <<"{taxonomy}", "{taxValue}">>)) : CanGet(p, owner)
         /\ \A p \in dateRoutes(home(b)) : CanGet(p, owner)
         /\ \A p \in Under(Prefix[b], SitemapParts) : CanGet(p, owner)
<1>1. LET t == getRelativePath(b, <<"{taxonomy}">>) IN
      \A p \in {t} \cup registerIndexRoutes(Append(t, "{taxValue}")) : CanGet(p, owner)
  BY BlogParts, GetServed, FreeGuards DEF blogTaxonomiesRouter
<1>2. getRelativePath(b, <<"{taxonomy}", "{taxValue}">>) = Append(getRelativePath(b, <<"{taxonomy}">>), "{taxValue}")
  BY InBlog
<1>3. \A p \in dateRoutes(home(b)) : CanGet(p, owner)
  BY BlogParts, GetServed, FreeGuards DEF blogDatesRouter, home
<1>4. \A p \in Under(Prefix[b], SitemapParts) : CanGet(p, owner)
  BY BlogParts, GetServed, FreeGuards DEF blogSitemapRouter
<1> QED BY <1>1, <1>2, <1>3, <1>4

LEMMA FeaturesServed ==
  ASSUME NEW b \in Blogs, NEW owner \in BOOLEAN
  PROVE  /\ Has(b, "photos") => \A p \in registerIndexRoutes(getRelativePath(b, <<"photos">>)) : CanGet(p, owner)
         /\ Has(b, "search") =>
              /\ CanGet(searchPath(b), owner) /\ CanGet(openSearchURL(b), owner) /\ CanPost(searchPath(b), owner)
              /\ \A p \in registerIndexRoutes(Append(searchPath(b), "{search}")) : CanGet(p, owner)
         /\ Has(b, "blogStats") => CanGet(getRelativePath(b, <<"statistics">>), owner)
         /\ Has(b, "blogroll") =>
              /\ CanGet(getBlogrollPath(b), owner) /\ CanGet(opmlPath(b), owner)
              /\ owner = TRUE => CanPost(Append(getBlogrollPath(b), "refresh"), owner)
         /\ Has(b, "map") =>
              /\ CanGet(getRelativePath(b, <<"map">>), owner)
              /\ \A p \in Under(getRelativePath(b, <<"map">>), {"tracks.json", "locations.json"}) : CanGet(p, owner)
         /\ Has(b, "contact") => CanGet(contactPath(b), owner) /\ CanPost(contactPath(b), owner)
<1>1. Has(b, "photos") => \A p \in registerIndexRoutes(getRelativePath(b, <<"photos">>)) : CanGet(p, owner)
  BY BlogParts, GetServed, FreeGuards DEF blogPhotosRouter, Feature
<1>2. ASSUME Has(b, "search")
      PROVE  /\ CanGet(searchPath(b), owner) /\ CanGet(openSearchURL(b), owner) /\ CanPost(searchPath(b), owner)
             /\ \A p \in registerIndexRoutes(Append(searchPath(b), "{search}")) : CanGet(p, owner)
  <2>1. /\ Mounts(CachedGet({searchPath(b)} \cup registerIndexRoutes(Append(searchPath(b), "{search}")), {"private"}))
        /\ Mounts(Route({"POST"}, {searchPath(b)}, {"private"}, "visitors"))
        /\ Mounts(CachedGet({Append(searchPath(b), "opensearch.xml")}, {}))
    BY <1>2, BlogParts DEF blogSearchRouter, Feature, Mounts
  <2>2. \A p \in {searchPath(b)} \cup registerIndexRoutes(Append(searchPath(b), "{search}")) : CanGet(p, owner)
    BY <2>1, GetServed, FreeGuards
  <2>3. CanGet(openSearchURL(b), owner)
    BY <2>1, GetServed, FreeGuards DEF openSearchURL
  <2>4. CanPost(searchPath(b), owner)
    BY <2>1, PostServed, FreeGuards
  <2> QED BY <2>2, <2>3, <2>4
<1>3. Has(b, "blogStats") => CanGet(getRelativePath(b, <<"statistics">>), owner)
  BY BlogParts, GetServed, FreeGuards DEF blogStatsRouter, Feature
<1>4. ASSUME Has(b, "blogroll")
      PROVE  /\ CanGet(getBlogrollPath(b), owner) /\ CanGet(opmlPath(b), owner)
             /\ owner = TRUE => CanPost(Append(getBlogrollPath(b), "refresh"), owner)
  <2>1. /\ Mounts(CachedGet({getBlogrollPath(b), opmlPath(b)}, {"private"}))
        /\ Mounts(Post({Append(getBlogrollPath(b), "refresh")}, {"private", "login"}))
    BY <1>4, BlogParts DEF blogBlogrollRouter, Feature, Mounts
  <2>2. CanGet(getBlogrollPath(b), owner) /\ CanGet(opmlPath(b), owner)
    BY <2>1, GetServed, FreeGuards
  <2>3. owner = TRUE => CanPost(Append(getBlogrollPath(b), "refresh"), owner)
    BY <2>1, PostServed, FreeGuards
  <2> QED BY <2>2, <2>3
<1>5. ASSUME Has(b, "map")
      PROVE  /\ CanGet(getRelativePath(b, <<"map">>), owner)
             /\ \A p \in Under(getRelativePath(b, <<"map">>), {"tracks.json", "locations.json"}) : CanGet(p, owner)
  <2> DEFINE p == getRelativePath(b, <<"map">>)
  <2>1. Mounts(CachedGet({p} \cup Under(p, {"tracks.json", "locations.json"}), {"private"}))
    BY <1>5, BlogParts DEF blogGeoMapRouter, Feature, Mounts
  <2> HIDE DEF p
  <2>2. \A q \in {p} \cup Under(p, {"tracks.json", "locations.json"}) : CanGet(q, owner)
    BY <2>1, GetServed, FreeGuards
  <2> QED BY <2>2 DEF p
<1>6. ASSUME Has(b, "contact")
      PROVE  CanGet(contactPath(b), owner) /\ CanPost(contactPath(b), owner)
  <2>1. /\ Mounts(CachedGet({contactPath(b)}, {"private"}))
        /\ Mounts(Route({"POST"}, {contactPath(b)}, {"private", "captcha"}, "visitors"))
    BY <1>6, BlogParts DEF blogContactRouter, Feature, Mounts
  <2> QED BY <2>1, GetServed, PostServed, FreeGuards
<1> QED BY <1>1, <1>2, <1>3, <1>4, <1>5, <1>6

LEMMA CommentsServed ==
  ASSUME NEW b \in Blogs, commentsEnabled(b, built)
  PROVE  /\ \A owner \in BOOLEAN : CanPost(commentPath(b), owner)
         /\ CanGet(commentPath(b), TRUE) /\ CanGet(Paged(commentPath(b)), TRUE) /\ CanGet(Append(commentPath(b), "edit"), TRUE)
         /\ CanPost(Append(commentPath(b), "edit"), TRUE) /\ CanPost(Append(commentPath(b), "delete"), TRUE)
<1> DEFINE p == commentPath(b)
<1>1. /\ Mounts(Post({p}, {"private", "captcha"}))
      /\ Mounts(Get({p, Paged(p), Append(p, "edit")}, {"private", "login"}))
      /\ Mounts(Post(Under(p, {"delete", "edit"}), {"private", "login"}))
  BY BlogParts DEF blogCommentsRouter, Mounts
<1> HIDE DEF p
<1>2. \A owner \in BOOLEAN : CanPost(p, owner)
  BY <1>1, PostServed, FreeGuards
<1>3. CanGet(p, TRUE) /\ CanGet(Paged(p), TRUE) /\ CanGet(Append(p, "edit"), TRUE)
  BY <1>1, GetServed, FreeGuards
<1>4. \A q \in Under(p, {"delete", "edit"}) : CanPost(q, TRUE)
  BY <1>1, PostServed, FreeGuards
<1> QED BY <1>2, <1>3, <1>4 DEF p, Under

LEMMA EditorServed ==
  ASSUME NEW b \in Blogs
  PROVE  /\ CanGet(editorPath(b), TRUE) /\ CanPost(editorPath(b), TRUE)
         /\ \A w \in PostLists \cup {"links", "files", "ws"} : CanGet(Append(editorPath(b), w), TRUE)
         /\ \A l \in PostLists : \A p \in registerIndexRoutes(Append(editorPath(b), l)) : CanGet(p, TRUE)
         /\ \A p \in Under(Append(editorPath(b), "files"), FileForms) : CanPost(p, TRUE)
         /\ LET uses == editorPath(b) \o <<"files", "uses", "{filename}">> IN CanGet(uses, TRUE) /\ CanGet(Paged(uses), TRUE)
         /\ CanGet(settingsPath(b), TRUE) /\ \A p \in Under(settingsPath(b), SettingsForms) : CanPost(p, TRUE)
<1> DEFINE editor == editorPath(b)
           files == Append(editor, "files")
           uses == files \o <<"uses", "{filename}">>
           lists == UNION {registerIndexRoutes(Append(editor, l)) : l \in PostLists}
<1>1. /\ Mounts(Get({editor, files, uses, Paged(uses), Append(editor, "links"), Append(editor, "ws")}, {"login"}))
      /\ Mounts(Get(lists, {"login"}))
      /\ Mounts(Post({editor} \cup Under(files, FileForms), {"login"}))
  BY BlogParts DEF blogEditorRouter, Mounts
<1>2. uses = editor \o <<"files", "uses", "{filename}">>
  <2>1. IsPath(editor) /\ IsPath(files)
    BY InBlog, AppendEnd DEF editorPath
  <2>2. uses = Append(Append(files, "uses"), "{filename}")
    BY <2>1, JoinName
  <2>3. editor \o <<"files", "uses", "{filename}">> = Append(Append(files, "uses"), "{filename}")
    BY <2>1, JoinUses
  <2> HIDE DEF uses, files, editor
  <2> QED BY <2>2, <2>3
<1>3. \A l \in PostLists : registerIndexRoutes(Append(editor, l)) \subseteq lists
  OBVIOUS
<1> HIDE DEF editor, files, uses, lists
<1>4. \A p \in {editor, files, uses, Paged(uses), Append(editor, "links"), Append(editor, "ws")} : CanGet(p, TRUE)
  BY <1>1, GetServed, FreeGuards
<1>5. \A p \in lists : CanGet(p, TRUE)
  BY <1>1, GetServed, FreeGuards
<1>6. \A l \in PostLists : \A p \in registerIndexRoutes(Append(editor, l)) : CanGet(p, TRUE)
  BY <1>3, <1>5
<1>7. \A p \in {editor} \cup Under(files, FileForms) : CanPost(p, TRUE)
  BY <1>1, PostServed, FreeGuards
<1>8. CanGet(settingsPath(b), TRUE) /\ \A p \in Under(settingsPath(b), SettingsForms) : CanPost(p, TRUE)
  <2>1. Mounts(Get({settingsPath(b)}, {"login"})) /\ Mounts(Post(Under(settingsPath(b), SettingsForms), {"login"}))
    BY BlogParts DEF blogSettingsRouter, Mounts
  <2> QED BY <2>1, GetServed, PostServed, FreeGuards
<1>9. \A w \in PostLists \cup {"links", "files", "ws"} : CanGet(Append(editor, w), TRUE)
  BY <1>4, <1>6 DEF registerIndexRoutes, files
<1>10. CanGet(uses, TRUE) /\ CanGet(Paged(uses), TRUE)
  BY <1>4
<1>11. CanGet(editor, TRUE) /\ CanPost(editor, TRUE) /\ \A p \in Under(files, FileForms) : CanPost(p, TRUE)
  BY <1>4, <1>7
<1> QED BY <1>2, <1>6, <1>8, <1>9, <1>10, <1>11 DEF editor, files

\* What a part of a page offers is answered.
Works(offers, owner) == offers \subseteq Answered(owner)

LEMMA Linked ==
  ASSUME NEW owner, NEW paths, \A p \in paths : CanGet(p, owner)
  PROVE  Works(Link(paths), owner)
BY DEF CanGet, Link, Works

LEMMA Formed ==
  ASSUME NEW owner, NEW paths, \A p \in paths : CanPost(p, owner)
  PROVE  Works(Form(paths), owner)
BY DEF CanPost, Form, Works

LEMMA Joined ==
  /\ \A offers, more, owner : Works(offers, owner) /\ Works(more, owner) => Works(offers \cup more, owner)
  /\ \A owner : Works({}, owner)
BY DEF Works

LEMMA Granted ==
  ASSUME NEW condition, NEW offers, NEW owner, condition => Works(offers, owner)
  PROVE  Works(If(condition, offers), owner)
BY DEF If, Works

LEMMA AuthorWorks ==
  ASSUME LinksAreFree, NEW owner \in BOOLEAN
  PROVE  Works(asset, owner) /\ Works(profileImagePath, owner) /\ Works(renderAuthor, owner)
<1>1. PICK c \in Blogs : home(c) = <<>>
  BY DEF LinksAreFree
<1>2. CanGet(<<>>, owner)
  BY <1>1, HomeServed
<1>3. Works(Link({<<>>}), owner)
  BY <1>2, Linked
<1>4. Works(profileImagePath, owner)
  <2>1. \A p \in {<<"profile.jpg">>, <<"profile.png">>} : CanGet(p, owner)
    BY ServerGets
  <2> QED BY <2>1, Linked DEF profileImagePath
<1>5. Works(asset, owner)
  <2>1. \A p \in {<<"assets", "{file}">>} : CanGet(p, owner)
    BY ServerGets
  <2> QED BY <2>1, Linked DEF asset
<1> QED BY <1>3, <1>4, <1>5, Joined DEF renderAuthor

LEMMA SameComments ==
  ASSUME Alike(built, mem), NEW b
  PROVE  commentsEnabled(b, mem) <=> commentsEnabled(b, built)
BY DEF Alike, commentsEnabled

LEMMA InteractionsWork ==
  ASSUME Alike(built, mem), NEW b \in Blogs, NEW owner \in BOOLEAN
  PROVE  Works(Interactions(b), owner)
<1>1. ASSUME commentsEnabled(b, mem)
      PROVE  Works(renderInteractions(b), owner)
  <2>1. CanPost(commentPath(b), owner)
    BY <1>1, SameComments, CommentsServed
  <2>2. \A p \in {<<"webmention">>, commentPath(b)} : CanPost(p, owner)
    BY <2>1, ServerPosts
  <2>3. \A p \in {post} : CanGet(p, owner)
    BY ServerGets
  <2> QED BY <2>2, <2>3, Linked, Formed, Joined DEF renderInteractions
<1> QED BY <1>1, Granted DEF Interactions

LEMMA PostPartsWork ==
  ASSUME LinksAreFree, Alike(built, mem), NEW b \in Blogs, NEW owner \in BOOLEAN
  PROVE  /\ \A typ : Works(renderPostMeta(b, typ), owner)
         /\ Works(renderPostTax(b), owner) /\ Works(renderSummary(b), owner) /\ Works(renderPostReactions(b), owner)
         /\ Works(renderPostVideo, owner) /\ Works(renderMap, owner) /\ Works(Link({post}), owner)
         /\ Works(renderShareButton(b), owner) /\ Works(renderTranslateButton(b), owner) /\ Works(renderSpeakButton(b), owner)
<1>1. ASSUME NEW typ PROVE Works(renderPostMeta(b, typ), owner)
  <2>1. \A p \in {getRelativePath(b, <<s>>) : s \in SectionsOf(b)} : CanGet(p, owner)
    BY SectionsServed DEF registerIndexRoutes
  <2>2. \A p \in {post, <<"s", "{id}">>} : CanGet(p, owner)
    BY ServerGets
  <2>3. Works(Link({post, <<"s", "{id}">>}), owner)
    BY <2>2, Linked
  <2>4. Works(If(typ = "post", Link({post, <<"s", "{id}">>})), owner)
    BY <2>3, Granted
  <2>5. Works(Link({getRelativePath(b, <<s>>) : s \in SectionsOf(b)}), owner)
    BY <2>1, Linked
  <2> QED BY <2>4, <2>5, Joined DEF renderPostMeta
<1>2. Works(Link({post}), owner)
  <2>1. \A p \in {post} : CanGet(p, owner)
    BY ServerGets
  <2> QED BY <2>1, Linked
<1>3. Works(renderSummary(b), owner)
  BY <1>1, <1>2, Joined DEF renderSummary, renderPostReplyContext
<1>4. Works(renderPostTax(b), owner)
  <2>1. \A p \in {getRelativePath(b, <<"{taxonomy}", "{taxValue}">>)} : CanGet(p, owner)
    BY ListsServed DEF registerIndexRoutes
  <2> QED BY <2>1, Linked DEF renderPostTax
<1>5. Works(renderPostReactions(b), owner)
  <2>1. \A p \in {<<"-", "reactions">>} : CanGet(p, owner) /\ CanPost(p, owner)
    BY ServerGets, ServerPosts
  <2>2. Works(Link({<<"-", "reactions">>}), owner) /\ Works(Form({<<"-", "reactions">>}), owner)
    BY <2>1, Linked, Formed
  <2>3. Works(asset \cup Link({<<"-", "reactions">>}) \cup Form({<<"-", "reactions">>}), owner)
    BY <2>2, AuthorWorks DEF Works
  <2> QED BY <2>3, Granted DEF renderPostReactions
<1>6. Works(renderPostVideo, owner)
  <2>1. \A p \in {<<"-", "hlsjs">>} : CanGet(p, owner)
    BY ServerGets
  <2>2. Works(Link({<<"-", "hlsjs">>}), owner)
    BY <2>1, Linked
  <2> QED BY <2>2, AuthorWorks, Joined DEF renderPostVideo
<1>7. Works(renderMap, owner)
  <2>1. \A p \in {<<"-", "leaflet">>, <<"-", "tiles", "{tile}">>} : CanGet(p, owner)
    BY ServerGets
  <2>2. Works(Link({<<"-", "leaflet">>, <<"-", "tiles", "{tile}">>}), owner)
    BY <2>1, Linked
  <2> QED BY <2>2, AuthorWorks, Joined DEF renderMap
<1>8. Works(renderShareButton(b), owner) /\ Works(renderTranslateButton(b), owner) /\ Works(renderSpeakButton(b), owner)
  BY AuthorWorks, Granted DEF renderShareButton, renderTranslateButton, renderSpeakButton
<1> QED BY <1>1, <1>2, <1>3, <1>4, <1>5, <1>6, <1>7, <1>8

\* The frame of every page.
LEMMA MenuWorks ==
  ASSUME Alike(built, mem), NEW b \in Blogs
  PROVE  Works(UserMenu(b), TRUE)
<1> DEFINE mention == IF DisableReceiving(mem) THEN {} ELSE {<<"webmention">>}
           comment == IF commentsEnabled(b, mem) THEN {commentPath(b)} ELSE {}
<1>1. \A p \in {editorPath(b), <<"notifications">>, settingsPath(b), <<"logout">>} : CanGet(p, TRUE)
  BY OwnerServed, EditorServed
<1>2. \A p \in mention : CanGet(p, TRUE)
  BY OwnerServed DEF Alike
<1>3. \A p \in comment : CanGet(p, TRUE)
  BY SameComments, CommentsServed
<1> HIDE DEF mention, comment
<1>4. \A p \in {editorPath(b), <<"notifications">>, settingsPath(b), <<"logout">>} \cup mention \cup comment : CanGet(p, TRUE)
  BY <1>1, <1>2, <1>3
<1> QED BY <1>4, Linked DEF UserMenu, mention, comment

LEMMA BaseWorks ==
  ASSUME LinksAreFree, Alike(built, mem), NEW b \in Blogs, NEW owner \in BOOLEAN
  PROVE  Works(renderBase(b, owner), owner)
<1>1. Works(Advertised(b), owner)
  <2>1. \A p \in {Append(home(b), "{feed}"), authorizePath, oauthMetadataPath} : CanGet(p, owner)
    BY HomeServed, ServerGets
  <2>2. \A p \in {<<"webmention">>, <<"micropub">>, tokenPath, revokePath, createAppPath} : CanPost(p, owner)
    BY ServerPosts
  <2>3. Works(Link({Append(home(b), "{feed}"), authorizePath, oauthMetadataPath}), owner)
    BY <2>1, Linked
  <2>4. Works(Form({<<"webmention">>, <<"micropub">>, tokenPath, revokePath, createAppPath}), owner)
    BY <2>2, Formed
  <2> QED BY <2>3, <2>4 DEF Advertised, Works
<1>2. Works(Link({home(b)}), owner) /\ Works(renderFooter(b), owner)
  <2>1. \A p \in {home(b)} : CanGet(p, owner)
    BY HomeServed
  <2> QED BY <2>1, Linked DEF renderFooter
<1>3. Works(If(Has(b, "blogroll"), Link({opmlPath(b)})), owner)
  <2>1. ASSUME Has(b, "blogroll") PROVE \A p \in {opmlPath(b)} : CanGet(p, owner)
    BY <2>1, FeaturesServed
  <2> QED BY <2>1, Linked, Granted
<1>4. Works(If(Has(b, "search"), Link({openSearchURL(b)})), owner)
  <2>1. ASSUME Has(b, "search") PROVE \A p \in {openSearchURL(b)} : CanGet(p, owner)
    BY <2>1, FeaturesServed
  <2> QED BY <2>1, Linked, Granted
<1>5. Works(If(owner, UserMenu(b)), owner)
  <2>1. ASSUME owner PROVE Works(UserMenu(b), owner)
    <3>1. owner = TRUE
      BY <2>1
    <3> QED BY <3>1, MenuWorks
  <2> QED BY <2>1, Granted
<1>6. Works(asset, owner) /\ Works(profileImagePath, owner)
  BY AuthorWorks
<1> QED BY <1>1, <1>2, <1>3, <1>4, <1>5, <1>6 DEF renderBase, Works

\* Lists and their feeds: who reaches one of them gets the other, and the next page.
LEMMA IndexServed ==
  ASSUME LinksAreFree, Known(built.sections), Alike(built, mem), NEW b \in Blogs, NEW owner \in BOOLEAN,
         NEW i \in Indexes(b), Reached(i, owner) \/ Reached(Append(i, "{feed}"), owner)
  PROVE  \A p \in registerIndexRoutes(i) : CanGet(p, owner)
<1> DEFINE Good == \A p \in registerIndexRoutes(i) : CanGet(p, owner)
           editorLists == {Append(editorPath(b), l) : l \in PostLists}
           homes == IF Has(b, "postAsHome") THEN {} ELSE {home(b)}
           sections == {getRelativePath(b, <<s>>) : s \in SectionsOf(b)}
           dates == sitemapDatePaths(home(b))
<1>1. CASE i = getRelativePath(b, <<"photos">>)
  <2>1. Has(b, "photos")
    BY <1>1, FeatureReached, PhotosFeedReached DEF FeatureNames
  <2> QED BY <1>1, <2>1, FeaturesServed
<1>2. CASE i = getRelativePath(b, <<"search", "{search}">>)
  <2>1. i = Append(searchPath(b), "{search}")
    BY <1>2, InBlog DEF searchPath
  <2>2. Has(b, "search")
    BY <2>1, SearchReached, ResultsFeedReached
  <2> QED BY <2>1, <2>2, FeaturesServed
<1>3. CASE i = getRelativePath(b, <<"{taxonomy}", "{taxValue}">>)
  BY <1>3, ListsServed
<1>4. CASE i \in dates
  <2>1. \A p \in registerIndexRoutes(i) : p \in dateRoutes(home(b))
    BY <1>4 DEF sitemapDatePaths, dateRoutes
  <2> QED BY <2>1, ListsServed
<1>5. CASE i \in sections
  <2>1. PICK n \in SectionsOf(b) : i = getRelativePath(b, <<n>>)
    BY <1>5
  <2> QED BY <2>1, SectionsServed
<1>6. CASE i \in editorLists
  <2>1. PICK l \in PostLists : i = Append(editorPath(b), l)
    BY <1>6
  <2>2. owner = TRUE
    BY <2>1, EditorReached
  <2> QED BY <2>1, <2>2, EditorServed
<1>7. CASE i \in homes
  <2>1. i = home(b) /\ ~Has(b, "postAsHome")
    BY <1>7
  <2> QED BY <2>1, HomeServed
<1>8. Indexes(b) =
        {getRelativePath(b, <<"photos">>), getRelativePath(b, <<"search", "{search}">>),
         getRelativePath(b, <<"{taxonomy}", "{taxValue}">>)} \cup dates \cup sections \cup editorLists \cup homes
  BY DEF Indexes
<1> HIDE DEF dates, sections, editorLists, homes
<1> QED BY <1>1, <1>2, <1>3, <1>4, <1>5, <1>6, <1>7, <1>8

LEMMA IndexWorks ==
  ASSUME LinksAreFree, Alike(built, mem), NEW b \in Blogs, NEW owner \in BOOLEAN, NEW i, NEW withoutFeeds \in BOOLEAN,
         CanGet(i, owner), CanGet(Paged(i), owner), ~withoutFeeds => CanGet(Append(i, "{feed}"), owner)
  PROVE  Works(renderIndex(b, i, withoutFeeds), owner)
<1>1. \A p \in {i, Paged(i)} : CanGet(p, owner)
  OBVIOUS
<1>2. Works(renderPagination(i), owner)
  BY <1>1, Linked DEF renderPagination
<1>3. ASSUME ~withoutFeeds PROVE Works(Link({Append(i, "{feed}")}), owner)
  <2>1. \A p \in {Append(i, "{feed}")} : CanGet(p, owner)
    BY <1>3
  <2> QED BY <2>1, Linked
<1>4. Works(If(~withoutFeeds, Link({Append(i, "{feed}")})), owner)
  BY <1>3, Granted
<1>5. Works(renderSummary(b), owner) /\ Works(renderAuthor, owner)
  BY PostPartsWork, AuthorWorks
<1> QED BY <1>2, <1>4, <1>5 DEF renderIndex, Works

LEMMA FeedWorks ==
  ASSUME NEW owner \in BOOLEAN, NEW i, CanGet(i, owner)
  PROVE  Works(generateFeed(i), owner)
<1>1. \A p \in {i, post, <<"profile.jpg">>} : CanGet(p, owner)
  BY ServerGets
<1> QED BY <1>1, Linked DEF generateFeed

LEMMA LoginWorks ==
  ASSUME LinksAreFree, NEW owner \in BOOLEAN
  PROVE  Works(renderLogin, owner) /\ Works(renderCaptcha, owner)
<1>1. Works(Form(Under(<<"webauthn", "login">>, {"begin", "finish"})), owner)
  BY ServerPosts, Formed
<1>2. Works(renderCaptcha, owner)
  <2>1. \A p \in {<<"captcha", "{id}">>} : CanGet(p, owner)
    BY ServerGets
  <2> QED BY <2>1, Linked DEF renderCaptcha
<1> QED BY <1>1, <1>2, AuthorWorks DEF renderLogin, Works

\* The pages of features.
LEMMA FeaturePagesWork ==
  ASSUME LinksAreFree, Known(built.sections), Alike(built, mem), NEW b \in Blogs, NEW owner \in BOOLEAN
  PROVE  /\ Reached(getRelativePath(b, <<"search">>), owner) => Works(renderSearch(b), owner)
         /\ Works(renderBlogStats(b), owner)
         /\ Reached(getRelativePath(b, <<"map">>), owner) => Works(renderGeoMap(b), owner)
         /\ Reached(getRelativePath(b, <<"blogroll">>), owner) => Works(renderBlogroll(b, owner), owner)
         /\ Reached(getRelativePath(b, <<"contact">>), owner) => Works(renderContact(b), owner)
         /\ Reached(openSearchURL(b), owner) => Works(serveOpenSearch(b), owner)
<1>0. \A w \in {"search", "map", "blogroll", "contact"} : Reached(getRelativePath(b, <<w>>), owner) => Has(b, w)
  BY FeatureReached DEF FeatureNames
<1>1. ASSUME Reached(getRelativePath(b, <<"search">>), owner)
      PROVE  Works(renderSearch(b), owner)
  <2>1. \A p \in {searchPath(b)} : CanPost(p, owner)
    BY <1>0, <1>1, FeaturesServed
  <2> QED BY <2>1, Formed DEF renderSearch
<1>2. Works(renderBlogStats(b), owner)
  BY AuthorWorks, InteractionsWork DEF renderBlogStats, renderBlogStatsTable, Works
<1>3. ASSUME Reached(getRelativePath(b, <<"map">>), owner)
      PROVE  Works(renderGeoMap(b), owner)
  <2>1. \A p \in Under(getRelativePath(b, <<"map">>), {"tracks.json", "locations.json"}) : CanGet(p, owner)
    BY <1>0, <1>3, FeaturesServed
  <2>2. Works(Link(Under(getRelativePath(b, <<"map">>), {"tracks.json", "locations.json"})), owner)
    BY <2>1, Linked
  <2> QED BY <2>2, PostPartsWork, InteractionsWork DEF renderGeoMap, Works
<1>4. ASSUME Reached(getRelativePath(b, <<"blogroll">>), owner)
      PROVE  Works(renderBlogroll(b, owner), owner)
  <2>1. Works(Link({getRelativePath(b, opmlPath(b))}), owner)
    BY DEF Works, Answered, KnownDead, Link
  <2>2. ASSUME owner PROVE Works(Form({Append(getBlogrollPath(b), "refresh")}), owner)
    <3>1. owner = TRUE
      BY <2>2
    <3>2. \A p \in {Append(getBlogrollPath(b), "refresh")} : CanPost(p, owner)
      BY <1>0, <1>4, <3>1, FeaturesServed
    <3> QED BY <3>2, Formed
  <2>3. Works(If(owner, Form({Append(getBlogrollPath(b), "refresh")})), owner)
    BY <2>2, Granted
  <2> QED BY <2>1, <2>3, InteractionsWork DEF renderBlogroll, Works
<1>5. ASSUME Reached(getRelativePath(b, <<"contact">>), owner)
      PROVE  Works(renderContact(b), owner)
  <2>1. \A p \in {contactPath(b)} : CanPost(p, owner)
    BY <1>0, <1>5, FeaturesServed
  <2> QED BY <2>1, Formed DEF renderContact
<1>6. ASSUME Reached(openSearchURL(b), owner)
      PROVE  Works(serveOpenSearch(b), owner)
  <2>1. Has(b, "search")
    BY <1>6, SearchReached DEF openSearchURL
  <2>2. \A p \in {searchPath(b), openSearchURL(b)} : CanGet(p, owner)
    BY <2>1, FeaturesServed
  <2>3. \A p \in {searchPath(b)} : CanPost(p, owner)
    BY <2>1, FeaturesServed
  <2>4. Works(Link({searchPath(b), openSearchURL(b)}), owner)
    BY <2>2, Linked
  <2>5. Works(Form({searchPath(b)}), owner)
    BY <2>3, Formed
  <2> QED BY <2>4, <2>5 DEF serveOpenSearch, Works
<1> QED BY <1>1, <1>2, <1>3, <1>4, <1>5, <1>6

\* Comments and their administration.
LEMMA CommentPagesWork ==
  ASSUME LinksAreFree, Known(built.sections), Alike(built, mem), NEW b \in Blogs, NEW owner \in BOOLEAN
  PROVE  /\ Reached(Append(commentPath(b), "{id}"), owner) => Works(renderComment(b, owner), owner)
         /\ Reached(commentPath(b), owner) => Works(renderCommentsAdmin(b), owner)
         /\ Reached(Append(commentPath(b), "edit"), owner) => Works(renderCommentEditor(b), owner)
<1>1. ASSUME Reached(Append(commentPath(b), "{id}"), owner)
      PROVE  Works(renderComment(b, owner), owner)
  <2>1. commentsEnabled(b, built)
    BY <1>1, CommentsReached
  <2>2. ASSUME owner PROVE Works(Link({Append(commentPath(b), "edit")}), owner)
    <3>1. owner = TRUE
      BY <2>2
    <3>2. \A p \in {Append(commentPath(b), "edit")} : CanGet(p, owner)
      BY <2>1, <3>1, CommentsServed
    <3> QED BY <3>2, Linked
  <2>3. Works(If(owner, Link({Append(commentPath(b), "edit")})), owner)
    BY <2>2, Granted
  <2> QED BY <2>3, PostPartsWork, InteractionsWork DEF renderComment, Works
<1>2. ASSUME Reached(commentPath(b), owner)
      PROVE  Works(renderCommentsAdmin(b), owner)
  <2>1. commentsEnabled(b, built) /\ owner = TRUE
    BY <1>2, CommentsReached, EditorReached
  <2>2. \A p \in {post, Append(commentPath(b), "edit")} : CanGet(p, owner)
    BY <2>1, CommentsServed, ServerGets
  <2>3. \A p \in {Append(commentPath(b), "delete")} : CanPost(p, owner)
    BY <2>1, CommentsServed
  <2>4. \A p \in {commentPath(b), Paged(commentPath(b))} : CanGet(p, owner)
    BY <2>1, CommentsServed
  <2>5. Works(Link({post, Append(commentPath(b), "edit")}), owner)
    BY <2>2, Linked
  <2>6. Works(Form({Append(commentPath(b), "delete")}), owner)
    BY <2>3, Formed
  <2>7. Works(renderPagination(commentPath(b)), owner)
    BY <2>4, Linked DEF renderPagination
  <2> QED BY <2>5, <2>6, <2>7 DEF renderCommentsAdmin, Works
<1>3. ASSUME Reached(Append(commentPath(b), "edit"), owner)
      PROVE  Works(renderCommentEditor(b), owner)
  <2>1. commentsEnabled(b, built) /\ owner = TRUE
    BY <1>3, CommentsReached, EditorReached
  <2>2. \A p \in {Append(commentPath(b), "edit")} : CanPost(p, owner)
    BY <2>1, CommentsServed
  <2> QED BY <2>2, Formed DEF renderCommentEditor
<1> QED BY <1>1, <1>2, <1>3

\* Pages of posts.
LEMMA PostWorks ==
  ASSUME LinksAreFree, Alike(built, mem), NEW b \in Blogs, NEW owner \in BOOLEAN
  PROVE  Works(renderPost(b, owner), owner) /\ Works(renderStaticHome(b, owner), owner)
<1>1. ASSUME owner PROVE Works(Form({editorPath(b)}), owner)
  <2>1. owner = TRUE
    BY <1>1
  <2>2. \A p \in {editorPath(b)} : CanPost(p, owner)
    BY <2>1, EditorServed
  <2> QED BY <2>2, Formed
<1>2. Works(If(owner, Form({editorPath(b)})), owner)
  BY <1>1, Granted
<1>3. ASSUME owner PROVE Works(Form({editorPath(b)}) \cup asset, owner)
  BY <1>1, <1>3, AuthorWorks DEF Works
<1>4. Works(If(owner, Form({editorPath(b)}) \cup asset), owner)
  BY <1>3, Granted
<1>5. Works(Link({<<"s", "{id}">>}), owner)
  <2>1. \A p \in {<<"s", "{id}">>} : CanGet(p, owner)
    BY ServerGets
  <2> QED BY <2>1, Linked
<1>6. Works(renderPostTrack(FALSE), owner)
  BY PostPartsWork DEF renderPostTrack
<1>7. Works(renderPostMeta(b, "post"), owner) /\ Works(renderPostTax(b), owner) /\ Works(renderPostReactions(b), owner)
  BY PostPartsWork
<1>8. /\ Works(renderShareButton(b), owner) /\ Works(renderTranslateButton(b), owner) /\ Works(renderSpeakButton(b), owner)
      /\ Works(renderPostVideo, owner)
  BY PostPartsWork
<1>9. Works(renderAuthor, owner) /\ Works(Interactions(b), owner)
  BY AuthorWorks, InteractionsWork
<1>10. Works(renderStaticHome(b, owner), owner)
  BY <1>2, <1>9, Joined DEF renderStaticHome
<1>11. Works(renderPost(b, owner), owner)
  BY <1>4, <1>5, <1>6, <1>7, <1>8, <1>9 DEF renderPost, Works
<1> QED BY <1>10, <1>11

\* Pages of the editor.
LEMMA EditorPagesWork ==
  ASSUME LinksAreFree, Alike(built, mem), NEW b \in Blogs
  PROVE  /\ Works(renderEditor(b), TRUE) /\ Works(renderEditorFiles(b), TRUE) /\ Works(renderEditorLinks(b), TRUE)
         /\ Works(renderIndex(b, editorPath(b) \o <<"files", "uses", "{filename}">>, TRUE), TRUE)
<1>1. Works(Form({editorPath(b)}), TRUE)
  <2>1. \A p \in {editorPath(b)} : CanPost(p, TRUE)
    BY EditorServed
  <2> QED BY <2>1, Formed
<1>2. Works(renderEditorPreview(b), TRUE)
  BY PostPartsWork DEF renderEditorPreview, renderPostTrack, renderPostTrackSVG, Works
<1>3. Works(Link({Append(editorPath(b), p) : p \in PostLists \cup {"links", "files", "ws"}}), TRUE)
  <2>1. \A p \in {Append(editorPath(b), w) : w \in PostLists \cup {"links", "files", "ws"}} : CanGet(p, TRUE)
    BY EditorServed
  <2> QED BY <2>1, Linked
<1>4. Works(renderEditor(b), TRUE)
  BY <1>1, <1>2, <1>3, AuthorWorks DEF renderEditor, renderEditorToolbar, Works
<1>5. ASSUME NEW n \in FileForms PROVE CanPost(EditorFile(b, n), TRUE)
  <2>1. EditorFile(b, n) = Append(Append(editorPath(b), "files"), n)
    <3>1. IsPath(editorPath(b))
      BY InBlog DEF editorPath
    <3> QED BY <3>1, JoinTwo DEF EditorFile
  <2> QED BY <2>1, EditorServed DEF Under
<1>6. Works(renderEditorFiles(b), TRUE)
  <2>1. \A p \in {EditorFile(b, n) : n \in {"view", "uses", "delete", "variants"}} : CanPost(p, TRUE)
    BY <1>5 DEF FileForms
  <2>2. \A p \in {EditorFile(b, "optimize")} : CanPost(p, TRUE)
    BY <1>5 DEF FileForms
  <2>3. Works(Form({EditorFile(b, n) : n \in {"view", "uses", "delete", "variants"}}), TRUE)
    BY <2>1, Formed
  <2>4. Works(If("imgproxy" \in cfg.server, Form({EditorFile(b, "optimize")})), TRUE)
    BY <2>2, Formed, Granted
  <2> QED BY <2>3, <2>4, AuthorWorks DEF renderEditorFiles, Works
<1>7. Works(renderEditorLinks(b), TRUE)
  <2>1. \A p \in {Append(editorPath(b), "links")} : CanGet(p, TRUE)
    BY EditorServed
  <2> QED BY <2>1, Linked DEF renderEditorLinks
<1>8. Works(renderIndex(b, editorPath(b) \o <<"files", "uses", "{filename}">>, TRUE), TRUE)
  BY EditorServed, IndexWorks
<1> QED BY <1>4, <1>6, <1>7, <1>8

\* The settings: every form of theirs has its route.
LEMMA SettingsWork ==
  ASSUME LinksAreFree, NEW b \in Blogs
  PROVE  Works(renderSettings(b), TRUE) /\ Works(renderAppPasswordCreated(b), TRUE)
<1>1. ASSUME NEW names \in SUBSET SettingsForms
      PROVE  Works(SettingsForm(b, names), TRUE)
  <2>1. \A p \in Under(settingsPath(b), names) : CanPost(p, TRUE)
    BY EditorServed DEF Under
  <2> QED BY <2>1, Formed DEF SettingsForm
<1>2. ASSUME NEW n \in SettingsForms
      PROVE  Works(renderBooleanSetting(b, n), TRUE)
  <2>1. \A p \in {Append(settingsPath(b), n)} : CanPost(p, TRUE)
    BY EditorServed DEF Under
  <2> QED BY <2>1, Formed DEF renderBooleanSetting
<1>3. Works(renderReactionSettings(b), TRUE)
  <2>1. Works(SettingsForm(b, {"reactions"}), TRUE) /\ Works(renderBooleanSetting(b, "reactionsenabled"), TRUE)
    BY <1>1, <1>2 DEF SettingsForms
  <2>2. Works(If(<<b, "reactionsEnabled">> \in mem.on, SettingsForm(b, {"reactions"})), TRUE)
    BY <2>1, Granted
  <2> QED BY <2>1, <2>2 DEF renderReactionSettings, Works
<1>4. Works(renderWebmentionSettings(b), TRUE)
  <2>1. Works(SettingsForm(b, {"webmentionblocklistadd", "webmentionblocklistremove"}), TRUE)
    BY <1>1 DEF SettingsForms
  <2>2. \A n \in {"webmentiondisablesending", "webmentiondisablereceiving", "webmentiondisableintergoblog"} :
          Works(renderBooleanSetting(b, n), TRUE)
    BY <1>2 DEF SettingsForms
  <2> QED BY <2>1, <2>2 DEF renderWebmentionSettings, Works
<1>5. Works(renderPostSectionSettings(b), TRUE)
  <2>1. Works(SettingsForm(b, {"updatedefaultsection", "updatesection"}), TRUE) /\ Works(SettingsForm(b, {"deletesection"}), TRUE)
    BY <1>1 DEF SettingsForms
  <2>2. Works(If(SectionsOf(b) # {}, SettingsForm(b, {"deletesection"})), TRUE)
    BY <2>1, Granted
  <2> QED BY <2>1, <2>2 DEF renderPostSectionSettings, Works
<1>6. Works(renderBlogSettings(b), TRUE) /\ Works(renderUserSettings(b), TRUE)
  BY <1>1 DEF SettingsForms, renderBlogSettings, renderUserSettings
<1>7. Works(renderSecuritySettings(b), TRUE)
  <2>1. Works(Form(Under(<<"webauthn", "registration">>, {"begin", "finish"})), TRUE)
    BY OwnerServed, Formed
  <2>2. Works(SettingsForm(b, {"password", "deletepassword", "setuptotp", "deletetotp", "renamepasskey", "deletepasskey",
                               "createapppassword", "deleteapppassword"}), TRUE)
    BY <1>1 DEF SettingsForms
  <2> QED BY <2>1, <2>2 DEF renderSecuritySettings, Works
<1>8. \A n \in {"oldcontentwarning", "sharebutton", "translatebutton", "speakbutton", "replytitle",
                "replycontext", "liketitle", "likecontext"} : Works(renderBooleanSetting(b, n), TRUE)
  BY <1>2 DEF SettingsForms
<1>9. Works(renderSettings(b), TRUE)
  BY <1>3, <1>4, <1>5, <1>6, <1>7, <1>8, AuthorWorks DEF renderSettings, Works
<1>10. Works(renderAppPasswordCreated(b), TRUE)
  <2>1. \A p \in {settingsPath(b)} : CanGet(p, TRUE)
    BY EditorServed
  <2> QED BY <2>1, Linked DEF renderAppPasswordCreated
<1> QED BY <1>9, <1>10

\* Pages of the server.
LEMMA ServerPagesWork ==
  ASSUME LinksAreFree, Known(built.sections), NEW b \in Blogs, NEW owner \in BOOLEAN
  PROVE  /\ Reached(<<"notifications">>, owner) => Works(renderNotificationsAdmin, owner)
         /\ Reached(<<"webmention">>, owner) => Works(renderWebmentionAdmin, owner)
         /\ Works(IF owner THEN renderOAuthAuthorize ELSE renderLogin, owner)
         /\ Reached(<<"activitypub", "remote_follow", b>>, owner) => Works(renderActivityPubRemoteFollow(b), owner)
         /\ Works(oauthMetadata, owner)
<1>1. ASSUME Reached(<<"notifications">>, owner)
      PROVE  Works(renderNotificationsAdmin, owner)
  <2>1. owner = TRUE
    BY <1>1, ServerReached
  <2>2. \A p \in {<<"notifications">>, Paged(<<"notifications">>)} : CanGet(p, owner)
    BY <2>1, OwnerServed
  <2>3. \A p \in {<<"notifications", "delete">>} : CanPost(p, owner)
    BY <2>1, OwnerServed
  <2>4. Works(renderPagination(<<"notifications">>), owner)
    BY <2>2, Linked DEF renderPagination
  <2>5. Works(Form({<<"notifications", "delete">>}), owner)
    BY <2>3, Formed
  <2> QED BY <2>4, <2>5 DEF renderNotificationsAdmin, Works
<1>2. ASSUME Reached(<<"webmention">>, owner)
      PROVE  Works(renderWebmentionAdmin, owner)
  <2>1. owner = TRUE /\ ~DisableReceiving(built)
    BY <1>2, ServerReached
  <2>2. \A p \in {<<"webmention">>, Paged(<<"webmention">>)} : CanGet(p, owner)
    BY <2>1, OwnerServed
  <2>3. \A p \in Under(<<"webmention">>, {"approve", "delete", "reverify"}) : CanPost(p, owner)
    BY <2>1, OwnerServed
  <2>4. \A p \in {post} : CanGet(p, owner)
    BY ServerGets
  <2>5. Works(renderPagination(<<"webmention">>), owner)
    BY <2>2, Linked DEF renderPagination
  <2>6. Works(Form(Under(<<"webmention">>, {"approve", "delete", "reverify"})), owner) /\ Works(Link({post}), owner)
    BY <2>3, <2>4, Formed, Linked
  <2> QED BY <2>5, <2>6 DEF renderWebmentionAdmin, Works
<1>3. Works(IF owner THEN renderOAuthAuthorize ELSE renderLogin, owner)
  <2>1. CASE owner = TRUE
    <3>1. \A p \in {authorizePath} : CanPost(p, owner)
      BY <2>1, OwnerServed
    <3> QED BY <2>1, <3>1, Formed DEF renderOAuthAuthorize
  <2>2. CASE owner = FALSE
    BY <2>2, LoginWorks
  <2> QED BY <2>1, <2>2
<1>4. ASSUME Reached(<<"activitypub", "remote_follow", b>>, owner)
      PROVE  Works(renderActivityPubRemoteFollow(b), owner)
  <2>1. \A p \in {<<"activitypub", "remote_follow", b>>} : CanPost(p, owner)
    BY <1>4, FollowReached, FollowServed
  <2> QED BY <2>1, Formed DEF renderActivityPubRemoteFollow
<1>5. Works(oauthMetadata, owner)
  <2>1. \A p \in {authorizePath, tokenPath} : CanGet(p, owner)
    BY ServerGets
  <2>2. \A p \in {tokenPath, revokePath} : CanPost(p, owner)
    BY ServerPosts
  <2>3. \A p \in {createAppPath} : CanPost(p, owner)
    BY ServerPosts
  <2>4. Works(Link({authorizePath, tokenPath}), owner)
    BY <2>1, Linked
  <2>5. Works(Form({tokenPath, revokePath}), owner) /\ Works(If(apEnabled, Form({createAppPath})), owner)
    BY <2>2, <2>3, Formed, Granted
  <2> QED BY <2>4, <2>5 DEF oauthMetadata, Works
<1> QED BY <1>1, <1>2, <1>3, <1>4, <1>5

\* Sitemaps and redirects.
LEMMA SitemapsWork ==
  ASSUME Alike(built, mem), NEW b \in Blogs, NEW owner \in BOOLEAN
  PROVE  /\ Works(serveSitemap, owner) /\ Works(serveSitemapBlog(b), owner) /\ Works(serveSitemapBlogFeatures(b), owner)
         /\ Works(serveSitemapBlogArchives(b), owner) /\ Works(serveSitemapBlogPosts, owner)
         /\ Works(serveRobotsTXT, owner) /\ Works(redirectToOnThisDay(b), owner) /\ Works(redirectToRandomPost, owner)
<1>1. \A p \in {Append(Prefix[c], "sitemap-blog.xml") : c \in Blogs} : CanGet(p, owner)
  BY ListsServed DEF Under, SitemapParts
<1>2. Works(serveSitemap, owner)
  BY <1>1, Linked DEF serveSitemap
<1>3. Works(serveRobotsTXT, owner)
  <2> DEFINE maps == {Append(Prefix[c], "sitemap-blog.xml") : c \in Blogs}
  <2>1. \A p \in {<<"sitemap.xml">>} \cup maps : CanGet(p, owner)
    BY <1>1, ServerGets
  <2> HIDE DEF maps
  <2>2. Works(Link({<<"sitemap.xml">>} \cup maps), owner)
    BY <2>1, Linked
  <2> QED BY <2>2, Granted DEF serveRobotsTXT, maps
<1>4. Works(serveSitemapBlog(b), owner)
  <2>1. \A p \in Under(Prefix[b], SitemapParts \ {"sitemap-blog.xml"}) : CanGet(p, owner)
    BY ListsServed DEF Under
  <2> QED BY <2>1, Linked DEF serveSitemapBlog
<1>5. Works(serveSitemapBlogPosts, owner) /\ Works(redirectToRandomPost, owner)
  <2>1. \A p \in {post} : CanGet(p, owner)
    BY ServerGets
  <2> QED BY <2>1, Linked DEF serveSitemapBlogPosts, redirectToRandomPost
<1>6. Works(redirectToOnThisDay(b), owner)
  <2> DEFINE day == <<"{year}", "{month}", "{day}">>
             p == getRelativePath(b, day)
  <2>1. p = home(b) \o day
    BY InBlog DEF getRelativePath
  <2>2. p \in dateRoutes(home(b))
    BY <2>1 DEF dateRoutes, registerIndexRoutes
  <2> HIDE DEF p
  <2>3. \A q \in {p} : CanGet(q, owner)
    BY <2>2, ListsServed
  <2>4. Works(Link({p}), owner)
    BY <2>3, Linked
  <2> QED BY <2>4 DEF redirectToOnThisDay, p
<1>7. Works(serveSitemapBlogArchives(b), owner)
  <2> DEFINE sections == {getRelativePath(b, <<s>>) : s \in SectionsOf(b)}
             dates == UNION {sitemapDatePaths(p) : p \in sections \cup {home(b)}}
             taxonomies == {getRelativePath(b, <<"{taxonomy}">>), getRelativePath(b, <<"{taxonomy}", "{taxValue}">>)}
  <2>1. \A p \in sections : CanGet(p, owner)
    BY SectionsServed DEF registerIndexRoutes
  <2>2. ASSUME NEW p \in sections \cup {home(b)}, NEW q \in sitemapDatePaths(p)
        PROVE  CanGet(q, owner)
    <3>1. q \in dateRoutes(p)
      <4>1. PICK d \in {<<"{year}">>, <<"{year}", "{month}">>, <<"{year}", "{month}", "{day}">>} : q = p \o d
        BY DEF sitemapDatePaths
      <4>2. q \in registerIndexRoutes(p \o d)
        BY <4>1 DEF registerIndexRoutes
      <4> QED BY <4>2 DEF dateRoutes
    <3>2. CASE p = home(b)
      BY <3>1, <3>2, ListsServed
    <3>3. CASE p \in sections
      <4>1. PICK n \in SectionsOf(b) : p = getRelativePath(b, <<n>>)
        BY <3>3
      <4> QED BY <3>1, <4>1, SectionsServed
    <3> QED BY <3>2, <3>3
  <2>3. \A p \in taxonomies : CanGet(p, owner)
    BY ListsServed DEF registerIndexRoutes
  <2>4. \A p \in dates : CanGet(p, owner)
    BY <2>2
  <2> HIDE DEF sections, dates, taxonomies
  <2>5. \A p \in sections \cup dates \cup taxonomies : CanGet(p, owner)
    BY <2>1, <2>3, <2>4
  <2>6. Works(Link(sections \cup dates \cup taxonomies), owner)
    BY <2>5, Linked
  <2> QED BY <2>6 DEF serveSitemapBlogArchives, sections, dates, taxonomies
<1>8. Works(serveSitemapBlogFeatures(b), owner)
  <2> DEFINE features == UNION {IF Has(b, f[1]) THEN {getRelativePath(b, <<f[2]>>)} ELSE {} :
                f \in {<<"photos", "photos">>, <<"search", "search">>, <<"blogStats", "statistics">>,
                       <<"blogroll", "blogroll">>, <<"map", "map">>, <<"contact", "contact">>}}
  <2>1. /\ Has(b, "photos") => CanGet(getRelativePath(b, <<"photos">>), owner)
        /\ Has(b, "search") => CanGet(getRelativePath(b, <<"search">>), owner)
        /\ Has(b, "blogStats") => CanGet(getRelativePath(b, <<"statistics">>), owner)
        /\ Has(b, "blogroll") => CanGet(getRelativePath(b, <<"blogroll">>), owner)
        /\ Has(b, "map") => CanGet(getRelativePath(b, <<"map">>), owner)
        /\ Has(b, "contact") => CanGet(getRelativePath(b, <<"contact">>), owner)
    BY FeaturesServed DEF registerIndexRoutes, searchPath, getBlogrollPath, contactPath
  <2>2. \A p \in features : CanGet(p, owner)
    <3> SUFFICES ASSUME NEW p \in features PROVE CanGet(p, owner)
      OBVIOUS
    <3>1. PICK f \in {<<"photos", "photos">>, <<"search", "search">>, <<"blogStats", "statistics">>,
                      <<"blogroll", "blogroll">>, <<"map", "map">>, <<"contact", "contact">>} :
            p \in IF Has(b, f[1]) THEN {getRelativePath(b, <<f[2]>>)} ELSE {}
      OBVIOUS
    <3>2. Has(b, f[1]) /\ p = getRelativePath(b, <<f[2]>>)
      BY <3>1
    <3>3. ASSUME NEW n, NEW w, f = <<n, w>> PROVE Has(b, n) /\ p = getRelativePath(b, <<w>>)
      BY <3>2, <3>3
    <3> HIDE DEF features
    <3> QED BY <2>1, <3>1, <3>3
  <2> HIDE DEF features
  <2>3. \A p \in {home(b)} \cup features : CanGet(p, owner)
    BY <2>2, HomeServed
  <2>4. Works(Link({home(b)} \cup features), owner)
    BY <2>3, Linked
  <2> QED BY <2>4 DEF serveSitemapBlogFeatures, features
<1> QED BY <1>2, <1>3, <1>4, <1>5, <1>6, <1>7, <1>8

\* Whatever is answered to who can reach it.
Sound(a, owner) == Reached(a.path, owner) => Works(a.offers, owner)
Paper(b, owner, path, main) == At(path, renderBase(b, owner) \cup main)

LEMMA PageSound ==
  ASSUME LinksAreFree, Alike(built, mem), NEW b \in Blogs, NEW owner \in BOOLEAN, NEW path, NEW main,
         Reached(path, owner) => Works(main, owner)
  PROVE  Sound(Paper(b, owner, path, main), owner)
BY BaseWorks DEF Sound, Paper, At, Works

LEMMA AnswerSound ==
  ASSUME NEW owner, NEW path, NEW offers, Reached(path, owner) => Works(offers, owner)
  PROVE  Sound(At(path, offers), owner)
BY DEF Sound, At

LEMMA SumWorks ==
  ASSUME NEW owner, NEW offers, NEW more, Works(offers, owner), Works(more, owner)
  PROVE  Works(offers \cup more, owner)
BY DEF Works

LEMMA EmptyWorks == \A owner : Works({}, owner)
BY DEF Works

\* Paths of pages, as the pages are written and as the routes are.
LEMMA PagePaths ==
  ASSUME NEW b \in Blogs
  PROVE  /\ getRelativePath(b, <<"comment">>) = commentPath(b)
         /\ getRelativePath(b, <<"comment", "{id}">>) = Append(commentPath(b), "{id}")
         /\ getRelativePath(b, <<"comment", "edit">>) = Append(commentPath(b), "edit")
         /\ getRelativePath(b, <<"editor">>) = editorPath(b)
         /\ getRelativePath(b, <<"editor", "files">>) = Append(editorPath(b), "files")
         /\ getRelativePath(b, <<"editor", "links">>) = Append(editorPath(b), "links")
         /\ getRelativePath(b, <<"editor", "files", "uses", "{filename}">>) = editorPath(b) \o <<"files", "uses", "{filename}">>
         /\ getRelativePath(b, <<"settings">>) = settingsPath(b)
<1>1. getRelativePath(b, <<"editor", "files", "uses", "{filename}">>) = editorPath(b) \o <<"files", "uses", "{filename}">>
  <2> DEFINE uses == Append(Append(Append(editorPath(b), "files"), "uses"), "{filename}")
  <2>1. ASSUME NEW t, NEW u, NEW v, NEW w
        PROVE  Prefix[b] \o <<t, u, v, w>> = Append(Append(Append(Prefix[b] \o <<t>>, u), v), w)
    <3>1. IsPath(Prefix[b]) /\ IsPath(<<t>>) /\ IsPath(<<t, u>>) /\ IsPath(<<t, u, v>>)
      BY InBlog, ShortPaths DEF EndsIn
    <3>2. <<t, u, v, w>> = Append(<<t, u, v>>, w)
      <4> DEFINE long == <<t, u, v, w>>
                 joined == Append(<<t, u, v>>, w)
      <4>0. <<t, u, v>> \in Seq({t, u, v, w}) /\ Len(<<t, u, v>>) = 3
        OBVIOUS
      <4>1. /\ long \in Seq({t, u, v, w}) /\ Len(long) = 4 /\ long[1] = t /\ long[2] = u /\ long[3] = v /\ long[4] = w
            /\ joined \in Seq({t, u, v, w}) /\ Len(joined) = 4 /\ joined[1] = t /\ joined[2] = u /\ joined[3] = v /\ joined[4] = w
        BY <4>0
      <4> HIDE DEF long, joined
      <4>2. \A i \in 1 .. Len(long) : long[i] = joined[i]
        BY <4>1
      <4>3. long = joined
        BY <4>1, <4>2, SeqEqual
      <4> QED BY <4>3 DEF long, joined
    <3>3. <<t, u, v>> = Append(<<t, u>>, v) /\ <<t, u>> = Append(<<t>>, u)
      BY Appending
    <3>4. Prefix[b] \o <<t, u>> = Append(Prefix[b] \o <<t>>, u)
      BY <3>1, <3>3, JoinAppend, SMTT(30)
    <3>5. Prefix[b] \o <<t, u, v>> = Append(Prefix[b] \o <<t, u>>, v)
      BY <3>1, <3>3, JoinAppend, SMTT(30)
    <3>6. Prefix[b] \o <<t, u, v, w>> = Append(Prefix[b] \o <<t, u, v>>, w)
      BY <3>1, <3>2, JoinAppend, SMTT(30)
    <3> QED BY <3>4, <3>5, <3>6
  <2>2. ASSUME NEW t, NEW u, NEW v, NEW w, t = "editor", u = "files", v = "uses", w = "{filename}"
        PROVE  getRelativePath(b, <<t, u, v, w>>) = uses
    <3>1. getRelativePath(b, <<t, u, v, w>>) = Append(Append(Append(getRelativePath(b, <<t>>), u), v), w)
      BY <2>1, SMTT(30) DEF getRelativePath
    <3> QED BY <2>2, <3>1 DEF editorPath
  <2>3. IsPath(editorPath(b))
    BY InBlog DEF editorPath
  <2>4. editorPath(b) \o <<"files", "uses", "{filename}">> = uses
    BY <2>3, JoinUses
  <2> HIDE DEF uses
  <2> QED BY <2>2, <2>4
<1> QED BY <1>1, InBlog DEF commentPath, editorPath, settingsPath

LEMMA ListSound ==
  ASSUME LinksAreFree, Known(built.sections), Alike(built, mem), NEW b \in Blogs, NEW owner \in BOOLEAN, NEW i \in Indexes(b)
  PROVE  Sound(Paper(b, owner, i, renderIndex(b, i, FALSE)), owner) /\ Sound(At(Append(i, "{feed}"), generateFeed(i)), owner)
<1>1. Reached(i, owner) => Works(renderIndex(b, i, FALSE), owner)
  BY IndexServed, IndexWorks DEF registerIndexRoutes
<1>2. Reached(Append(i, "{feed}"), owner) => Works(generateFeed(i), owner)
  BY IndexServed, FeedWorks DEF registerIndexRoutes
<1> QED BY <1>1, <1>2, PageSound, AnswerSound

\* The answers, by who gives them.
FeatureAnswers(b, owner) ==
  LET In(p, main) == Paper(b, owner, getRelativePath(b, p), main) IN
  {In(<<"search">>, renderSearch(b)), In(<<"statistics">>, renderBlogStats(b)), In(<<"map">>, renderGeoMap(b)),
   In(<<"blogroll">>, renderBlogroll(b, owner)), In(<<"contact">>, renderContact(b) \cup renderContactSent),
   In(<<"{taxonomy}">>, renderTaxonomy(b)), At(openSearchURL(b), serveOpenSearch(b))}
CommentAnswers(b, owner) ==
  LET In(p, main) == Paper(b, owner, getRelativePath(b, p), main) IN
  {In(<<"comment", "{id}">>, renderComment(b, owner)), In(<<"comment">>, renderCommentsAdmin(b)),
   In(<<"comment", "edit">>, renderCommentEditor(b))}
EditorAnswers(b, owner) ==
  LET In(p, main) == Paper(b, owner, getRelativePath(b, p), main) IN
  {In(<<"editor">>, renderEditor(b)), In(<<"editor", "files">>, renderEditorFiles(b)),
   In(<<"editor", "links">>, renderEditorLinks(b) \cup renderEditorLinkDomain),
   In(<<"editor", "files", "uses", "{filename}">>,
      renderIndex(b, editorPath(b) \o <<"files", "uses", "{filename}">>, TRUE)),
   In(<<"settings">>, renderSettings(b) \cup renderAppPasswordCreated(b))}
ServerAnswers(b, owner) ==
  LET Page(path, main) == Paper(b, owner, path, main) IN
  {Page(<<"notifications">>, renderNotificationsAdmin), Page(<<"webmention">>, renderWebmentionAdmin),
   Page(authorizePath, IF owner THEN renderOAuthAuthorize ELSE renderLogin),
   Page(<<"activitypub", "followers", b>>, renderActivityPubFollowers),
   Page(<<"activitypub", "remote_follow", b>>, renderActivityPubRemoteFollow(b)),
   Page(<<"favicon.ico">>, renderError \cup renderCaptcha \cup renderLogin), At(oauthMetadataPath, oauthMetadata)}
SitemapAnswers(b, owner) ==
  LET In(p, main) == Paper(b, owner, getRelativePath(b, p), main) IN
  {In(<<"random">>, redirectToRandomPost), In(<<"onthisday">>, redirectToOnThisDay(b)),
   At(<<"sitemap.xml">>, serveSitemap), At(getRelativePath(b, <<"sitemap-blog.xml">>), serveSitemapBlog(b)),
   At(getRelativePath(b, <<"sitemap-blog-features.xml">>), serveSitemapBlogFeatures(b)),
   At(getRelativePath(b, <<"sitemap-blog-archives.xml">>), serveSitemapBlogArchives(b)),
   At(getRelativePath(b, <<"sitemap-blog-posts.xml">>), serveSitemapBlogPosts), At(<<"robots.txt">>, serveRobotsTXT)}
PostAnswers(b, owner) ==
  {Paper(b, owner, post, renderPost(b, owner))}
    \cup (IF Has(b, "postAsHome") THEN {Paper(b, owner, home(b), renderStaticHome(b, owner))} ELSE {})
ListAnswers(b, owner) ==
  {Paper(b, owner, i, renderIndex(b, i, FALSE)) : i \in Indexes(b)}
    \cup {At(Append(i, "{feed}"), generateFeed(i)) : i \in Indexes(b)}

LEMMA AllAnswers ==
  ASSUME NEW b, NEW owner
  PROVE  Answers(b, owner) =
           ListAnswers(b, owner) \cup FeatureAnswers(b, owner) \cup CommentAnswers(b, owner) \cup EditorAnswers(b, owner)
             \cup ServerAnswers(b, owner) \cup SitemapAnswers(b, owner) \cup PostAnswers(b, owner)
BY ZenonT(60) DEF Answers, ListAnswers, FeatureAnswers, CommentAnswers, EditorAnswers, ServerAnswers, SitemapAnswers, PostAnswers, Paper

LEMMA AnswersSound ==
  ASSUME LinksAreFree, Known(built.sections), Alike(built, mem), NEW b \in Blogs, NEW owner \in BOOLEAN
  PROVE  \A a \in Answers(b, owner) : Sound(a, owner)
<1>1. \A a \in ListAnswers(b, owner) : Sound(a, owner)
  BY ListSound DEF ListAnswers
<1>2. \A a \in FeatureAnswers(b, owner) : Sound(a, owner)
  <2>1. Works(renderContact(b), owner) => Works(renderContact(b) \cup renderContactSent, owner)
    BY DEF renderContactSent, Works
  <2>2. Works(renderTaxonomy(b), owner)
    BY PostPartsWork DEF renderTaxonomy, renderPostTax
  <2> QED BY <2>1, <2>2, FeaturePagesWork, PageSound, AnswerSound DEF FeatureAnswers
<1>3. \A a \in CommentAnswers(b, owner) : Sound(a, owner)
  BY PagePaths, CommentPagesWork, PageSound DEF CommentAnswers
<1>4. \A a \in EditorAnswers(b, owner) : Sound(a, owner)
  <2> DEFINE uses == editorPath(b) \o <<"files", "uses", "{filename}">>
  <2>1. \A p \in {editorPath(b), Append(editorPath(b), "files"), Append(editorPath(b), "links"), uses, settingsPath(b)} :
          Reached(p, owner) => owner = TRUE
    BY EditorReached
  <2>2. Works(renderEditorLinks(b), TRUE) => Works(renderEditorLinks(b) \cup renderEditorLinkDomain, TRUE)
    BY PostPartsWork DEF renderEditorLinkDomain, Works
  <2>3. Works(renderSettings(b) \cup renderAppPasswordCreated(b), TRUE)
    BY SettingsWork, SumWorks
  <2>4. Works(renderEditor(b), TRUE) /\ Works(renderEditorFiles(b), TRUE) /\ Works(renderIndex(b, uses, TRUE), TRUE)
    BY EditorPagesWork
  <2>5. Works(renderEditorLinks(b) \cup renderEditorLinkDomain, TRUE)
    BY <2>2, EditorPagesWork
  <2>6. getRelativePath(b, <<"editor", "files", "uses", "{filename}">>) = uses
    BY PagePaths
  <2> HIDE DEF uses
  <2>7. ASSUME NEW p, Reached(p, owner) => owner = TRUE, NEW main, Works(main, TRUE)
        PROVE  Sound(Paper(b, owner, p, main), owner)
    BY <2>7, PageSound
  <2>8. /\ Sound(Paper(b, owner, editorPath(b), renderEditor(b)), owner)
        /\ Sound(Paper(b, owner, Append(editorPath(b), "files"), renderEditorFiles(b)), owner)
        /\ Sound(Paper(b, owner, Append(editorPath(b), "links"), renderEditorLinks(b) \cup renderEditorLinkDomain), owner)
        /\ Sound(Paper(b, owner, uses, renderIndex(b, uses, TRUE)), owner)
        /\ Sound(Paper(b, owner, settingsPath(b), renderSettings(b) \cup renderAppPasswordCreated(b)), owner)
    BY <2>1, <2>3, <2>4, <2>5, <2>7
  <2> QED BY <2>6, <2>8, PagePaths DEF EditorAnswers, uses
<1>5. \A a \in ServerAnswers(b, owner) : Sound(a, owner)
  <2>1. Works(renderError \cup renderCaptcha \cup renderLogin, owner)
    BY LoginWorks DEF renderError, Works
  <2>2. Works(renderActivityPubFollowers, owner)
    BY EmptyWorks DEF renderActivityPubFollowers
  <2> QED BY <2>1, <2>2, ServerPagesWork, PageSound, AnswerSound DEF ServerAnswers
<1>6. \A a \in SitemapAnswers(b, owner) : Sound(a, owner)
  BY SitemapsWork, PageSound, AnswerSound DEF SitemapAnswers
<1>7. \A a \in PostAnswers(b, owner) : Sound(a, owner)
  <2>1. \A path : Sound(Paper(b, owner, path, renderPost(b, owner)), owner) /\ Sound(Paper(b, owner, path, renderStaticHome(b, owner)), owner)
    BY PostWorks, PageSound
  <2> QED BY <2>1 DEF PostAnswers
<1> QED BY <1>1, <1>2, <1>3, <1>4, <1>5, <1>6, <1>7, AllAnswers

\* Every link and form of a page leads to something that is answered to the one who sees it:
\* for every configuration whose subpaths and sections are at no path of a feature.
THEOREM LinksAreAnswered ==
  ASSUME LinksAreFree
  PROVE  Spec => []NoDeadLinks
<1>1. IInv /\ RowsInv => NoDeadLinks
  <2> SUFFICES ASSUME IInv, RowsInv, Undisturbed PROVE NoDeadLinks
    BY DEF NoDeadLinks
  <2>1. Alike(built, mem)
    BY RestingAlike
  <2>2. Known(built.sections)
    BY <2>1 DEF RowsInv, Proper, Known, Alike
  <2> SUFFICES ASSUME NEW owner \in BOOLEAN, NEW b \in Blogs, NEW a \in Answers(b, owner), Reached(a.path, owner)
               PROVE  a.offers \subseteq Answered(owner)
    BY DEF NoDeadLinks, Reached, Answered
  <2> QED BY <2>1, <2>2, AnswersSound DEF Sound, Works
<1> QED BY <1>1, Invariance, RowsInvariance, PTL

-----------------------------------------------------------------------------
(***************************************************************************)
(* The editor.  A tab whose text is not the stored one has yet to send it, *)
(* or is yet to get what is stored; every write owes the new state to all  *)
(* the others, and the writer's tab shows it or has something to send.     *)
(***************************************************************************)

HasText(q) == \E i \in DOMAIN q : ~HasPrefix(q[i])
LastText(q, x) ==
  \A i \in DOMAIN q : ~HasPrefix(q[i]) /\ (\A j \in DOMAIN q : i < j => HasPrefix(q[j])) => q[i] = x
Within(q, m) == \E i \in DOMAIN q : q[i] = m

Steps == {"unused", "greet", "hello", "listen", "compare", "update", "send", "returned"}
Work == [at : Steps, state : Contents, to : SUBSET Connections]
EditorTyped ==
  /\ stored = {} \/ \E s \in Contents : stored = {s}
  /\ flight = {} \/ \E last \in SUBSET Contents : flight = {last}
  /\ text \in [Tabs -> Contents] /\ socket \in [Tabs -> SUBSET Connections]
  /\ line \in [Connections -> [open : BOOLEAN, up : Seq(Message), down : Seq(Reply)]]
  /\ server \in [Connections -> Work]
  /\ esws \subseteq Connections

\* A connection belongs to one tab, and is registered while its handler runs.
OneTab ==
  /\ \A c \in Connections :
       /\ server[c].at = "unused" => line[c].up = <<>> /\ \A t \in Tabs : c \notin socket[t]
       /\ c \in esws => server[c].at \notin {"unused", "returned"}
       /\ \A t, u \in Tabs : c \in socket[t] /\ c \in socket[u] => t = u

\* What a tab has sent last is its text, if it is stored.
SendsText(t, c) ==
  IF HasText(line[c].up) THEN LastText(line[c].up, text[t])
  ELSE server[c].at \in {"compare", "update"} => server[c].state = text[t]
TextsSent ==
  \A t \in Tabs \ (unsent \cup timer), c \in Connections :
    c \in socket[t] /\ line[c].open /\ text[t] \notin Odd => SendsText(t, c)

Owed(c, s) == \E d \in Connections : server[d].at = "send" /\ server[d].state = s /\ c \in server[d].to
Converging(t, c, s) ==
  \/ text[t] = s \/ t \in timer \/ HasText(line[c].up)
  \/ Within(line[c].down, <<"sync", s>>) \/ Owed(c, s)
  \/ server[c].at = "update" \/ (server[c].at = "hello" /\ server[c].state = s)
  \/ server[c].at \in {"greet", "compare"} /\ flight = {{s}}
Converge ==
  ~doubt =>
    \A s \in stored, t \in Tabs \ unsent, c \in esws :
      c \in socket[t] /\ line[c].open /\ text[t] \notin Odd => Converging(t, c, s)

EditorInv == EditorTyped /\ OneTab /\ TextsSent /\ Converge

\* The queues of messages.
LEMMA Appended ==
  ASSUME NEW T, NEW q \in Seq(T), NEW m \in T
  PROVE  /\ Append(q, m) \in Seq(T) /\ Len(q) \in Nat /\ DOMAIN q = 1 .. Len(q)
         /\ DOMAIN Append(q, m) = 1 .. Len(q) + 1
         /\ Append(q, m)[Len(q) + 1] = m /\ \A i \in 1 .. Len(q) : Append(q, m)[i] = q[i]
OBVIOUS

LEMMA Tailed ==
  ASSUME NEW T, NEW q \in Seq(T), q # <<>>
  PROVE  /\ Head(q) \in T /\ Head(q) = q[1] /\ Tail(q) \in Seq(T)
         /\ Len(q) \in Nat \ {0} /\ DOMAIN q = 1 .. Len(q)
         /\ DOMAIN Tail(q) = 1 .. Len(q) - 1 /\ \A i \in 1 .. Len(q) - 1 : Tail(q)[i] = q[i + 1]
OBVIOUS

\* The texts that are stored do not have the prefix.
LEMMA PlainText ==
  ASSUME NEW x \in Contents, x \notin Odd
  PROVE  x \in Message /\ ~HasPrefix(x)
BY OddAssumption DEF Contents, Empty, Message, HasPrefix, Toolbar

LEMMA EmptyIsPlain == Empty \in Contents /\ Empty \notin Odd
BY OddAssumption DEF Contents, Empty

LEMMA AppendText ==
  ASSUME NEW q \in Seq(Message), NEW x \in Message, ~HasPrefix(x)
  PROVE  HasText(Append(q, x)) /\ LastText(Append(q, x), x)
<1> DEFINE r == Append(q, x)
<1>1. /\ Len(q) \in Nat /\ DOMAIN r = 1 .. Len(q) + 1 /\ r[Len(q) + 1] = x
  BY Appended
<1>2. Len(q) + 1 \in DOMAIN r /\ \A i \in DOMAIN r : i # Len(q) + 1 => i < Len(q) + 1
  BY <1>1
<1> HIDE DEF r
<1>3. HasText(r) /\ LastText(r, x)
  BY <1>1, <1>2 DEF HasText, LastText
<1> QED BY <1>3 DEF r

LEMMA AppendFormat ==
  ASSUME NEW q \in Seq(Message), NEW m \in Message, HasPrefix(m)
  PROVE  /\ HasText(Append(q, m)) <=> HasText(q)
         /\ \A y : LastText(q, y) => LastText(Append(q, m), y)
<1> DEFINE r == Append(q, m)
<1>1. /\ Len(q) \in Nat /\ DOMAIN q = 1 .. Len(q) /\ DOMAIN r = 1 .. Len(q) + 1
      /\ r[Len(q) + 1] = m /\ \A i \in 1 .. Len(q) : r[i] = q[i]
  BY Appended
<1>2. DOMAIN q \subseteq DOMAIN r /\ \A i \in DOMAIN r : i \in DOMAIN q \/ i = Len(q) + 1
  BY <1>1
<1> HIDE DEF r
<1>3. (HasText(r) <=> HasText(q)) /\ \A y : LastText(q, y) => LastText(r, y)
  BY <1>1, <1>2 DEF HasText, LastText
<1> QED BY <1>3 DEF r

LEMMA TailMessage ==
  ASSUME NEW q \in Seq(Message), q # <<>>
  PROVE  /\ HasText(Tail(q)) => HasText(q)
         /\ \A y : LastText(q, y) => LastText(Tail(q), y)
         /\ HasPrefix(Head(q)) => (HasText(q) <=> HasText(Tail(q)))
         /\ ~HasPrefix(Head(q)) /\ ~HasText(Tail(q)) => HasText(q) /\ \A y : LastText(q, y) => Head(q) = y
<1> DEFINE r == Tail(q)
<1>1. /\ Len(q) \in Nat \ {0} /\ DOMAIN q = 1 .. Len(q) /\ Head(q) = q[1]
      /\ DOMAIN r = 1 .. Len(q) - 1 /\ \A i \in 1 .. Len(q) - 1 : r[i] = q[i + 1]
  BY Tailed
<1> HIDE DEF r
<1>2. /\ 1 \in DOMAIN q /\ \A i \in DOMAIN r : i + 1 \in DOMAIN q
      /\ \A i \in DOMAIN q : i = 1 \/ (i - 1 \in DOMAIN r /\ r[i - 1] = q[i])
      /\ \A i \in DOMAIN r, j \in DOMAIN q : i + 1 < j => i < j - 1
      /\ \A j \in DOMAIN q : 1 < j => j # 1
  BY <1>1
<1>3. HasText(r) => HasText(q)
  BY <1>1, <1>2 DEF HasText, HasPrefix, Toolbar
<1>4. ASSUME NEW y, LastText(q, y)
      PROVE  LastText(r, y)
  <2> SUFFICES ASSUME NEW i \in DOMAIN r, ~HasPrefix(r[i]), \A j \in DOMAIN r : i < j => HasPrefix(r[j])
               PROVE  r[i] = y
    BY DEF LastText
  <2>1. q[i + 1] = r[i] /\ i + 1 \in DOMAIN q
    BY <1>1, <1>2
  <2>2. \A j \in DOMAIN q : i + 1 < j => j - 1 \in DOMAIN r /\ i < j - 1 /\ r[j - 1] = q[j]
    BY <1>1, <1>2
  <2> QED BY <1>4, <2>1, <2>2 DEF LastText
<1>5. ASSUME HasPrefix(Head(q))
      PROVE  HasText(q) => HasText(r)
  BY <1>1, <1>2, <1>5 DEF HasText, HasPrefix, Toolbar
<1>6. ASSUME ~HasPrefix(Head(q)), ~HasText(r)
      PROVE  HasText(q) /\ \A y : LastText(q, y) => Head(q) = y
  BY <1>1, <1>2, <1>6 DEF HasText, HasPrefix, Toolbar, LastText
<1> QED BY <1>3, <1>4, <1>5, <1>6 DEF r

LEMMA WithinQueue ==
  ASSUME NEW q \in Seq(Reply), NEW x
  PROVE  /\ \A m \in Reply : (Within(Append(q, m), x) <=> Within(q, x) \/ x = m)
         /\ q # <<>> => (Within(q, x) <=> Within(Tail(q), x) \/ x = Head(q))
<1>1. ASSUME NEW m \in Reply
      PROVE  Within(Append(q, m), x) <=> Within(q, x) \/ x = m
  <2> DEFINE r == Append(q, m)
  <2>1. /\ Len(q) \in Nat /\ DOMAIN q = 1 .. Len(q) /\ DOMAIN r = 1 .. Len(q) + 1
        /\ r[Len(q) + 1] = m /\ \A i \in 1 .. Len(q) : r[i] = q[i]
    BY Appended
  <2> HIDE DEF r
  <2>2. /\ Len(q) + 1 \in DOMAIN r /\ DOMAIN q \subseteq DOMAIN r
        /\ \A i \in DOMAIN r : i \in DOMAIN q \/ i = Len(q) + 1
    BY <2>1
  <2>3. Within(r, x) <=> Within(q, x) \/ x = m
    BY <2>1, <2>2 DEF Within
  <2> QED BY <2>3 DEF r
<1>2. ASSUME q # <<>>
      PROVE  Within(q, x) <=> Within(Tail(q), x) \/ x = Head(q)
  <2> DEFINE r == Tail(q)
  <2>1. /\ Len(q) \in Nat \ {0} /\ DOMAIN q = 1 .. Len(q) /\ Head(q) = q[1]
        /\ DOMAIN r = 1 .. Len(q) - 1 /\ \A i \in 1 .. Len(q) - 1 : r[i] = q[i + 1]
    BY <1>2, Tailed
  <2> HIDE DEF r
  <2>2. /\ 1 \in DOMAIN q /\ \A i \in DOMAIN r : i + 1 \in DOMAIN q /\ r[i] = q[i + 1]
        /\ \A i \in DOMAIN q : i = 1 \/ (i - 1 \in DOMAIN r /\ r[i - 1] = q[i])
    BY <2>1
  <2>3. Within(q, x) <=> Within(r, x) \/ x = Head(q)
    BY <2>1, <2>2 DEF Within
  <2> QED BY <2>3 DEF r
<1> QED BY <1>1, <1>2

LEMMA NothingWaits == ~HasText(<<>>) /\ \A x : ~Within(<<>>, x)
BY DEF HasText, HasPrefix, Toolbar, Within

\* What the types say of a connection.
LEMMA OfConnection ==
  ASSUME EditorTyped, NEW c \in Connections
  PROVE  /\ line[c].open \in BOOLEAN /\ line[c].up \in Seq(Message) /\ line[c].down \in Seq(Reply)
         /\ server[c].at \in Steps /\ server[c].state \in Contents /\ server[c].to \subseteq Connections
BY DEF EditorTyped, Work

LEMMA SendsStays ==
  ASSUME NEW t, NEW c, SendsText(t, c), text'[t] = text[t], line'[c].up = line[c].up, server'[c] = server[c]
  PROVE  SendsText(t, c)'
BY DEF SendsText, HasText, HasPrefix, Toolbar, LastText

LEMMA ConvergingStays ==
  ASSUME NEW t, NEW c, NEW s, Converging(t, c, s), text'[t] = text[t], t \in timer => t \in timer',
         HasText(line[c].up) => HasText(line'[c].up),
         Within(line[c].down, <<"sync", s>>) => Within(line'[c].down, <<"sync", s>>),
         Owed(c, s) => Owed(c, s)', server'[c] = server[c], flight = {{s}} => flight' = {{s}}
  PROVE  Converging(t, c, s)'
BY DEF Converging, HasText, HasPrefix, Toolbar, Within

\* Debts are debts of handlers that send.
LEMMA OwedStays ==
  ASSUME NEW c, NEW s, Owed(c, s), \A d \in Connections : server[d].at = "send" => server'[d] = server[d]
  PROVE  Owed(c, s)'
BY DEF Owed

LEMMA OpenHolds ==
  ASSUME EditorInv, NEW t \in Tabs, openWS(t)
  PROVE  EditorInv'
<1>1. PICK c \in Connections :
        /\ server[c] = Unused
        /\ socket' = [socket EXCEPT ![t] = {c}]
        /\ line' = [line EXCEPT ![c].open = TRUE]
        /\ server' = [server EXCEPT ![c] = Doing("greet", Empty, {})]
        /\ esws' = esws \cup {c}
  BY DEF openWS
<1>2. /\ socket[t] = {} /\ UNCHANGED <<stored, text, timer, unsent>>
      /\ flight' = IF flight = {} THEN {stored} ELSE flight
      /\ doubt' = (doubt \/ flight' # {stored})
  BY DEF openWS, getEditorStateFromDatabase
<1>3. server[c].at = "unused" /\ line[c].up = <<>> /\ \A u \in Tabs : c \notin socket[u]
  BY <1>1 DEF Unused, Doing, EditorInv, OneTab
<1>4. /\ server'[c].at = "greet" /\ \A d \in Connections \ {c} : server'[d] = server[d]
      /\ line'[c].up = <<>> /\ \A d \in Connections \ {c} : line'[d] = line[d]
      /\ socket'[t] = {c} /\ \A u \in Tabs \ {t} : socket'[u] = socket[u]
  BY <1>1, <1>3 DEF EditorInv, EditorTyped, Doing
<1>5. EditorTyped'
  <2>1. stored \in SUBSET Contents
    BY DEF EditorInv, EditorTyped
  <2>2. flight' = {} \/ \E last \in SUBSET Contents : flight' = {last}
    BY <1>2, <2>1 DEF EditorInv, EditorTyped
  <2>3. line' \in [Connections -> [open : BOOLEAN, up : Seq(Message), down : Seq(Reply)]]
    BY <1>1 DEF EditorInv, EditorTyped
  <2>4. Doing("greet", Empty, {}) \in Work
    BY DEF Work, Steps, Doing, Contents
  <2>5. server' \in [Connections -> Work]
    BY <1>1, <2>4 DEF EditorInv, EditorTyped
  <2>6. socket' \in [Tabs -> SUBSET Connections] /\ esws' \subseteq Connections
    BY <1>1 DEF EditorInv, EditorTyped
  <2> QED BY <1>2, <2>2, <2>3, <2>5, <2>6 DEF EditorInv, EditorTyped, Contents, Empty, Message, Toolbar, Reply, Work
<1>6. OneTab'
  BY <1>1, <1>2, <1>3, <1>4 DEF EditorInv, OneTab
<1>7. TextsSent'
  <2> SUFFICES ASSUME NEW u \in Tabs, u \notin unsent' \cup timer', NEW d \in Connections, d \in socket'[u], line'[d].open, text'[u] \notin Odd
               PROVE  SendsText(u, d)'
    BY DEF TextsSent
  <2>1. CASE d = c
    BY <1>4, <2>1, NothingWaits DEF SendsText, HasText, HasPrefix, Toolbar
  <2>2. CASE d # c
    <3>1. d \in socket[u] /\ line[d].open /\ SendsText(u, d)
      BY <1>2, <1>4, <2>2 DEF EditorInv, TextsSent
    <3> QED BY <1>2, <1>4, <2>2, <3>1, SendsStays
  <2> QED BY <2>1, <2>2
<1>8. Converge'
  <2> SUFFICES ASSUME ~doubt', NEW s \in stored', NEW u \in Tabs, u \notin unsent', NEW d \in esws', d \in socket'[u], line'[d].open, text'[u] \notin Odd
               PROVE  Converging(u, d, s)'
    BY DEF Converge
  <2>1. stored = {s} /\ flight' = {stored} /\ ~doubt
    BY <1>2 DEF EditorInv, EditorTyped
  <2>2. CASE d = c
    BY <1>4, <2>1, <2>2 DEF Converging
  <2>3. CASE d # c
    <3>1. d \in socket[u] /\ line[d].open /\ d \in esws /\ d \in Connections
      BY <1>1, <1>4, <2>3 DEF EditorInv, EditorTyped
    <3>2. Converging(u, d, s)
      BY <1>2, <2>1, <3>1 DEF EditorInv, Converge
    <3>3. Owed(d, s) => Owed(d, s)'
      BY <1>3, <1>4, OwedStays
    <3> QED BY <1>2, <1>4, <2>1, <2>3, <3>1, <3>2, <3>3, ConvergingStays
  <2> QED BY <2>2, <2>3
<1> QED BY <1>5, <1>6, <1>7, <1>8 DEF EditorInv

\* A tab that is waiting has yet to send.
LEMMA TypeHolds ==
  ASSUME EditorInv, NEW t \in Tabs, Type(t)
  PROVE  EditorInv'
<1>1. /\ UNCHANGED <<stored, flight, doubt, socket, line, server, esws>>
      /\ timer' = timer \cup {t} /\ unsent' = unsent \ {t}
      /\ text' \in [Tabs -> Contents] /\ \A u \in Tabs \ {t} : text'[u] = text[u]
  BY DEF Type, EditorInv, EditorTyped, Contents
<1>2. EditorTyped' /\ OneTab'
  BY <1>1 DEF EditorInv, EditorTyped, OneTab, Contents, Empty, Message, Toolbar, Reply, Work
<1>3. TextsSent'
  BY <1>1, SendsStays DEF EditorInv, TextsSent
<1>4. Converge'
  <2> SUFFICES ASSUME ~doubt', NEW s \in stored', NEW u \in Tabs, u \notin unsent', NEW d \in esws', d \in socket'[u], line'[d].open, text'[u] \notin Odd
               PROVE  Converging(u, d, s)'
    BY DEF Converge
  <2>1. CASE u = t
    BY <1>1, <2>1 DEF Converging
  <2>2. CASE u # t
    <3>1. Converging(u, d, s)
      BY <1>1, <2>2 DEF EditorInv, Converge
    <3> QED BY <1>1, <2>2, <3>1, ConvergingStays DEF Owed
  <2> QED BY <2>1, <2>2
<1> QED BY <1>2, <1>3, <1>4 DEF EditorInv

\* What a tab sends arrives while its connection is open.
LEMMA SendsWhere ==
  ASSUME EditorTyped, NEW t \in Tabs, NEW m \in Message, Sends(t, m)
  PROVE  /\ \A c \in Connections : line'[c].open = line[c].open /\ line'[c].down = line[c].down
         /\ \A c \in Connections : c \notin socket[t] \/ ~line[c].open => line'[c] = line[c]
         /\ \A c \in Connections : c \in socket[t] /\ line[c].open => line'[c].up = Append(line[c].up, m)
         /\ line' \in [Connections -> [open : BOOLEAN, up : Seq(Message), down : Seq(Reply)]]
<1>1. line' = [c \in Connections |->
                IF c \in socket[t] /\ line[c].open
                THEN [line[c] EXCEPT !.up = Append(@, m)] ELSE line[c]]
  BY DEF Sends
<1>2. \A c \in Connections : Append(line[c].up, m) \in Seq(Message)
  BY OfConnection, Appended
<1> QED BY <1>1, <1>2 DEF EditorTyped

\* A message that is no text of other tabs leaves what they have sent alone.
LEMMA OthersLines ==
  ASSUME EditorInv, NEW t \in Tabs, NEW m \in Message, Sends(t, m),
         NEW u \in Tabs, u # t, NEW d \in Connections, d \in socket[u]
  PROVE  line'[d] = line[d]
BY SendsWhere DEF EditorInv, OneTab

\* A tab that sends a text, be it its own or an empty one, has nothing else to show for it.
LEMMA TextHolds ==
  ASSUME EditorInv, NEW t \in Tabs, NEW x \in Contents, Sends(t, x),
         UNCHANGED <<stored, flight, doubt, text, socket, server, esws>>,
         timer' \cup {t} = timer \cup {t}, unsent' \cup {t} = unsent \cup {t},
         t \notin unsent' => x = text[t]
  PROVE  EditorInv'
<1>1. x \in Message
  BY DEF Message
<1>2. /\ \A c \in Connections : line'[c].open = line[c].open /\ line'[c].down = line[c].down
      /\ \A c \in Connections : c \notin socket[t] \/ ~line[c].open => line'[c] = line[c]
      /\ line' \in [Connections -> [open : BOOLEAN, up : Seq(Message), down : Seq(Reply)]]
  BY <1>1, SendsWhere DEF EditorInv
<1>3. ASSUME t \notin unsent', text[t] \notin Odd, NEW c \in Connections, c \in socket[t], line[c].open
      PROVE  HasText(line'[c].up) /\ LastText(line'[c].up, text[t])
  <2>1. x = text[t] /\ ~HasPrefix(x)
    BY <1>3, PlainText
  <2>2. line'[c].up = Append(line[c].up, x) /\ line[c].up \in Seq(Message)
    BY <1>1, <1>3, SendsWhere, OfConnection DEF EditorInv
  <2> QED BY <1>1, <2>1, <2>2, AppendText
<1>4. EditorTyped'
  BY <1>2 DEF EditorInv, EditorTyped, Contents, Empty, Message, Toolbar, Reply, Work
<1>5. OneTab'
  BY <1>2 DEF EditorInv, OneTab
<1>6. ASSUME NEW u \in Tabs, u # t, NEW d \in Connections, d \in socket[u]
      PROVE  line'[d] = line[d]
  BY <1>1, <1>6, OthersLines
<1>7. TextsSent'
  <2> SUFFICES ASSUME NEW u \in Tabs, u \notin unsent' \cup timer', NEW d \in Connections, d \in socket'[u], line'[d].open, text'[u] \notin Odd
               PROVE  SendsText(u, d)'
    BY DEF TextsSent
  <2>1. CASE u = t
    <3>1. HasText(line'[d].up) /\ LastText(line'[d].up, text[u])
      BY <1>2, <1>3, <2>1
    <3> QED BY <3>1 DEF SendsText, HasText, LastText, HasPrefix, Toolbar
  <2>2. CASE u # t
    <3>1. line'[d] = line[d] /\ SendsText(u, d)
      BY <1>6, <2>2 DEF EditorInv, TextsSent
    <3> QED BY <3>1, SendsStays
  <2> QED BY <2>1, <2>2
<1>8. Converge'
  <2> SUFFICES ASSUME ~doubt', NEW s \in stored', NEW u \in Tabs, u \notin unsent', NEW d \in esws', d \in socket'[u], line'[d].open, text'[u] \notin Odd
               PROVE  Converging(u, d, s)'
    BY DEF Converge
  <2>0. d \in Connections
    BY DEF EditorInv, EditorTyped
  <2>1. CASE u = t
    <3>1. HasText(line'[d].up)
      BY <1>2, <1>3, <2>0, <2>1
    <3> QED BY <3>1 DEF Converging, HasText, HasPrefix, Toolbar
  <2>2. CASE u # t
    <3>1. line'[d] = line[d] /\ Converging(u, d, s)
      BY <1>6, <2>0, <2>2 DEF EditorInv, Converge
    <3> QED BY <2>2, <3>1, ConvergingStays DEF Owed
  <2> QED BY <2>1, <2>2
<1> QED BY <1>4, <1>5, <1>7, <1>8 DEF EditorInv

LEMMA DebouncedHolds ==
  ASSUME EditorInv, NEW t \in Tabs, Debounced(t)
  PROVE  EditorInv'
<1>1. text[t] \in Contents
  BY DEF EditorInv, EditorTyped
<1> QED BY <1>1, TextHolds DEF Debounced

LEMMA SubmitHolds ==
  ASSUME EditorInv, NEW t \in Tabs, submit(t)
  PROVE  EditorInv'
BY TextHolds, EmptyIsPlain DEF submit

LEMMA ToolbarHolds ==
  ASSUME EditorInv, NEW t \in Tabs, clickToolbar(t)
  PROVE  EditorInv'
<1>1. /\ Sends(t, Toolbar) /\ socket[t] # {}
      /\ UNCHANGED <<stored, flight, doubt, text, timer, unsent, socket, server, esws>>
  BY DEF clickToolbar
<1>2. Toolbar \in Message /\ HasPrefix(Toolbar)
  BY DEF Message, HasPrefix
<1>3. /\ \A c \in Connections : line'[c].open = line[c].open /\ line'[c].down = line[c].down
      /\ \A c \in Connections : c \notin socket[t] => line'[c] = line[c]
      /\ \A c \in Connections : HasText(line'[c].up) <=> HasText(line[c].up)
      /\ \A c \in Connections : \A y : LastText(line[c].up, y) => LastText(line'[c].up, y)
      /\ line' \in [Connections -> [open : BOOLEAN, up : Seq(Message), down : Seq(Reply)]]
  <2>1. /\ \A c \in Connections : line'[c].open = line[c].open /\ line'[c].down = line[c].down
        /\ \A c \in Connections : c \notin socket[t] \/ ~line[c].open => line'[c] = line[c]
        /\ \A c \in Connections : c \in socket[t] /\ line[c].open =>
             line'[c].up = Append(line[c].up, Toolbar)
        /\ line' \in [Connections -> [open : BOOLEAN, up : Seq(Message), down : Seq(Reply)]]
    BY <1>1, <1>2, SendsWhere DEF EditorInv
  <2>2. ASSUME NEW c \in Connections
        PROVE  /\ HasText(line'[c].up) <=> HasText(line[c].up)
               /\ \A y : LastText(line[c].up, y) => LastText(line'[c].up, y)
    <3>1. CASE line'[c] = line[c]
      BY <3>1
    <3>2. CASE line'[c].up = Append(line[c].up, Toolbar)
      <4>1. line[c].up \in Seq(Message)
        BY OfConnection DEF EditorInv
      <4> QED BY <1>2, <3>2, <4>1, AppendFormat
    <3> QED BY <2>1, <3>1, <3>2
  <2> QED BY <2>1, <2>2
<1>4. EditorTyped'
  BY <1>1, <1>3 DEF EditorInv, EditorTyped, Contents, Empty, Message, Toolbar, Reply, Work
<1>5. OneTab'
  BY <1>1, <1>3 DEF EditorInv, OneTab
<1>6. TextsSent'
  <2> SUFFICES ASSUME NEW u \in Tabs, u \notin unsent' \cup timer', NEW d \in Connections, d \in socket'[u], line'[d].open, text'[u] \notin Odd
               PROVE  SendsText(u, d)'
    BY DEF TextsSent
  <2>1. SendsText(u, d)
    BY <1>1, <1>3 DEF EditorInv, TextsSent
  <2>2. HasText(line[d].up)' <=> HasText(line[d].up)
    BY <1>3 DEF HasText, HasPrefix, Toolbar
  <2>3. LastText(line[d].up, text[u]) => LastText(line[d].up, text[u])'
    <3>1. LastText(line[d].up, text[u]) => LastText(line'[d].up, text'[u])
      BY <1>1, <1>3
    <3> QED BY <3>1 DEF LastText, HasPrefix, Toolbar
  <2> QED BY <1>1, <2>1, <2>2, <2>3 DEF SendsText
<1>7. Converge'
  BY <1>1, <1>3, ConvergingStays DEF EditorInv, EditorTyped, Converge, Owed
<1> QED BY <1>4, <1>5, <1>6, <1>7 DEF EditorInv

LEMMA TemplateHolds ==
  ASSUME EditorInv, NEW t \in Tabs, setupTemplateButton(t)
  PROVE  EditorInv'
<1>1. /\ UNCHANGED <<stored, flight, doubt, timer, socket, line, server, esws>>
      /\ unsent' = unsent \cup {t}
      /\ text' \in [Tabs -> Contents] /\ \A u \in Tabs \ {t} : text'[u] = text[u]
  BY DEF setupTemplateButton, EditorInv, EditorTyped, Contents
<1>2. EditorTyped' /\ OneTab'
  BY <1>1 DEF EditorInv, EditorTyped, OneTab, Contents, Empty, Message, Toolbar, Reply, Work
<1>3. TextsSent'
  BY <1>1, SendsStays DEF EditorInv, TextsSent
<1>4. Converge'
  <2> SUFFICES ASSUME ~doubt', NEW s \in stored', NEW u \in Tabs, u \notin unsent', NEW d \in esws', d \in socket'[u], line'[d].open, text'[u] \notin Odd
               PROVE  Converging(u, d, s)'
    BY DEF Converge
  <2>1. u # t /\ text'[u] = text[u] /\ Converging(u, d, s)
    BY <1>1 DEF EditorInv, Converge
  <2> QED BY <1>1, <2>1, ConvergingStays DEF Owed
<1> QED BY <1>2, <1>3, <1>4 DEF EditorInv

\* A text that is replaced is sent back; a text that is kept was the one that came.
LEMMA MessageHolds ==
  ASSUME EditorInv, NEW t \in Tabs, onmessage(t)
  PROVE  EditorInv'
<1>1. PICK c \in socket[t] :
        /\ line[c].down # <<>>
        /\ line' = [line EXCEPT ![c].down = Tail(@)]
        /\ IF Head(line[c].down) = <<"sync", text[t]>> THEN UNCHANGED <<text, timer, unsent>>
           ELSE execUndoableReplace(t, Head(line[c].down)[2]) /\ unsent' = unsent \ {t}
        /\ UNCHANGED <<stored, flight, doubt, socket, server, esws>>
  BY DEF onmessage
<1>2. c \in Connections
  BY DEF EditorInv, EditorTyped
<1>3. line[c].down \in Seq(Reply) /\ Tail(line[c].down) \in Seq(Reply) /\ Head(line[c].down) \in Reply
  BY <1>1, <1>2, OfConnection, Tailed DEF EditorInv
<1>4. /\ \A d \in Connections : line'[d].open = line[d].open /\ line'[d].up = line[d].up
      /\ \A d \in Connections \ {c} : line'[d] = line[d]
      /\ line'[c].down = Tail(line[c].down)
      /\ line' \in [Connections -> [open : BOOLEAN, up : Seq(Message), down : Seq(Reply)]]
  BY <1>1, <1>2, <1>3 DEF EditorInv, EditorTyped
<1>5. /\ text' \in [Tabs -> Contents] /\ \A u \in Tabs \ {t} : text'[u] = text[u]
      /\ timer \subseteq timer' /\ unsent' \cup {t} = unsent \cup {t}
      /\ \/ Head(line[c].down) = <<"sync", text[t]>> /\ UNCHANGED <<text, timer, unsent>>
         \/ t \in timer'
  BY <1>1, <1>3 DEF EditorInv, EditorTyped, Reply, execUndoableReplace
<1>6. EditorTyped' /\ OneTab'
  BY <1>1, <1>4, <1>5 DEF EditorInv, EditorTyped, OneTab, Contents, Empty, Message, Toolbar, Reply, Work
<1>7. TextsSent'
  <2> SUFFICES ASSUME NEW u \in Tabs, u \notin unsent' \cup timer', NEW d \in Connections, d \in socket'[u], line'[d].open, text'[u] \notin Odd
               PROVE  SendsText(u, d)'
    BY DEF TextsSent
  <2>1. text'[u] = text[u] /\ u \notin unsent \cup timer
    BY <1>5
  <2>2. SendsText(u, d)
    BY <1>1, <1>4, <2>1 DEF EditorInv, TextsSent
  <2> QED BY <1>1, <1>4, <2>1, <2>2, SendsStays
<1>8. Converge'
  <2> SUFFICES ASSUME ~doubt', NEW s \in stored', NEW u \in Tabs, u \notin unsent', NEW d \in esws', d \in socket'[u], line'[d].open, text'[u] \notin Odd
               PROVE  Converging(u, d, s)'
    BY DEF Converge
  <2>0. d \in Connections
    BY <1>1 DEF EditorInv, EditorTyped
  <2>1. CASE u \in timer'
    BY <2>1 DEF Converging
  <2>2. CASE u \notin timer'
    <3>1. text'[u] = text[u] /\ u \notin unsent
      BY <1>5, <2>2
    <3>2. Converging(u, d, s)
      BY <1>1, <1>4, <2>0, <3>1 DEF EditorInv, Converge
    <3>3. CASE text[u] = s
      BY <3>1, <3>3 DEF Converging
    <3>4. CASE text[u] # s
      <4>1. d = c => Head(line[c].down) = <<"sync", text[u]>>
        BY <1>1, <1>2, <1>5, <2>2 DEF EditorInv, OneTab
      <4>2. Within(line[d].down, <<"sync", s>>) => Within(line'[d].down, <<"sync", s>>)
        <5>1. CASE d # c
          BY <1>4, <2>0, <5>1 DEF Within
        <5>2. CASE d = c
          <6>1. <<"sync", s>> # Head(line[c].down)
            BY <3>4, <4>1, <5>2
          <6>2. Within(line[c].down, <<"sync", s>>) => Within(Tail(line[c].down), <<"sync", s>>)
            BY <1>1, <1>3, <6>1, WithinQueue
          <6> QED BY <1>4, <5>2, <6>2
        <5> QED BY <5>1, <5>2
      <4> QED BY <1>1, <1>4, <1>5, <2>0, <3>1, <3>2, <4>2, ConvergingStays DEF Owed
    <3> QED BY <3>3, <3>4
  <2> QED BY <2>1, <2>2
<1> QED BY <1>6, <1>7, <1>8 DEF EditorInv

LEMMA CloseHolds ==
  ASSUME EditorInv, NEW t \in Tabs, onclose(t)
  PROVE  EditorInv'
<1>1. /\ UNCHANGED <<stored, flight, doubt, text, timer, unsent, line, server, esws>>
      /\ socket' = [socket EXCEPT ![t] = {}]
  BY DEF onclose
<1>2. \A u \in Tabs : socket'[u] \subseteq socket[u]
  BY <1>1 DEF EditorInv, EditorTyped
<1>3. EditorTyped' /\ OneTab'
  BY <1>1, <1>2 DEF EditorInv, EditorTyped, OneTab, Contents, Empty, Message, Toolbar, Reply, Work
<1>4. TextsSent' /\ Converge'
  BY <1>1, <1>2, SendsStays, ConvergingStays DEF EditorInv, TextsSent, Converge, Owed
<1> QED BY <1>3, <1>4 DEF EditorInv

LEMMA EmptyQueues == <<>> \in Seq(Message) /\ <<>> \in Seq(Reply)
OBVIOUS

LEMMA PageLeftHolds ==
  ASSUME EditorInv, NEW t \in Tabs, pageLeft(t)
  PROVE  EditorInv'
<1>1. /\ UNCHANGED <<stored, flight, doubt, server, esws>>
      /\ line' = [c \in Connections |->
                    IF c \in socket[t] THEN [line[c] EXCEPT !.open = FALSE, !.down = <<>>] ELSE line[c]]
      /\ socket' = [socket EXCEPT ![t] = {}] /\ text' = [text EXCEPT ![t] = Empty]
      /\ timer' = timer \ {t} /\ unsent' = unsent \ {t}
  BY DEF pageLeft
<1>2. /\ socket'[t] = {} /\ \A u \in Tabs \ {t} : socket'[u] = socket[u] /\ text'[u] = text[u]
      /\ \A c \in Connections \ socket[t] : line'[c] = line[c]
      /\ \A c \in Connections : line'[c].up = line[c].up
  BY <1>1 DEF EditorInv, EditorTyped
<1>3. EditorTyped'
  <2>1. line' \in [Connections -> [open : BOOLEAN, up : Seq(Message), down : Seq(Reply)]]
    <3>1. ASSUME NEW c \in Connections
          PROVE  line'[c] \in [open : BOOLEAN, up : Seq(Message), down : Seq(Reply)]
      BY <1>1, EmptyQueues DEF EditorInv, EditorTyped
    <3> QED BY <1>1, <3>1
  <2> QED BY <1>1, <2>1, EmptyIsPlain DEF EditorInv, EditorTyped, Contents, Empty, Message, Toolbar, Reply, Work
<1>4. OneTab'
  BY <1>1, <1>2 DEF EditorInv, OneTab
<1>5. ASSUME NEW u \in Tabs, NEW d \in Connections, d \in socket'[u]
      PROVE  u # t /\ d \in socket[u] /\ text'[u] = text[u] /\ line'[d] = line[d]
  BY <1>2, <1>5 DEF EditorInv, OneTab
<1>6. TextsSent'
  BY <1>1, <1>5, SendsStays DEF EditorInv, TextsSent
<1>7. Converge'
  <2> SUFFICES ASSUME ~doubt', NEW s \in stored', NEW u \in Tabs, u \notin unsent', NEW d \in esws', d \in socket'[u], line'[d].open, text'[u] \notin Odd
               PROVE  Converging(u, d, s)'
    BY DEF Converge
  <2>1. d \in Connections
    BY <1>1 DEF EditorInv, EditorTyped
  <2>2. Converging(u, d, s) /\ line'[d] = line[d] /\ u # t /\ text'[u] = text[u]
    BY <1>1, <1>5, <2>1 DEF EditorInv, Converge
  <2> QED BY <1>1, <2>2, ConvergingStays DEF Owed
<1> QED BY <1>3, <1>4, <1>6, <1>7 DEF EditorInv

\* Of a connection that is closed nothing is asked.
LEMMA ClosedHolds ==
  ASSUME EditorInv, NEW c \in Connections,
         line' \in [Connections -> [open : BOOLEAN, up : Seq(Message), down : Seq(Reply)]],
         line'[c].open = FALSE, line'[c].up = <<>>, \A d \in Connections \ {c} : line'[d] = line[d],
         server' \in [Connections -> Work], \A d \in Connections \ {c} : server'[d] = server[d],
         server[c].at # "send", server'[c].at = "unused" => server[c].at = "unused",
         esws' \subseteq esws, c \in esws' => server'[c] = server[c],
         UNCHANGED <<stored, flight, doubt, text, timer, unsent, socket>>
  PROVE  EditorInv'
<1>1. EditorTyped' /\ OneTab'
  BY DEF EditorInv, EditorTyped, OneTab, Contents, Empty, Message, Toolbar, Reply, Work
<1>2. TextsSent'
  BY SendsStays DEF EditorInv, TextsSent
<1>3. Converge'
  <2> SUFFICES ASSUME ~doubt', NEW s \in stored', NEW u \in Tabs, u \notin unsent', NEW d \in esws', d \in socket'[u], line'[d].open, text'[u] \notin Odd
               PROVE  Converging(u, d, s)'
    BY DEF Converge
  <2>1. d \in Connections \ {c} /\ Converging(u, d, s) /\ line'[d] = line[d] /\ server'[d] = server[d]
    BY DEF EditorInv, EditorTyped, Converge
  <2>2. Owed(d, s) => Owed(d, s)'
    BY OwedStays
  <2> QED BY <2>1, <2>2, ConvergingStays
<1> QED BY <1>1, <1>2, <1>3 DEF EditorInv

LEMMA BreakHolds ==
  ASSUME EditorInv, NEW c \in Connections, Break(c)
  PROVE  EditorInv'
<1>1. /\ line' = [line EXCEPT ![c] = Closed]
      /\ UNCHANGED <<stored, flight, doubt, text, timer, unsent, socket, server, esws>>
  BY DEF Break
<1>2. /\ line' \in [Connections -> [open : BOOLEAN, up : Seq(Message), down : Seq(Reply)]]
      /\ line'[c].open = FALSE /\ line'[c].up = <<>> /\ \A d \in Connections \ {c} : line'[d] = line[d]
  BY <1>1 DEF EditorInv, EditorTyped, Closed
<1>3. EditorTyped' /\ OneTab'
  BY <1>1, <1>2 DEF EditorInv, EditorTyped, OneTab, Contents, Empty, Message, Toolbar, Reply, Work
<1>4. TextsSent'
  BY <1>1, <1>2, SendsStays DEF EditorInv, TextsSent
<1>5. Converge'
  BY <1>1, <1>2, ConvergingStays DEF EditorInv, EditorTyped, Converge, Owed
<1> QED BY <1>3, <1>4, <1>5 DEF EditorInv

LEMMA Worked ==
  ASSUME NEW at \in Steps, NEW state \in Contents, NEW to, to \subseteq Connections
  PROVE  /\ Doing(at, state, to) \in Work
         /\ Doing(at, state, to).at = at /\ Doing(at, state, to).state = state /\ Doing(at, state, to).to = to
BY DEF Doing, Work

LEMMA Resting ==
  Listening \in Work /\ Listening.at = "listen" /\ Returned \in Work /\ Returned.at = "returned"
BY DEF Listening, Returned, Doing, Work, Steps, Contents

LEMMA ReturnsHolds ==
  ASSUME EditorInv, NEW c \in Connections, Returns(c), server[c].at # "send",
         UNCHANGED <<stored, flight, doubt, text, timer, unsent, socket>>
  PROVE  EditorInv'
<1>1. /\ line' \in [Connections -> [open : BOOLEAN, up : Seq(Message), down : Seq(Reply)]]
      /\ line'[c].open = FALSE /\ line'[c].up = <<>> /\ \A d \in Connections \ {c} : line'[d] = line[d]
  <2>1. line' = [line EXCEPT ![c].open = FALSE, ![c].up = <<>>]
    BY DEF Returns
  <2> QED BY <2>1, EmptyQueues DEF EditorInv, EditorTyped
<1>2. /\ server' \in [Connections -> Work] /\ \A d \in Connections \ {c} : server'[d] = server[d]
      /\ server'[c].at = "returned"
  BY Resting DEF Returns, Proceed, EditorInv, EditorTyped
<1>3. esws' \subseteq esws /\ c \notin esws'
  BY DEF Returns
<1> QED BY <1>1, <1>2, <1>3, ClosedHolds

LEMMA LeaveHolds ==
  ASSUME EditorInv, NEW c \in Connections, leave(c)
  PROVE  EditorInv'
BY ReturnsHolds, Resting DEF leave

\* What a read that has ended lets the handlers do.
LEMMA Read ==
  ASSUME EditorTyped, NEW last \in SUBSET Contents, NEW c \in Connections
  PROVE  /\ Greeted(last) \in Work /\ Greeted(last).at \in {"listen", "hello"}
         /\ \A s : last = {s} => Greeted(last).at = "hello" /\ Greeted(last).state = s
         /\ Compared(last, server[c].state) \in Work
         /\ Compared(last, server[c].state).at \in {"listen", "update"}
         /\ Compared(last, server[c].state).at = "update" => Compared(last, server[c].state).state = server[c].state
         /\ Compared(last, server[c].state).at = "listen" => last = {} \/ last = {server[c].state}
<1>1. server[c].state \in Contents
  BY OfConnection
<1>2. last # {} => (CHOOSE s \in last : TRUE) \in last
  OBVIOUS
<1>3. CASE last = {}
  <2>1. Greeted(last) = Listening
    BY <1>3 DEF Greeted
  <2>2. Compared(last, server[c].state) \in {Listening, Doing("update", server[c].state, {})}
    BY DEF Compared
  <2> QED BY <1>1, <1>3, <2>1, <2>2, Resting, Worked DEF Steps
<1>4. CASE last # {}
  <2>1. Greeted(last) = Doing("hello", CHOOSE s \in last : TRUE, {})
    BY <1>4 DEF Greeted
  <2>2. \A s : last = {s} => (CHOOSE x \in last : TRUE) = s
    BY <1>2
  <2>3. Greeted(last) \in Work /\ Greeted(last).at = "hello" /\ Greeted(last).state = CHOOSE s \in last : TRUE
    BY <1>2, <1>4, <2>1, Worked DEF Steps
  <2>4. Compared(last, server[c].state) = IF last = {server[c].state} THEN Listening ELSE Doing("update", server[c].state, {})
    BY <1>4 DEF Compared
  <2> QED BY <1>1, <2>2, <2>3, <2>4, Resting, Worked DEF Steps
<1> QED BY <1>3, <1>4

LEMMA StateIsReadHolds ==
  ASSUME EditorInv, stateIsRead
  PROVE  EditorInv'
<1>1. PICK last \in flight :
        /\ flight' = {}
        /\ server' = [c \in Connections |->
                        CASE server[c].at = "greet"   -> Greeted(last)
                          [] server[c].at = "compare" -> Compared(last, server[c].state)
                          [] OTHER                        -> server[c]]
        /\ UNCHANGED <<stored, doubt, text, timer, unsent, socket, line, esws>>
  BY DEF stateIsRead
<1>2. flight = {last} /\ last \in SUBSET Contents
  BY <1>1 DEF EditorInv, EditorTyped
<1>3. /\ \A c \in Connections : server[c].at = "greet" => server'[c] = Greeted(last)
      /\ \A c \in Connections : server[c].at = "compare" => server'[c] = Compared(last, server[c].state)
      /\ \A c \in Connections : server[c].at \notin {"greet", "compare"} => server'[c] = server[c]
  BY <1>1
<1>3a. ASSUME NEW c \in Connections
      PROVE  /\ server[c].at = "greet" => /\ server'[c] \in Work /\ server'[c].at \in {"listen", "hello"}
                                          /\ \A s : last = {s} => server'[c].at = "hello" /\ server'[c].state = s
             /\ server[c].at = "compare" => /\ server'[c] \in Work /\ server'[c].at \in {"listen", "update"}
                                            /\ server'[c].at = "update" => server'[c].state = server[c].state
                                            /\ server'[c].at = "listen" => last = {} \/ last = {server[c].state}
  <2>1. EditorTyped
    BY DEF EditorInv
  <2>2. /\ Greeted(last) \in Work /\ Greeted(last).at \in {"listen", "hello"}
        /\ \A s : last = {s} => Greeted(last).at = "hello" /\ Greeted(last).state = s
        /\ Compared(last, server[c].state) \in Work
        /\ Compared(last, server[c].state).at \in {"listen", "update"}
        /\ Compared(last, server[c].state).at = "update" => Compared(last, server[c].state).state = server[c].state
        /\ Compared(last, server[c].state).at = "listen" => last = {} \/ last = {server[c].state}
    BY <1>2, <2>1, Read
  <2>3. server[c].at = "greet" => server'[c] = Greeted(last)
    BY <1>3
  <2>4. server[c].at = "compare" => server'[c] = Compared(last, server[c].state)
    BY <1>3
  <2> QED BY <2>2, <2>3, <2>4
<1>4. /\ server' \in [Connections -> Work]
      /\ \A c \in Connections : server'[c].at = "unused" => server[c].at = "unused"
      /\ \A c \in Connections : server'[c].at = "returned" => server[c].at = "returned"
  <2>1. DOMAIN server' = Connections /\ server' = [c \in Connections |-> server'[c]]
    BY <1>1
  <2>2. ASSUME NEW c \in Connections
        PROVE  /\ server'[c] \in Work
               /\ server'[c].at = "unused" => server[c].at = "unused"
               /\ server'[c].at = "returned" => server[c].at = "returned"
    <3>1. CASE server[c].at \in {"greet", "compare"}
      BY <1>3a, <3>1
    <3>2. CASE server[c].at \notin {"greet", "compare"}
      BY <1>3, <3>2 DEF EditorInv, EditorTyped
    <3> QED BY <3>1, <3>2
  <2> QED BY <2>1, <2>2
<1>5. EditorTyped' /\ OneTab'
  BY <1>1, <1>4 DEF EditorInv, EditorTyped, OneTab, Contents, Empty, Message, Toolbar, Reply, Work
<1>6. ASSUME NEW u, NEW d \in Connections, SendsText(u, d)
      PROVE  SendsText(u, d)'
  <2>1. server'[d].at \in {"compare", "update"} => server[d].at \in {"compare", "update"} /\ server'[d].state = server[d].state
    BY <1>3, <1>3a
  <2>2. line' = line /\ text' = text
    BY <1>1
  <2> QED BY <1>6, <2>1, <2>2 DEF SendsText, HasText, HasPrefix, Toolbar, LastText
<1>7. TextsSent'
  BY <1>1, <1>6 DEF EditorInv, TextsSent
<1>8. Converge'
  <2> SUFFICES ASSUME ~doubt', NEW s \in stored', NEW u \in Tabs, u \notin unsent', NEW d \in esws', d \in socket'[u], line'[d].open, text'[u] \notin Odd
               PROVE  Converging(u, d, s)'
    BY DEF Converge
  <2>1. d \in Connections /\ Converging(u, d, s)
    BY <1>1 DEF EditorInv, EditorTyped, Converge
  <2>2. Owed(d, s) => Owed(d, s)'
    BY <1>3, OwedStays
  <2>3. CASE server[d].at = "greet" /\ flight = {{s}}
    <3>1. server'[d].at = "hello" /\ server'[d].state = s
      BY <1>2, <1>3a, <2>1, <2>3
    <3> QED BY <3>1 DEF Converging
  <2>4. CASE server[d].at = "compare" /\ flight = {{s}}
    <3>1. last = {s}
      BY <1>2, <2>4
    <3>2. server'[d].at = "update" \/ server[d].state = s
      BY <1>3a, <2>1, <2>4, <3>1
    <3>3. text[u] = s \/ u \in timer \/ HasText(line[d].up) \/ server'[d].at = "update"
      BY <1>1, <2>1, <2>4, <3>2 DEF EditorInv, TextsSent, SendsText
    <3> QED BY <1>1, <3>3 DEF Converging, HasText, HasPrefix, Toolbar
  <2>5. CASE ~(server[d].at \in {"greet", "compare"} /\ flight = {{s}})
    <3>1. CASE server[d].at \in {"update", "hello"}
      <4>1. server'[d] = server[d]
        BY <1>3, <2>1, <3>1
      <4> QED BY <1>1, <2>1, <2>2, <2>5, <3>1, <4>1 DEF Converging, HasText, HasPrefix, Toolbar, Within
    <3>2. CASE server[d].at \notin {"update", "hello"}
      BY <1>1, <2>1, <2>2, <2>5, <3>2 DEF Converging, HasText, HasPrefix, Toolbar, Within
    <3> QED BY <3>1, <3>2
  <2> QED BY <2>3, <2>4, <2>5
<1> QED BY <1>5, <1>7, <1>8 DEF EditorInv

LEMMA ReadFailsHolds ==
  ASSUME EditorInv, readFails
  PROVE  EditorInv'
<1> DEFINE ended == {c \in Connections : server[c].at = "greet"}
<1>1. /\ flight' = {} /\ doubt' = TRUE /\ esws' = esws \ ended
      /\ line' = [c \in Connections |->
                    IF c \in ended THEN [line[c] EXCEPT !.open = FALSE, !.up = <<>>] ELSE line[c]]
      /\ server' = [c \in Connections |->
                      CASE c \in ended                   -> Returned
                        [] server[c].at = "compare" -> Compared({}, server[c].state)
                        [] OTHER                        -> server[c]]
      /\ UNCHANGED <<stored, text, timer, unsent, socket>>
  BY DEF readFails
<1>2. /\ \A c \in Connections : server[c].at = "greet" => server'[c] = Returned /\ line'[c].up = <<>> /\ line'[c].open = FALSE /\ c \notin esws'
      /\ \A c \in Connections : server[c].at = "compare" => server'[c] = Compared({}, server[c].state)
      /\ \A c \in Connections : server[c].at \notin {"greet", "compare"} => server'[c] = server[c]
      /\ \A c \in Connections : server[c].at # "greet" => line'[c] = line[c]
  BY <1>1 DEF EditorInv, EditorTyped
<1>3. DOMAIN server' = Connections /\ server' = [c \in Connections |-> server'[c]]
  BY <1>1
<1>4. ASSUME NEW c \in Connections
      PROVE  /\ server'[c] \in Work
             /\ server'[c].at = "unused" => server[c].at = "unused"
             /\ server'[c].at = "returned" => server[c].at \in {"greet", "returned"}
             /\ server'[c].at \in {"compare", "update"} =>
                  server[c].at \in {"compare", "update"} /\ server'[c].state = server[c].state
  <2>1. CASE server[c].at = "greet"
    BY <1>2, <2>1, Resting
  <2>2. CASE server[c].at = "compare"
    <3>1. EditorTyped /\ {} \in SUBSET Contents
      BY DEF EditorInv
    <3>2. /\ Compared({}, server[c].state) \in Work
          /\ Compared({}, server[c].state).at \in {"listen", "update"}
          /\ Compared({}, server[c].state).at = "update" => Compared({}, server[c].state).state = server[c].state
      BY <3>1, Read
    <3> QED BY <1>2, <2>2, <3>2
  <2>3. CASE server[c].at \notin {"greet", "compare"}
    BY <1>2, <2>3 DEF EditorInv, EditorTyped
  <2> QED BY <2>1, <2>2, <2>3
<1>5. server' \in [Connections -> Work]
  BY <1>3, <1>4
<1>6. line' \in [Connections -> [open : BOOLEAN, up : Seq(Message), down : Seq(Reply)]]
  <2>1. ASSUME NEW c \in Connections
        PROVE  line'[c] \in [open : BOOLEAN, up : Seq(Message), down : Seq(Reply)]
    BY <1>1, EmptyQueues DEF EditorInv, EditorTyped
  <2> QED BY <1>1, <2>1
<1>7. EditorTyped'
  BY <1>1, <1>5, <1>6 DEF EditorInv, EditorTyped, Contents, Empty, Message, Toolbar, Reply, Work
<1>8. OneTab'
  BY <1>1, <1>2, <1>4 DEF EditorInv, OneTab
<1>9. TextsSent'
  <2> SUFFICES ASSUME NEW u \in Tabs, u \notin unsent' \cup timer', NEW d \in Connections, d \in socket'[u], line'[d].open, text'[u] \notin Odd
               PROVE  SendsText(u, d)'
    BY DEF TextsSent
  <2>1. line'[d] = line[d] /\ SendsText(u, d)
    BY <1>1, <1>2 DEF EditorInv, TextsSent
  <2>2. text' = text /\ (server'[d].at \in {"compare", "update"} =>
                            server[d].at \in {"compare", "update"} /\ server'[d].state = server[d].state)
    BY <1>1, <1>4
  <2>3. (HasText(line[d].up)' <=> HasText(line[d].up)) /\ (LastText(line[d].up, text[u])' <=> LastText(line[d].up, text[u]))
    BY <2>1, <2>2 DEF HasText, HasPrefix, Toolbar, LastText
  <2> QED BY <2>1, <2>2, <2>3 DEF SendsText
<1>10. Converge'
  BY <1>1 DEF Converge
<1> QED BY <1>7, <1>8, <1>9, <1>10 DEF EditorInv

LEMMA HelloHolds ==
  ASSUME EditorInv, NEW c \in Connections, sendInitialState(c)
  PROVE  EditorInv'
<1>1. /\ server[c].at = "hello"
      /\ UNCHANGED <<stored, flight, doubt, text, timer, unsent, socket>>
  BY DEF sendInitialState
<1>2. CASE ~line[c].open
  BY <1>1, <1>2, ReturnsHolds DEF sendInitialState
<1>3. CASE line[c].open
  <2> DEFINE reply == <<"sync", server[c].state>>
  <2>1. /\ line' = [line EXCEPT ![c].down = Append(@, reply)]
        /\ server' = [server EXCEPT ![c] = Listening] /\ esws' = esws
    BY <1>3 DEF sendInitialState, Replies, Proceed
  <2>2. reply \in Reply /\ line[c].down \in Seq(Reply)
    BY OfConnection DEF EditorInv, Reply
  <2> HIDE DEF reply
  <2>3. Append(line[c].down, reply) \in Seq(Reply)
    BY <2>2, Appended
  <2>4. /\ line' \in [Connections -> [open : BOOLEAN, up : Seq(Message), down : Seq(Reply)]]
        /\ \A d \in Connections : line'[d].open = line[d].open /\ line'[d].up = line[d].up
        /\ \A d \in Connections \ {c} : line'[d] = line[d]
        /\ line'[c].down = Append(line[c].down, reply)
    BY <2>1, <2>3, ZenonT(60) DEF EditorInv, EditorTyped
  <2>5. /\ server' \in [Connections -> Work] /\ \A d \in Connections \ {c} : server'[d] = server[d]
        /\ server'[c].at = "listen"
    BY <2>1, Resting DEF EditorInv, EditorTyped
  <2>6. EditorTyped' /\ OneTab'
    BY <1>1, <2>1, <2>4, <2>5, ZenonT(60) DEF EditorInv, EditorTyped, OneTab, Contents, Empty, Message, Toolbar, Reply, Work
  <2>7. TextsSent'
    <3> SUFFICES ASSUME NEW u \in Tabs, u \notin unsent' \cup timer', NEW d \in Connections, d \in socket'[u], line'[d].open, text'[u] \notin Odd
                 PROVE  SendsText(u, d)'
      BY DEF TextsSent
    <3>1. SendsText(u, d)
      BY <1>1, <2>4 DEF EditorInv, TextsSent
    <3>2. CASE d # c
      BY <1>1, <2>4, <2>5, <3>1, <3>2, SendsStays
    <3>3. CASE d = c
      <4>1. (HasText(line[d].up)' <=> HasText(line[d].up)) /\ (LastText(line[d].up, text[u])' <=> LastText(line[d].up, text[u]))
        <5>1. line'[d].up = line[d].up /\ text' = text
          BY <1>1, <2>4
        <5> QED BY <5>1 DEF HasText, HasPrefix, Toolbar, LastText
      <4> QED BY <2>5, <3>1, <3>3, <4>1 DEF SendsText
    <3> QED BY <3>2, <3>3
  <2>8. Converge'
    <3> SUFFICES ASSUME ~doubt', NEW s \in stored', NEW u \in Tabs, u \notin unsent', NEW d \in esws', d \in socket'[u], line'[d].open, text'[u] \notin Odd
                 PROVE  Converging(u, d, s)'
      BY DEF Converge
    <3>1. d \in Connections /\ Converging(u, d, s)
      BY <1>1, <2>1, <2>4 DEF EditorInv, EditorTyped, Converge
    <3>2. Owed(d, s) => Owed(d, s)'
      BY <1>1, <2>5, OwedStays
    <3>3. CASE d # c
      BY <1>1, <2>4, <2>5, <3>1, <3>2, <3>3, ConvergingStays
    <3>4. CASE d = c
      <4>1. Within(line'[c].down, <<"sync", s>>) <=> Within(line[c].down, <<"sync", s>>) \/ <<"sync", s>> = reply
        <5>1. Within(Append(line[c].down, reply), <<"sync", s>>) <=> Within(line[c].down, <<"sync", s>>) \/ <<"sync", s>> = reply
          BY <2>2, WithinQueue
        <5> QED BY <2>4, <5>1
      <4>2. server[c].state = s => <<"sync", s>> = reply
        BY DEF reply
      <4> QED BY <1>1, <2>4, <3>1, <3>2, <3>4, <4>1, <4>2 DEF Converging, HasText, HasPrefix, Toolbar, Within
    <3> QED BY <3>3, <3>4
  <2> QED BY <2>6, <2>7, <2>8 DEF EditorInv
<1> QED BY <1>2, <1>3

\* A text that is taken is compared with what is stored, unless that is in doubt.
LEMMA ReceiveHolds ==
  ASSUME EditorInv, NEW c \in Connections, receiveMessage(c)
  PROVE  EditorInv'
<1> DEFINE message == Head(line[c].up)
           taken == [line EXCEPT ![c].up = Tail(@)]
<1>1. /\ server[c].at = "listen" /\ line[c].up # <<>>
      /\ UNCHANGED <<stored, text, timer, unsent, socket, esws>>
  BY Resting DEF receiveMessage
<1>2. line[c].up \in Seq(Message) /\ Tail(line[c].up) \in Seq(Message) /\ message \in Message /\ line[c].down \in Seq(Reply)
  BY <1>1, OfConnection, Tailed DEF EditorInv
<1>3. /\ ~HasPrefix(message) => message \in Contents
      /\ HasText(Tail(line[c].up)) => HasText(line[c].up)
      /\ \A y : LastText(line[c].up, y) => LastText(Tail(line[c].up), y)
      /\ HasPrefix(message) => (HasText(line[c].up) <=> HasText(Tail(line[c].up)))
      /\ ~HasPrefix(message) /\ ~HasText(Tail(line[c].up)) => HasText(line[c].up) /\ \A y : LastText(line[c].up, y) => message = y
  <2>1. ~HasPrefix(message) => message \in Contents
    BY <1>2 DEF Message, HasPrefix
  <2> HIDE DEF message
  <2> QED BY <1>1, <1>2, <2>1, TailMessage DEF message
<1>4. /\ taken \in [Connections -> [open : BOOLEAN, up : Seq(Message), down : Seq(Reply)]]
      /\ taken[c].open = line[c].open /\ taken[c].down = line[c].down /\ taken[c].up = Tail(line[c].up)
      /\ \A d \in Connections \ {c} : taken[d] = line[d]
  BY <1>2 DEF EditorInv, EditorTyped
<1>5. CASE ~HasPrefix(message)
  <2>1. /\ line' = taken
        /\ flight' = IF flight = {} THEN {stored} ELSE flight
        /\ doubt' = (doubt \/ flight' # {stored})
        /\ server' = [server EXCEPT ![c] = Doing("compare", message, {})]
    BY <1>5 DEF receiveMessage, getEditorStateFromDatabase, Proceed
  <2> HIDE DEF message, taken
  <2>2. /\ server' \in [Connections -> Work] /\ \A d \in Connections \ {c} : server'[d] = server[d]
        /\ server'[c].at = "compare" /\ server'[c].state = message
    BY <1>3, <1>5, <2>1, Worked DEF EditorInv, EditorTyped, Steps
  <2>3. flight' = {} \/ \E last \in SUBSET Contents : flight' = {last}
    <3>1. stored \in SUBSET Contents
      BY DEF EditorInv, EditorTyped
    <3> QED BY <2>1, <3>1 DEF EditorInv, EditorTyped
  <2>4. EditorTyped' /\ OneTab'
    <3>1. EditorTyped'
      BY <1>1, <1>4, <2>1, <2>2, <2>3 DEF EditorInv, EditorTyped, Contents, Empty, Message, Toolbar, Reply, Work
    <3>2. OneTab'
      BY <1>1, <1>4, <2>1, <2>2 DEF EditorInv, OneTab
    <3> QED BY <3>1, <3>2
  <2>5. TextsSent'
    <3> SUFFICES ASSUME NEW u \in Tabs, u \notin unsent' \cup timer', NEW d \in Connections, d \in socket'[u], line'[d].open, text'[u] \notin Odd
                 PROVE  SendsText(u, d)'
      BY DEF TextsSent
    <3>1. SendsText(u, d)
      BY <1>1, <1>4, <2>1 DEF EditorInv, TextsSent
    <3>2. CASE d # c
      BY <1>1, <1>4, <2>1, <2>2, <3>1, <3>2, SendsStays
    <3>3. CASE d = c
      <4>1. CASE HasText(Tail(line[c].up))
        <5>1. LastText(Tail(line[c].up), text[u])
          BY <1>3, <3>1, <3>3, <4>1 DEF SendsText
        <5>2. line'[d].up = Tail(line[c].up) /\ text'[u] = text[u]
          BY <1>1, <1>4, <2>1, <3>3
        <5>3. HasText(line[d].up)' /\ LastText(line[d].up, text[u])'
          BY <4>1, <5>1, <5>2 DEF HasText, HasPrefix, Toolbar, LastText
        <5> QED BY <5>3 DEF SendsText
      <4>2. CASE ~HasText(Tail(line[c].up))
        <5>1. message = text[u]
          BY <1>3, <1>5, <3>1, <3>3, <4>2 DEF SendsText
        <5>2. ~HasText(line[d].up)' /\ server'[d].state = text'[u]
          <6>1. line'[d].up = Tail(line[c].up) /\ text' = text
            BY <1>1, <1>4, <2>1, <3>3
          <6> QED BY <2>2, <3>3, <4>2, <5>1, <6>1 DEF HasText, HasPrefix, Toolbar
        <5> QED BY <5>2 DEF SendsText
      <4> QED BY <4>1, <4>2
    <3> QED BY <3>2, <3>3
  <2>6. Converge'
    <3> SUFFICES ASSUME ~doubt', NEW s \in stored', NEW u \in Tabs, u \notin unsent', NEW d \in esws', d \in socket'[u], line'[d].open, text'[u] \notin Odd
                 PROVE  Converging(u, d, s)'
      BY DEF Converge
    <3>1. stored = {s} /\ flight' = {stored} /\ ~doubt
      BY <1>1, <2>1 DEF EditorInv, EditorTyped
    <3>2. CASE d = c
      BY <2>2, <3>1, <3>2 DEF Converging
    <3>3. CASE d # c
      <4>1. Converging(u, d, s) /\ line'[d] = line[d] /\ server'[d] = server[d]
        BY <1>1, <1>4, <2>1, <2>2, <3>1, <3>3 DEF EditorInv, EditorTyped, Converge
      <4>2. Owed(d, s) => Owed(d, s)'
        BY <1>1, <2>2, OwedStays
      <4> QED BY <1>1, <3>1, <4>1, <4>2, ConvergingStays
    <3> QED BY <3>2, <3>3
  <2> QED BY <2>4, <2>5, <2>6 DEF EditorInv
<1>6. CASE HasPrefix(message)
  <2>1. handleEditorFormat(c, taken) /\ UNCHANGED <<server, flight, doubt>>
    BY <1>6 DEF receiveMessage
  <2> HIDE DEF message, taken
  <2>2. /\ line' \in [Connections -> [open : BOOLEAN, up : Seq(Message), down : Seq(Reply)]]
        /\ line'[c].open = line[c].open /\ line'[c].up = Tail(line[c].up)
        /\ \A m : Within(line[c].down, m) => Within(line'[c].down, m)
        /\ \A d \in Connections \ {c} : line'[d] = line[d]
    <3>1. CASE line' = taken
      BY <1>4, <3>1
    <3>2. ASSUME NEW w \in Words, line' = [taken EXCEPT ![c].down = Append(@, <<"formatted", w>>)]
          PROVE  <2>2
      <4>1. <<"formatted", w>> \in Reply
        BY DEF Reply, Contents
      <4>2. Append(line[c].down, <<"formatted", w>>) \in Seq(Reply)
        BY <1>2, <4>1, Appended
      <4>3. line'[c].down = Append(line[c].down, <<"formatted", w>>)
        BY <1>4, <3>2
      <4>4. \A m : Within(line[c].down, m) => Within(line'[c].down, m)
        BY <1>2, <4>1, <4>3, WithinQueue
      <4> QED BY <1>4, <3>2, <4>2, <4>4
    <3> QED BY <2>1, <3>1, <3>2 DEF handleEditorFormat
  <2>3. EditorTyped' /\ OneTab'
    <3> QED BY <1>1, <2>1, <2>2 DEF EditorInv, EditorTyped, OneTab, Contents, Empty, Message, Toolbar, Reply, Work
  <2>4. TextsSent'
    <3> SUFFICES ASSUME NEW u \in Tabs, u \notin unsent' \cup timer', NEW d \in Connections, d \in socket'[u], line'[d].open, text'[u] \notin Odd
                 PROVE  SendsText(u, d)'
      BY DEF TextsSent
    <3>1. SendsText(u, d)
      BY <1>1, <2>2 DEF EditorInv, TextsSent
    <3>2. CASE d # c
      BY <1>1, <2>1, <2>2, <3>1, <3>2, SendsStays
    <3>3. CASE d = c
      <4>1. HasText(line'[c].up) <=> HasText(line[c].up)
        BY <1>3, <1>6, <2>2
      <4>2. LastText(line[c].up, text[u]) => LastText(line'[c].up, text'[u])
        BY <1>1, <1>3, <2>2
      <4>3. /\ HasText(line[d].up)' <=> HasText(line[d].up)
            /\ LastText(line[d].up, text[u]) => LastText(line[d].up, text[u])'
        BY <3>3, <4>1, <4>2 DEF HasText, HasPrefix, Toolbar, LastText
      <4> QED BY <1>1, <2>1, <3>1, <3>3, <4>3 DEF SendsText
    <3> QED BY <3>2, <3>3
  <2>5. Converge'
    <3>1. \A d \in Connections : HasText(line[d].up) => HasText(line'[d].up)
      BY <1>3, <1>6, <2>2
    <3>2. \A d \in Connections : \A m : Within(line[d].down, m) => Within(line'[d].down, m)
      BY <2>2
    <3> QED BY <1>1, <2>1, <2>2, <3>1, <3>2, ConvergingStays DEF EditorInv, EditorTyped, Converge, Owed
  <2> QED BY <2>3, <2>4, <2>5 DEF EditorInv
<1> QED BY <1>5, <1>6

\* A write owes the new state to all that are registered, and starts without doubt.
LEMMA UpdateHolds ==
  ASSUME EditorInv, NEW c \in Connections, updateEditorStateInDatabase(c)
  PROVE  EditorInv'
<1> DEFINE next == SendTo(server[c].state, esws \ {c})
<1>1. /\ server[c].at = "update" /\ server' = [server EXCEPT ![c] = next]
      /\ \/ stored' = {server[c].state} /\ doubt' = FALSE
         \/ doubt' = TRUE /\ stored' = stored
      /\ UNCHANGED <<flight, text, timer, unsent, socket, line, esws>>
  BY DEF updateEditorStateInDatabase, Proceed
<1>2. /\ next \in Work /\ next.at \in {"listen", "send"}
      /\ esws \ {c} # {} => next.at = "send" /\ next.state = server[c].state /\ next.to = esws \ {c}
  <2>1. server[c].state \in Contents /\ esws \ {c} \subseteq Connections
    BY OfConnection DEF EditorInv, EditorTyped
  <2>2. next = IF esws \ {c} = {} THEN Listening ELSE Doing("send", server[c].state, esws \ {c})
    BY DEF SendTo
  <2> HIDE DEF next
  <2>3. CASE esws \ {c} = {}
    BY <2>2, <2>3, Resting
  <2>4. CASE esws \ {c} # {}
    <3>1. next = Doing("send", server[c].state, esws \ {c})
      BY <2>2, <2>4
    <3> QED BY <2>1, <2>4, <3>1, Worked DEF Steps
  <2> QED BY <2>3, <2>4
<1> HIDE DEF next
<1>3. /\ server' \in [Connections -> Work] /\ server'[c] = next
      /\ \A d \in Connections \ {c} : server'[d] = server[d]
  BY <1>1, <1>2 DEF EditorInv, EditorTyped
<1>4. EditorTyped'
  <2>1. server[c].state \in Contents
    BY OfConnection DEF EditorInv
  <2> QED BY <1>1, <1>3, <2>1 DEF EditorInv, EditorTyped, Contents, Empty, Message, Toolbar, Reply, Work
<1>5. OneTab'
  BY <1>1, <1>2, <1>3 DEF EditorInv, OneTab
<1>6. TextsSent'
  <2> SUFFICES ASSUME NEW u \in Tabs, u \notin unsent' \cup timer', NEW d \in Connections, d \in socket'[u], line'[d].open, text'[u] \notin Odd
               PROVE  SendsText(u, d)'
    BY DEF TextsSent
  <2>1. SendsText(u, d)
    BY <1>1 DEF EditorInv, TextsSent
  <2>2. CASE d # c
    BY <1>1, <1>3, <2>1, <2>2, SendsStays
  <2>3. CASE d = c
    <3>1. line' = line /\ text' = text
      BY <1>1
    <3> QED BY <1>2, <1>3, <2>1, <2>3, <3>1 DEF SendsText, HasText, HasPrefix, Toolbar, LastText
  <2> QED BY <2>2, <2>3
<1>7. Converge'
  <2> SUFFICES ASSUME ~doubt', NEW s \in stored', NEW u \in Tabs, u \notin unsent', NEW d \in esws', d \in socket'[u], line'[d].open, text'[u] \notin Odd
               PROVE  Converging(u, d, s)'
    BY DEF Converge
  <2>1. s = server[c].state /\ d \in esws /\ d \in Connections
    BY <1>1 DEF EditorInv, EditorTyped
  <2>2. CASE d # c
    <3>1. Owed(d, s)'
      BY <1>2, <1>3, <2>1, <2>2 DEF Owed
    <3> QED BY <3>1 DEF Converging
  <2>3. CASE d = c
    <3>1. u \in timer \/ HasText(line[d].up) \/ text[u] = s
      BY <1>1, <2>1, <2>3 DEF EditorInv, TextsSent, SendsText
    <3> QED BY <1>1, <3>1 DEF Converging, HasText, HasPrefix, Toolbar
  <2> QED BY <2>2, <2>3
<1> QED BY <1>4, <1>5, <1>6, <1>7 DEF EditorInv

LEMMA SendHoldsState ==
  ASSUME EditorInv, NEW c \in Connections, sendEditorState(c)
  PROVE  EditorInv'
<1> DEFINE state == server[c].state
           reply == <<"sync", state>>
<1>1. PICK d \in server[c].to :
        /\ server' = [server EXCEPT ![c] = SendTo(state, server[c].to \ {d})]
        /\ \/ d \notin esws /\ UNCHANGED <<line, esws>>
           \/ d \in esws /\ line' = [line EXCEPT ![d].down = Append(@, reply)] /\ esws' = esws
           \/ esws' = esws \ {d} /\ line' = line
  BY DEF sendEditorState, Proceed, Replies
<1>2. server[c].at = "send" /\ UNCHANGED <<stored, flight, doubt, text, timer, unsent, socket>>
  BY DEF sendEditorState
<1>3. d \in Connections /\ state \in Contents /\ reply \in Reply /\ line[d].down \in Seq(Reply)
  <2>1. d \in Connections
    BY OfConnection DEF EditorInv
  <2> QED BY <2>1, OfConnection DEF EditorInv, Reply
<1> DEFINE next == SendTo(state, server[c].to \ {d})
<1> HIDE DEF reply, state
<1>4. /\ next \in Work /\ next.at \in {"listen", "send"}
      /\ server[c].to \ {d} # {} => next.at = "send" /\ next.state = state /\ next.to = server[c].to \ {d}
  <2>1. server[c].to \ {d} \subseteq Connections
    BY OfConnection DEF EditorInv
  <2>2. next = IF server[c].to \ {d} = {} THEN Listening ELSE Doing("send", state, server[c].to \ {d})
    BY DEF SendTo
  <2> HIDE DEF next
  <2>3. CASE server[c].to \ {d} = {}
    BY <2>2, <2>3, Resting
  <2>4. CASE server[c].to \ {d} # {}
    <3>1. next = Doing("send", state, server[c].to \ {d})
      BY <2>2, <2>4
    <3> QED BY <1>3, <2>1, <2>4, <3>1, Worked DEF Steps
  <2> QED BY <2>3, <2>4
<1> HIDE DEF next
<1>5. /\ server' \in [Connections -> Work] /\ server'[c] = next
      /\ \A e \in Connections \ {c} : server'[e] = server[e]
  BY <1>1, <1>4 DEF EditorInv, EditorTyped, next
<1>6. /\ esws' = esws \/ esws' = esws \ {d}
      /\ \A e \in Connections : line'[e].open = line[e].open /\ line'[e].up = line[e].up
      /\ \A e \in Connections \ {d} : line'[e] = line[e]
      /\ line' = line \/ line'[d].down = Append(line[d].down, reply)
      /\ line' \in [Connections -> [open : BOOLEAN, up : Seq(Message), down : Seq(Reply)]]
  <2>1. Append(line[d].down, reply) \in Seq(Reply)
    BY <1>3, Appended
  <2>2. CASE line' = line
    BY <1>1, <2>2 DEF EditorInv, EditorTyped
  <2>3. CASE line' = [line EXCEPT ![d].down = Append(@, reply)]
    BY <1>1, <1>3, <2>1, <2>3 DEF EditorInv, EditorTyped
  <2> QED BY <1>1, <2>2, <2>3
<1>7. EditorTyped'
  BY <1>2, <1>5, <1>6 DEF EditorInv, EditorTyped, Contents, Empty, Message, Toolbar, Reply, Work
<1>8. OneTab'
  BY <1>2, <1>4, <1>5, <1>6 DEF EditorInv, OneTab
<1>9. TextsSent'
  <2> SUFFICES ASSUME NEW u \in Tabs, u \notin unsent' \cup timer', NEW e \in Connections, e \in socket'[u], line'[e].open, text'[u] \notin Odd
               PROVE  SendsText(u, e)'
    BY DEF TextsSent
  <2>1. SendsText(u, e)
    BY <1>2, <1>6 DEF EditorInv, TextsSent
  <2>2. CASE e # c
    BY <1>2, <1>5, <1>6, <2>1, <2>2, SendsStays
  <2>3. CASE e = c
    <3>1. line'[e].up = line[e].up /\ text' = text
      BY <1>2, <1>6
    <3>2. (HasText(line[e].up)' <=> HasText(line[e].up)) /\ (LastText(line[e].up, text[u])' <=> LastText(line[e].up, text[u]))
      BY <3>1 DEF HasText, HasPrefix, Toolbar, LastText
    <3> QED BY <1>4, <1>5, <2>1, <2>3, <3>2 DEF SendsText
  <2> QED BY <2>2, <2>3
<1>10. Converge'
  <2> SUFFICES ASSUME ~doubt', NEW s \in stored', NEW u \in Tabs, u \notin unsent', NEW e \in esws', e \in socket'[u], line'[e].open, text'[u] \notin Odd
               PROVE  Converging(u, e, s)'
    BY DEF Converge
  <2>1. e \in Connections /\ e \in esws /\ Converging(u, e, s)
    BY <1>2, <1>6 DEF EditorInv, EditorTyped, Converge
  <2>2. Within(line[e].down, <<"sync", s>>) => Within(line'[e].down, <<"sync", s>>)
    <3>1. CASE e # d
      BY <1>6, <2>1, <3>1
    <3>2. CASE e = d
      <4>1. Within(line[d].down, <<"sync", s>>) => Within(Append(line[d].down, reply), <<"sync", s>>)
        BY <1>3, WithinQueue
      <4> QED BY <1>6, <3>2, <4>1
    <3> QED BY <3>1, <3>2
  <2>3. Owed(e, s) => Owed(e, s)' \/ Within(line'[e].down, <<"sync", s>>)
    <3> SUFFICES ASSUME NEW f \in Connections, server[f].at = "send", server[f].state = s, e \in server[f].to
                 PROVE  Owed(e, s)' \/ Within(line'[e].down, <<"sync", s>>)
      BY DEF Owed
    <3>1. CASE f # c
      BY <1>5, <3>1 DEF Owed
    <3>2. CASE f = c /\ e # d
      BY <1>4, <1>5, <3>2 DEF Owed, state
    <3>3. CASE f = c /\ e = d
      <4>1. line'[d].down = Append(line[d].down, reply)
        BY <1>1, <1>3, <2>1, <3>3 DEF EditorInv, EditorTyped
      <4>2. Within(Append(line[d].down, reply), reply)
        BY <1>3, WithinQueue
      <4>3. reply = <<"sync", s>>
        BY <3>3 DEF reply, state
      <4> QED BY <3>3, <4>1, <4>2, <4>3
    <3> QED BY <3>1, <3>2, <3>3
  <2>4. server[e].at # "send" => server'[e] = server[e]
    BY <1>2, <1>5, <2>1
  <2>5. line'[e].up = line[e].up
    BY <1>6, <2>1
  <2> QED BY <1>2, <2>1, <2>2, <2>3, <2>4, <2>5 DEF Converging, HasText, HasPrefix, Toolbar, Within
<1> QED BY <1>7, <1>8, <1>9, <1>10 DEF EditorInv

LEMMA EditorHeld ==
  ASSUME EditorInv, UNCHANGED <<stored, flight, doubt, text, timer, unsent, socket, line, server, esws>>
  PROVE  EditorInv'
<1>2. EditorTyped' /\ OneTab'
  BY DEF EditorInv, EditorTyped, OneTab, Contents, Empty, Message, Toolbar, Reply, Work
<1>3. TextsSent'
  BY SendsStays DEF EditorInv, TextsSent
<1>4. Converge'
  BY ConvergingStays DEF EditorInv, Converge, Owed
<1> QED BY <1>2, <1>3, <1>4 DEF EditorInv

LEMMA EditorSame ==
  ASSUME EditorInv, UNCHANGED editorVars
  PROVE  EditorInv'
BY EditorHeld DEF editorVars

LEMMA GivenUpHolds ==
  ASSUME EditorInv, NEW t \in Tabs, givenUp(t)
  PROVE  EditorInv'
BY EditorHeld DEF givenUp

LEMMA EditorInitHolds == Init => EditorInv
<1> SUFFICES ASSUME EditorInit PROVE EditorInv
  BY DEF Init
<1>1. Unused \in Work /\ Unused.at = "unused"
  BY DEF Unused, Doing, Work, Steps, Contents
<1>2. Closed \in [open : BOOLEAN, up : Seq(Message), down : Seq(Reply)] /\ Closed.up = <<>> /\ Closed.open = FALSE
  BY EmptyQueues DEF Closed
<1>3. EditorTyped
  BY <1>1, <1>2 DEF EditorInit, EditorTyped, Contents
<1>4. OneTab
  BY <1>1, <1>2 DEF EditorInit, OneTab
<1>5. TextsSent /\ Converge
  BY DEF EditorInit, TextsSent, Converge
<1> QED BY <1>3, <1>4, <1>5 DEF EditorInv

LEMMA EditorNextHolds ==
  ASSUME EditorInv, [Next]_<<cfg, settingVars, sectionVars, editorVars>>
  PROVE  EditorInv'
<1>1. CASE EditorNext
  BY <1>1, OpenHolds, TypeHolds, DebouncedHolds, ToolbarHolds, TemplateHolds, MessageHolds, CloseHolds, SubmitHolds, PageLeftHolds, GivenUpHolds,
     BreakHolds, LeaveHolds, StateIsReadHolds, ReadFailsHolds, HelloHolds, ReceiveHolds, UpdateHolds, SendHoldsState
     DEF EditorNext
<1>2. CASE UNCHANGED editorVars
  BY <1>2, EditorSame
<1> QED BY <1>1, <1>2 DEF Next

LEMMA EditorInvariance == Spec => []EditorInv
BY EditorInitHolds, EditorNextHolds, PTL DEF Spec

\* Tabs that edit the same text agree with the database once nothing is under way, in whatever
\* order they have typed, sent, submitted, lost their connections and come back: all but those
\* whose text begins with "format:", which is never stored, and those that have changed nothing
\* since they took the template or submitted.
THEOREM TabsConverge == Spec => []EditorsConverge
<1>1. ASSUME EditorInv, AtRest, stored # {}, ~doubt, NEW t \in Tabs \ unsent, text[t] \notin Odd, socket[t] \cap esws # {}
      PROVE  stored = {text[t]}
  <2>1. PICK s : stored = {s}
    BY <1>1 DEF EditorInv, EditorTyped
  <2>2. PICK c \in Connections : c \in socket[t] /\ c \in esws
    BY <1>1 DEF EditorInv, EditorTyped
  <2>3. server[c] = Listening
    BY <1>1, <2>2, Resting DEF AtRest, EditorInv, OneTab, Unused, Doing
  <2>4. line[c].open /\ line[c].up = <<>> /\ line[c].down = <<>>
    BY <1>1, <2>3 DEF AtRest
  <2>5. Converging(t, c, s)
    BY <1>1, <2>1, <2>2, <2>4 DEF EditorInv, Converge
  <2>6. \A d \in Connections : server[d].at \in {"unused", "listen", "returned"}
    BY <1>1, Resting DEF AtRest, Unused, Doing
  <2>7. text[t] = s
    BY <1>1, <2>4, <2>5, <2>6, NothingWaits DEF Converging, AtRest, Owed
  <2> QED BY <2>1, <2>7
<1>2. EditorInv => EditorsConverge
  BY <1>1 DEF EditorsConverge
<1> QED BY <1>2, EditorInvariance, PTL
=============================================================================
