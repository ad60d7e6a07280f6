-------------------------------- MODULE Site --------------------------------
(***************************************************************************)
(* The site as its visitors and its owner see it: the settings with the    *)
(* requests that change them, the router, the pages and the lists of posts.*)
(***************************************************************************)
EXTENDS Pages, EditorSync

(* Which posts each view asks the database for. *)

Statuses == {"published", "draft", "scheduled", "published-deleted", "draft-deleted", "scheduled-deleted"}
Visibilities == {"public", "unlisted", "private"}
AnyPost == [status : Statuses, visibility : Visibilities, blog : Blogs, section : Sections \cup {""}]

\* An empty list of values does not filter.
buildPostsQuery(f, p) ==
  /\ f.status = {} \/ p.status \in f.status
  /\ f.visibility = {} \/ p.visibility \in f.visibility
  /\ f.blogs = {} \/ p.blog \in f.blogs
  /\ f.sections = {} \/ p.section \in f.sections

Query(status, visibility, blogs, sections) ==
  [status |-> status, visibility |-> visibility, blogs |-> blogs, sections |-> sections]

DefaultStatus(owner) == {"published"}
\* Mistake: whoever knows the address of an unlisted post may as well find it in a list.
DefaultVisibilityLinked(owner) == IF owner THEN Visibilities ELSE {"public", "unlisted"}
DefaultVisibility(owner) == IF owner THEN Visibilities ELSE {"public"}

\* serveIndex: the states a view names, or else the default ones.
serveIndex(owner, status, visibility, blogs, sections) ==
  Query(IF status = {} THEN DefaultStatus(owner) ELSE status,
        IF visibility = {} THEN DefaultVisibility(owner) ELSE visibility, blogs, sections)
Default(owner, b, sections) == serveIndex(owner, {}, {}, {b}, sections)

ShownOnStart(b) == {row.name : row \in {r \in mem.sections : r.blog = b /\ ~r.hide}}
serveHome(b, owner) == Default(owner, b, ShownOnStart(b))
serveSection(b, owner, s) == Default(owner, b, {s})
serveTaxonomyValue(b, owner) == Default(owner, b, {})
serveDate(b, owner) == Default(owner, b, {})
servePhotos(b, owner) == Default(owner, b, {})
serveSearchResult(b, owner) == Default(owner, b, {})
serveGeoMap(b, owner) == Query(DefaultStatus(owner), DefaultVisibility(owner), {b}, {})

serveDrafts(b, owner) == serveIndex(owner, {"draft"}, {}, {b}, {})
servePrivate(b, owner) == serveIndex(owner, {"published"}, {"private"}, {b}, {})
serveUnlisted(b, owner) == serveIndex(owner, {"published"}, {"unlisted"}, {b}, {})
serveScheduled(b, owner) == serveIndex(owner, {"scheduled"}, {}, {b}, {})
serveDeleted(b, owner) ==
  serveIndex(owner, {"published-deleted", "draft-deleted", "scheduled-deleted"}, {}, {b}, {})
serveEditorFilesUsesResults(owner) == serveIndex(owner, {}, {}, {}, {})

\* Views whose answer is the same for everybody.
PublishedPublic(b, sections) == Query({"published"}, {"public"}, {b}, sections)
getRandomPostPath(b) == PublishedPublic(b, SectionsOf(b))
sitemapPosts(b) == PublishedPublic(b, {})
allTaxonomyValues(b) == PublishedPublic(b, {})
blogStats(b) == PublishedPublic(b, {})

View(path, query) == [path |-> path, query |-> query]
Views(b, owner) ==
  LET At(p, query) == View(getRelativePath(b, p), query)
      Editor(name, query) == View(Append(editorPath(b), name), query) IN
  {At(<<>>, serveHome(b, owner)), At(<<"photos">>, servePhotos(b, owner)), At(<<"map">>, serveGeoMap(b, owner)),
   At(<<"search", "{search}">>, serveSearchResult(b, owner)), At(<<"{year}">>, serveDate(b, owner)),
   At(<<"{taxonomy}", "{taxValue}">>, serveTaxonomyValue(b, owner)), At(<<"{taxonomy}">>, allTaxonomyValues(b)),
   At(<<"random">>, getRandomPostPath(b)), At(<<"sitemap-blog-posts.xml">>, sitemapPosts(b)),
   At(<<"sitemap-blog-archives.xml">>, sitemapPosts(b)), At(<<"statistics">>, blogStats(b)),
   Editor("drafts", serveDrafts(b, owner)), Editor("private", servePrivate(b, owner)),
   Editor("unlisted", serveUnlisted(b, owner)), Editor("scheduled", serveScheduled(b, owner)),
   Editor("deleted", serveDeleted(b, owner)),
   View(editorPath(b) \o <<"files", "uses", "{filename}">>, serveEditorFilesUsesResults(owner))}
  \cup {At(<<s>>, serveSection(b, owner, s)) : s \in SectionsOf(b)}

-----------------------------------------------------------------------------
(* A path that no route takes: a post, an alias, or what is left of one. *)

Answer(shows, guards, cache) == [shows |-> shows, guards |-> guards, cache |-> cache]
servePostsAliasesRedirects(p, owner) ==
  CASE p.status = "published" /\ p.visibility \in {"public", "unlisted"} -> Answer("post", {"private"}, "visitors")
    [] p.status = "published" /\ p.visibility = "private" -> Answer("post", {"login"}, "none")
    [] p.status = "published-deleted" ->
         IF owner THEN Answer("post", {}, "none") ELSE Answer("gone", {"private"}, "visitors")
    [] OTHER -> Answer("post", {"login"}, "none")
serveAlias == Answer("redirect", {"private"}, "all")
serveDeletedPath == Answer("gone", {"private"}, "visitors")

-----------------------------------------------------------------------------
\* Either every configuration, at rest, or the usual one with requests on the settings, or
\* one more with tabs that edit a post: the editor and the settings share no state.
Init ==
  /\ cfg \in Configurations
  /\ SettingsInit /\ used = {} /\ hasty = {}
  /\ EditorInit

WithoutIndexNow == [Usual EXCEPT !.server = @ \ {"indexnow"}]

Next ==
  \/ cfg = Usual /\ SettingsNext /\ UNCHANGED <<cfg, editorVars>>
  \/ cfg = WithoutIndexNow /\ EditorNext /\ UNCHANGED <<cfg, settingVars, sectionVars>>

Spec == Init /\ [][Next]_<<cfg, settingVars, sectionVars, editorVars>>

-----------------------------------------------------------------------------
Editing == typed > 0 \/ \E c \in Connections : server[c] # Unused
Quiet == ~Editing /\ \A h \in Handlers : handler[h] = Idle
Undisturbed == Quiet /\ disturbed \cap {TheSections, TheRouter} = {}

\* Every path that answers something to the viewer, with what the answer offers.
At(path, offers) == [path |-> path, offers |-> offers]
Indexes(b) ==
  {getRelativePath(b, <<"photos">>), getRelativePath(b, <<"search", "{search}">>),
   getRelativePath(b, <<"{taxonomy}", "{taxValue}">>)}
    \cup sitemapDatePaths(home(b)) \cup {getRelativePath(b, <<s>>) : s \in SectionsOf(b)}
    \cup {Append(editorPath(b), l) : l \in PostLists}
    \cup (IF Has(b, "postAsHome") THEN {} ELSE {home(b)})
Answers(b, owner) ==
  LET Page(path, main) == At(path, renderBase(b, owner) \cup main)
      In(p, main) == Page(getRelativePath(b, p), main) IN
  {Page(i, renderIndex(b, i, FALSE)) : i \in Indexes(b)}
    \cup {At(Append(i, "{feed}"), generateFeed(i)) : i \in Indexes(b)}
    \cup {In(<<"search">>, renderSearch(b)), In(<<"statistics">>, renderBlogStats(b)), In(<<"map">>, renderGeoMap(b)),
          In(<<"blogroll">>, renderBlogroll(b, owner)), In(<<"contact">>, renderContact(b) \cup renderContactSent),
          In(<<"{taxonomy}">>, renderTaxonomy(b)), In(<<"comment", "{id}">>, renderComment(b, owner)),
          In(<<"random">>, redirectToRandomPost), In(<<"onthisday">>, redirectToOnThisDay(b)),
          In(<<"comment">>, renderCommentsAdmin(b)), In(<<"comment", "edit">>, renderCommentEditor(b)),
          In(<<"editor">>, renderEditor(b)), In(<<"editor", "files">>, renderEditorFiles(b)),
          In(<<"editor", "links">>, renderEditorLinks(b) \cup renderEditorLinkDomain),
          In(<<"editor", "files", "uses", "{filename}">>,
             renderIndex(b, editorPath(b) \o <<"files", "uses", "{filename}">>, TRUE)),
          In(<<"settings">>, renderSettings(b) \cup renderAppPasswordCreated(b)),
          Page(<<"notifications">>, renderNotificationsAdmin), Page(<<"webmention">>, renderWebmentionAdmin),
          Page(authorizePath, IF owner THEN renderOAuthAuthorize ELSE renderLogin),
          Page(<<"activitypub", "followers", b>>, renderActivityPubFollowers),
          Page(<<"activitypub", "remote_follow", b>>, renderActivityPubRemoteFollow(b)),
          Page(<<"favicon.ico">>, renderError \cup renderCaptcha \cup renderLogin),
          At(openSearchURL(b), serveOpenSearch(b)), At(<<"sitemap.xml">>, serveSitemap),
          At(getRelativePath(b, <<"sitemap-blog.xml">>), serveSitemapBlog(b)),
          At(getRelativePath(b, <<"sitemap-blog-features.xml">>), serveSitemapBlogFeatures(b)),
          At(getRelativePath(b, <<"sitemap-blog-archives.xml">>), serveSitemapBlogArchives(b)),
          At(getRelativePath(b, <<"sitemap-blog-posts.xml">>), serveSitemapBlogPosts),
          At(<<"robots.txt">>, serveRobotsTXT), At(oauthMetadataPath, oauthMetadata),
          Page(post, renderPost(b, owner))}
    \cup (IF Has(b, "postAsHome") THEN {Page(home(b), renderStaticHome(b, owner))} ELSE {})

\* Posts are found by path where no route takes it; short links lead to them.
PostPaths == {post, <<"s", "{id}">>} \cup {home(b) : b \in {c \in Blogs : Has(c, "postAsHome")}}

\* Known dead: the download of the blogroll of a blog with a subpath, the feeds of a home
\* that is a post, reactions switched on after the router was built, and what the head of
\* every page names although it is switched off.
KnownDead ==
  Link({getRelativePath(b, opmlPath(b)) : b \in Blogs})
    \cup Link({Append(home(b), "{feed}") : b \in {c \in Blogs : Has(c, "postAsHome")}})
    \cup (IF anyReactionsEnabled(built) THEN {} ELSE {"GET", "POST"} \X {<<"-", "reactions">>})
    \cup (IF DisableReceiving(built) THEN Form({<<"webmention">>}) ELSE {})
    \cup (IF apEnabled THEN {} ELSE Form({createAppPath}))

\* For clients, which have a token.
ForClients(routes) == {<<r.method, r.path>> : r \in {q \in routes : "oauth" \in q.guards}}

Reachable(routes, owner) ==
  {<<r.method, r.path>> : r \in {q \in routes : Open(q.guards, owner)}} \cup Link(PostPaths)

\* Whatever a page offers to its viewer is answered: no link or form of a page the viewer
\* can reach leads to a route that is not mounted or, outside of private mode, to one that
\* wants the viewer to log in.
NoDeadLinks ==
  Undisturbed =>
    LET routes == Mounted(built)
        all == Reachable(routes, TRUE) IN
    \A owner \in BOOLEAN :
      LET mine == Reachable(routes, owner)
          known == KnownDead \cup ForClients(routes) \cup (IF isPrivate THEN all ELSE mine) IN
      \A b \in Blogs : \A a \in Answers(b, owner) :
        <<"GET", a.path>> \in mine => a.offers \subseteq known

\* Only published public posts are listed to visitors, whatever the view; what the owner is
\* answered from the shared cache is no different; private mode lists nothing to visitors;
\* sections hidden on start are not on the home page, unless all of them are hidden.
HiddenStaysHidden ==
  Quiet => LET routes == {r \in Mounted(built) : r.method = "GET"} IN
  \A b \in Blogs :
    /\ \A v \in Views(b, FALSE), r \in routes :
         r.path = v.path /\ Open(r.guards, FALSE) =>
           \A p \in AnyPost : buildPostsQuery(v.query, p) =>
             /\ ~isPrivate /\ p.status = "published" /\ p.visibility = "public"
             /\ r.cache = "all" => v \in Views(b, TRUE)
    /\ \A owner \in BOOLEAN, p \in AnyPost :
         LET a == servePostsAliasesRedirects(p, owner) IN
         /\ a.shows = "post" /\ Open(a.guards, owner) =>
              owner \/ (p.status = "published" /\ p.visibility # "private" /\ ~isPrivate)
         /\ a.cache # "none" => a = servePostsAliasesRedirects(p, ~owner) \/ ~owner
    /\ \A owner \in BOOLEAN, p \in AnyPost :
         buildPostsQuery(serveHome(b, owner), p) =>
           \A row \in mem.sections :
             row.blog = b /\ row.name = p.section /\ row.hide => ShownOnStart(b) = {}

\* Subpaths and sections do not lie where the server answers something else: at paths that
\* are open in private mode as well (OpenPaths), that owner and visitors share (SharedPaths),
\* or at the lists of the editor. Which of two routes with one path answers is left open here.
OpenPaths ==
  wellKnown
    \cup {oauthMetadataPath, authorizePath, tokenPath, <<"assets", "{file}">>, <<"profile.jpg">>, <<"profile.png">>,
          <<"captcha", "{id}">>, <<"{key}.txt">>, <<"robots.txt">>, <<"favicon.ico">>}
    \cup {openSearchURL(b) : b \in Blogs}
SharedPaths ==
  {<<"-", "leaflet">>, <<"-", "hlsjs">>, <<"sitemap.xml">>}
    \cup (UNION {Under(Prefix[b], SitemapParts) : b \in Blogs})
ListPaths == UNION {Under(editorPath(b), PostLists) : b \in Blogs}
NamedPaths == {home(b) : b \in Blogs} \cup {getRelativePath(b, <<s>>) : b \in Blogs, s \in Sections}
NamesAreFree == NamedPaths \cap (OpenPaths \cup SharedPaths \cup ListPaths) = {}

\* Nor where a page is for a feature or for who has logged in only (FeaturePages); some blog
\* is at the root, where the name of the author leads.
FeaturePages(b) ==
  LET editor == editorPath(b)
      results == Append(searchPath(b), "{search}") IN
  {getRelativePath(b, <<w>>) :
     w \in {"photos", "search", "map", "blogroll", "contact", "comment", "editor", "settings"}}
    \cup {openSearchURL(b), results, editor \o <<"files", "uses", "{filename}">>}
    \cup Under(commentPath(b), {"{id}", "edit"}) \cup Under(editor, PostLists \cup {"files", "links"})
    \cup {Append(i, "{feed}") : i \in {getRelativePath(b, <<"photos">>), results} \cup Under(editor, PostLists)}
    \cup {<<"activitypub", "remote_follow", b>>}
LinksAreFree ==
  /\ NamedPaths \cap (UNION {FeaturePages(b) : b \in Blogs}) = {}
  /\ NamedPaths \cap {<<"notifications">>, <<"webmention">>, <<"activitypub", "followers">>, <<"activitypub", "remote_follow">>} = {}
  /\ <<>> \in {home(b) : b \in Blogs}

\* What the requests have left in memory is what a restart would load, but for settings
\* saved by overlapping or half failed requests, a description that was emptied (the one of
\* the configuration returns), and a blog left without sections.
MemoryIsStored ==
  Quiet =>
    /\ \A k \in Keys \ disturbed :
         LET loaded == migrateStringSetting(rows, k) IN
         IF k \in Switches THEN (k \in mem.on) = (migrateBooleanSetting(rows, k) = "1")
         ELSE mem.text[k] = loaded \/ (k[2] = "description" /\ mem.text[k] = "")
    /\ TheSections \notin disturbed => mem.sections = sectionRows

\* At rest the installed router is the one the settings in memory ask for, but for the
\* reactions, unless two requests have rebuilt it at the same time.
RouterIsCurrent ==
  Undisturbed => (Mounted(built) \ reactionRoutes) = (Mounted(mem) \ reactionRoutes)

\* A section with posts stays, but for posts created while it was being deleted.
SectionInUseStays ==
  \A u \in used \ hasty : \E row \in sectionRows : <<row.blog, row.name>> = u

\* At rest a cached page shows the settings in memory, unless it was being rendered when
\* the cache was purged, or a request has failed half-way through reloading the sections.
PagesAreCurrent ==
  Quiet /\ TheSections \notin disturbed => \A p \in page : p.late \/ p.shown = Shown(mem)
=============================================================================
