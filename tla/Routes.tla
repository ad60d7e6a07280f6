------------------------------- MODULE Routes -------------------------------
(***************************************************************************)
(* What buildRouter mounts: the routes with the method of each, the guards *)
(* in front of the handler, and who is answered from the response cache.   *)
(***************************************************************************)
EXTENDS Settings

\* The guards: "login" answers everybody but the owner with the login form, "private" does
\* so in private mode only, "oauth" wants a token, "captcha" a solved captcha.
Route(methods, paths, guards, cache) ==
  [method : methods, path : paths, guards : {guards}, cache : {cache}]
Get(paths, guards) == Route({"GET"}, paths, guards, "none")
Post(paths, guards) == Route({"POST"}, paths, guards, "none")
\* cacheMiddleware answers visitors from the cache; after cacheLoggedIn the owner as well.
CachedGet(paths, guards) == Route({"GET"}, paths, guards, "visitors")
SharedGet(paths, guards) == Route({"GET"}, paths, guards, "all")

Under(p, segments) == {Append(p, s) : s \in segments}
Paged(p) == p \o <<"page", "{page}">>
registerIndexRoutes(p) == {p, Append(p, "{feed}"), Paged(p)}

loginRouter ==
  Get({<<"login">>, <<"logout">>}, {"login"})
    \cup Post(Under(<<"webauthn", "registration">>, {"begin", "finish"}), {"login"})
    \cup Post(Under(<<"webauthn", "login">>, {"begin", "finish"}), {})

micropubRouter == Route({"GET", "POST"}, {<<"micropub">>, <<"micropub", "media">>}, {"oauth"}, "none")

wellKnown == {<<".well-known", "webfinger">>, <<".well-known", "host-meta">>,
              <<".well-known", "nodeinfo">>, <<"nodeinfo">>}
activityPubRouter ==
  IF ~apEnabled THEN {} ELSE
    Post(Under(<<"activitypub", "inbox">>, Blogs) \cup Under(<<"activitypub", "remote_follow">>, Blogs), {})
      \cup Get(Under(<<"activitypub", "followers">>, Blogs), {})
      \cup CachedGet(Under(<<"activitypub", "remote_follow">>, Blogs), {})
      \cup SharedGet(wellKnown, {})

authorizePath == <<"oauth", "authorize">>
tokenPath == <<"oauth", "token">>
revokePath == <<"oauth", "revoke">>
createAppPath == <<"api", "v1", "apps">>
oauthMetadataPath == <<".well-known", "oauth-authorization-server">>
oauthRouter ==
  SharedGet({oauthMetadataPath}, {}) \cup Get({authorizePath, tokenPath}, {})
    \cup Post({authorizePath}, {"login"}) \cup Post({tokenPath, revokePath}, {})
    \cup IF ~apEnabled THEN {} ELSE
           Post({createAppPath}, {})
             \cup Get({<<"api", "v1", "accounts", "verify_credentials">>}, {"oauth"})

DisableReceiving(s) == <<Site, "disableReceiving">> \in s.on
webmentionsRouter(s) ==
  IF DisableReceiving(s) THEN {} ELSE
    Post({<<"webmention">>}, {}) \cup Get({<<"webmention">>, Paged(<<"webmention">>)}, {"login"})
      \cup Post(Under(<<"webmention">>, {"delete", "approve", "reverify"}), {"login"})

notificationsRouter ==
  Get({<<"notifications">>, Paged(<<"notifications">>)}, {"login"})
    \cup Post({<<"notifications", "delete">>}, {"login"})

assetsRouter == Get({<<"assets", "{file}">>}, {})
staticFilesRouter == Get({<<"{static}">>}, {"private"})
mediaFilesRouter == Get({<<"m", "{file}">>}, {"private"})
profileImageRouter == SharedGet({<<"profile.jpg">>, <<"profile.png">>}, {})

anyReactionsEnabled(s) == \E b \in Blogs : <<b, "reactionsEnabled">> \in s.on
reactionRoutes == Route({"GET", "POST"}, {<<"-", "reactions">>}, {"private"}, "none")
otherRoutesRouter(s) ==
  Get({<<"-", "tiles", "{tile}">>}, {"private"})
    \cup Route({"GET", "POST"}, Under(<<"-">>, {"leaflet", "hlsjs"}), {"private"}, "all")
    \cup (IF anyReactionsEnabled(s) THEN reactionRoutes ELSE {})
    \cup Get({<<"-", "reload">>}, {"private", "login"})

-----------------------------------------------------------------------------
(* The routes of a blog. *)

Feature(b, name, routes) == IF Has(b, name) THEN routes ELSE {}

blogHomeRouter(b) ==
  IF Has(b, "postAsHome") THEN {} ELSE CachedGet(registerIndexRoutes(getRelativePath(b, <<>>)), {"private"})

dateRoutes(p) ==
  UNION {registerIndexRoutes(p \o date) :
           date \in {<<"{year}">>, <<"{year}", "{month}">>, <<"{year}", "{month}", "{day}">>}}

blogSectionsRouter(b, s) ==
  LET names == {row.name : row \in {r \in s.sections : r.blog = b}}
      Path(name) == getRelativePath(b, <<name>>) IN
  CachedGet(UNION {registerIndexRoutes(Path(n)) \cup dateRoutes(Path(n)) : n \in names}, {"private"})

blogTaxonomiesRouter(b) ==
  LET p == getRelativePath(b, <<"{taxonomy}">>) IN
  CachedGet({p} \cup registerIndexRoutes(Append(p, "{taxValue}")), {"private"})

blogDatesRouter(b) == CachedGet(dateRoutes(getRelativePath(b, <<>>)), {"private"})

blogPhotosRouter(b) ==
  Feature(b, "photos", CachedGet(registerIndexRoutes(getRelativePath(b, <<"photos">>)), {"private"}))

searchPath(b) == getRelativePath(b, <<"search">>)
blogSearchRouter(b) ==
  Feature(b, "search",
    CachedGet({searchPath(b)} \cup registerIndexRoutes(Append(searchPath(b), "{search}")), {"private"})
      \cup Route({"POST"}, {searchPath(b)}, {"private"}, "visitors")
      \cup CachedGet({Append(searchPath(b), "opensearch.xml")}, {}))

blogRandomRouter(b) == Feature(b, "random", Get({getRelativePath(b, <<"random">>)}, {"private"}))
blogOnThisDayRouter(b) == Feature(b, "onThisDay", Get({getRelativePath(b, <<"onthisday">>)}, {"private"}))

PostLists == {"drafts", "private", "unlisted", "scheduled", "deleted"}
FileForms == {"view", "uses", "delete", "optimize", "variants"}
editorPath(b) == getRelativePath(b, <<"editor">>)
blogEditorRouter(b) ==
  LET editor == editorPath(b)
      files == Append(editor, "files")
      uses == files \o <<"uses", "{filename}">> IN
  Get({editor, files, uses, Paged(uses), Append(editor, "links"), Append(editor, "ws")}, {"login"})
    \cup Get(UNION {registerIndexRoutes(Append(editor, l)) : l \in PostLists}, {"login"})
    \cup Post({editor} \cup Under(files, FileForms), {"login"})

commentPath(b) == getRelativePath(b, <<"comment">>)
commentsEnabled(b, s) == Has(b, "comments") /\ ~DisableReceiving(s)
blogCommentsRouter(b, s) ==
  LET p == commentPath(b) IN
  IF ~commentsEnabled(b, s) THEN {} ELSE
    CachedGet({Append(p, "{id}")}, {"private"}) \cup Post({p}, {"private", "captcha"})
      \cup Get({p, Paged(p), Append(p, "edit")}, {"private", "login"})
      \cup Post(Under(p, {"delete", "edit"}), {"private", "login"})

blogStatsRouter(b) == Feature(b, "blogStats", CachedGet({getRelativePath(b, <<"statistics">>)}, {"private"}))

getBlogrollPath(b) == getRelativePath(b, <<"blogroll">>)
opmlPath(b) == Append(getBlogrollPath(b), ".opml")
blogBlogrollRouter(b) ==
  Feature(b, "blogroll",
    CachedGet({getBlogrollPath(b), opmlPath(b)}, {"private"})
      \cup Post({Append(getBlogrollPath(b), "refresh")}, {"private", "login"}))

blogGeoMapRouter(b) ==
  LET p == getRelativePath(b, <<"map">>) IN
  Feature(b, "map", CachedGet({p} \cup Under(p, {"tracks.json", "locations.json"}), {"private"}))

contactPath(b) == getRelativePath(b, <<"contact">>)
blogContactRouter(b) ==
  Feature(b, "contact",
    CachedGet({contactPath(b)}, {"private"})
      \cup Route({"POST"}, {contactPath(b)}, {"private", "captcha"}, "visitors"))

SitemapParts == {"sitemap-blog.xml", "sitemap-blog-features.xml", "sitemap-blog-archives.xml",
                 "sitemap-blog-posts.xml"}
blogSitemapRouter(b) == SharedGet(Under(Prefix[b], SitemapParts), {"private"})

SettingsForms ==
  {"deletesection", "updatesection", "updatedefaultsection", "oldcontentwarning", "sharebutton",
   "translatebutton", "speakbutton", "replytitle", "replycontext", "liketitle", "likecontext",
   "reactionsenabled", "reactions", "webmentiondisablesending", "webmentiondisablereceiving",
   "webmentiondisableintergoblog", "webmentionblocklistadd", "webmentionblocklistremove", "user",
   "blog", "updateprofileimage", "deleteprofileimage", "deletepasskey", "renamepasskey", "password",
   "deletepassword", "setuptotp", "deletetotp", "createapppassword", "deleteapppassword"}
settingsPath(b) == getRelativePath(b, <<"settings">>)
blogSettingsRouter(b) == Get({settingsPath(b)}, {"login"}) \cup Post(Under(settingsPath(b), SettingsForms), {"login"})

blogRouter(b, s) ==
  blogHomeRouter(b) \cup blogSectionsRouter(b, s) \cup blogTaxonomiesRouter(b) \cup blogDatesRouter(b)
    \cup blogPhotosRouter(b) \cup blogSearchRouter(b) \cup blogRandomRouter(b) \cup blogOnThisDayRouter(b)
    \cup blogEditorRouter(b) \cup blogCommentsRouter(b, s) \cup blogStatsRouter(b) \cup blogBlogrollRouter(b)
    \cup blogGeoMapRouter(b) \cup blogContactRouter(b) \cup blogSitemapRouter(b) \cup blogSettingsRouter(b)

\* The router built from the settings s.
Mounted(s) ==
  loginRouter \cup micropubRouter \cup oauthRouter \cup activityPubRouter \cup webmentionsRouter(s)
    \cup notificationsRouter \cup assetsRouter \cup staticFilesRouter \cup mediaFilesRouter
    \cup profileImageRouter \cup otherRoutesRouter(s) \cup Get({<<"captcha", "{id}">>}, {})
    \cup (UNION {blogRouter(b, s) : b \in Blogs})
    \cup SharedGet({<<"sitemap.xml">>}, {"private"})
    \cup (IF indexNowEnabled THEN SharedGet({<<"{key}.txt">>}, {}) ELSE {})
    \cup SharedGet({<<"robots.txt">>}, {}) \cup CachedGet({<<"favicon.ico">>}, {})

\* Who may use a route without another form in between.
Open(guards, owner) ==
  owner \/ (guards \cap {"login", "oauth"} = {} /\ ~("private" \in guards /\ isPrivate))
=============================================================================
