------------------------------- MODULE Pages -------------------------------
(***************************************************************************)
(* The pages, as the links and forms each of them offers.  Pages are       *)
(* rendered from the settings in memory; what they show of posts is left   *)
(* out, and a page is taken with everything it may show.                   *)
(***************************************************************************)
EXTENDS Routes

Link(paths) == {"GET"} \X paths
Form(paths) == {"POST"} \X paths
If(condition, offers) == IF condition THEN offers ELSE {}

home(b) == getRelativePath(b, <<>>)
post == <<"{post}">>
asset == Link({<<"assets", "{file}">>})
profileImagePath == Link({<<"profile.jpg">>, <<"profile.png">>})

-----------------------------------------------------------------------------
(* uiComponents.go *)

renderAuthor == Link({<<>>}) \cup profileImagePath
renderPagination(index) == Link({index, Paged(index)})

renderPostMeta(b, typ) ==
  Link({getRelativePath(b, <<s>>) : s \in SectionsOf(b)}) \cup If(typ = "post", Link({post, <<"s", "{id}">>}))
renderPostTax(b) == Link({getRelativePath(b, <<"{taxonomy}", "{taxValue}">>)})
renderPostReplyContext == {}    \* links to other sites only
renderSummary(b) == Link({post}) \cup renderPostMeta(b, "summary") \cup renderPostReplyContext

renderShareButton(b) == If(<<b, "hideShareButton">> \notin mem.on, asset)
renderTranslateButton(b) == If(<<b, "hideTranslateButton">> \notin mem.on, asset)
renderSpeakButton(b) == If(<<b, "hideSpeakButton">> \notin mem.on, asset)
renderPostReactions(b) ==
  If(<<b, "reactionsEnabled">> \in mem.on,
     asset \cup Link({<<"-", "reactions">>}) \cup Form({<<"-", "reactions">>}))
renderPostVideo == asset \cup Link({<<"-", "hlsjs">>})
renderMap == asset \cup Link({<<"-", "leaflet">>, <<"-", "tiles", "{tile}">>})
renderPostTrackSVG == {}
renderPostTrack(disableInteractiveMap) == IF disableInteractiveMap THEN renderPostTrackSVG ELSE renderMap

\* Mentions by other sites, the posts that answer them, and the two forms.
renderInteractions(b) == Link({post}) \cup Form({<<"webmention">>, commentPath(b)})
Interactions(b) == If(commentsEnabled(b, mem), renderInteractions(b))

\* The menus of the configuration file name what the file configures.
renderFooter(b) == Link({home(b)})

renderBooleanSetting(b, name) == Form({Append(settingsPath(b), name)})
SettingsForm(b, names) == Form(Under(settingsPath(b), names))

renderReactionSettings(b) ==
  renderBooleanSetting(b, "reactionsenabled")
    \cup If(<<b, "reactionsEnabled">> \in mem.on, SettingsForm(b, {"reactions"}))
renderWebmentionSettings(b) ==
  (UNION {renderBooleanSetting(b, n) :
            n \in {"webmentiondisablesending", "webmentiondisablereceiving", "webmentiondisableintergoblog"}})
    \cup SettingsForm(b, {"webmentionblocklistadd", "webmentionblocklistremove"})
renderPostSectionSettings(b) ==
  SettingsForm(b, {"updatedefaultsection", "updatesection"}) \cup If(SectionsOf(b) # {}, SettingsForm(b, {"deletesection"}))
renderBlogSettings(b) == SettingsForm(b, {"blog"})
renderUserSettings(b) == SettingsForm(b, {"user", "updateprofileimage", "deleteprofileimage"})
renderSecuritySettings(b) ==
  SettingsForm(b, {"password", "deletepassword", "setuptotp", "deletetotp", "renamepasskey", "deletepasskey",
                   "createapppassword", "deleteapppassword"})
    \cup Form(Under(<<"webauthn", "registration">>, {"begin", "finish"}))
renderAppPasswordCreated(b) == Link({settingsPath(b)})

-----------------------------------------------------------------------------
(* ui.go *)

\* The head names every interface, switched on or not.
Advertised(b) ==
  Link({Append(home(b), "{feed}"), authorizePath, oauthMetadataPath})
    \cup Form({<<"webmention">>, <<"micropub">>, tokenPath, revokePath, createAppPath})
openSearchURL(b) == Append(searchPath(b), "opensearch.xml")
\* Mistake: the menu does not ask whether webmentions are received.
UserMenuWhole(b) ==
  Link({editorPath(b), <<"notifications">>, settingsPath(b), <<"logout">>, <<"webmention">>}
         \cup (IF commentsEnabled(b, mem) THEN {commentPath(b)} ELSE {}))
UserMenu(b) ==
  Link({editorPath(b), <<"notifications">>, settingsPath(b), <<"logout">>}
         \cup (IF DisableReceiving(mem) THEN {} ELSE {<<"webmention">>})
         \cup (IF commentsEnabled(b, mem) THEN {commentPath(b)} ELSE {}))
renderBase(b, owner) ==
  Advertised(b) \cup asset \cup profileImagePath \cup Link({home(b)})
    \cup If(Has(b, "blogroll"), Link({opmlPath(b)})) \cup If(Has(b, "search"), Link({openSearchURL(b)}))
    \cup If(owner, UserMenu(b)) \cup renderFooter(b)

renderError == {}
renderLogin == Form(Under(<<"webauthn", "login">>, {"begin", "finish"})) \cup renderAuthor \cup asset
renderSearch(b) == Form({searchPath(b)})
renderComment(b, owner) ==
  Link({post}) \cup If(owner, Link({Append(commentPath(b), "edit")})) \cup Interactions(b)
renderIndex(b, index, withoutFeeds) ==
  renderSummary(b) \cup renderPagination(index) \cup renderAuthor
    \cup If(~withoutFeeds, Link({Append(index, "{feed}")}))
renderBlogStatsTable == {}
renderBlogStats(b) == renderBlogStatsTable \cup asset \cup Interactions(b)
renderGeoMap(b) ==
  renderMap \cup Link(Under(getRelativePath(b, <<"map">>), {"tracks.json", "locations.json"})) \cup Interactions(b)
\* The path of the download already is the path in the blog, and gets the prefix again.
renderBlogroll(b, owner) ==
  Link({getRelativePath(b, opmlPath(b))}) \cup Interactions(b)
    \cup If(owner, Form({Append(getBlogrollPath(b), "refresh")}))
renderContact(b) == Form({contactPath(b)})
renderContactSent == {}
renderCaptcha == Link({<<"captcha", "{id}">>})
renderTaxonomy(b) == Link({getRelativePath(b, <<"{taxonomy}", "{taxValue}">>)})
renderPost(b, owner) ==
  Link({<<"s", "{id}">>}) \cup renderPostMeta(b, "post")
    \cup renderShareButton(b) \cup renderTranslateButton(b) \cup renderSpeakButton(b)
    \cup renderPostVideo \cup renderPostTrack(FALSE) \cup renderPostTax(b) \cup renderAuthor
    \cup renderPostReactions(b) \cup If(owner, Form({editorPath(b)}) \cup asset) \cup Interactions(b)
renderStaticHome(b, owner) == renderAuthor \cup If(owner, Form({editorPath(b)}))
renderOAuthAuthorize == Form({authorizePath})

EditorFile(b, name) == editorPath(b) \o <<"files", name>>
renderEditorFiles(b) ==
  Form({EditorFile(b, n) : n \in {"view", "uses", "delete", "variants"}}) \cup asset
    \cup If("imgproxy" \in cfg.server, Form({EditorFile(b, "optimize")}))
renderEditorLinks(b) == Link({Append(editorPath(b), "links")})
renderEditorLinkDomain == Link({post})
renderNotificationsAdmin == Form({<<"notifications", "delete">>}) \cup renderPagination(<<"notifications">>)
renderCommentsAdmin(b) ==
  Link({post, Append(commentPath(b), "edit")}) \cup Form({Append(commentPath(b), "delete")})
    \cup renderPagination(commentPath(b))
renderWebmentionAdmin ==
  Link({post}) \cup Form(Under(<<"webmention">>, {"approve", "delete", "reverify"}))
    \cup renderPagination(<<"webmention">>)
renderEditorToolbar == {}
renderEditorPreview(b) == renderPostMeta(b, "preview") \cup renderPostTrack(TRUE) \cup renderPostTax(b)
renderEditor(b) ==
  Form({editorPath(b)}) \cup renderEditorToolbar \cup asset
    \cup Link({Append(editorPath(b), p) : p \in PostLists \cup {"links", "files", "ws"}})
    \cup renderEditorPreview(b)
renderSettings(b) ==
  (UNION {renderBooleanSetting(b, n) :
            n \in {"oldcontentwarning", "sharebutton", "translatebutton", "speakbutton", "replytitle",
                   "replycontext", "liketitle", "likecontext"}})
    \cup renderWebmentionSettings(b) \cup renderBlogSettings(b) \cup renderReactionSettings(b)
    \cup renderUserSettings(b) \cup renderSecuritySettings(b) \cup renderPostSectionSettings(b) \cup asset
renderActivityPubFollowers == {}
renderActivityPubRemoteFollow(b) == Form({<<"activitypub", "remote_follow", b>>})
renderCommentEditor(b) == Form({Append(commentPath(b), "edit")})

-----------------------------------------------------------------------------
(* What is answered besides pages. *)

serveSitemap == Link({Append(Prefix[b], "sitemap-blog.xml") : b \in Blogs})
serveSitemapBlog(b) == Link(Under(Prefix[b], SitemapParts \ {"sitemap-blog.xml"}))
serveSitemapBlogFeatures(b) ==
  Link({home(b)} \cup UNION {IF Has(b, f[1]) THEN {getRelativePath(b, <<f[2]>>)} ELSE {} :
          f \in {<<"photos", "photos">>, <<"search", "search">>, <<"blogStats", "statistics">>,
                 <<"blogroll", "blogroll">>, <<"map", "map">>, <<"contact", "contact">>}})
sitemapDatePaths(p) ==
  {p \o d : d \in {<<"{year}">>, <<"{year}", "{month}">>, <<"{year}", "{month}", "{day}">>}}
serveSitemapBlogArchives(b) ==
  LET sections == {getRelativePath(b, <<s>>) : s \in SectionsOf(b)} IN
  Link(sections \cup (UNION {sitemapDatePaths(p) : p \in sections \cup {home(b)}})
         \cup {getRelativePath(b, <<"{taxonomy}">>), getRelativePath(b, <<"{taxonomy}", "{taxValue}">>)})
serveSitemapBlogPosts == Link({post})
generateFeed(index) == Link({index, post, <<"profile.jpg">>})
serveRobotsTXT ==
  If(~isPrivate, Link({<<"sitemap.xml">>} \cup {Append(Prefix[b], "sitemap-blog.xml") : b \in Blogs}))
serveOpenSearch(b) == Link({searchPath(b), openSearchURL(b)}) \cup Form({searchPath(b)})
redirectToOnThisDay(b) == Link({getRelativePath(b, <<"{year}", "{month}", "{day}">>)})
redirectToRandomPost == Link({post})
oauthMetadata ==
  Link({authorizePath, tokenPath}) \cup Form({tokenPath, revokePath}) \cup If(apEnabled, Form({createAppPath}))
=============================================================================
