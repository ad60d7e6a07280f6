------------------------- MODULE InteractionTables -------------------------
(***************************************************************************)
(* What the reactions of others to one post are stored in: comments, which *)
(* have pages of their own, webmentions, whose sources are pages of others *)
(* or pages of comments, and the queue "wm" of webmentions to verify.  Of  *)
(* the content of a source only its version is kept: the number of the     *)
(* change that made it.                                                    *)
(***************************************************************************)
EXTENDS Integers

CONSTANTS
  None,
  Pages,        \* pages of others (and posts of the blog) that may link here
  MovedTo,      \* where the redirect of a page leads to, should it get one
  Notes,        \* notes of the fediverse that reply to the post
  MaxComments,  \* bounds of the model
  MaxInputs

ASSUME TablesAssumption ==
  /\ MovedTo \in [Pages -> Pages]
  /\ \A page \in Pages : MovedTo[MovedTo[page]] = MovedTo[page]
  /\ MaxComments \in Nat /\ MaxInputs \in Nat
  /\ Pages \cap (1 .. MaxComments) = {}
  /\ None \notin Notes \cup Pages \cup (1 .. MaxComments)

\* Comments are numbered (autoincrement: a number is never given again).
Ids     == 1 .. MaxComments
Sources == Pages \cup Ids

VARIABLES
  inputs,    \* requests, changes of pages and acts of the administrator so far
  changes,   \* changes of pages and comments so far
  pages,     \* what the pages of others are now
  comments,  \* table comments
  lastId,    \* the number of the last comment
  mentions,  \* table webmentions, of which (source, target) is the key
  queue,     \* how many webmentions of a source are queued
  asked,     \* history: the version of a source when it was queued last
  dropped    \* history: sources whose last webmention got lost

tables == <<inputs, changes, pages, comments, lastId, mentions, queue, asked, dropped>>

Version == 0 .. MaxInputs
Page    == [is : {"linking", "silent", "gone", "moved"}, version : Version]
Comment == [note : Notes \cup {None}, version : Version]
Mention == [version : Version, note : Notes \cup {None}]

ASSUME RowsAssumption == None \notin Comment \cup Mention

TablesTypeOK ==
  /\ inputs \in 0 .. MaxInputs
  /\ changes \in Version
  /\ pages \in [Pages -> Page]
  /\ comments \in [Ids -> Comment \cup {None}]
  /\ lastId \in 0 .. MaxComments
  /\ mentions \in [Sources -> Mention \cup {None}]
  /\ queue \in [Sources -> Nat]
  /\ asked \in [Sources -> Version]
  /\ dropped \subseteq Sources

\* Some pages have been mentioned before.
TablesInit ==
  /\ inputs = 0 /\ changes = 0
  /\ pages = [page \in Pages |-> [is |-> "linking", version |-> 0]]
  /\ comments = [id \in Ids |-> None]
  /\ lastId = 0
  /\ \E some \in SUBSET Pages : mentions = [source \in Sources |->
       IF source \in some THEN [version |-> 0, note |-> None]
       ELSE None]
  /\ queue = [source \in Sources |-> 0]
  /\ asked = [source \in Sources |-> 0]
  /\ dropped = {}

-----------------------------------------------------------------------------
Input == inputs < MaxInputs /\ inputs' = inputs + 1

\* A change and its number, which is the version of what it makes.
Change == changes' = changes + 1

\* The page a request for a source ends at, and what is read there.
Final(source) ==
  IF source \in Pages /\ pages[source].is = "moved" THEN MovedTo[source] ELSE source

Is(source) ==
  CASE source \in Pages                            -> pages[source].is
    [] source \in Ids /\ comments[source] # None   -> "linking"
    [] OTHER                                       -> "gone"

VersionOf(source) ==
  CASE source \in Pages                            -> pages[source].version
    [] source \in Ids /\ comments[source] # None   -> comments[source].version
    [] OTHER                                       -> 0

NoteOf(source) ==
  IF source \in Ids /\ comments[source] # None THEN comments[source].note ELSE None

\* queueMention.
Queue(source) ==
  /\ queue' = [queue EXCEPT ![source] = @ + 1]
  /\ asked' = [asked EXCEPT ![source] = VersionOf(source)]

\* Webmentions whose source is one of some are deleted.
Without(some) == [source \in Sources |-> IF source \in some THEN None ELSE mentions[source]]
=============================================================================
