----------------------------- MODULE PostTypes -----------------------------
(***************************************************************************)
(* What a row of the tables posts and post_parameters is for the life      *)
(* cycle of a post: posts.go (the post type and its statuses) and the      *)
(* part of postsDb.go that checks a post before it is written.             *)
(*                                                                         *)
(* A status is a pair: the word (published, draft, scheduled) and whether  *)
(* the suffix -deleted is appended.  Times are ticks of a coarse clock; 0  *)
(* is the empty string.  Content, title, section and the other parameters  *)
(* are left out: no transition below reads them.                           *)
(***************************************************************************)
EXTENDS Naturals

CONSTANTS
  Paths,          \* the paths posts are stored at
  None,           \* no post, no path
  Visibilities,   \* the visibilities the authors use
  Times           \* the ticks of the clock

ASSUME TypesAssumption ==
  /\ None \notin Paths
  /\ Visibilities \subseteq {"public", "unlisted", "private"}
  /\ Times \subseteq Nat \ {0}

NoTime == 0

Status == {"published", "draft", "scheduled"}

Post ==
  [status     : Status,             \* the status without its suffix
   suffix     : BOOLEAN,            \* the status ends in -deleted
   visibility : Visibilities,
   published  : Times \cup {NoTime},
   deleted    : Times \cup {NoTime}]  \* the parameter "deleted"

ASSUME NoneIsNoPost == None \notin Post

Deleted(p) == p # None /\ p.suffix

\* The two visibilities under which hooks are triggered.
Shared(visibility) == visibility \in {"public", "unlisted"}

\* A post whose publication other systems are told of.
Announceable(p) ==
  /\ p # None
  /\ p.status = "published" /\ ~p.suffix
  /\ Shared(p.visibility)

(***************************************************************************)
(* checkPost: an empty status becomes scheduled when the publication date  *)
(* lies in the future and published otherwise; a new post that has no date *)
(* but has a section is dated now.                                         *)
(***************************************************************************)
CheckedDate(published, isNew, hasSection, now) ==
  IF isNew /\ published = NoTime /\ hasSection THEN now ELSE published

CheckedStatus(status, published, now) ==
  IF status # "" THEN status
  ELSE IF published > now THEN "scheduled" ELSE "published"
=============================================================================
