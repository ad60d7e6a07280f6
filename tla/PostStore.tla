----------------------------- MODULE PostStore -----------------------------
(***************************************************************************)
(* What the post store promises, with every operation atomic: the row of a *)
(* path is created, rewritten or moved, marked as deleted, restored and    *)
(* finally removed, and a removed path is remembered in the table deleted. *)
(* Posts.tla, in which requests, the scheduler and the deleter interleave  *)
(* around the mutex pcm, implements this specification.                    *)
(***************************************************************************)
EXTENDS PostTypes

VARIABLES now, posts, gone

vars == <<now, posts, gone>>

StoreTypeOK ==
  /\ now \in Times
  /\ posts \in [Paths -> Post \cup {None}]
  /\ gone \subseteq Paths

Init ==
  /\ now \in Times
  /\ posts = [path \in Paths |-> None]
  /\ gone = {}

Tick ==
  /\ now' \in Times /\ now' > now
  /\ UNCHANGED <<posts, gone>>

\* A path is taken by at most one post.  Nobody writes the suffix this way.
Create(path, p) ==
  /\ posts[path] = None /\ ~p.suffix
  /\ posts' = [posts EXCEPT ![path] = p]
  /\ UNCHANGED <<now, gone>>

\* An update rewrites the whole row and may move it to a free path.
Replace(old, new, p) ==
  /\ posts[old] # None /\ ~p.suffix
  /\ new = old \/ posts[new] = None
  /\ posts' = [posts EXCEPT ![old] = None, ![new] = p]
  /\ UNCHANGED <<now, gone>>

\* An update whose row is gone, to a path that another post has taken,
\* still adds its parameters there.
AddParameters(path, deleted) ==
  /\ posts[path] # None /\ posts[path].deleted = NoTime
  /\ posts' = [posts EXCEPT ![path].deleted = deleted]
  /\ UNCHANGED <<now, gone>>

SoftDelete(path) ==
  /\ posts[path] # None /\ ~posts[path].suffix
  /\ posts' = [posts EXCEPT ![path].suffix = TRUE, ![path].deleted = now]
  /\ UNCHANGED <<now, gone>>

HardDelete(path) ==
  /\ Deleted(posts[path])
  /\ posts' = [posts EXCEPT ![path] = None]
  /\ gone' = gone \cup {path}
  /\ UNCHANGED now

Undelete(path) ==
  /\ posts[path] # None
  /\ posts' = [posts EXCEPT ![path].suffix = FALSE, ![path].deleted = NoTime]
  /\ UNCHANGED <<now, gone>>

Next ==
  \/ Tick
  \/ \E path \in Paths :
       \/ SoftDelete(path) \/ HardDelete(path) \/ Undelete(path)
       \/ \E t \in Times : AddParameters(path, t)
       \/ \E p \in Post : Create(path, p)
       \/ \E p \in Post, new \in Paths : Replace(path, new, p)

Spec == Init /\ [][Next]_vars
=============================================================================
