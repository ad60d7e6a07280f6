----------------------------- MODULE Migration -----------------------------
(***************************************************************************)
(* mediaMigrate.go: the command that finds images with the same picture,   *)
(* keeps one of each group, makes its variants, lets posts refer to it and *)
(* deletes the others.  It is a process of its own beside the server, so   *)
(* that the mutex pcm of the server does not keep it from writing posts.   *)
(* Which image is the original (by EXIF data, size, length) and which      *)
(* groups the user confirms is left open.                                  *)
(***************************************************************************)
EXTENDS Optimization

CONSTANT Posts

VARIABLES
  posts,   \* the files that content and parameters of a post refer to
  plan     \* what the migration does

migrationVars == <<optVars, posts, plan>>

Replacement == [from : Names, to : Names]

(***************************************************************************)
(* known: what the table said about files, before they are listed;         *)
(* originals, others: the confirmed groups; pairs: replacements to do;     *)
(* found: posts that use the file of the current pair; copy: the post that *)
(* was read.                                                               *)
(***************************************************************************)
Plan ==
  [at : {"off", "discover", "optimize", "replace", "posts", "save", "delete"},
   known : SUBSET Names, originals : SUBSET Names, others : SUBSET Names,
   pairs : SUBSET Replacement, pair : Replacement \cup {None},
   found : SUBSET Posts, post : Posts \cup {None}, copy : SUBSET Names]

NoPlan ==
  [at |-> "off", known |-> {}, originals |-> {}, others |-> {},
   pairs |-> {}, pair |-> None, found |-> {}, post |-> None, copy |-> {}]

MigrationTypeOK ==
  /\ posts \in [Posts -> SUBSET Names]
  /\ plan \in Plan

Phase(at) == plan.at = at
Alone     == At(Migrator, "idle")

\* Files the migration deletes although it does not look for their posts again.
Doomed == (plan.others \ {pair.from : pair \in plan.pairs})
          \cup {n \in Names : Phase("delete") /\ ~Alone /\ op[Migrator].name = n}

\* A reference could not be replaced; the file is deleted all the same.
Fails(name) == Fault /\ lost' = lost \cup {name}
Succeeds    == UNCHANGED <<faults, lost>>

-----------------------------------------------------------------------------
\* mediaOptimizedHashSets.
StartMigration ==
  /\ Phase("off") /\ Alone
  /\ plan' = [NoPlan EXCEPT !.at = "discover",
                !.known = Originals(rows) \cup Optimized(rows)]
  /\ UNCHANGED <<optVars, posts>>

\* Files that are no variants and have none.
Candidates == files \ plan.known

\* They are grouped by their picture; one of a group is the original.
Group(name) == {n \in Candidates : PictureOf[n] = PictureOf[name]}

Compressed(originals) == (UNION {Group(o) : o \in originals}) \ originals

OriginalOf(name, originals) == CHOOSE o \in originals : name \in Group(o)

Pairs(originals) ==
  {[from |-> n, to |-> OriginalOf(n, originals)] : n \in Compressed(originals)}

\* The groups with these originals are confirmed.
Discover(originals) ==
  /\ Phase("discover")
  /\ originals \subseteq Candidates
  /\ \A o \in originals : Group(o) # {o} /\ Group(o) \cap originals = {o}
  /\ plan' = IF originals = {} THEN NoPlan
             ELSE [NoPlan EXCEPT !.at = "optimize", !.originals = originals,
                     !.others = Compressed(originals), !.pairs = Pairs(originals)]
  /\ UNCHANGED <<optVars, posts>>

\* Phase 2.
OptimizeNext(o) ==
  /\ Phase("optimize") /\ Alone /\ o \in plan.originals
  /\ Optimizes(Migrator, o)
  /\ plan' = [plan EXCEPT !.originals = @ \ {o}]
  /\ UNCHANGED <<files, rows, faults, lost, posts>>

EndOptimize ==
  /\ Phase("optimize") /\ Alone /\ plan.originals = {}
  /\ plan' = [plan EXCEPT !.at = "replace"]
  /\ UNCHANGED <<optVars, posts>>

PostsUsing(name) == {post \in Posts : name \in posts[post]}

\* Phase 3: the posts that use a file.
FindPosts(pair) ==
  /\ Phase("replace") /\ pair \in plan.pairs
  /\ \/ /\ plan' = [plan EXCEPT !.at = "posts", !.pairs = @ \ {pair}, !.pair = pair,
                                !.found = PostsUsing(pair.from)]
        /\ Succeeds
     \/ plan' = [plan EXCEPT !.pairs = @ \ {pair}] /\ Fails(pair.from)
  /\ UNCHANGED <<files, rows, suspect, op, posts>>

LoadPost(post) ==
  /\ Phase("posts") /\ post \in plan.found
  /\ \/ /\ plan' = [plan EXCEPT !.at = IF plan.pair.from \in posts[post]
                                       THEN "save" ELSE "posts",
                     !.found = @ \ {post},
                     !.post = IF plan.pair.from \in posts[post] THEN post ELSE None,
                     !.copy = IF plan.pair.from \in posts[post] THEN posts[post] ELSE {}]
        /\ Succeeds
     \/ plan' = [plan EXCEPT !.found = @ \ {post}] /\ Fails(plan.pair.from)
  /\ UNCHANGED <<files, rows, suspect, op, posts>>

Replaced(refs, pair) == (refs \ {pair.from}) \cup {pair.to}

\* savePost with the copy.
ReplaceReferences ==
  /\ Phase("save")
  /\ plan' = [plan EXCEPT !.at = "posts", !.post = None, !.copy = {}]
  /\ \/ posts' = [posts EXCEPT ![plan.post] = Replaced(plan.copy, plan.pair)] /\ Succeeds
     \/ UNCHANGED posts /\ Fails(plan.pair.from)
  /\ UNCHANGED <<files, rows, suspect, op>>

NextPair ==
  /\ Phase("posts") /\ plan.found = {}
  /\ plan' = [plan EXCEPT !.at = "replace", !.pair = None]
  /\ UNCHANGED <<optVars, posts>>

\* Mistake: the files are deleted while posts are still to be updated.
EndReplaceEarly ==
  /\ Phase("replace")
  /\ plan' = [plan EXCEPT !.at = "delete", !.pairs = {}]
  /\ UNCHANGED <<optVars, posts>>

EndReplace ==
  /\ Phase("replace") /\ plan.pairs = {}
  /\ plan' = [plan EXCEPT !.at = "delete"]
  /\ UNCHANGED <<optVars, posts>>

\* Phase 4.
DeleteNext(name) ==
  /\ Phase("delete") /\ Alone /\ name \in plan.others
  /\ Deletes(Migrator, name)
  /\ plan' = [plan EXCEPT !.others = @ \ {name}]
  /\ UNCHANGED <<files, rows, faults, lost, posts>>

EndMigration ==
  /\ Phase("delete") /\ Alone /\ plan.others = {}
  /\ plan' = NoPlan
  /\ UNCHANGED <<optVars, posts>>

MigrationStep ==
  \/ \E originals \in SUBSET Names : Discover(originals)
  \/ (\E o \in Names : OptimizeNext(o)) \/ EndOptimize
  \/ (\E pair \in Replacement : FindPosts(pair))
  \/ (\E post \in Posts : LoadPost(post)) \/ ReplaceReferences \/ NextPair
  \/ EndReplace
  \/ (\E name \in Names : DeleteNext(name)) \/ EndMigration
=============================================================================
