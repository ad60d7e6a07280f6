------------------------------- MODULE Media -------------------------------
(***************************************************************************)
(* Uploads, deletions and optimizations requested from the server          *)
(* (micropub.go, editorFiles.go), posts that are edited meanwhile, the     *)
(* migration, and crashes of the server or of the command.                 *)
(***************************************************************************)
EXTENDS Migration

CONSTANT MaxRequests   \* bound of the model

ASSUME MediaAssumption == MaxRequests \in Nat

VARIABLES
  text,      \* the references in the text of an open editor of a post
  requests   \* requests and starts of the migration so far

mediaVars == <<migrationVars, text, requests>>

MediaTypeOK ==
  /\ FilesTypeOK /\ OpTypeOK /\ MigrationTypeOK
  /\ text \in [Posts -> (SUBSET Names) \cup {None}]
  /\ requests \in 0 .. MaxRequests

MediaInit ==
  /\ FilesInit /\ OpInit
  /\ posts \in [Posts -> SUBSET files]
  /\ plan = NoPlan
  /\ text = [post \in Posts |-> None]
  /\ requests = 0

Request == requests < MaxRequests /\ requests' = requests + 1

-----------------------------------------------------------------------------
\* UploadMedia saves the file and makes its variants.
Upload(c, name) ==
  /\ Request
  /\ Optimizes(c, name)
  /\ files' = files \cup {name}
  /\ UNCHANGED <<rows, faults, lost, posts, plan, text>>

\* serveEditorFilesOptimize, and the command "media optimize".  The file may be
\* gone since it was listed.
Optimize(c, name) ==
  /\ Request
  /\ Optimizes(c, name)
  /\ UNCHANGED <<files, rows, faults, lost, posts, plan, text>>

\* serveEditorFilesDelete: who deletes a file does not mind that posts show it.
DeleteFile(c, name) ==
  /\ Request
  /\ Deletes(c, name)
  /\ lost' = lost \cup {name}
  /\ UNCHANGED <<files, rows, faults, posts, plan, text>>

OpenEditor(post) ==
  /\ text[post] = None
  /\ text' = [text EXCEPT ![post] = posts[post]]
  /\ UNCHANGED <<migrationVars, requests>>

\* The text is saved, perhaps with one more file.  References that nobody will
\* replace any more may be to files that are missing.
SaveText(post, more) ==
  LET refs == text[post] \cup more IN
  /\ Request /\ text[post] # None
  /\ posts' = [posts EXCEPT ![post] = refs]
  /\ text' = [text EXCEPT ![post] = None]
  /\ lost' = lost \cup (refs \ files) \cup (refs \cap Doomed)
  /\ UNCHANGED <<files, rows, faults, suspect, op, plan>>

Start == Request /\ StartMigration /\ UNCHANGED text

\* A process dies with the operations it runs.
Dies(some) ==
  /\ Fault
  /\ suspect' = suspect \cup UNION {Touched(op[p].name) : p \in {q \in some : ~At(q, "idle")}}
  /\ op' = [p \in Procs |-> IF p \in some THEN NoOp ELSE op[p]]
  /\ UNCHANGED <<files, rows, lost, posts, text, requests>>

ServerDies  == Dies(Clients) /\ UNCHANGED plan
CommandDies == Dies({Migrator}) /\ plan' = NoPlan

-----------------------------------------------------------------------------
Requests ==
  \/ \E c \in Clients, name \in Images : Upload(c, name)
  \/ \E c \in Clients, name \in Names : Optimize(c, name) \/ DeleteFile(c, name)
  \/ \E post \in Posts :
       OpenEditor(post) \/ \E more \in {{}} \cup {{n} : n \in files} : SaveText(post, more)
  \/ Start

MediaNext ==
  \/ Requests
  \/ \E p \in Procs : OptimizationStep(p) /\ UNCHANGED <<posts, plan, text, requests>>
  \/ MigrationStep /\ UNCHANGED <<text, requests>>
  \/ ServerDies \/ CommandDies

MediaSpec == MediaInit /\ [][MediaNext]_mediaVars

-----------------------------------------------------------------------------
(***************************************************************************)
(* Properties.                                                             *)
(***************************************************************************)
Quiet == Phase("off") /\ \A p \in Procs : At(p, "idle")

\* docs/features.md:309, what pages offer as variants of an image is there,
\* and no variant is left over whose image was deleted or which no row names
\* (the files view would show it as an image, and nothing would delete it),
\* unless an operation was interrupted, failed, met another on the same files
\* or deleted a variant that a second image has, too, or that was itself made
\* smaller (the command "media optimize" takes any file).
FilesMatchRows ==
  Quiet =>
    /\ \A r \in rows : {r.optimized, r.original} \subseteq files \cup suspect
    /\ \A v \in files \ Images : ByOptimized(v) # {} \/ v \in suspect

\* docs/features.md:355, "The tool is idempotent: safe to run multiple times":
\* at no moment, also when it dies, does the migration leave a post with a
\* reference to a missing file, unless its replacement failed, an edit wrote
\* the reference after posts were looked for, somebody deleted the file, or it
\* was a variant of another image that was deleted or made anew.
ReferencesResolve ==
  \A post \in Posts : posts[post] \subseteq files \cup lost
=============================================================================
