---------------------------- MODULE PostsProofs ----------------------------
(***************************************************************************)
(* Theorems about Posts, for every set of paths and clients and every      *)
(* clock: the types, what a process that holds pcm may rely on, and which  *)
(* posts are marked.  They rest on one inductive invariant, IInv.          *)
(***************************************************************************)
EXTENDS Posts, TLAPS

\* pcm is a mutex: a process is in a step that needs it iff it is the holder.
Mutex == \A proc \in Procs : op[proc].pc \in LockedPC <=> pcm = proc

\* What the operation of a process carries in the steps that use it.
Carries(o) ==
  /\ o.pc \in {"save", "saveExec", "reload", "hook"} => o.new \in Paths
  /\ o.pc \in {"save", "saveExec"} => o.copy \in Post /\ ~o.copy.suffix
  /\ o.pc \in {"delete", "deleteExec", "deleteHook",
               "undelete", "undeleteExec", "undeleteHook"} => o.old \in Paths
  /\ o.pc \in {"deleteExec", "undeleteExec"} => o.copy \in Post

OpsCarry ==
  /\ \A proc \in Procs : Carries(op[proc])
  /\ \A c \in Clients : At(c, "params") => op[c].old \in Paths
                                           /\ op[c].copy \in Post

\* The scheduler writes back no post that was marked when it was listed.
DueIsLive == \A path \in Paths : ~Deleted(due[path])

IInv ==
  /\ TypeOK
  /\ Mutex
  /\ OpsCarry
  /\ DueIsLive
  /\ LockedReadIsCurrent
  /\ MarkedHasDate

-----------------------------------------------------------------------------
(***************************************************************************)
(* A step of one process gives it another operation o and leaves those of  *)
(* the others alone.                                                       *)
(***************************************************************************)
Becomes(proc, o) == op' = [op EXCEPT ![proc] = o]

\* The operation a step leaves a process with fits the holder of pcm.
Fits(proc, o) ==
  /\ o \in Op /\ Carries(o)
  /\ proc \in Clients /\ o.pc = "params" => o.old \in Paths /\ o.copy \in Post

\* The history of a write names paths only.
LEMMA NotedType ==
  ASSUME IInv, NEW proc, Noted(proc) PROVE changed' \subseteq Paths
  BY DEF IInv, TypeOK, Noted

\* A step that writes no row, and takes pcm only when it is free, preserves
\* the invariant, provided what it read under pcm is what is stored.
LEMMA QuietStep ==
  ASSUME IInv, NEW proc \in Procs, NEW o, Becomes(proc, o), Fits(proc, o),
         UNCHANGED <<now, posts, gone, restarts>>, changed' \subseteq Paths,
         due' \in [Paths -> Post \cup {None}], DueIsLive',
         expired' \in [Paths -> Times \cup {NoTime}],
         lastHook' \in [Paths -> News],
         \/ pcm' = pcm /\ (o.pc \in LockedPC <=> pcm = proc)
         \/ pcm = Free /\ pcm' = proc /\ o.pc \in LockedPC
         \/ pcm = proc /\ pcm' = Free /\ o.pc \notin LockedPC,
         o.pc \in {"deleteExec", "undeleteExec"} => o.copy = posts[o.old]
  PROVE  IInv'
<1> USE PostsAssumption
<1>1. op' \in [Procs -> Op]
  BY DEF IInv, TypeOK, Becomes, Fits
<1>2. op'[proc] = o /\ \A q \in Procs \ {proc} : op'[q] = op[q]
  BY DEF IInv, TypeOK, Becomes
<1>3. TypeOK'
  BY <1>1 DEF IInv, TypeOK
<1>4. Mutex'
  BY <1>2, ZenonT(60) DEF IInv, TypeOK, Mutex
<1>5. OpsCarry'
  BY <1>2 DEF IInv, OpsCarry, Fits, Procs, At
<1>6. LockedReadIsCurrent'
  BY <1>2 DEF IInv, LockedReadIsCurrent
<1>7. MarkedHasDate'
  BY DEF IInv, MarkedHasDate
<1> QED
  BY <1>3, <1>4, <1>5, <1>6, <1>7 DEF IInv

\* A step that writes rows needs pcm, so that no other process has read a
\* row under pcm and still works with it.
LEMMA WritingStep ==
  ASSUME IInv, NEW proc \in Procs, NEW o, Becomes(proc, o), Fits(proc, o),
         UNCHANGED <<now, lists, lastHook, restarts>>,
         pcm = proc,
         \/ pcm' = Free /\ o.pc \notin LockedPC
         \/ pcm' = pcm /\ o.pc \in {"deleteHook", "undeleteHook"},
         posts' \in [Paths -> Post \cup {None}], MarkedHasDate',
         gone' \subseteq Paths, changed' \subseteq Paths
  PROVE  IInv'
<1> USE PostsAssumption
<1>1. op' \in [Procs -> Op]
  BY DEF IInv, TypeOK, Becomes, Fits
<1>2. op'[proc] = o /\ \A q \in Procs \ {proc} : op'[q] = op[q]
  BY DEF IInv, TypeOK, Becomes
<1>3. TypeOK'
  BY <1>1 DEF IInv, TypeOK, lists
<1>4. Mutex'
  BY <1>2 DEF IInv, TypeOK, Mutex, LockedPC
<1>5. OpsCarry'
  BY <1>2 DEF IInv, OpsCarry, Fits, Procs, At
<1>6. DueIsLive'
  BY DEF IInv, DueIsLive, lists
<1>7. \A q \in Procs : op'[q].pc \notin {"deleteExec", "undeleteExec"}
  BY <1>2 DEF IInv, Mutex, LockedPC
<1>8. LockedReadIsCurrent'
  BY <1>7 DEF LockedReadIsCurrent
<1> QED
  BY <1>3, <1>4, <1>5, <1>6, <1>8 DEF IInv

\* The operation of a process that is idle again.
LEMMA IdleFits == ASSUME NEW proc PROVE Fits(proc, Idle)
  BY DEF Fits, Idle, Op, Carries, LockPC, LockedPC, FreePC

-----------------------------------------------------------------------------
(***************************************************************************)
(* createOrReplacePost.                                                    *)
(***************************************************************************)

\* A process that has a post in memory and is to go on at pc without it.
LEMMA WithoutCopyFits ==
  ASSUME NEW proc, NEW o \in Op, NEW pc \in LockPC \cup LockedPC \cup FreePC,
         Carries(o), pc \notin {"params", "save", "saveExec", "deleteExec",
                                "undeleteExec"},
         pc \in {"reload", "hook"} => o.new \in Paths,
         pc \in {"deleteHook", "undeleteHook", "delete", "undelete"} =>
           o.old \in Paths
  PROVE  Fits(proc, [o EXCEPT !.pc = pc, !.copy = None])
  BY DEF Fits, Op, Carries

LEMMA SaveLockStep ==
  ASSUME IInv, NEW proc \in Procs, SaveLock(proc) PROVE IInv'
<1> DEFINE o == [op[proc] EXCEPT !.pc = "saveExec"]
<1>1. op[proc] \in Op /\ Carries(op[proc]) /\ op[proc].pc = "save"
  BY DEF IInv, TypeOK, OpsCarry, SaveLock, At
<1>2. Becomes(proc, o)
  BY DEF SaveLock, Goto, Becomes
<1>3. Fits(proc, o)
  BY <1>1 DEF Fits, Carries, Op, LockPC, LockedPC, FreePC
<1>4. /\ pcm = Free /\ pcm' = proc
      /\ UNCHANGED <<now, posts, gone, lists, lastHook, restarts>>
      /\ changed' \subseteq Paths
  BY DEF SaveLock, Lock, table, IInv, TypeOK
<1>5. o.pc = "saveExec"
  BY <1>1 DEF Op
<1>6. /\ due' \in [Paths -> Post \cup {None}] /\ DueIsLive'
      /\ expired' \in [Paths -> Times \cup {NoTime}]
      /\ lastHook' \in [Paths -> News]
  BY <1>4 DEF IInv, TypeOK, DueIsLive, lists
<1> QED
  BY <1>2, <1>3, <1>4, <1>5, <1>6, QuietStep DEF LockedPC

LEMMA SaveExecStep ==
  ASSUME IInv, NEW proc \in Procs, SaveExec(proc) PROVE IInv'
<1> USE NoneIsNoPost
<1> DEFINE o == op[proc]
           r == [o EXCEPT !.pc = "reload", !.copy = None]
<1>1. /\ o \in Op /\ o.pc = "saveExec"
      /\ o.new \in Paths /\ o.copy \in Post /\ ~o.copy.suffix /\ Carries(o)
  BY DEF IInv, TypeOK, OpsCarry, SaveExec, At, Carries
<1>2. pcm = proc /\ pcm' = Free
  BY <1>1 DEF IInv, Mutex, LockedPC, SaveExec, Unlock
<1>3. /\ UNCHANGED <<now, gone, lists, lastHook, restarts>>
      /\ gone' \subseteq Paths /\ changed' \subseteq Paths
  BY NotedType DEF SaveExec, IInv, TypeOK
<1>4. Fits(proc, r) /\ r.pc = "reload"
  BY <1>1, WithoutCopyFits DEF LockPC, LockedPC, FreePC, Op
<1>5. Fits(proc, Idle) /\ Idle.pc = "idle"
  BY IdleFits DEF Idle
<1>6. posts \in [Paths -> Post \cup {None}] /\ MarkedHasDate
  BY DEF IInv, TypeOK
<1>7. posts' \in [Paths -> Post \cup {None}] /\ MarkedHasDate'
  <2>1. CASE Insert(proc)
    BY <1>1, <1>6, <2>1 DEF Insert, MarkedHasDate, Deleted
  <2>2. CASE Update(proc)
    <3>1. o.old \in Paths /\ posts' = [posts EXCEPT ![o.old] = None, ![o.new] = o.copy]
      BY <1>1, <2>2 DEF Update, Matched, Op
    <3> QED
      BY <1>1, <1>6, <3>1 DEF MarkedHasDate, Deleted
  <2>3. CASE Conflict(proc)
    BY <1>6, <2>3 DEF Conflict, MarkedHasDate
  <2>4. CASE NoRow(proc)
    BY <1>6, <2>4 DEF NoRow, MarkedHasDate
  <2>5. CASE StrayParameters(proc)
    <3>1. posts[o.new] \in Post
      BY <1>1, <1>6, <2>5 DEF StrayParameters
    <3> DEFINE d == IF posts[o.new].deleted = NoTime THEN o.copy.deleted
                    ELSE posts[o.new].deleted
    <3>2. posts' = [posts EXCEPT ![o.new] = [posts[o.new] EXCEPT !.deleted = d]]
      BY <1>1, <1>6, <2>5, <3>1 DEF StrayParameters
    <3>3. d \in Times \cup {NoTime} /\ (posts[o.new].deleted # NoTime => d # NoTime)
      BY <1>1, <3>1 DEF Post
    <3>4. /\ [posts[o.new] EXCEPT !.deleted = d] \in Post
          /\ [posts[o.new] EXCEPT !.deleted = d].suffix = posts[o.new].suffix
          /\ [posts[o.new] EXCEPT !.deleted = d].deleted = d
      BY <3>1, <3>3 DEF Post
    <3> HIDE DEF d
    <3> QED
      BY <1>1, <1>6, <3>1, <3>2, <3>3, <3>4 DEF MarkedHasDate, Deleted
  <2> QED
    BY <2>1, <2>2, <2>3, <2>4, <2>5 DEF SaveExec
<1>8. Becomes(proc, r) \/ Becomes(proc, Idle)
  BY DEF SaveExec, Insert, Update, Conflict, NoRow, StrayParameters, Forget,
         Done, Becomes
<1> QED
  BY <1>2, <1>3, <1>4, <1>5, <1>7, <1>8, WritingStep DEF LockedPC

LEMMA ReloadStep ==
  ASSUME IInv, NEW proc \in Procs, Reload(proc) PROVE IInv'
<1> DEFINE h == [op[proc] EXCEPT !.pc = "hook"]
<1>1. op[proc] \in Op /\ Carries(op[proc]) /\ op[proc].pc = "reload"
  BY DEF IInv, TypeOK, OpsCarry, Reload, At
<1>2. Fits(proc, h) /\ h.pc = "hook"
  BY <1>1 DEF Fits, Carries, Op, LockPC, LockedPC, FreePC
<1>3. Fits(proc, Idle) /\ Idle.pc = "idle"
  BY IdleFits DEF Idle
<1>4. Becomes(proc, h) \/ Becomes(proc, Idle)
  BY DEF Reload, Goto, Done, Becomes
<1>5. /\ UNCHANGED <<now, posts, gone, pcm, lists, lastHook, restarts>>
      /\ changed' \subseteq Paths
  BY DEF Reload, table, IInv, TypeOK
<1>6. pcm # proc
  BY <1>1 DEF IInv, Mutex, LockedPC
<1>7. /\ due' \in [Paths -> Post \cup {None}] /\ DueIsLive'
      /\ expired' \in [Paths -> Times \cup {NoTime}]
      /\ lastHook' \in [Paths -> News]
  BY <1>5 DEF IInv, TypeOK, DueIsLive, lists
<1> QED
  BY <1>2, <1>3, <1>4, <1>5, <1>6, <1>7, QuietStep DEF LockedPC

\* The hooks and the errors: the process is idle again and does not hold pcm.
LEMMA FinishStep ==
  ASSUME IInv, NEW proc \in Procs,
         \/ SaveHook(proc) \/ DeleteHook(proc) \/ UndeleteHook(proc) \/ Fail(proc)
         \/ ReloadFails(proc)
  PROVE  IInv'
<1>1. op[proc] \in Op /\ Carries(op[proc])
  BY DEF IInv, TypeOK, OpsCarry
<1>2. Becomes(proc, Idle)
  BY DEF SaveHook, DeleteHook, UndeleteHook, Fail, ReloadFails, Done, Becomes
<1>3. Fits(proc, Idle) /\ Idle.pc = "idle"
  BY IdleFits DEF Idle
<1>4. UNCHANGED <<now, posts, gone, lists, restarts>> /\ changed' \subseteq Paths
  BY NotedType DEF SaveHook, DeleteHook, UndeleteHook, Fail, ReloadFails, table, IInv,
                   TypeOK
<1>5. \/ pcm' = pcm /\ pcm # proc
      \/ pcm = proc /\ pcm' = Free
  BY DEF IInv, Mutex, LockedPC, At, Unlock, SaveHook, DeleteHook, UndeleteHook,
         Fail, ReloadFails
<1>6. lastHook' \in [Paths -> News]
  BY <1>1 DEF IInv, TypeOK, Carries, News, At, SaveHook, DeleteHook,
              UndeleteHook, Fail, ReloadFails
<1>7. /\ due' \in [Paths -> Post \cup {None}] /\ DueIsLive'
      /\ expired' \in [Paths -> Times \cup {NoTime}]
  BY <1>4 DEF IInv, TypeOK, DueIsLive, lists
<1> QED
  BY <1>2, <1>3, <1>4, <1>5, <1>6, <1>7, QuietStep DEF LockedPC

-----------------------------------------------------------------------------
(***************************************************************************)
(* deletePost and undeletePost.                                            *)
(***************************************************************************)
LEMMA ReadLockedStep ==
  ASSUME IInv, NEW proc \in Procs, DeleteLock(proc) \/ UndeleteLock(proc)
  PROVE  IInv'
<1> USE NoneIsNoPost
<1>1. /\ op[proc] \in Op /\ op[proc].old \in Paths
      /\ op[proc].pc \in {"delete", "undelete"}
  BY DEF IInv, TypeOK, OpsCarry, Carries, DeleteLock, UndeleteLock, At
<1>2. /\ UNCHANGED <<now, posts, gone, lists, lastHook, restarts>>
      /\ changed' \subseteq Paths
  BY DEF DeleteLock, UndeleteLock, table, IInv, TypeOK
<1>3. PICK pc \in {"deleteExec", "undeleteExec"} : ReadLocked(proc, pc)
  BY DEF DeleteLock, UndeleteLock
<1>4. /\ due' \in [Paths -> Post \cup {None}] /\ DueIsLive'
      /\ expired' \in [Paths -> Times \cup {NoTime}]
      /\ lastHook' \in [Paths -> News]
  BY <1>2 DEF IInv, TypeOK, DueIsLive, lists
<1>5. CASE posts[op[proc].old] = None
  <2>1. Becomes(proc, Idle) /\ pcm' = pcm /\ pcm # proc
    BY <1>1, <1>3, <1>5 DEF ReadLocked, Done, Becomes, IInv, Mutex, LockedPC
  <2>2. Fits(proc, Idle) /\ Idle.pc = "idle"
    BY IdleFits DEF Idle
  <2> QED
    BY <1>2, <1>4, <2>1, <2>2, QuietStep DEF LockedPC
<1>6. CASE posts[op[proc].old] # None
  <2> DEFINE p == posts[op[proc].old]
             r == [op[proc] EXCEPT !.pc = pc, !.copy = p]
  <2>1. Becomes(proc, r) /\ pcm = Free /\ pcm' = proc
    BY <1>3, <1>6 DEF ReadLocked, Lock, Becomes
  <2>2. p \in Post
    BY <1>1, <1>6 DEF IInv, TypeOK
  <2>3. r \in Op /\ r.pc = pc /\ r.old = op[proc].old /\ r.copy = p
    BY <1>1, <2>2 DEF Op, LockPC, LockedPC, FreePC
  <2>4. Fits(proc, r)
    BY <1>1, <2>2, <2>3 DEF Fits, Carries
  <2> HIDE DEF r
  <2> QED
    BY <1>2, <1>4, <2>1, <2>3, <2>4, QuietStep DEF LockedPC
<1> QED
  BY <1>5, <1>6

\* The statement of deletePost and undeletePost finds the row it has read.
LEMMA LockedRow ==
  ASSUME IInv, NEW proc \in Procs, op[proc].pc \in {"deleteExec", "undeleteExec"}
  PROVE  /\ pcm = proc /\ op[proc] \in Op /\ Carries(op[proc])
         /\ op[proc].old \in Paths
         /\ op[proc].copy \in Post /\ op[proc].copy = posts[op[proc].old]
  BY DEF IInv, TypeOK, Mutex, LockedPC, OpsCarry, Carries, LockedReadIsCurrent

LEMMA HardDeleteStep ==
  ASSUME IInv, NEW proc \in Procs, HardDelete(proc) PROVE IInv'
<1>1. op[proc].old \in Paths /\ pcm = proc
  BY LockedRow DEF HardDelete, At
<1>2. Becomes(proc, Idle) /\ pcm' = Free
  BY DEF HardDelete, Done, Becomes, Unlock
<1>3. Fits(proc, Idle) /\ Idle.pc = "idle"
  BY IdleFits DEF Idle
<1>4. posts' \in [Paths -> Post \cup {None}] /\ MarkedHasDate'
  BY <1>1 DEF IInv, TypeOK, HardDelete, MarkedHasDate, Deleted
<1>5. /\ gone' \subseteq Paths /\ changed' \subseteq Paths
      /\ UNCHANGED <<now, lists, lastHook, restarts>>
  BY <1>1, NotedType DEF IInv, TypeOK, HardDelete
<1> QED
  BY <1>1, <1>2, <1>3, <1>4, <1>5, WritingStep DEF LockedPC

\* Marking and restoring change the suffix and the date of one row together.
LEMMA MarkStep ==
  ASSUME IInv, NEW proc \in Procs, SoftDelete(proc) \/ UndeleteExec(proc)
  PROVE  IInv'
<1> USE NoneIsNoPost
<1> DEFINE o == op[proc]
           pc == IF o.pc = "deleteExec" THEN "deleteHook" ELSE "undeleteHook"
           mark == o.pc = "deleteExec"
           date == IF mark THEN now ELSE NoTime
           r == [o EXCEPT !.pc = pc, !.copy = None]
           p == [o.copy EXCEPT !.suffix = mark, !.deleted = date]
<1>1. o.pc \in {"deleteExec", "undeleteExec"}
  BY DEF SoftDelete, UndeleteExec, At
<1>2. /\ pcm = proc /\ o \in Op /\ Carries(o) /\ o.old \in Paths
      /\ o.copy \in Post /\ o.copy = posts[o.old]
  BY <1>1, LockedRow
<1>3. UNCHANGED <<now, gone, pcm, lists, lastHook, restarts>>
  BY DEF SoftDelete, UndeleteExec
<1>4. Becomes(proc, r)
  BY <1>1 DEF SoftDelete, UndeleteExec, At, Forget, Becomes
<1>5. Fits(proc, r) /\ r.pc = pc
  BY <1>2, WithoutCopyFits DEF LockPC, LockedPC, FreePC, Op
<1>6. p \in Post /\ p.suffix = mark /\ p.deleted = date
  BY <1>2 DEF IInv, TypeOK, Post
<1>7. posts' = [posts EXCEPT ![o.old] = p]
  <2>1. posts \in [Paths -> Post \cup {None}]
    BY DEF IInv, TypeOK
  <2> QED
    BY <1>1, <1>2, <2>1, ZenonT(60) DEF SoftDelete, UndeleteExec, At, Post
<1>8. now \in Times /\ NoTime \notin Times
  BY TypesAssumption DEF IInv, TypeOK, NoTime
<1> HIDE DEF p
<1>9. posts' \in [Paths -> Post \cup {None}] /\ MarkedHasDate'
  BY <1>2, <1>6, <1>7, <1>8 DEF IInv, TypeOK, MarkedHasDate, Deleted
<1>10. gone' \subseteq Paths /\ changed' \subseteq Paths
  BY <1>3, NotedType DEF IInv, TypeOK, SoftDelete, UndeleteExec
<1> HIDE DEF r
<1> QED
  BY <1>2, <1>3, <1>4, <1>5, <1>9, <1>10, WritingStep

-----------------------------------------------------------------------------
(***************************************************************************)
(* Requests, the scheduler and the deleter.                                *)
(***************************************************************************)

\* A step that neither holds pcm nor takes it.
LEMMA UnlockedStep ==
  ASSUME IInv, NEW proc \in Procs, NEW o, Becomes(proc, o), Fits(proc, o),
         op[proc].pc \in {"idle", "params"}, o.pc \in LockPC \cup FreePC,
         UNCHANGED <<now, posts, gone, pcm, lastHook, restarts>>,
         changed' \subseteq Paths,
         due' \in [Paths -> Post \cup {None}], DueIsLive',
         expired' \in [Paths -> Times \cup {NoTime}]
  PROVE  IInv'
<1>1. pcm # proc /\ o.pc \notin LockedPC
  BY DEF IInv, Mutex, LockPC, LockedPC, FreePC
<1>2. lastHook' \in [Paths -> News]
  BY DEF IInv, TypeOK
<1>3. o.pc \notin {"deleteExec", "undeleteExec"}
  BY DEF LockPC, FreePC
<1> QED
  BY <1>1, <1>2, <1>3, QuietStep

\* checkPost turns the status an author wrote into one of a post.
LEMMA CheckedStatusType ==
  ASSUME NEW status \in Status \cup {""}, NEW published, NEW t
  PROVE  CheckedStatus(status, published, t) \in Status
  BY DEF CheckedStatus, Status

\* The operation of a process that is about to call deletePost (or undeletePost).
LEMMA DeleteFits ==
  ASSUME NEW proc, NEW path \in Paths, NEW pc \in {"delete", "undelete"}
  PROVE  /\ Fits(proc, [Idle EXCEPT !.pc = pc, !.old = path])
         /\ [Idle EXCEPT !.pc = pc, !.old = path].pc = pc
<1> DEFINE o == [Idle EXCEPT !.pc = pc, !.old = path]
<1>1. o \in Op /\ o.pc = pc /\ o.old = path
  BY DEF Idle, Op, LockPC, LockedPC, FreePC
<1> HIDE DEF o
<1> QED
  BY <1>1 DEF Fits, Carries, o

LEMMA RequestStep ==
  ASSUME IInv, NEW c \in Clients, ClientRequest(c) PROVE IInv'
<1>1. c \in Procs
  BY DEF Procs
<1>2. /\ UNCHANGED <<now, posts, gone, pcm, lists, lastHook, restarts>>
      /\ changed' \subseteq Paths
  BY DEF ClientRequest, BeginCreate, BeginUpdate, BeginDelete, BeginUndelete,
         ChangeCopy, Request, table, IInv, TypeOK
<1>3. /\ due' \in [Paths -> Post \cup {None}] /\ DueIsLive'
      /\ expired' \in [Paths -> Times \cup {NoTime}]
  BY <1>2 DEF IInv, TypeOK, DueIsLive, lists
<1>4. SUFFICES ASSUME TRUE
      PROVE \E o : /\ Becomes(c, o) /\ Fits(c, o) /\ o.pc \in LockPC \cup FreePC
                   /\ op[c].pc \in {"idle", "params"}
  BY <1>1, <1>2, <1>3, UnlockedStep
<1>5. PICK path \in Paths :
        \/ BeginUpdate(c, path) \/ BeginDelete(c, path) \/ BeginUndelete(c, path)
        \/ \E s \in InputStatus, v \in Visibilities, d \in InputDates,
              hasSection \in BOOLEAN : BeginCreate(c, path, s, v, d, hasSection)
        \/ \E s \in Status \cup {""}, v \in Visibilities,
              d \in Times \cup {NoTime} : ChangeCopy(c, path, s, v, d)
  BY DEF ClientRequest
<1>6. CASE BeginUpdate(c, path)
  <2> DEFINE p == posts[path]
             o == [pc |-> "params", old |-> path, new |-> path, copy |-> p,
                   asNew |-> CountsAsNew(FALSE, p.status, p.visibility)]
  <2>1. p \in Post /\ Becomes(c, o) /\ op[c].pc = "idle"
    BY <1>6 DEF BeginUpdate, Request, Becomes, At, IInv, TypeOK
  <2>2. o.asNew \in BOOLEAN
    BY DEF CountsAsNew
  <2>3. Fits(c, o)
    BY <2>1, <2>2 DEF Fits, Carries, Op, LockPC, LockedPC, FreePC
  <2> QED
    BY <2>1, <2>3 DEF FreePC
<1>7. CASE BeginDelete(c, path) \/ BeginUndelete(c, path)
  <2>1. PICK pc \in {"delete", "undelete"} :
          Request(c, [Idle EXCEPT !.pc = pc, !.old = path])
    BY <1>7 DEF BeginDelete, BeginUndelete
  <2> DEFINE o == [Idle EXCEPT !.pc = pc, !.old = path]
  <2>2. Becomes(c, o) /\ op[c].pc = "idle"
    BY <2>1 DEF Request, Becomes, At
  <2>3. Fits(c, o) /\ o.pc \in LockPC
    BY DeleteFits DEF LockPC
  <2> QED
    BY <2>2, <2>3
<1>8. ASSUME NEW s \in InputStatus, NEW v \in Visibilities, NEW d \in InputDates,
             NEW hasSection \in BOOLEAN, BeginCreate(c, path, s, v, d, hasSection)
      PROVE  \E o : /\ Becomes(c, o) /\ Fits(c, o) /\ o.pc \in LockPC \cup FreePC
                    /\ op[c].pc \in {"idle", "params"}
  <2> DEFINE t == CheckedDate(d, TRUE, hasSection, now)
             q == [status |-> CheckedStatus(s, t, now), suffix |-> FALSE,
                   visibility |-> v, published |-> t, deleted |-> NoTime]
             o == [pc |-> "save", old |-> None, new |-> path, copy |-> q,
                   asNew |-> CountsAsNew(TRUE, "", "")]
  <2>1. Becomes(c, o) /\ op[c].pc = "idle"
    BY <1>8 DEF BeginCreate, Request, Becomes, At
  <2>2. t \in Times \cup {NoTime}
    BY PostsAssumption DEF CheckedDate, IInv, TypeOK
  <2>3. CheckedStatus(s, t, now) \in Status
    BY PostsAssumption, CheckedStatusType
  <2>4. q \in Post /\ ~q.suffix
    BY <2>2, <2>3 DEF Post
  <2>5. o.asNew = TRUE
    BY DEF CountsAsNew
  <2> HIDE DEF q
  <2>6. Fits(c, o)
    BY <2>4, <2>5 DEF Fits, Carries, Op, LockPC, LockedPC, FreePC
  <2> QED
    BY <2>1, <2>6 DEF LockPC
<1>9. ASSUME NEW s \in Status \cup {""}, NEW v \in Visibilities,
             NEW d \in Times \cup {NoTime}, ChangeCopy(c, path, s, v, d)
      PROVE  \E o : /\ Becomes(c, o) /\ Fits(c, o) /\ o.pc \in LockPC \cup FreePC
                    /\ op[c].pc \in {"idle", "params"}
  <2> DEFINE q == [status |-> CheckedStatus(s, d, now), suffix |-> FALSE,
                   visibility |-> v, published |-> d,
                   deleted |-> DeletedParam(op[c].old)]
             o == [op[c] EXCEPT !.pc = "save", !.new = path, !.copy = q]
  <2>1. /\ op[c] \in Op /\ op[c].pc = "params" /\ op[c].old \in Paths
        /\ Becomes(c, o)
    BY <1>1, <1>9 DEF ChangeCopy, At, Becomes, IInv, TypeOK, OpsCarry
  <2>2. CheckedStatus(s, d, now) \in Status
    BY CheckedStatusType
  <2>3. DeletedParam(op[c].old) \in Times \cup {NoTime}
    BY <2>1 DEF DeletedParam, IInv, TypeOK, Post
  <2>4. q \in Post /\ ~q.suffix
    BY <2>2, <2>3 DEF Post
  <2> HIDE DEF q
  <2>5. Fits(c, o) /\ o.pc = "save"
    BY <2>1, <2>4 DEF Fits, Carries, Op, LockPC, LockedPC, FreePC
  <2> QED
    BY <2>1, <2>5 DEF LockPC
<1> QED
  BY <1>5, <1>6, <1>7, <1>8, <1>9

LEMMA SchedulerStep ==
  ASSUME IInv, \/ ListDue \/ LoadDueParams
               \/ \E path \in Paths : PublishNext(path)
  PROVE  IInv'
<1> USE NoneIsNoPost
<1>1. Scheduler \in Procs /\ Scheduler \notin Clients
  BY PostsAssumption DEF Procs
<1>2. op[Scheduler] \in Op
  BY <1>1 DEF IInv, TypeOK
<1>3. /\ UNCHANGED <<now, posts, gone, pcm, expired, lastHook, restarts>>
      /\ changed' \subseteq Paths
  BY DEF ListDue, LoadDueParams, PublishNext, table, IInv, TypeOK
<1>4. expired' \in [Paths -> Times \cup {NoTime}]
  BY <1>3 DEF IInv, TypeOK
<1>5. posts \in [Paths -> Post \cup {None}] /\ due \in [Paths -> Post \cup {None}]
  BY DEF IInv, TypeOK
<1>6. CASE ListDue
  <2> DEFINE o == [op[Scheduler] EXCEPT !.pc = "params"]
  <2>1. Becomes(Scheduler, o) /\ op[Scheduler].pc = "idle"
    BY <1>6 DEF ListDue, Goto, Becomes, At
  <2>2. Fits(Scheduler, o) /\ o.pc \in FreePC
    BY <1>1, <1>2 DEF Fits, Carries, Op, LockPC, LockedPC, FreePC
  <2>3. due' \in [Paths -> Post \cup {None}] /\ DueIsLive'
    BY <1>5, <1>6 DEF ListDue, IsDue, DueIsLive, Deleted
  <2> QED
    BY <1>1, <1>3, <1>4, <2>1, <2>2, <2>3, UnlockedStep
<1>7. CASE LoadDueParams
  <2> DEFINE o == [op[Scheduler] EXCEPT !.pc = "idle"]
             p(path) == [due[path] EXCEPT !.deleted = DeletedParam(path)]
  <2>1. Becomes(Scheduler, o) /\ op[Scheduler].pc = "params"
    BY <1>7 DEF LoadDueParams, Goto, Becomes, At
  <2>2. Fits(Scheduler, o) /\ o.pc \in FreePC
    BY <1>1, <1>2 DEF Fits, Carries, Op, LockPC, LockedPC, FreePC
  <2>3. ASSUME NEW path \in Paths, due[path] # None
        PROVE  p(path) \in Post /\ ~Deleted(p(path))
    <3>1. due[path] \in Post /\ ~due[path].suffix
      BY <1>5, <2>3 DEF IInv, DueIsLive, Deleted
    <3>2. DeletedParam(path) \in Times \cup {NoTime}
      BY <1>5 DEF DeletedParam, Post
    <3> QED
      BY <3>1, <3>2 DEF Post, Deleted
  <2>4. due' = [path \in Paths |-> IF due[path] = None THEN None ELSE p(path)]
    BY <1>7 DEF LoadDueParams
  <2> HIDE DEF p
  <2>5. due' \in [Paths -> Post \cup {None}] /\ DueIsLive'
    BY <2>3, <2>4 DEF DueIsLive, Deleted
  <2> QED
    BY <1>1, <1>3, <1>4, <2>1, <2>2, <2>5, UnlockedStep
<1>8. ASSUME NEW path \in Paths, PublishNext(path) PROVE IInv'
  <2> DEFINE q == [due[path] EXCEPT !.status = "published"]
             o == [pc |-> "save", old |-> path, new |-> path, copy |-> q,
                   asNew |-> CountsAsNew(FALSE, "scheduled", due[path].visibility)]
  <2>1. Becomes(Scheduler, o) /\ op[Scheduler].pc = "idle"
    BY <1>8 DEF PublishNext, Becomes, At
  <2>2. due[path] \in Post /\ ~due[path].suffix
    BY <1>5, <1>8 DEF PublishNext, IInv, DueIsLive, Deleted
  <2>3. q \in Post /\ ~q.suffix
    BY <2>2 DEF Post, Status
  <2>4. o.asNew = TRUE
    BY DEF CountsAsNew
  <2> HIDE DEF q
  <2>5. Fits(Scheduler, o) /\ o.pc \in LockPC
    BY <1>1, <2>3, <2>4 DEF Fits, Carries, Op, LockPC, LockedPC, FreePC
  <2>6. due' \in [Paths -> Post \cup {None}] /\ DueIsLive'
    BY <1>5, <1>8 DEF PublishNext, IInv, DueIsLive, Deleted
  <2> QED
    BY <1>1, <1>3, <1>4, <2>1, <2>5, <2>6, UnlockedStep
<1> QED
  BY <1>6, <1>7, <1>8

\* A step of the clock, or one of the deleter that only shortens its list.
LEMMA OtherStep ==
  ASSUME IInv, UNCHANGED <<posts, gone, pcm, op, due, lastHook, restarts>>,
         now' \in Times, expired' \in [Paths -> Times \cup {NoTime}],
         changed' \subseteq Paths
  PROVE  IInv'
<1>1. TypeOK'
  BY DEF IInv, TypeOK
<1> QED
  BY <1>1 DEF IInv, Mutex, OpsCarry, At, DueIsLive, LockedReadIsCurrent,
              MarkedHasDate

LEMMA DeleterStep ==
  ASSUME IInv, \/ ListDeleted \/ LoadDeletedParams
               \/ \E path \in Paths : PurgeNext(path)
  PROVE  IInv'
<1> USE NoneIsNoPost
<1>1. Deleter \in Procs /\ Deleter \notin Clients
  BY PostsAssumption DEF Procs
<1>2. op[Deleter] \in Op
  BY <1>1 DEF IInv, TypeOK
<1>3. /\ UNCHANGED <<now, posts, gone, pcm, due, lastHook, restarts>>
      /\ changed' \subseteq Paths
  BY DEF ListDeleted, LoadDeletedParams, PurgeNext, table, IInv, TypeOK
<1>4. due' \in [Paths -> Post \cup {None}] /\ DueIsLive'
  BY <1>3 DEF IInv, TypeOK, DueIsLive
<1>5. /\ posts \in [Paths -> Post \cup {None}] /\ now \in Times
      /\ expired \in [Paths -> Times \cup {NoTime}]
  BY DEF IInv, TypeOK
<1>6. CASE ListDeleted \/ LoadDeletedParams
  <2>1. PICK pc \in {"idle", "params"} :
          Goto(Deleter, pc) /\ op[Deleter].pc \in {"idle", "params"}
    BY <1>6 DEF ListDeleted, LoadDeletedParams, At
  <2> DEFINE o == [op[Deleter] EXCEPT !.pc = pc]
  <2>2. Becomes(Deleter, o)
    BY <2>1 DEF Goto, Becomes
  <2>3. Fits(Deleter, o) /\ o.pc \in FreePC
    BY <1>1, <1>2 DEF Fits, Carries, Op, LockPC, LockedPC, FreePC
  <2>4. expired' \in [Paths -> Times \cup {NoTime}]
    BY <1>5, <1>6 DEF ListDeleted, LoadDeletedParams, IsMarked, Deleted,
                      DeletedParam, Post
  <2> QED
    BY <1>1, <1>3, <1>4, <2>1, <2>2, <2>3, <2>4, UnlockedStep
<1>7. ASSUME NEW path \in Paths, PurgeNext(path) PROVE IInv'
  <2>1. expired' \in [Paths -> Times \cup {NoTime}]
    BY <1>5, <1>7 DEF PurgeNext
  <2>2. CASE UNCHANGED op
    BY <1>3, <1>5, <2>1, <2>2, OtherStep DEF table
  <2>3. CASE Becomes(Deleter, [Idle EXCEPT !.pc = "delete", !.old = path])
    <3>1. op[Deleter].pc = "idle"
      BY <1>7 DEF PurgeNext, At
    <3> QED
      BY <1>1, <1>3, <1>4, <2>1, <2>3, <3>1, DeleteFits, UnlockedStep DEF LockPC
  <2> QED
    BY <1>7, <2>2, <2>3 DEF PurgeNext, Becomes
<1> QED
  BY <1>6, <1>7

-----------------------------------------------------------------------------
(***************************************************************************)
(* The invariant.                                                          *)
(***************************************************************************)
LEMMA InitInv == Init => IInv
<1> SUFFICES ASSUME Init PROVE IInv
  OBVIOUS
<1> USE PostsAssumption DEF Init
<1>1. now \in Times /\ restarts \in 0 .. MaxRestarts
  <2>1. MaxTime \in Nat /\ MaxTime # 0 /\ Times = 1 .. MaxTime /\ MaxRestarts \in Nat
    OBVIOUS
  <2>2. now = 1 /\ restarts = 0
    OBVIOUS
  <2> QED
    BY ONLY <2>1, <2>2
<1>2. Idle \in Op /\ Idle.pc = "idle"
  BY DEF Idle, Op, LockPC, LockedPC, FreePC
<1>3. TypeOK
  BY <1>1, <1>2 DEF TypeOK, Nothing, NoDates, News
<1>4. Mutex
  BY <1>2 DEF Mutex, LockedPC
<1>5. OpsCarry
  BY <1>2 DEF OpsCarry, Carries, At, Procs
<1>6. DueIsLive /\ MarkedHasDate
  BY DEF DueIsLive, MarkedHasDate, Nothing, Deleted
<1>7. LockedReadIsCurrent
  BY <1>2 DEF LockedReadIsCurrent
<1> QED
  BY <1>3, <1>4, <1>5, <1>6, <1>7 DEF IInv

LEMMA TickStep == ASSUME IInv, Tick PROVE IInv'
<1>1. /\ now \in 1 .. MaxTime /\ MaxTime \in Nat /\ Times = 1 .. MaxTime
      /\ now < MaxTime /\ now' = now + 1
  BY PostsAssumption DEF Tick, IInv, TypeOK
<1>2. now' \in Times
  BY ONLY <1>1
<1> QED
  BY <1>2, OtherStep DEF Tick, table, lists, IInv, TypeOK

LEMMA RestartStep == ASSUME IInv, Restart PROVE IInv'
<1> USE PostsAssumption
<1>1. Idle \in Op /\ Idle.pc = "idle"
  BY DEF Idle, Op, LockPC, LockedPC, FreePC
<1>2. TypeOK'
  <2>1. restarts' \in 0 .. MaxRestarts
    <3>1. /\ restarts \in 0 .. MaxRestarts /\ MaxRestarts \in Nat
          /\ restarts < MaxRestarts /\ restarts' = restarts + 1
      BY DEF Restart, IInv, TypeOK
    <3> QED
      BY ONLY <3>1
  <2>2. op' \in [Procs -> Op]
    BY <1>1 DEF Restart
  <2> QED
    BY <2>1, <2>2 DEF IInv, TypeOK, Restart, table, Nothing, NoDates
<1>3. Mutex'
  BY <1>1 DEF Mutex, Restart, LockedPC
<1>4. OpsCarry'
  BY <1>1 DEF OpsCarry, Carries, At, Procs, Restart
<1>5. DueIsLive' /\ MarkedHasDate' /\ LockedReadIsCurrent'
  BY <1>1 DEF IInv, DueIsLive, MarkedHasDate, LockedReadIsCurrent, Nothing,
              Deleted, Restart, table
<1> QED
  BY <1>2, <1>3, <1>4, <1>5 DEF IInv

LEMMA NextInv == IInv /\ [Next]_vars => IInv'
<1> SUFFICES ASSUME IInv, [Next]_vars PROVE IInv'
  OBVIOUS
<1>1. CASE UNCHANGED vars
  BY <1>1 DEF vars, IInv, TypeOK, Mutex, OpsCarry, At, DueIsLive,
              LockedReadIsCurrent, MarkedHasDate
<1>2. CASE Tick \/ Restart
  BY <1>2, TickStep, RestartStep
<1>3. ASSUME NEW c \in Clients, ClientRequest(c) PROVE IInv'
  BY <1>3, RequestStep
<1>4. ASSUME NEW proc \in Procs,
             Save(proc) \/ Delete(proc) \/ Restore(proc) \/ Fail(proc)
      PROVE  IInv'
  BY <1>4, SaveLockStep, SaveExecStep, ReloadStep, FinishStep, ReadLockedStep,
     HardDeleteStep, MarkStep DEF Save, Delete, Restore
<1>5. CASE ListDue \/ LoadDueParams \/ \E path \in Paths : PublishNext(path)
  BY <1>5, SchedulerStep
<1>6. CASE ListDeleted \/ LoadDeletedParams \/ \E path \in Paths : PurgeNext(path)
  BY <1>6, DeleterStep
<1> QED
  BY <1>1, <1>2, <1>3, <1>4, <1>5, <1>6 DEF Next

LEMMA Invariance == Spec => []IInv
  BY InitInv, NextInv, PTL DEF Spec

\* Every reachable state is well typed: no statement is ever run for a row
\* that is not there, and no copy is used after it was dropped.
THEOREM TypeCorrect == Spec => []TypeOK
<1>1. IInv => TypeOK
  BY DEF IInv
<1> QED
  BY <1>1, Invariance, PTL

\* What deletePost and undeletePost read under pcm is what they overwrite.
THEOREM LockedReads == Spec => []LockedReadIsCurrent
<1>1. IInv => LockedReadIsCurrent
  BY DEF IInv
<1> QED
  BY <1>1, Invariance, PTL

\* A marked post always has the date the deleter purges it by.
THEOREM MarkedPostsAreDated == Spec => []MarkedHasDate
<1>1. IInv => MarkedHasDate
  BY DEF IInv
<1> QED
  BY <1>1, Invariance, PTL

-----------------------------------------------------------------------------
(***************************************************************************)
(* Which steps change the rows.                                            *)
(***************************************************************************)
Writes(proc) ==
  \/ SaveExec(proc) \/ HardDelete(proc) \/ SoftDelete(proc) \/ UndeleteExec(proc)

LEMMA OnlyWritesChangeRows ==
  ASSUME [Next]_vars
  PROVE  \/ UNCHANGED <<now, posts, gone>>
         \/ Tick
         \/ \E proc \in Procs : Writes(proc)
<1>1. ASSUME NEW c \in Clients, ClientRequest(c)
      PROVE  UNCHANGED <<now, posts, gone>>
  BY <1>1 DEF ClientRequest, BeginCreate, BeginUpdate, BeginDelete,
              BeginUndelete, ChangeCopy, Request, table
<1>2. ASSUME NEW proc \in Procs,
             Save(proc) \/ Delete(proc) \/ Restore(proc) \/ Fail(proc)
      PROVE  UNCHANGED <<now, posts, gone>> \/ Writes(proc)
  BY <1>2 DEF Save, Delete, Restore, Fail, SaveLock, Reload, ReloadFails,
              SaveHook, DeleteLock, DeleteHook, UndeleteLock, UndeleteHook, Writes, table
<1>3. CASE ListDue \/ LoadDueParams \/ \E path \in Paths : PublishNext(path)
  BY <1>3 DEF ListDue, LoadDueParams, PublishNext, table
<1>4. CASE ListDeleted \/ LoadDeletedParams \/ \E path \in Paths : PurgeNext(path)
  BY <1>4 DEF ListDeleted, LoadDeletedParams, PurgeNext, table
<1>5. CASE Restart \/ UNCHANGED vars
  BY <1>5 DEF Restart, table, vars
<1> QED
  BY <1>1, <1>2, <1>3, <1>4, <1>5 DEF Next

\* What a write that reaches the database finds and leaves.
LEMMA SaveExecRows ==
  ASSUME IInv, NEW proc \in Procs, SaveExec(proc)
  PROVE  \/ UNCHANGED <<now, posts, gone>>
         \/ /\ UNCHANGED <<now, gone>>
            /\ \E new \in Paths, p \in Post :
                 /\ ~p.suffix
                 /\ \/ /\ posts[new] = None
                       /\ posts' = [posts EXCEPT ![new] = p]
                    \/ \E old \in Paths :
                         /\ posts[old] # None /\ (new = old \/ posts[new] = None)
                         /\ posts' = [posts EXCEPT ![old] = None, ![new] = p]
         \/ /\ UNCHANGED <<now, gone>>
            /\ \E new \in Paths, d \in Times :
                 /\ posts[new] # None /\ posts[new].deleted = NoTime
                 /\ posts' = [posts EXCEPT ![new].deleted = d]
<1> USE NoneIsNoPost
<1> DEFINE o == op[proc]
<1>1. o.new \in Paths /\ o.copy \in Post /\ ~o.copy.suffix /\ o \in Op
  BY DEF IInv, TypeOK, OpsCarry, Carries, SaveExec, At
<1>2. UNCHANGED <<now, gone>>
  BY DEF SaveExec
<1>3. posts \in [Paths -> Post \cup {None}]
  BY DEF IInv, TypeOK
<1>4. CASE Insert(proc)
  BY <1>1, <1>2, <1>4 DEF Insert
<1>5. CASE Update(proc)
  <2>1. o.old \in Paths /\ posts[o.old] # None
    BY <1>1, <1>5 DEF Update, Matched, Op
  <2> QED
    BY <1>1, <1>2, <1>5, <2>1 DEF Update
<1>6. CASE Conflict(proc) \/ NoRow(proc)
  BY <1>2, <1>6 DEF Conflict, NoRow
<1>7. CASE StrayParameters(proc)
  <2>1. posts[o.new] \in Post
    BY <1>1, <1>3, <1>7 DEF StrayParameters
  <2>2. CASE posts[o.new].deleted = NoTime /\ o.copy.deleted \in Times
    <3>1. posts' = [posts EXCEPT ![o.new].deleted = o.copy.deleted]
      BY <1>1, <1>3, <1>7, <2>1, <2>2 DEF StrayParameters
    <3> QED
      BY <1>1, <1>2, <2>1, <2>2, <3>1
  <2>3. CASE ~(posts[o.new].deleted = NoTime /\ o.copy.deleted \in Times)
    <3>1. [posts[o.new] EXCEPT !.deleted = posts[o.new].deleted] = posts[o.new]
      BY <2>1 DEF Post
    <3>2. o.copy.deleted \in Times \cup {NoTime}
      BY <1>1 DEF Post
    <3>3. posts' = [posts EXCEPT ![o.new] = posts[o.new]]
      BY <1>1, <1>3, <1>7, <2>1, <2>3, <3>1, <3>2 DEF StrayParameters
    <3> QED
      BY <1>1, <1>2, <1>3, <3>3
  <2> QED
    BY <2>2, <2>3
<1> QED
  BY <1>4, <1>5, <1>6, <1>7 DEF SaveExec

\* A row leaves the table only when it was marked, and its path is remembered,
\* or when the post moves.
THEOREM RowsVanishOnlyMarked == Spec => RowsVanishMarked
<1> USE NoneIsNoPost
<1>1. ASSUME IInv, [Next]_vars, NEW path \in Paths,
             posts[path] # None, posts'[path] = None
      PROVE  Moves(path) \/ (Deleted(posts[path]) /\ path \in gone')
  <2>1. posts \in [Paths -> Post \cup {None}]
    BY <1>1 DEF IInv, TypeOK
  <2>2. PICK proc \in Procs : Writes(proc)
    BY <1>1, OnlyWritesChangeRows DEF Tick, table
  <2>3. CASE SaveExec(proc)
    <3>1. ASSUME NEW new \in Paths, NEW p \in Post,
                 posts' = [posts EXCEPT ![new] = p]
          PROVE  FALSE
      BY <1>1, <2>1, <3>1
    <3>2. ASSUME NEW new \in Paths, NEW d \in Times,
                 posts' = [posts EXCEPT ![new].deleted = d]
          PROVE  FALSE
      <4>1. posts' = [posts EXCEPT ![new] = [posts[new] EXCEPT !.deleted = d]]
        BY <3>2
      <4>2. posts[path] \in Post
        BY <1>1, <2>1
      <4>3. [posts[path] EXCEPT !.deleted = d] \in Post
        BY <4>2 DEF Post
      <4> QED
        BY <1>1, <2>1, <4>1, <4>3
    <3>3. ASSUME NEW new \in Paths, NEW old \in Paths, NEW p \in Post,
                 new = old \/ posts[new] = None,
                 posts' = [posts EXCEPT ![old] = None, ![new] = p]
          PROVE  Moves(path)
      <4>1. new # path /\ old = path
        BY <1>1, <2>1, <3>3
      <4>2. posts[new] = None /\ posts'[new] # None
        BY <2>1, <3>3, <4>1
      <4> QED
        BY <4>1, <4>2 DEF Moves
    <3> QED
      BY <1>1, <2>3, <3>1, <3>2, <3>3, SaveExecRows
  <2>4. CASE HardDelete(proc)
    <3>1. op[proc].old \in Paths /\ op[proc].copy = posts[op[proc].old]
      BY <1>1, <2>4, LockedRow DEF HardDelete, At
    <3> QED
      BY <1>1, <2>1, <2>4, <3>1 DEF HardDelete
  <2>5. CASE SoftDelete(proc) \/ UndeleteExec(proc)
    <3>1. /\ op[proc].old \in Paths /\ op[proc].copy = posts[op[proc].old]
          /\ op[proc].copy \in Post
      BY <1>1, <2>5, LockedRow DEF SoftDelete, UndeleteExec, At
    <3>2. posts'[path] # None
      BY <1>1, <2>1, <2>5, <3>1 DEF SoftDelete, UndeleteExec, Post
    <3> QED
      BY <1>1, <3>2
  <2> QED
    BY <2>2, <2>3, <2>4, <2>5 DEF Writes
<1>2. IInv /\ [Next]_vars =>
        [\A path \in Paths :
           posts[path] # None /\ posts'[path] = None =>
             Moves(path) \/ (Deleted(posts[path]) /\ path \in gone')]_vars
  BY <1>1
<1> QED
  BY <1>2, Invariance, PTL DEF Spec, RowsVanishMarked

-----------------------------------------------------------------------------
(***************************************************************************)
(* Posts implements PostStore.                                             *)
(***************************************************************************)
LEMMA InitRefines == Init => Store!Init
<1>1. Init => now \in Times
  BY InitInv DEF IInv, TypeOK
<1> QED
  BY <1>1 DEF Init, Store!Init, Nothing

LEMMA NextRefines == IInv /\ [Next]_vars => [Store!Next]_(Store!vars)
<1> USE NoneIsNoPost
<1> SUFFICES ASSUME IInv, [Next]_vars
             PROVE  Store!Next \/ UNCHANGED <<now, posts, gone>>
  BY DEF Store!vars
<1>1. posts \in [Paths -> Post \cup {None}]
  BY DEF IInv, TypeOK
<1>2. CASE Tick
  <2>1. now' \in Times
    BY <1>2, TickStep DEF IInv, TypeOK
  <2>2. now \in Nat /\ now' = now + 1
    BY <1>2, TypesAssumption DEF Tick, IInv, TypeOK
  <2>3. now' > now
    BY ONLY <2>2
  <2> QED
    BY <1>2, <2>1, <2>3 DEF Tick, table, Store!Next, Store!Tick
<1>3. ASSUME NEW proc \in Procs, SaveExec(proc)
      PROVE  Store!Next \/ UNCHANGED <<now, posts, gone>>
  <2>1. CASE UNCHANGED <<now, posts, gone>>
    BY <2>1
  <2>2. ASSUME UNCHANGED <<now, gone>>, NEW new \in Paths, NEW p \in Post,
               ~p.suffix, posts[new] = None, posts' = [posts EXCEPT ![new] = p]
        PROVE  Store!Next
    <3>1. Store!Create(new, p)
      BY <2>2 DEF Store!Create
    <3> QED
      BY <3>1 DEF Store!Next, Post, Store!Post, Status, Store!Status, NoTime,
                  Store!NoTime
  <2>3. ASSUME UNCHANGED <<now, gone>>, NEW new \in Paths, NEW p \in Post,
               NEW old \in Paths, ~p.suffix, posts[old] # None,
               new = old \/ posts[new] = None,
               posts' = [posts EXCEPT ![old] = None, ![new] = p]
        PROVE  Store!Next
    <3>1. Store!Replace(old, new, p)
      BY <2>3 DEF Store!Replace
    <3> QED
      BY <3>1 DEF Store!Next, Post, Store!Post, Status, Store!Status, NoTime,
                  Store!NoTime
  <2>4. ASSUME UNCHANGED <<now, gone>>, NEW new \in Paths, NEW d \in Times,
               posts[new] # None, posts[new].deleted = NoTime,
               posts' = [posts EXCEPT ![new].deleted = d]
        PROVE  Store!Next
    <3>1. Store!AddParameters(new, d)
      BY <2>4 DEF Store!AddParameters, NoTime, Store!NoTime
    <3> QED
      BY <3>1 DEF Store!Next, Post, Store!Post, Status, Store!Status, NoTime,
                  Store!NoTime
  <2> QED
    BY <1>3, <2>1, <2>2, <2>3, <2>4, SaveExecRows
<1>4. ASSUME NEW proc \in Procs, HardDelete(proc) PROVE Store!Next
  <2>1. op[proc].old \in Paths /\ op[proc].copy = posts[op[proc].old]
    BY <1>4, LockedRow DEF HardDelete, At
  <2>2. Store!HardDelete(op[proc].old)
    BY <1>4, <2>1 DEF HardDelete, Store!HardDelete, Deleted, Store!Deleted
  <2> QED
    BY <2>1, <2>2 DEF Store!Next
<1>5. ASSUME NEW proc \in Procs, SoftDelete(proc) \/ UndeleteExec(proc)
      PROVE  Store!Next
  <2> DEFINE o == op[proc]
  <2>1. o.old \in Paths /\ o.copy = posts[o.old] /\ o.copy \in Post
    BY <1>5, LockedRow DEF SoftDelete, UndeleteExec, At
  <2>2. posts[o.old] # None
    BY <2>1
  <2>3. CASE SoftDelete(proc)
    <3>1. posts' = [posts EXCEPT ![o.old].suffix = TRUE, ![o.old].deleted = now]
      BY <1>1, <2>1, <2>3 DEF SoftDelete, Post
    <3>2. Store!SoftDelete(o.old)
      BY <2>1, <2>2, <2>3, <3>1 DEF SoftDelete, Deleted, Store!SoftDelete,
         Store!Deleted
    <3> QED
      BY <2>1, <3>2 DEF Store!Next
  <2>4. CASE UndeleteExec(proc)
    <3>1. posts' = [posts EXCEPT ![o.old].suffix = FALSE,
                                 ![o.old].deleted = NoTime]
      BY <1>1, <2>1, <2>4 DEF UndeleteExec, Post
    <3>2. Store!Undelete(o.old)
      BY <2>2, <2>4, <3>1 DEF UndeleteExec, Store!Undelete, NoTime, Store!NoTime
    <3> QED
      BY <2>1, <3>2 DEF Store!Next
  <2> QED
    BY <1>5, <2>3, <2>4
<1> QED
  BY <1>2, <1>3, <1>4, <1>5, OnlyWritesChangeRows DEF Writes

\* Whatever the requests, the scheduler and the deleter do at the same time,
\* every write is one atomic operation of the store on the rows as they are.
THEOREM Refinement == Spec => ImplementsStore
  BY InitRefines, NextRefines, Invariance, PTL
     DEF Spec, ImplementsStore, Store!Spec
-----------------------------------------------------------------------------
(***************************************************************************)
(* What the scheduler publishes.                                           *)
(***************************************************************************)

\* The scheduler only saves, a copy under the path it was listed at, and takes
\* the post from its list when it does.
SchedulerSaves ==
  LET o == op[Scheduler] IN
  /\ o.pc \in {"idle", "params", "save", "saveExec", "reload", "hook"}
  /\ o.pc \in {"save", "saveExec"} =>
       o.old \in Paths /\ o.new = o.old /\ due[o.old] = None

\* The posts it has copies of are due as they are stored, unless they changed.
CopiedIsDue ==
  \A path \in Paths \ changed : Copied(path) =>
    posts[path] # None /\ posts[path].published < now

\* Steps of others: what they change of the scheduler's posts is noted.
LEMMA SchedulerUntouched ==
  ASSUME SchedulerSaves, CopiedIsDue, UNCHANGED <<now, due>>,
         op'[Scheduler] = op[Scheduler],
         \/ UNCHANGED <<posts, changed>>
         \/ \E proc \in Procs \ {Scheduler} : Noted(proc)
  PROVE  SchedulerSaves' /\ CopiedIsDue'
<1>1. SchedulerSaves'
  BY DEF SchedulerSaves
<1>2. \A path \in Paths : Copied(path)' <=> Copied(path)
  BY DEF Copied
<1>3. \A path \in Paths \ changed' :
        Copied(path) => path \notin changed /\ posts'[path] = posts[path]
  BY DEF Noted
<1>4. CopiedIsDue'
  BY <1>2, <1>3 DEF CopiedIsDue
<1> QED BY <1>1, <1>4

\* The scheduler goes on without writing: it gets hold of no other post.
LEMMA SchedulerGoesOn ==
  ASSUME CopiedIsDue, UNCHANGED <<now, posts, changed>>,
         \A path \in Paths : Copied(path)' => Copied(path)
  PROVE  CopiedIsDue'
  BY DEF CopiedIsDue

LEMMA PublishedIsTime ==
  ASSUME NEW x \in Post
  PROVE  x.published \in Nat
<1>1. x.published \in Times \cup {NoTime}
  BY DEF Post
<1>2. Times \cup {NoTime} \subseteq Nat
  BY TypesAssumption DEF NoTime
<1> QED BY <1>1, <1>2

\* The only row a save of the scheduler touches is the one of its copy.
LEMMA SchedulerWrites ==
  ASSUME IInv, SchedulerSaves, SaveExec(Scheduler)
  PROVE  /\ op[Scheduler].old \in Paths /\ Copied(op[Scheduler].old)
         /\ due[op[Scheduler].old] = None
         /\ \A path \in Paths \ {op[Scheduler].old} : posts'[path] = posts[path]
<1> USE NoneIsNoPost
<1> DEFINE o == op[Scheduler]
<1>1. /\ o.old \in Paths /\ o.new = o.old /\ due[o.old] = None
      /\ o.pc = "saveExec" /\ o.old # None
      /\ posts \in [Paths -> Post \cup {None}]
  BY TypesAssumption DEF SchedulerSaves, SaveExec, At, IInv, TypeOK
<1>2. Update(Scheduler) \/ Conflict(Scheduler) \/ NoRow(Scheduler)
  BY <1>1 DEF SaveExec, Insert, StrayParameters, Matched
<1>3. \/ UNCHANGED posts
      \/ posts' = [posts EXCEPT ![o.old] = None, ![o.new] = o.copy]
  BY <1>2 DEF Update, Conflict, NoRow
<1> QED BY <1>1, <1>3 DEF Copied

LEMMA SchedulerInvStep ==
  ASSUME IInv, SchedulerSaves, CopiedIsDue, [Next]_vars
  PROVE  SchedulerSaves' /\ CopiedIsDue'
<1> USE NoneIsNoPost
<1>t. /\ Scheduler \in Procs /\ Scheduler \notin Clients /\ Scheduler # Deleter
      /\ Times \subseteq Nat /\ now \in Nat
      /\ op[Scheduler] \in Op /\ due \in [Paths -> Post \cup {None}]
      /\ posts \in [Paths -> Post \cup {None}] /\ op \in [Procs -> Op]
  BY PostsAssumption, TypesAssumption DEF IInv, TypeOK, Procs
<1>1. CASE Tick
  <2>1. now' = now + 1 /\ UNCHANGED <<due, op, posts, changed>>
    BY <1>1 DEF Tick, lists, table
  <2>2. ASSUME NEW path \in Paths, posts[path] # None, posts[path].published < now
        PROVE  posts[path].published < now + 1
    <3>1. posts[path].published \in Nat
      BY <1>t, <2>2, PublishedIsTime
    <3> QED BY <1>t, <2>2, <3>1
  <2>3. \A path \in Paths : Copied(path)' <=> Copied(path)
    BY <2>1 DEF Copied
  <2> QED BY <2>1, <2>2, <2>3 DEF SchedulerSaves, CopiedIsDue
<1>2. CASE Restart
  <2>1. op'[Scheduler].pc = "idle" /\ \A path \in Paths : due'[path] = None
    BY <1>2, <1>t DEF Restart, Nothing, Idle
  <2> QED BY <2>1 DEF SchedulerSaves, CopiedIsDue, Copied
<1>3. ASSUME NEW c \in Clients, ClientRequest(c)
      PROVE  SchedulerSaves' /\ CopiedIsDue'
  <2>1. op'[Scheduler] = op[Scheduler] /\ UNCHANGED <<now, due, posts, changed>>
    BY <1>3, <1>t DEF ClientRequest, BeginCreate, BeginUpdate, BeginDelete,
                      BeginUndelete, ChangeCopy, Request, lists, table
  <2> QED BY <2>1, SchedulerUntouched
<1>4. ASSUME NEW proc \in Procs \ {Scheduler},
             Save(proc) \/ Delete(proc) \/ Restore(proc) \/ Fail(proc)
      PROVE  SchedulerSaves' /\ CopiedIsDue'
  <2>1. UNCHANGED <<now, due>>
    BY <1>4 DEF Save, Delete, Restore, Fail, SaveLock, SaveExec, Reload, ReloadFails,
                SaveHook, DeleteLock, HardDelete, SoftDelete, DeleteHook, UndeleteLock,
                UndeleteExec, UndeleteHook, lists
  <2>2. op'[Scheduler] = op[Scheduler]
    BY <1>4, <1>t DEF Save, Delete, Restore, Fail, SaveLock, SaveExec, Insert, Update,
                Conflict, NoRow, StrayParameters, Reload, ReloadFails, SaveHook, DeleteLock,
                ReadLocked, HardDelete, SoftDelete, DeleteHook, UndeleteLock,
                UndeleteExec, UndeleteHook, Goto, Done, Forget
  <2>3. Noted(proc) \/ UNCHANGED <<posts, changed>>
    BY <1>4 DEF Save, Delete, Restore, Fail, SaveLock, SaveExec, Reload, ReloadFails,
                SaveHook, DeleteLock, HardDelete, SoftDelete, DeleteHook, UndeleteLock,
                UndeleteExec, UndeleteHook, table
  <2> QED BY <2>1, <2>2, <2>3, SchedulerUntouched
<1>5. ASSUME Save(Scheduler) \/ Delete(Scheduler) \/ Restore(Scheduler)
             \/ Fail(Scheduler)
      PROVE  SchedulerSaves' /\ CopiedIsDue'
  <2> DEFINE o == op[Scheduler]
  <2>1. CASE SaveLock(Scheduler)
    <3>1. /\ op' = [op EXCEPT ![Scheduler].pc = "saveExec"] /\ o.pc = "save"
          /\ UNCHANGED <<now, due, posts, changed>>
      BY <2>1 DEF SaveLock, Goto, At, table, lists
    <3>2. op'[Scheduler].pc = "saveExec" /\ op'[Scheduler].old = o.old
          /\ op'[Scheduler].new = o.new
      BY <1>t, <3>1 DEF Op
    <3>3. SchedulerSaves'
      BY <3>1, <3>2 DEF SchedulerSaves
    <3>4. \A path \in Paths : Copied(path)' => Copied(path)
      BY <3>1, <3>2 DEF Copied
    <3> QED BY <3>1, <3>3, <3>4, SchedulerGoesOn
  <2>2. CASE SaveExec(Scheduler) \/ Fail(Scheduler)
    <3>1. /\ o.old \in Paths /\ due[o.old] = None
          /\ \A path \in Paths \ {o.old} : posts'[path] = posts[path]
      BY <2>2, SchedulerWrites DEF Fail, SchedulerSaves
    <3>2. Done(Scheduler) \/ Forget(Scheduler, "reload")
      BY <2>2 DEF SaveExec, Insert, Update, Conflict, NoRow, StrayParameters, Fail
    <3>3. op'[Scheduler].pc \in {"idle", "reload"}
      BY <1>t, <3>2 DEF Done, Forget, Idle, Op
    <3>4. UNCHANGED <<now, due>> /\ changed' = changed \ {o.old}
      BY <2>2 DEF SaveExec, Fail, Noted, lists
    <3>5. SchedulerSaves'
      BY <3>3 DEF SchedulerSaves
    <3>6. ASSUME NEW path \in Paths \ changed', Copied(path)'
          PROVE  posts'[path] # None /\ posts'[path].published < now
      <4>1. due[path] # None
        BY <3>3, <3>4, <3>6 DEF Copied
      <4>2. path # o.old
        BY <3>1, <4>1
      <4> QED BY <3>1, <3>4, <4>1, <4>2 DEF CopiedIsDue, Copied
    <3> QED BY <3>4, <3>5, <3>6 DEF CopiedIsDue
  <2>3. CASE Reload(Scheduler) \/ ReloadFails(Scheduler) \/ SaveHook(Scheduler)
    <3>1. /\ op'[Scheduler].pc \in {"idle", "hook"}
          /\ UNCHANGED <<now, due, posts, changed>>
      BY <1>t, <2>3 DEF Reload, ReloadFails, SaveHook, Goto, Done, Idle, table, lists, Op
    <3>2. SchedulerSaves'
      BY <3>1 DEF SchedulerSaves
    <3>3. \A path \in Paths : Copied(path)' => Copied(path)
      BY <3>1 DEF Copied
    <3> QED BY <3>1, <3>2, <3>3, SchedulerGoesOn
  <2>4. ~Delete(Scheduler) /\ ~Restore(Scheduler)
    BY DEF SchedulerSaves, Delete, DeleteLock, HardDelete, SoftDelete, DeleteHook,
           Restore, UndeleteLock, UndeleteExec, UndeleteHook, At
  <2> QED BY <1>5, <2>1, <2>2, <2>3, <2>4 DEF Save
<1>6. CASE ListDue
  <2>1. \A path \in Paths : due'[path] # None =>
          posts'[path] # None /\ posts'[path].published < now'
    BY <1>6 DEF ListDue, IsDue
  <2>2. op'[Scheduler].pc = "params"
    BY <1>6, <1>t DEF ListDue, Goto, Op
  <2> QED BY <2>1, <2>2 DEF SchedulerSaves, CopiedIsDue, Copied
<1>7. CASE LoadDueParams
  <2>1. /\ \A path \in Paths : due'[path] # None => due[path] # None
        /\ UNCHANGED <<now, posts, changed>>
    BY <1>7, <1>t DEF LoadDueParams, table
  <2>2. op'[Scheduler].pc = "idle"
    BY <1>7, <1>t DEF LoadDueParams, Goto, Op
  <2>3. \A path \in Paths : Copied(path)' => Copied(path)
    BY <2>1, <2>2 DEF Copied
  <2> QED BY <2>1, <2>2, <2>3, SchedulerGoesOn DEF SchedulerSaves
<1>8. ASSUME NEW path \in Paths, PublishNext(path)
      PROVE  SchedulerSaves' /\ CopiedIsDue'
  <2>1. /\ due[path] # None /\ due' = [due EXCEPT ![path] = None]
        /\ UNCHANGED <<now, posts, changed>>
        /\ op'[Scheduler].pc = "save" /\ op'[Scheduler].old = path
        /\ op'[Scheduler].new = path
    BY <1>8, <1>t DEF PublishNext, table
  <2>2. \A q \in Paths : Copied(q)' => Copied(q)
    BY <1>t, <2>1 DEF Copied
  <2> QED BY <1>t, <2>1, <2>2, SchedulerGoesOn DEF SchedulerSaves
<1>9. CASE ListDeleted \/ LoadDeletedParams \/ \E path \in Paths : PurgeNext(path)
  <2>1. op'[Scheduler] = op[Scheduler] /\ UNCHANGED <<now, due, posts, changed>>
    BY <1>9, <1>t DEF ListDeleted, LoadDeletedParams, PurgeNext, Goto, table
  <2> QED BY <2>1, SchedulerUntouched
<1>10. CASE UNCHANGED vars
  BY <1>10, SchedulerUntouched DEF vars
<1> QED BY <1>1, <1>2, <1>3, <1>4, <1>5, <1>6, <1>7, <1>8, <1>9, <1>10 DEF Next

\* checkScheduledPosts makes a post public only when the date the table has for
\* it has passed, unless somebody else wrote the row after it was listed: for
\* any number of requests, of listed posts and of paths.
THEOREM NothingIsEarly == Spec => NoEarlyPublication
<1>1. IInv /\ SchedulerSaves /\ CopiedIsDue /\ [Next]_vars
        => SchedulerSaves' /\ CopiedIsDue'
  BY SchedulerInvStep
<1>2. Init => SchedulerSaves /\ CopiedIsDue
  <2> SUFFICES ASSUME Init PROVE SchedulerSaves /\ CopiedIsDue
    OBVIOUS
  <2>1. Scheduler \in Procs
    BY DEF Procs
  <2>2. op = [proc \in Procs |-> Idle]
    BY DEF Init
  <2>3. op[Scheduler].pc = "idle"
    BY <2>1, <2>2 DEF Idle
  <2>4. due = [path \in Paths |-> None]
    BY DEF Init, Nothing
  <2> QED BY <2>3, <2>4 DEF SchedulerSaves, CopiedIsDue, Copied
<1>3. IInv /\ SchedulerSaves /\ CopiedIsDue =>
        [SaveExec(Scheduler) => \A path \in Paths \ changed :
           Announceable(posts'[path]) /\ ~Announceable(posts[path]) =>
             posts[path] # None /\ posts[path].published < now]_vars
  <2> SUFFICES ASSUME IInv, SchedulerSaves, CopiedIsDue, SaveExec(Scheduler),
                      NEW path \in Paths \ changed,
                      Announceable(posts'[path]), ~Announceable(posts[path])
               PROVE  posts[path] # None /\ posts[path].published < now
    OBVIOUS
  <2>1. posts'[path] # posts[path]
    OBVIOUS
  <2>2. path = op[Scheduler].old /\ Copied(path)
    BY <2>1, SchedulerWrites
  <2> QED BY <2>2 DEF CopiedIsDue
<1> QED BY <1>1, <1>2, <1>3, Invariance, PTL DEF Spec, NoEarlyPublication

-----------------------------------------------------------------------------
(***************************************************************************)
(* What the hooks have told.  A process owes the hooks of a path from its  *)
(* write until it triggers them.                                           *)
(***************************************************************************)
Owes(o, path) ==
  \/ o.pc \in {"reload", "hook"} /\ o.new = path
  \/ o.pc \in {"deleteHook", "undeleteHook"} /\ o.old = path

\* deletePost triggers its hooks before it releases pcm: nobody has brought
\* the post back in the meantime.
DeletedIsHidden ==
  \A proc \in Procs :
    At(proc, "deleteHook") => ~Announceable(posts[op[proc].old])

KnownInv == SharedIsKnown /\ DeletedIsHidden

\* The operation a step leaves a process with, the others keeping theirs.
Leaves(proc, o) ==
  op'[proc] = o /\ \A q \in Procs \ {proc} : op'[q] = op[q]

LEMMA BecomesLeaves ==
  ASSUME IInv, NEW proc \in Procs, NEW o, Becomes(proc, o)
  PROVE  Leaves(proc, o) /\ Mutex
BY DEF IInv, TypeOK, Becomes, Leaves

\* A step of a process is harmless if the posts it leaves shared are those it
\* owes the hooks of, those it told of, and those that were known before.
LEMMA KnownStep ==
  ASSUME KnownInv, Mutex, NEW proc \in Procs, NEW o, Leaves(proc, o),
         UNCHANGED restarts,
         posts' = posts \/ pcm = proc,
         \A path \in Paths :
           Announceable(posts'[path]) =>
             \/ Owes(o, path)
             \/ lastHook'[path] \in {"exists", "untold"}
             \/ /\ Announceable(posts[path]) /\ ~Owes(op[proc], path)
                /\ lastHook'[path] = lastHook[path],
         o.pc = "deleteHook" => ~Announceable(posts'[o.old])
  PROVE  KnownInv'
<1>1. op'[proc] = o /\ \A q \in Procs \ {proc} : op'[q] = op[q]
  BY DEF Leaves
<1>2. SharedIsKnown'
  <2> SUFFICES ASSUME restarts' = 0, NEW path \in Paths,
                      Announceable(posts'[path]), ~HooksPending(path)'
               PROVE  lastHook'[path] \in {"exists", "untold"}
    BY DEF SharedIsKnown, Announceable
  <2>1. \A q \in Procs : ~Owes(op'[q], path)
    BY DEF HooksPending, Owes
  <2>2. ~Owes(o, path)
    BY <1>1, <2>1
  <2>3. CASE lastHook'[path] \notin {"exists", "untold"}
    <3>1. /\ Announceable(posts[path]) /\ ~Owes(op[proc], path)
          /\ lastHook'[path] = lastHook[path]
      BY <2>2, <2>3
    <3>2. \A q \in Procs : ~Owes(op[q], path)
      BY <1>1, <2>1, <3>1
    <3>3. ~HooksPending(path)
      BY <3>2 DEF HooksPending, Owes
    <3> QED BY <3>1, <3>3 DEF KnownInv, SharedIsKnown
  <2> QED BY <2>3
<1>3. DeletedIsHidden'
  <2> SUFFICES ASSUME NEW q \in Procs, op'[q].pc = "deleteHook"
               PROVE  ~Announceable(posts'[op'[q].old])
    BY DEF DeletedIsHidden, At, Announceable
  <2>1. CASE q = proc
    BY <1>1, <2>1
  <2>2. CASE q # proc
    <3>1. op'[q] = op[q] /\ op[q].pc = "deleteHook"
      BY <1>1, <2>2
    <3>2. pcm = q
      BY <3>1 DEF Mutex, LockedPC
    <3>3. posts' = posts
      BY <2>2, <3>2
    <3> QED BY <3>1, <3>3 DEF KnownInv, DeletedIsHidden, At
  <2> QED BY <2>1, <2>2
<1> QED BY <1>2, <1>3 DEF KnownInv

\* A step that writes nothing, tells nothing and finds the process owing none.
LEMMA SilentStep ==
  ASSUME IInv, KnownInv, NEW proc \in Procs,
         \A q \in Procs \ {proc} : op'[q] = op[q],
         UNCHANGED <<posts, lastHook, restarts>>,
         op[proc].pc \notin {"reload", "hook", "deleteHook", "undeleteHook"},
         op'[proc].pc # "deleteHook"
  PROVE  KnownInv'
<1>1. \A path \in Paths : ~Owes(op[proc], path)
  BY DEF Owes
<1>2. \A path \in Paths : posts'[path] = posts[path] /\ lastHook'[path] = lastHook[path]
  OBVIOUS
<1>3. Leaves(proc, op'[proc]) /\ Mutex
  BY DEF Leaves, IInv
<1> QED BY <1>1, <1>2, <1>3, KnownStep

LEMMA UntouchedStep ==
  ASSUME KnownInv, UNCHANGED <<posts, lastHook, restarts, op>>
  PROVE  KnownInv'
BY DEF KnownInv, SharedIsKnown, HooksPending, DeletedIsHidden, At

\* savePost: the post it writes is the only one it can make shared.
LEMMA SaveExecKnown ==
  ASSUME IInv, KnownInv, NEW proc \in Procs, SaveExec(proc)
  PROVE  KnownInv'
<1> USE NoneIsNoPost
<1>1. /\ op[proc].pc = "saveExec" /\ op[proc] \in Op /\ op[proc].new \in Paths
      /\ op[proc].copy \in Post
      /\ posts \in [Paths -> Post \cup {None}] /\ UNCHANGED <<lastHook, restarts>>
  BY DEF IInv, TypeOK, OpsCarry, Carries, SaveExec, At
<1>2. pcm = proc
  BY <1>1 DEF IInv, Mutex, LockedPC
<1>3. CASE Conflict(proc) \/ NoRow(proc)
  <2>1. Becomes(proc, Idle) /\ UNCHANGED posts
    BY <1>3 DEF Conflict, NoRow, Done, Becomes
  <2> QED BY <1>1, <2>1, SilentStep, BecomesLeaves DEF Idle, Leaves
<1>4. CASE Insert(proc) \/ Update(proc) \/ StrayParameters(proc)
  <2> DEFINE o == [op[proc] EXCEPT !.pc = "reload", !.copy = None]
  <2>1. Becomes(proc, o)
    BY <1>4 DEF Insert, Update, StrayParameters, Forget, Becomes
  <2>2. o.pc = "reload" /\ o.new = op[proc].new
    BY <1>1 DEF Op
  <2>3. \A path \in Paths : ~Owes(op[proc], path)
    BY <1>1 DEF Owes
  <2>4. \A path \in Paths \ {op[proc].new} :
          posts'[path] = posts[path] \/ posts'[path] = None
    BY <1>1, <1>4 DEF Insert, Update, StrayParameters
  <2>5. ASSUME NEW path \in Paths, Announceable(posts'[path])
        PROVE  \/ Owes(o, path)
               \/ /\ Announceable(posts[path]) /\ ~Owes(op[proc], path)
                  /\ lastHook'[path] = lastHook[path]
    <3>1. CASE path = op[proc].new
      BY <2>2, <3>1 DEF Owes
    <3>2. CASE path # op[proc].new
      <4>1. posts'[path] = posts[path]
        BY <2>4, <2>5, <3>2 DEF Announceable
      <4> QED BY <1>1, <2>3, <2>5, <4>1
    <3> QED BY <3>1, <3>2
  <2> HIDE DEF o
  <2> QED BY <1>1, <1>2, <2>1, <2>2, <2>5, KnownStep, BecomesLeaves
<1> QED BY <1>3, <1>4 DEF SaveExec

LEMMA ReloadKnown ==
  ASSUME IInv, KnownInv, NEW proc \in Procs, Reload(proc)
  PROVE  KnownInv'
<1>1. /\ op[proc].pc = "reload" /\ op[proc] \in Op
      /\ UNCHANGED <<posts, lastHook, restarts>>
  BY DEF IInv, TypeOK, Reload, At, table
<1>2. CASE Announceable(posts[op[proc].new])
  <2> DEFINE o == [op[proc] EXCEPT !.pc = "hook"]
  <2>1. Becomes(proc, o)
    BY <1>2 DEF Reload, Goto, Becomes
  <2>2. o.pc = "hook" /\ o.new = op[proc].new
    BY <1>1 DEF Op
  <2>3. \A path \in Paths : Owes(op[proc], path) <=> Owes(o, path)
    BY <1>1, <2>2 DEF Owes
  <2> HIDE DEF o
  <2> QED BY <1>1, <2>1, <2>2, <2>3, KnownStep, BecomesLeaves
<1>3. CASE ~Announceable(posts[op[proc].new])
  <2>1. Becomes(proc, Idle)
    BY <1>3 DEF Reload, Done, Becomes
  <2>2. \A path \in Paths : Announceable(posts[path]) => ~Owes(op[proc], path)
    BY <1>1, <1>3 DEF Owes
  <2> QED BY <1>1, <2>1, <2>2, KnownStep, BecomesLeaves DEF Idle
<1> QED BY <1>2, <1>3

\* The hooks of the three operations pay what was owed; a save that cannot
\* read the post again leaves it untold.
LEMMA HookKnown ==
  ASSUME IInv, KnownInv, NEW proc \in Procs,
         \/ ReloadFails(proc) \/ SaveHook(proc) \/ DeleteHook(proc)
         \/ UndeleteHook(proc)
  PROVE  KnownInv'
<1>1. Becomes(proc, Idle) /\ UNCHANGED <<posts, restarts>>
  BY DEF ReloadFails, SaveHook, DeleteHook, UndeleteHook, Done, Becomes, table
<1>2. lastHook \in [Paths -> News]
  BY DEF IInv, TypeOK
<1>3. ASSUME NEW path \in Paths, Announceable(posts[path])
      PROVE  \/ lastHook'[path] \in {"exists", "untold"}
             \/ ~Owes(op[proc], path) /\ lastHook'[path] = lastHook[path]
  <2>1. CASE SaveHook(proc)
    BY <1>2, <1>3, <2>1 DEF SaveHook, At, Owes
  <2>2. CASE DeleteHook(proc)
    <3>1. op[proc].pc = "deleteHook" /\ path # op[proc].old
      BY <1>3, <2>2 DEF DeleteHook, At, KnownInv, DeletedIsHidden
    <3> QED BY <1>2, <2>2, <3>1 DEF DeleteHook, Owes
  <2>3. CASE UndeleteHook(proc)
    BY <1>2, <1>3, <2>3 DEF UndeleteHook, At, Owes
  <2>4. CASE ReloadFails(proc)
    BY <1>2, <1>3, <2>4 DEF ReloadFails, At, Owes
  <2> QED BY <2>1, <2>2, <2>3, <2>4
<1> QED BY <1>1, <1>3, KnownStep, BecomesLeaves DEF Idle

\* deletePost hides the row or removes it; undeletePost owes the hooks.
LEMMA LockedWriteKnown ==
  ASSUME IInv, KnownInv, NEW proc \in Procs,
         HardDelete(proc) \/ SoftDelete(proc) \/ UndeleteExec(proc)
  PROVE  KnownInv'
<1> USE NoneIsNoPost
<1> DEFINE old == op[proc].old
<1>1. /\ op[proc].pc \in {"deleteExec", "undeleteExec"} /\ op[proc] \in Op
      /\ old \in Paths /\ posts \in [Paths -> Post \cup {None}]
      /\ UNCHANGED <<lastHook, restarts>>
  BY DEF IInv, TypeOK, OpsCarry, Carries, HardDelete, SoftDelete, UndeleteExec, At
<1>2. pcm = proc
  BY <1>1 DEF IInv, Mutex, LockedPC
<1>3. posts[old] \in Post
  BY <1>1, LockedRow
<1>4. \A path \in Paths : ~Owes(op[proc], path)
  BY <1>1 DEF Owes
<1>5. \A path \in Paths \ {old} : posts'[path] = posts[path]
  BY <1>1 DEF HardDelete, SoftDelete, UndeleteExec
<1>6. CASE HardDelete(proc)
  <2>1. Becomes(proc, Idle) /\ posts'[old] = None
    BY <1>1, <1>6 DEF HardDelete, Done, Becomes
  <2>2. ~Announceable(posts'[old])
    BY <2>1 DEF Announceable
  <2> QED BY <1>1, <1>2, <1>4, <1>5, <2>1, <2>2, KnownStep, BecomesLeaves DEF Idle
<1>7. CASE SoftDelete(proc)
  <2> DEFINE o == [op[proc] EXCEPT !.pc = "deleteHook", !.copy = None]
  <2>1. Becomes(proc, o) /\ o.old = old
    BY <1>1, <1>7 DEF SoftDelete, Forget, Becomes, Op
  <2>2. posts'[old].suffix
    BY <1>1, <1>3, <1>7 DEF SoftDelete, Post
  <2>3. ~Announceable(posts'[old])
    BY <2>2 DEF Announceable
  <2> HIDE DEF o
  <2> QED BY <1>1, <1>2, <1>4, <1>5, <2>1, <2>3, KnownStep, BecomesLeaves
<1>8. CASE UndeleteExec(proc)
  <2> DEFINE o == [op[proc] EXCEPT !.pc = "undeleteHook", !.copy = None]
  <2>1. Becomes(proc, o) /\ o.old = old /\ o.pc = "undeleteHook"
    BY <1>1, <1>8 DEF UndeleteExec, Forget, Becomes, Op
  <2>2. Owes(o, old)
    BY <2>1 DEF Owes
  <2> HIDE DEF o
  <2> QED BY <1>1, <1>2, <1>4, <1>5, <2>1, <2>2, KnownStep, BecomesLeaves
<1> QED BY <1>6, <1>7, <1>8

\* The other steps write nothing and tell nothing.
LEMMA SilentSteps ==
  ASSUME IInv, KnownInv, NEW proc \in Procs,
         \/ SaveLock(proc) \/ DeleteLock(proc) \/ UndeleteLock(proc)
         \/ Fail(proc)
  PROVE  KnownInv'
<1>1. UNCHANGED <<posts, lastHook, restarts>> /\ op[proc] \in Op
      /\ op \in [Procs -> Op]
  BY DEF IInv, TypeOK, SaveLock, DeleteLock, UndeleteLock, Fail, table
<1>2. op[proc].pc \notin {"reload", "hook", "deleteHook", "undeleteHook"}
  BY DEF SaveLock, DeleteLock, UndeleteLock, Fail, At
<1>3. /\ op'[proc].pc # "deleteHook"
      /\ \A q \in Procs \ {proc} : op'[q] = op[q]
  BY <1>1 DEF SaveLock, DeleteLock, UndeleteLock, Fail, ReadLocked, Goto, Done,
              Idle, Op
<1> QED BY <1>1, <1>2, <1>3, SilentStep

LEMMA RequestKnown ==
  ASSUME IInv, KnownInv, NEW c \in Clients, ClientRequest(c)
  PROVE  KnownInv'
<1>1. c \in Procs /\ op[c] \in Op /\ op \in [Procs -> Op]
  BY DEF IInv, TypeOK, Procs
<1>2. UNCHANGED <<posts, lastHook, restarts>>
  BY DEF ClientRequest, BeginCreate, BeginUpdate, BeginDelete, BeginUndelete,
         ChangeCopy, Request, table
<1>3. op[c].pc \in {"idle", "params"}
  BY DEF ClientRequest, BeginCreate, BeginUpdate, BeginDelete, BeginUndelete,
         ChangeCopy, Request, At
<1>4. op'[c].pc # "deleteHook" /\ \A q \in Procs \ {c} : op'[q] = op[q]
  <2>1. ASSUME NEW path \in Paths, BeginUpdate(c, path)
        PROVE  op'[c].pc # "deleteHook" /\ \A q \in Procs \ {c} : op'[q] = op[q]
    BY <1>1, <2>1 DEF BeginUpdate, Request
  <2>2. ASSUME NEW path \in Paths, BeginDelete(c, path) \/ BeginUndelete(c, path)
        PROVE  op'[c].pc # "deleteHook" /\ \A q \in Procs \ {c} : op'[q] = op[q]
    BY <1>1, <2>2 DEF BeginDelete, BeginUndelete, Request, Idle
  <2>3. ASSUME NEW path \in Paths, NEW s, NEW v, NEW d, NEW hasSection,
               BeginCreate(c, path, s, v, d, hasSection)
        PROVE  op'[c].pc # "deleteHook" /\ \A q \in Procs \ {c} : op'[q] = op[q]
    BY <1>1, <2>3 DEF BeginCreate, Request
  <2>4. ASSUME NEW path \in Paths, NEW s, NEW v, NEW d, ChangeCopy(c, path, s, v, d)
        PROVE  op'[c].pc # "deleteHook" /\ \A q \in Procs \ {c} : op'[q] = op[q]
    BY <1>1, <2>4 DEF ChangeCopy, Op
  <2> QED BY <2>1, <2>2, <2>3, <2>4 DEF ClientRequest
<1> QED BY <1>1, <1>2, <1>3, <1>4, SilentStep

LEMMA TickerKnown ==
  ASSUME IInv, KnownInv,
         \/ ListDue \/ LoadDueParams \/ \E path \in Paths : PublishNext(path)
         \/ ListDeleted \/ LoadDeletedParams
         \/ \E path \in Paths : PurgeNext(path)
  PROVE  KnownInv'
<1>1. /\ Scheduler \in Procs /\ Deleter \in Procs
      /\ op[Scheduler] \in Op /\ op[Deleter] \in Op
      /\ op \in [Procs -> Op]
  BY DEF IInv, TypeOK, Procs
<1>2. UNCHANGED <<posts, lastHook, restarts>>
  BY DEF ListDue, LoadDueParams, PublishNext, ListDeleted, LoadDeletedParams,
         PurgeNext, table
<1>3. CASE ListDue \/ LoadDueParams \/ \E path \in Paths : PublishNext(path)
  <2>1. op[Scheduler].pc \in {"idle", "params"}
    BY <1>3 DEF ListDue, LoadDueParams, PublishNext, At
  <2>2. /\ op'[Scheduler].pc # "deleteHook"
        /\ \A q \in Procs \ {Scheduler} : op'[q] = op[q]
    <3>1. CASE ListDue \/ LoadDueParams
      BY <1>1, <3>1 DEF ListDue, LoadDueParams, Goto, Op
    <3>2. CASE \E path \in Paths : PublishNext(path)
      BY <1>1, <3>2 DEF PublishNext
    <3> QED BY <1>3, <3>1, <3>2
  <2> QED BY <1>1, <1>2, <2>1, <2>2, SilentStep
<1>4. CASE \/ ListDeleted \/ LoadDeletedParams
           \/ \E path \in Paths : PurgeNext(path)
  <2>1. op[Deleter].pc \in {"idle", "params"}
    BY <1>4 DEF ListDeleted, LoadDeletedParams, PurgeNext, At
  <2>2. \/ UNCHANGED op
        \/ /\ op'[Deleter].pc # "deleteHook"
           /\ \A q \in Procs \ {Deleter} : op'[q] = op[q]
    <3>1. CASE ListDeleted \/ LoadDeletedParams
      BY <1>1, <3>1 DEF ListDeleted, LoadDeletedParams, Goto, Op
    <3>2. CASE \E path \in Paths : PurgeNext(path)
      BY <1>1, <3>2 DEF PurgeNext, Idle
    <3> QED BY <1>4, <3>1, <3>2
  <2> QED BY <1>1, <1>2, <2>1, <2>2, SilentStep, UntouchedStep
<1> QED BY <1>3, <1>4

LEMMA NextKnown ==
  ASSUME IInv, KnownInv, [Next]_vars
  PROVE  KnownInv'
<1>1. CASE Tick \/ UNCHANGED vars
  BY <1>1, UntouchedStep DEF Tick, table, vars
<1>2. CASE Restart
  <2>1. restarts \in Nat /\ restarts' = restarts + 1
    <3>1. MaxRestarts \in Nat
      BY PostsAssumption
    <3>2. restarts \in 0 .. MaxRestarts
      BY DEF IInv, TypeOK
    <3>3. restarts' = restarts + 1
      BY <1>2 DEF Restart
    <3> QED BY <3>1, <3>2, <3>3
  <2>2. \A proc \in Procs : op'[proc].pc = "idle"
    BY <1>2 DEF Restart, Idle
  <2>3. restarts' # 0
    BY <2>1
  <2> QED BY <2>3, <2>2 DEF KnownInv, SharedIsKnown, DeletedIsHidden, At
<1>3. ASSUME NEW proc \in Procs,
             Save(proc) \/ Delete(proc) \/ Restore(proc) \/ Fail(proc)
      PROVE  KnownInv'
  BY <1>3, SilentSteps, SaveExecKnown, ReloadKnown, HookKnown, LockedWriteKnown
  DEF Save, Delete, Restore
<1> QED BY <1>1, <1>2, <1>3, RequestKnown, TickerKnown DEF Next

\* As long as the process has not died, the subscribers of a shared post were
\* told last that it exists, or somebody is about to tell them.
THEOREM SharedPostsAreKnown == Spec => []SharedIsKnown
<1>1. Init => KnownInv
  <2> SUFFICES ASSUME Init PROVE KnownInv
    OBVIOUS
  <2>1. \A path \in Paths : ~Announceable(posts[path])
    BY DEF Init, Nothing, Announceable
  <2>2. \A proc \in Procs : op[proc].pc = "idle"
    BY DEF Init, Idle
  <2> QED BY <2>1, <2>2 DEF KnownInv, SharedIsKnown, DeletedIsHidden, At
<1>2. IInv /\ KnownInv /\ [Next]_vars => KnownInv'
  BY NextKnown
<1>3. KnownInv => SharedIsKnown
  BY DEF KnownInv
<1> QED BY <1>1, <1>2, <1>3, Invariance, PTL DEF Spec
=============================================================================
