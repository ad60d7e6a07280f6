-------------------------- MODULE PostReadsProofs --------------------------
(***************************************************************************)
(* Proofs about PostReads.  Each property is inductive together with what  *)
(* it needs to know of the requests and calls under way: of a request that *)
(* no purge has overtaken, that its route still holds; of a query whose    *)
(* answer was not dropped since, that its result is current; of a call in  *)
(* the table, that it counts all reactions that were not able to forget it.*)
(***************************************************************************)
EXTENDS PostReads, TLAPS

\* Requests under way know their path and, if they wait, for whom.
Known ==
  \A c \in Clients :
    /\ visit[c].at # "idle" => visit[c].path \in Paths
    /\ visit[c].at \in {"save", "end"} => visit[c].page \in Page
    /\ reader[c].at # "idle" => reader[c].path \in Paths
    /\ write[c].at # "idle" => write[c].path \in Paths /\ write[c].old \in Paths

Typed == TypeOK /\ Known

-----------------------------------------------------------------------------
(***************************************************************************)
(* Types.                                                                  *)
(***************************************************************************)
LEMMA RenderedType ==
  ASSUME TypeOK, NEW path \in Paths, NEW handler
  PROVE  Rendered(handler, path) \in Page
<1>1. CASE handler = "post" /\ Exists(path)
  <2>1. rows[path] \in Row
    BY <1>1 DEF TypeOK, Exists
  <2>2. PostPage(path) \in Page
    BY <2>1 DEF PostPage, Page
  <2> QED BY <1>1, <2>2 DEF Rendered
<1>2. CASE ~(handler = "post" /\ Exists(path))
  <2>1. GonePage \in Page /\ NotFoundPage \in Page
    BY DEF GonePage, NotFoundPage, Page
  <2> QED BY <1>2, <2>1 DEF Rendered
<1> QED BY <1>1, <1>2

LEMMA HandlerType ==
  ASSUME NEW path \in Paths
  PROVE  Handler(path) \in {"post", "gone", "notFound"}
<1>1. CASE Exists(path) /\ ~rows[path].deleted
  BY <1>1 DEF Handler
<1>2. CASE Exists(path) /\ rows[path].deleted
  BY <1>2 DEF Handler
<1>3. CASE ~Exists(path) /\ path \in gone
  BY <1>3 DEF Handler
<1>4. CASE ~Exists(path) /\ path \notin gone
  BY <1>4 DEF Handler
<1> QED BY <1>1, <1>2, <1>3, <1>4

LEMMA QueriedType ==
  ASSUME TypeOK, NEW path \in Paths
  PROVE  Queried(path) \in Counted
<1>1. counts[path] \in Nat
  BY DEF TypeOK, ReactionsTypeOK
<1>2. (Exists(path) => rows[path].reactions) \in BOOLEAN
  BY DEF TypeOK, Exists, Row
<1> QED BY <1>1, <1>2 DEF Queried, Counted

\* The two steps of a visit that make a page or keep one.
LEMMA PageStepTypes ==
  ASSUME Typed, NEW c \in Clients, VisitStep(c)
  PROVE  PageTypeOK' /\ (\A v \in Clients :
           /\ visit'[v].at # "idle" => visit'[v].path \in Paths
           /\ visit'[v].at \in {"save", "end"} => visit'[v].page \in Page)
<1>t. /\ PageTypeOK
      /\ \A v \in Clients :
           /\ visit[v].at # "idle" => visit[v].path \in Paths
           /\ visit[v].at \in {"save", "end"} => visit[v].page \in Page
  BY DEF Typed, TypeOK, Known
<1> USE <1>t DEF PageTypeOK, PageRequest, NoVisit, VisitAt
<1>1. CASE LeadPage(c)
  BY <1>1 DEF LeadPage, Led
<1>2. CASE AwaitPage(c)
  BY <1>2, ZenonT(60) DEF AwaitPage
<1>3. CASE PageHit(c)
  BY <1>3, ZenonT(60) DEF PageHit
<1>4. CASE PageMiss(c)
  BY <1>4 DEF PageMiss
<1>5. CASE Handle(c)
  <2>1. Rendered(visit[c].handler, visit[c].path) \in Page
    BY <1>5, RenderedType DEF Handle, Typed
  <2> QED BY <1>5, <2>1, ZenonT(60) DEF Handle
<1>6. CASE SavePage(c)
  BY <1>6 DEF SavePage
<1>7. CASE ServePage(c)
  BY <1>7 DEF ServePage, Ended, Forgotten
<1> QED BY <1>1, <1>2, <1>3, <1>4, <1>5, <1>6, <1>7 DEF VisitStep

\* What is known of one request.
Sound(r) ==
  /\ r.at # "idle" => r.path \in Paths
  /\ r.at \in {"set", "end", "answered"} => r.answer \in Counted

ReaderTyped ==
  reader \in [Clients -> ReactionRequest] /\ \A c \in Clients : Sound(reader[c])

LEMMA OneRequest ==
  ASSUME ReaderTyped, NEW c \in Clients, NEW r \in ReactionRequest, Sound(r),
         reader' = [reader EXCEPT ![c] = r]
  PROVE  ReaderTyped'
BY DEF ReaderTyped, Sound

LEMMA Request ==
  ASSUME ReaderTyped, NEW c \in Clients
  PROVE  /\ Sound(reader[c])
         /\ reader[c] = [at |-> reader[c].at, path |-> reader[c].path,
              mine |-> reader[c].mine, least |-> reader[c].least,
              answer |-> reader[c].answer, call |-> reader[c].call,
              late |-> reader[c].late]
         /\ reader[c].path \in Paths \cup {None}
         /\ reader[c].mine \in Nat \cup {None} /\ reader[c].least \in Nat
         /\ reader[c].answer \in Counted \cup {None}
         /\ reader[c].call \in Clients \cup {None} /\ reader[c].late \in BOOLEAN
BY DEF ReaderTyped, Sound, ReactionRequest

TablesTyped ==
  /\ counts \in [Paths -> Nat] /\ forgotten \in [Paths -> Nat]
  /\ answers \in [Paths -> Counted \cup {None}]
  /\ answerLate \in [Paths -> BOOLEAN]
  /\ answerCalls \in [Paths -> Clients \cup {None}]

LEMMA ReactionsSplit ==
  ReactionsTypeOK /\ (\A c \in Clients : reader[c].at # "idle" => reader[c].path \in Paths)
    <=> ReaderTyped /\ TablesTyped
BY DEF ReactionsTypeOK, ReaderTyped, TablesTyped, Sound

LEMMA LateReadersTyped ==
  ASSUME ReaderTyped, NEW path
  PROVE  /\ LateReaders(path) \in [Clients -> ReactionRequest]
         /\ \A c \in Clients : Sound(LateReaders(path)[c])
         /\ \A c \in Clients :
              /\ LateReaders(path)[c].at = reader[c].at
              /\ LateReaders(path)[c].path = reader[c].path
              /\ LateReaders(path)[c].mine = reader[c].mine
              /\ LateReaders(path)[c].least = reader[c].least
              /\ LateReaders(path)[c].answer = reader[c].answer
              /\ LateReaders(path)[c].call = reader[c].call
              /\ LateReaders(path)[c].late =
                   (reader[c].late \/ (reader[c].path = path /\ reader[c].at = "set"))
<1> DEFINE r(c) == [reader[c] EXCEPT !.late =
                      @ \/ (reader[c].path = path /\ reader[c].at = "set")]
<1>1. ASSUME NEW c \in Clients
      PROVE  /\ r(c) \in ReactionRequest /\ Sound(r(c))
             /\ r(c).at = reader[c].at /\ r(c).path = reader[c].path
             /\ r(c).mine = reader[c].mine /\ r(c).least = reader[c].least
             /\ r(c).answer = reader[c].answer /\ r(c).call = reader[c].call
             /\ r(c).late = (reader[c].late
                              \/ (reader[c].path = path /\ reader[c].at = "set"))
  BY DEF ReaderTyped, ReactionRequest, Sound
<1>2. LateReaders(path) = [c \in Clients |-> r(c)]
  BY DEF LateReaders, ReaderAt
<1> HIDE DEF r
<1> QED BY <1>1, <1>2

LEMMA ReactionStepTypes ==
  ASSUME Typed, NEW c \in Clients, ReactionStep(c)
  PROVE  ReaderTyped' /\ TablesTyped'
<1>t. ReaderTyped /\ TablesTyped
  BY ReactionsSplit DEF Typed, TypeOK, Known
<1>a. /\ ReaderTyped /\ TablesTyped /\ Sound(reader[c])
      /\ reader[c] \in ReactionRequest
      /\ reader[c].path \in Paths \cup {None}
      /\ reader[c].mine \in Nat \cup {None} /\ reader[c].least \in Nat
      /\ reader[c].answer \in Counted \cup {None}
      /\ reader[c].call \in Clients \cup {None} /\ reader[c].late \in BOOLEAN
  BY <1>t, Request DEF ReaderTyped
<1> USE DEF ReaderAt, GoTo, ReactionRequest
<1>1. CASE InsertReaction(c)
  <2> DEFINE r == [reader[c] EXCEPT !.at = "drop", !.mine = counts[reader[c].path] + 1]
  <2>0. reader[c].path \in Paths /\ counts[reader[c].path] + 1 \in Nat
    BY <1>1, <1>a DEF InsertReaction, Sound, TablesTyped
  <2>1. r \in ReactionRequest /\ Sound(r)
    BY <1>1, <1>a, <2>0 DEF InsertReaction, Sound
  <2>2. reader' = [reader EXCEPT ![c] = r]
    BY <1>1, <1>a DEF InsertReaction
  <2> HIDE DEF r
  <2>3. ReaderTyped'
    BY <1>t, <2>1, <2>2, OneRequest
  <2>4. TablesTyped'
    BY <1>1, <1>a, <2>0 DEF InsertReaction, TablesTyped
  <2> QED BY <2>3, <2>4
<1>2. CASE RefuseReaction(c)
  <2> DEFINE r == [reader[c] EXCEPT !.at = "drop"]
  <2>1. r \in ReactionRequest /\ Sound(r)
    BY <1>2, <1>a DEF RefuseReaction, Sound
  <2>2. reader' = [reader EXCEPT ![c] = r]
    BY <1>2, <1>a DEF RefuseReaction
  <2> HIDE DEF r
  <2>3. ReaderTyped'
    BY <1>t, <2>1, <2>2, OneRequest
  <2>4. TablesTyped'
    BY <1>2, <1>a DEF RefuseReaction, TablesTyped
  <2> QED BY <2>3, <2>4
<1>3. CASE DropOwn(c)
  <2> DEFINE l == LateReaders(reader[c].path)
             r == [l[c] EXCEPT !.at = "forget"]
  <2>1. l \in [Clients -> ReactionRequest] /\ \A v \in Clients : Sound(l[v])
    BY <1>a, LateReadersTyped
  <2>2. reader' = [l EXCEPT ![c] = r]
    BY <1>3, <2>1 DEF DropOwn
  <2>3. l[c].path \in Paths
    BY <1>3, <1>a, LateReadersTyped DEF DropOwn, Sound
  <2> HIDE DEF l
  <2>4. r \in ReactionRequest /\ Sound(r)
    BY <2>1, <2>3 DEF Sound
  <2>5. ReaderTyped'
    <3> HIDE DEF r
    <3> QED BY <2>1, <2>2, <2>4 DEF ReaderTyped
  <2>6. TablesTyped'
    BY <1>3, <1>a DEF DropOwn, DropAnswer, TablesTyped, Sound
  <2> QED BY <2>5, <2>6
<1>4. CASE ForgetCall(c)
  <2>1. reader[c].path \in Paths
    BY <1>4, <1>a DEF ForgetCall, Sound
  <2>2. TablesTyped'
    BY <1>4, <1>a, <2>1 DEF ForgetCall, Forgotten, TablesTyped
  <2>3. NoRequest \in ReactionRequest /\ Sound(NoRequest)
    BY DEF NoRequest, Sound
  <2>4. [reader[c] EXCEPT !.at = "get"] \in ReactionRequest
        /\ Sound([reader[c] EXCEPT !.at = "get"])
    BY <1>a, <2>1 DEF Sound
  <2>5. \/ reader' = [reader EXCEPT ![c] = NoRequest]
        \/ reader' = [reader EXCEPT ![c] = [reader[c] EXCEPT !.at = "get"]]
    BY <1>4, <1>a DEF ForgetCall, ReaderTyped
  <2>6. ReaderTyped'
    BY <1>a, <2>3, <2>4, <2>5, OneRequest
  <2> QED BY <2>2, <2>6
<1>5. CASE GetOwn(c)
  <2>1. reader[c].path \in Paths
    BY <1>5, <1>a DEF GetOwn, Sound
  <2>2. TablesTyped'
    BY <1>5, <1>a DEF GetOwn, TablesTyped
  <2>3. NoRequest \in ReactionRequest /\ Sound(NoRequest)
    BY DEF NoRequest, Sound
  <2>4. [reader[c] EXCEPT !.at = "check"] \in ReactionRequest
        /\ Sound([reader[c] EXCEPT !.at = "check"])
    BY <1>a, <2>1 DEF Sound
  <2>5. \/ reader' = [reader EXCEPT ![c] = NoRequest]
        \/ reader' = [reader EXCEPT ![c] = [reader[c] EXCEPT !.at = "check"]]
    BY <1>5, <1>a DEF GetOwn, ReaderTyped
  <2>6. ReaderTyped'
    BY <1>a, <2>3, <2>4, <2>5, OneRequest
  <2> QED BY <2>2, <2>6
<1>6. CASE AnswerHit(c)
  <2> DEFINE r == [reader[c] EXCEPT !.at = "answered", !.answer = answers[reader[c].path]]
  <2>0. reader[c].path \in Paths /\ answers[reader[c].path] \in Counted
    BY <1>6, <1>a DEF AnswerHit, Sound, TablesTyped
  <2>1. r \in ReactionRequest /\ Sound(r)
    BY <1>6, <1>a, <2>0 DEF AnswerHit, Sound
  <2>2. reader' = [reader EXCEPT ![c] = r]
    BY <1>6, <1>a DEF AnswerHit
  <2> HIDE DEF r
  <2>3. ReaderTyped'
    BY <1>t, <2>1, <2>2, OneRequest
  <2>4. TablesTyped'
    BY <1>6, <1>a, <2>0 DEF AnswerHit, TablesTyped
  <2> QED BY <2>3, <2>4
<1>7. CASE AnswerMiss(c)
  <2> DEFINE r == [reader[c] EXCEPT !.at = "miss"]
  <2>1. r \in ReactionRequest /\ Sound(r)
    BY <1>7, <1>a DEF AnswerMiss, Sound
  <2>2. reader' = [reader EXCEPT ![c] = r]
    BY <1>7, <1>a DEF AnswerMiss
  <2> HIDE DEF r
  <2>3. ReaderTyped'
    BY <1>t, <2>1, <2>2, OneRequest
  <2>4. TablesTyped'
    BY <1>7, <1>a DEF AnswerMiss, TablesTyped
  <2> QED BY <2>3, <2>4
<1>8. CASE LeadAnswer(c)
  <2> DEFINE r == [reader[c] EXCEPT !.at = "query", !.least = forgotten[reader[c].path]]
  <2>0. reader[c].path \in Paths /\ forgotten[reader[c].path] \in Nat
    BY <1>8, <1>a DEF LeadAnswer, Sound, TablesTyped
  <2>1. r \in ReactionRequest /\ Sound(r)
    BY <1>8, <1>a, <2>0 DEF LeadAnswer, Sound
  <2>2. reader' = [reader EXCEPT ![c] = r]
    BY <1>8, <1>a DEF LeadAnswer
  <2> HIDE DEF r
  <2>3. ReaderTyped'
    BY <1>t, <2>1, <2>2, OneRequest
  <2>4. TablesTyped'
    BY <1>8, <1>a, <2>0 DEF LeadAnswer, TablesTyped, Led
  <2> QED BY <2>3, <2>4
<1>9. CASE AwaitAnswer(c)
  <2> DEFINE r == [reader[c] EXCEPT !.at = "waiting", !.least = forgotten[reader[c].path], !.call = answerCalls[reader[c].path]]
  <2>0. /\ reader[c].path \in Paths /\ forgotten[reader[c].path] \in Nat
        /\ answerCalls[reader[c].path] \in Clients
    BY <1>9, <1>a DEF AwaitAnswer, Sound, TablesTyped
  <2>1. r \in ReactionRequest /\ Sound(r)
    BY <1>9, <1>a, <2>0 DEF AwaitAnswer, Sound
  <2>2. reader' = [reader EXCEPT ![c] = r]
    BY <1>9, <1>a DEF AwaitAnswer
  <2> HIDE DEF r
  <2>3. ReaderTyped'
    BY <1>t, <2>1, <2>2, OneRequest
  <2>4. TablesTyped'
    BY <1>9, <1>a, <2>0 DEF AwaitAnswer, TablesTyped
  <2> QED BY <2>3, <2>4
<1>10. CASE QueryReactions(c)
  <2> DEFINE r == [reader[c] EXCEPT !.at = "set", !.answer = Queried(reader[c].path)]
  <2>0. reader[c].path \in Paths /\ Queried(reader[c].path) \in Counted
    BY <1>10, <1>a, QueriedType DEF QueryReactions, Sound, Typed
  <2>1. r \in ReactionRequest /\ Sound(r)
    BY <1>10, <1>a, <2>0 DEF QueryReactions, Sound
  <2>2. reader' = [reader EXCEPT ![c] = r]
    BY <1>10, <1>a DEF QueryReactions
  <2> HIDE DEF r
  <2>3. ReaderTyped'
    BY <1>t, <2>1, <2>2, OneRequest
  <2>4. TablesTyped'
    BY <1>10, <1>a, <2>0 DEF QueryReactions, TablesTyped
  <2> QED BY <2>3, <2>4
<1>11. CASE SetAnswer(c)
  <2> DEFINE r == [reader[c] EXCEPT !.at = "end"]
  <2>0. reader[c].path \in Paths /\ reader[c].answer \in Counted
    BY <1>11, <1>a DEF SetAnswer, Sound
  <2>1. r \in ReactionRequest /\ Sound(r)
    BY <1>11, <1>a, <2>0 DEF SetAnswer, Sound
  <2>2. reader' = [reader EXCEPT ![c] = r]
    BY <1>11, <1>a DEF SetAnswer
  <2> HIDE DEF r
  <2>3. ReaderTyped'
    BY <1>t, <2>1, <2>2, OneRequest
  <2>4. TablesTyped'
    BY <1>11, <1>a, <2>0 DEF SetAnswer, TablesTyped
  <2> QED BY <2>3, <2>4
<1>12. CASE EndCall(c)
  <2> DEFINE served(r) == [reader[r] EXCEPT !.at = "answered",
                             !.answer = reader[c].answer, !.late = FALSE]
  <2>1. reader[c].path \in Paths /\ reader[c].answer \in Counted
    BY <1>12, <1>a DEF EndCall, Sound
  <2>2. TablesTyped'
    BY <1>12, <1>a, <2>1 DEF EndCall, Ended, Forgotten, TablesTyped
  <2>3. ASSUME NEW r \in Clients, reader[r].at # "idle"
        PROVE  served(r) \in ReactionRequest /\ Sound(served(r))
    BY <1>a, <2>1, <2>3 DEF ReaderTyped, Sound
  <2>4. ASSUME NEW r \in Clients
        PROVE  reader'[r] \in {reader[r], served(r)}
               /\ (reader'[r] # reader[r] => reader[r].at # "idle")
    BY <1>12 DEF EndCall
  <2>5. reader' = [r \in Clients |-> reader'[r]]
    BY <1>12 DEF EndCall
  <2> HIDE DEF served
  <2>6. ReaderTyped'
    BY <1>a, <2>3, <2>4, <2>5 DEF ReaderTyped
  <2> QED BY <2>2, <2>6
<1>13. CASE ReturnReactions(c)
  <2> DEFINE r == NoRequest
  <2>1. r \in ReactionRequest /\ Sound(r)
    BY <1>13, <1>a DEF ReturnReactions, Sound, NoRequest
  <2>2. reader' = [reader EXCEPT ![c] = r]
    BY <1>13, <1>a DEF ReturnReactions
  <2> HIDE DEF r
  <2>3. ReaderTyped'
    BY <1>t, <2>1, <2>2, OneRequest
  <2>4. TablesTyped'
    BY <1>13, <1>a DEF ReturnReactions, TablesTyped
  <2> QED BY <2>3, <2>4
<1> QED BY <1>1, <1>2, <1>3, <1>4, <1>5, <1>6, <1>7, <1>8, <1>9, <1>10, <1>11,
           <1>12, <1>13 DEF ReactionStep

LEMMA VisitStepTyped ==
  ASSUME Typed, NEW c \in Clients, VisitStep(c),
         UNCHANGED <<rows, gone, reactionVars, write, writes, skipped>>
  PROVE  Typed'
BY PageStepTypes DEF Typed, TypeOK, Known, ReactionsTypeOK, reactionVars, skipped

LEMMA ReactionStepTyped ==
  ASSUME Typed, NEW c \in Clients, ReactionStep(c),
         UNCHANGED <<rows, gone, pageVars, write, writes, skipped>>
  PROVE  Typed'
<1>1. ReaderTyped' /\ TablesTyped'
  BY ReactionStepTypes
<1>2. ReactionsTypeOK' /\ \A r \in Clients :
        reader'[r].at # "idle" => reader'[r].path \in Paths
  BY <1>1 DEF ReactionsTypeOK, ReaderTyped, TablesTyped, Sound
<1> QED BY <1>2 DEF Typed, TypeOK, Known, PageTypeOK, pageVars, skipped

\* A write that is committed changes nothing but rows, and reactions with them.
LEMMA CommitTyped ==
  ASSUME Typed, ReadsAssumption, NEW c \in Clients, NEW at \in {"reload", "purge"},
         NEW old \in Paths, NEW path \in Paths,
         NEW drops \in BOOLEAN, NEW locked \in BOOLEAN,
         Commit(c, at, old, path, drops, locked)
  PROVE  /\ write' \in [Clients -> Operation] /\ writes' \in 0 .. MaxWrites
         /\ \A w \in Clients : write'[w].at # "idle" =>
              write'[w].path \in Paths /\ write'[w].old \in Paths
         /\ PageTypeOK' /\ UNCHANGED pageVars
         /\ unpurged' \subseteq Paths /\ undropped' \subseteq Paths
<1> DEFINE o == [at |-> at, old |-> old, path |-> path, drops |-> drops, locked |-> locked]
<1>1. o \in Operation /\ o.path = path /\ o.old = old
  BY DEF Operation
<1>2. write' = [write EXCEPT ![c] = o]
  BY DEF Commit
<1> HIDE DEF o
<1>3. /\ write' \in [Clients -> Operation]
      /\ \A w \in Clients : write'[w].at # "idle" =>
           write'[w].path \in Paths /\ write'[w].old \in Paths
  BY <1>1, <1>2 DEF Typed, TypeOK, Known
<1>4. writes' \in 0 .. MaxWrites /\ unpurged' \subseteq Paths /\ undropped' \subseteq Paths
  BY DEF Commit, Typed, TypeOK, ReadsAssumption, skipped
<1> QED BY <1>3, <1>4 DEF Commit, Typed, TypeOK, PageTypeOK, pageVars

LEMMA FreedTyped ==
  ASSUME Typed, NEW path, reader' = Freed(path)
  PROVE  /\ reader' \in [Clients -> ReactionRequest]
         /\ \A r \in Clients : Sound(reader[r])' /\ reader'[r].path = reader[r].path
              /\ reader'[r].at = reader[r].at
              /\ reader'[r].answer = reader[r].answer
              /\ reader'[r].late = reader[r].late
              /\ reader'[r].call = reader[r].call
<1>1. ReaderTyped
  BY ReactionsSplit DEF Typed, TypeOK, Known
<1> DEFINE e(r) == [reader[r] EXCEPT !.mine = IF @ = None THEN None ELSE 0,
                                     !.least = 0]
<1>2. ASSUME NEW r \in Clients
      PROVE  /\ e(r) \in ReactionRequest /\ Sound(e(r))
             /\ e(r).path = reader[r].path /\ e(r).at = reader[r].at
             /\ e(r).answer = reader[r].answer /\ e(r).late = reader[r].late
             /\ e(r).call = reader[r].call
  BY <1>1 DEF ReaderTyped, Sound, ReactionRequest
<1>3. \A r \in Clients : reader'[r] \in {e(r), reader[r]}
  BY DEF Freed
<1>4. reader' = [r \in Clients |-> reader'[r]]
  BY DEF Freed
<1> HIDE DEF e
<1> QED BY <1>1, <1>2, <1>3, <1>4 DEF ReaderTyped, Sound

LEMMA TypedStep ==
  ASSUME ReadsAssumption, Typed, [Next]_vars
  PROVE  Typed'
<1>1. ASSUME NEW c \in Clients, NEW path \in Paths, NEW row \in Row,
             SavePost(c, path, row)
      PROVE  Typed'
  <2>1. Commit(c, "reload", path, path, TRUE, FALSE)
    BY <1>1 DEF SavePost
  <2>2. rows' \in [Paths -> Row \cup {None}] /\ UNCHANGED <<gone, reactionVars>>
    BY <1>1 DEF SavePost, Typed, TypeOK
  <2> QED BY <2>1, <2>2, CommitTyped
      DEF Typed, TypeOK, Known, ReactionsTypeOK, reactionVars, pageVars
<1>m. ASSUME NEW c \in Clients, NEW old \in Paths, NEW path \in Paths,
             NEW row \in Row, MovePost(c, old, path, row)
      PROVE  Typed'
  <2>1. Commit(c, "reload", old, path, TRUE, FALSE) /\ reader' = Freed(old)
    BY <1>m DEF MovePost
  <2>2. rows' \in [Paths -> Row \cup {None}] /\ gone' \subseteq Paths
    BY <1>m DEF MovePost, Typed, TypeOK
  <2>3. /\ counts' \in [Paths -> Nat] /\ forgotten' \in [Paths -> Nat]
        /\ UNCHANGED <<answers, answerLate, answerCalls>>
    BY <1>m DEF MovePost, Typed, TypeOK, ReactionsTypeOK
  <2>4. ReactionsTypeOK'
    BY <2>1, <2>3, FreedTyped DEF Typed, TypeOK, ReactionsTypeOK, Sound
  <2>5. \A r \in Clients : reader'[r].at # "idle" => reader'[r].path \in Paths
    BY <2>1, FreedTyped DEF Sound
  <2> QED BY <2>1, <2>2, <2>4, <2>5, CommitTyped DEF Typed, TypeOK, Known, pageVars
<1>2. ASSUME NEW c \in Clients, NEW path \in Paths, MarkDeleted(c, path)
      PROVE  Typed'
  <2>1. rows' \in [Paths -> Row \cup {None}]
    BY <1>2 DEF MarkDeleted, Typed, TypeOK, Exists, Row
  <2> QED BY <1>2, <2>1, CommitTyped
      DEF MarkDeleted, Typed, TypeOK, Known, ReactionsTypeOK, reactionVars, pageVars
<1>3. ASSUME NEW c \in Clients, NEW path \in Paths, RemovePost(c, path)
      PROVE  Typed'
  <2>0. reader' = Freed(path)
    BY <1>3 DEF RemovePost
  <2>1. ReactionsTypeOK'
    BY <1>3, <2>0, FreedTyped DEF RemovePost, Typed, TypeOK, ReactionsTypeOK, Sound
  <2>2. \A r \in Clients : reader'[r].at # "idle" => reader'[r].path \in Paths
    BY <2>0, FreedTyped DEF Sound
  <2>3. rows' \in [Paths -> Row \cup {None}] /\ gone' \subseteq Paths
    BY <1>3 DEF RemovePost, Typed, TypeOK
  <2>4. Commit(c, "purge", path, path, TRUE, TRUE)
    BY <1>3 DEF RemovePost
  <2> QED BY <2>1, <2>2, <2>3, <2>4, CommitTyped
      DEF Typed, TypeOK, Known, pageVars
<1>4. ASSUME NEW c \in Clients, NEW path \in Paths, UndeletePost(c, path)
      PROVE  Typed'
  <2>1. rows' \in [Paths -> Row \cup {None}]
    BY <1>4 DEF UndeletePost, Typed, TypeOK, Exists, Row
  <2> QED BY <1>4, <2>1, CommitTyped
      DEF UndeletePost, Typed, TypeOK, Known, ReactionsTypeOK, reactionVars, pageVars
<1>5. ASSUME NEW c \in Clients, BeginVisit(c) PROVE Typed'
  <2>1. PICK path \in Paths : Route(c, path)
    BY <1>5, ReadsAssumption DEF BeginVisit, ReadsAssumption
  <2>2. Handler(path) \in {"post", "gone", "notFound"}
    BY HandlerType
  <2>3. UNCHANGED <<rows, gone, reactionVars, write, writes, skipped>>
    BY <1>5 DEF BeginVisit
  <2> DEFINE r == [NoVisit EXCEPT !.at = "routed", !.path = path,
                                  !.handler = Handler(path)]
  <2>4. r \in PageRequest /\ r.at = "routed" /\ r.path \in Paths
    BY <2>2 DEF NoVisit, PageRequest
  <2>5. visit' = [visit EXCEPT ![c] = r] /\ UNCHANGED <<pages, pageLate, pageCalls>>
    BY <2>1 DEF Route
  <2> HIDE DEF r
  <2> QED BY <2>3, <2>4, <2>5
      DEF Typed, TypeOK, Known, PageTypeOK, ReactionsTypeOK, reactionVars, skipped
<1>6. ASSUME NEW c \in Clients, NEW path \in Paths, NEW at \in {"check", "insert"},
             reader' = [reader EXCEPT ![c].at = at, ![c].path = path],
             UNCHANGED <<counts, answers, answerLate, answerCalls, forgotten>>,
             UNCHANGED <<rows, gone, pageVars, write, skipped>>, writes' \in 0 .. MaxWrites
      PROVE  Typed'
  <2> DEFINE r == [reader[c] EXCEPT !.at = at, !.path = path]
  <2>1. ReaderTyped /\ TablesTyped
    BY ReactionsSplit DEF Typed, TypeOK, Known
  <2>2. r \in ReactionRequest /\ Sound(r)
    BY <2>1 DEF ReaderTyped, Sound, ReactionRequest
  <2>3. reader' = [reader EXCEPT ![c] = r]
    BY <1>6, <2>1 DEF ReaderTyped
  <2> HIDE DEF r
  <2>4. ReaderTyped' /\ TablesTyped'
    BY <1>6, <2>1, <2>2, <2>3, OneRequest DEF TablesTyped
  <2>5. ReactionsTypeOK' /\ \A v \in Clients :
          reader'[v].at # "idle" => reader'[v].path \in Paths
    BY <2>4 DEF ReactionsTypeOK, ReaderTyped, TablesTyped, Sound
  <2> QED BY <1>6, <2>5 DEF Typed, TypeOK, Known, PageTypeOK, pageVars, skipped
<1>7. ASSUME NEW c \in Clients, BeginReading(c) PROVE Typed'
  BY <1>7, <1>6, ReadsAssumption DEF BeginReading, GetReactions, Typed, TypeOK, ReadsAssumption
<1>8. ASSUME NEW c \in Clients, BeginReaction(c) PROVE Typed'
  <2>1. writes' \in 0 .. MaxWrites
    BY <1>8 DEF BeginReaction, Typed, TypeOK, ReadsAssumption
  <2> QED BY <1>8, <1>6, <2>1, ReadsAssumption DEF BeginReaction, PostReaction, ReadsAssumption
<1>9. ASSUME NEW c \in Clients, Purge(c) PROVE Typed'
  <2>1. /\ visit' \in [Clients -> PageRequest]
        /\ \A v \in Clients : /\ visit'[v].at = visit[v].at
                              /\ visit'[v].path = visit[v].path
                              /\ visit'[v].page = visit[v].page
    BY <1>9, ZenonT(60) DEF Purge, PurgeCache, Typed, TypeOK, PageTypeOK, PageRequest, VisitAt
  <2>2. PageTypeOK'
    BY <1>9, <2>1 DEF Purge, PurgeCache, Typed, TypeOK, PageTypeOK
  <2>3. /\ write' \in [Clients -> Operation]
        /\ \A w \in Clients : write'[w].at # "idle" =>
             write'[w].path \in Paths /\ write'[w].old \in Paths
        /\ unpurged' \subseteq Paths /\ UNCHANGED undropped
    BY <1>9 DEF Purge, NoWrite, Typed, TypeOK, Known, Operation
  <2> QED BY <1>9, <2>1, <2>2, <2>3
      DEF Purge, Typed, TypeOK, Known, ReactionsTypeOK, reactionVars
<1>10. ASSUME NEW c \in Clients, DropReactions(c) PROVE Typed'
  <2>1. ReaderTyped /\ TablesTyped /\ write[c].path \in Paths
    BY <1>10, ReactionsSplit DEF DropReactions, Typed, TypeOK, Known
  <2>2. ReaderTyped' /\ TablesTyped'
    BY <1>10, <2>1, LateReadersTyped
    DEF DropReactions, DropAnswer, ReaderTyped, TablesTyped
  <2>3. ReactionsTypeOK' /\ \A v \in Clients :
          reader'[v].at # "idle" => reader'[v].path \in Paths
    BY <2>2 DEF ReactionsTypeOK, ReaderTyped, TablesTyped, Sound
  <2>4. /\ write' \in [Clients -> Operation]
        /\ \A w \in Clients : write'[w].at # "idle" =>
             write'[w].path \in Paths /\ write'[w].old \in Paths
        /\ undropped' \subseteq Paths /\ UNCHANGED unpurged
    BY <1>10 DEF DropReactions, NoWrite, Typed, TypeOK, Known, Operation
  <2> QED BY <1>10, <2>3, <2>4
      DEF DropReactions, Typed, TypeOK, Known, PageTypeOK, pageVars
<1>r. ASSUME NEW c \in Clients, Reload(c) \/ ReloadMisses(c) \/ ReloadFails(c)
      PROVE  Typed'
  <2>1. /\ write[c].path \in Paths /\ write[c].old \in Paths /\ write[c] \in Operation
        /\ UNCHANGED <<rows, gone, pageVars, reactionVars, writes>>
    BY <1>r DEF Reload, ReloadMisses, ReloadFails, Typed, TypeOK, Known
  <2>2. \/ write' = [write EXCEPT ![c] = NoWrite]
        \/ write' = [write EXCEPT ![c] = [write[c] EXCEPT !.at = "purge"]]
    BY <1>r, <2>1 DEF Reload, ReloadMisses, ReloadFails, Operation
  <2>3. /\ NoWrite \in Operation /\ NoWrite.at = "idle"
        /\ [write[c] EXCEPT !.at = "purge"] \in Operation
        /\ [write[c] EXCEPT !.at = "purge"].path = write[c].path
        /\ [write[c] EXCEPT !.at = "purge"].old = write[c].old
    BY <2>1 DEF NoWrite, Operation
  <2>4. /\ write' \in [Clients -> Operation]
        /\ \A w \in Clients : write'[w].at # "idle" =>
             write'[w].path \in Paths /\ write'[w].old \in Paths
    BY <2>1, <2>2, <2>3 DEF Typed, TypeOK, Known
  <2>5. unpurged' \subseteq Paths /\ undropped' \subseteq Paths
    BY <1>r, <2>1 DEF Reload, ReloadMisses, ReloadFails, Typed, TypeOK, skipped
  <2> QED BY <2>1, <2>4, <2>5
      DEF Typed, TypeOK, Known, PageTypeOK, ReactionsTypeOK, pageVars, reactionVars
<1>11. ASSUME NEW path \in Paths, PageExpires(path) PROVE Typed'
  BY <1>11 DEF PageExpires, ExpirePage, Typed, TypeOK, Known, PageTypeOK,
               ReactionsTypeOK, reactionVars, skipped
<1>12. ASSUME NEW path \in Paths, AnswerExpires(path) PROVE Typed'
  BY <1>12 DEF AnswerExpires, ExpireAnswer, DropAnswer, Typed, TypeOK, Known,
               PageTypeOK, ReactionsTypeOK, pageVars, skipped
<1>13. CASE UNCHANGED vars
  BY <1>13 DEF vars, Typed, TypeOK, Known, PageTypeOK, ReactionsTypeOK, pageVars,
               reactionVars, skipped
<1>14. ASSUME NEW c \in Clients, Continue(c) PROVE Typed'
  BY <1>14, <1>9, <1>10, <1>r, VisitStepTyped, ReactionStepTyped DEF Continue
<1>15. ASSUME NEW c \in Clients, BeginWrite(c) PROVE Typed'
  BY <1>15, <1>1, <1>m, <1>2, <1>3, <1>4 DEF BeginWrite
<1> QED BY <1>5, <1>7, <1>8, <1>11, <1>12, <1>13, <1>14, <1>15 DEF Next

LEMMA TypedInit ==
  ASSUME ReadsAssumption, Init
  PROVE  Typed
BY DEF Init, PageInit, ReactionsInit, Typed, TypeOK, Known, PageTypeOK,
       ReactionsTypeOK, NoVisit, NoRequest, NoWrite, PageRequest,
       ReactionRequest, Operation, ReadsAssumption

\* Every reachable state is well typed.
THEOREM TypeCorrect == Spec => []TypeOK
<1>1. Typed /\ [Next]_vars => Typed'
  BY ReadsAssumption, TypedStep
<1>2. Init => Typed
  BY ReadsAssumption, TypedInit
<1>3. Typed => TypeOK
  BY DEF Typed
<1> QED BY <1>1, <1>2, <1>3, PTL DEF Spec

-----------------------------------------------------------------------------
(***************************************************************************)
(* Pages.                                                                  *)
(***************************************************************************)
\* The write has still to purge the cache on behalf of the path.  Of a post
\* that is not there any more, whoever took it away has to.
Due(c, path) ==
  \/ write[c].at \in {"reload", "purge"} /\ path = write[c].old
     /\ write[c].old # write[c].path
  \/ write[c].at = "purge" /\ path = write[c].path
  \/ write[c].at = "reload" /\ path = write[c].path /\ Exists(path)

Settled(path) == path \notin unpurged /\ \A c \in Clients : ~Due(c, path)

Current(path) == Rendered(Handler(path), path)

\* While no purge is due, the route of a request that no purge has overtaken
\* still holds, and so does the page it has rendered.
VisitsCurrent ==
  \A c \in Clients :
    ~visit[c].late /\ Settled(visit[c].path) =>
      /\ visit[c].at \in {"routed", "lookup", "handle", "save"} =>
           visit[c].handler = Handler(visit[c].path)
      /\ visit[c].at = "save" => visit[c].page = Current(visit[c].path)

PagesCurrent ==
  \A path \in Paths :
    pages[path] # None /\ ~pageLate[path] /\ Settled(path) =>
      pages[path] = Current(path)

PagesInv == VisitsCurrent /\ PagesCurrent

LEMMA SameRows ==
  ASSUME UNCHANGED <<rows, gone>>, NEW path
  PROVE  Handler(path)' = Handler(path) /\ Current(path)' = Current(path)
BY DEF Handler, Current, Rendered, Exists, PostPage, GonePage, NotFoundPage

\* Steps of nobody who handles pages.
LEMMA PagesUntouched ==
  ASSUME Typed, PagesInv, UNCHANGED <<rows, gone, pageVars>>,
         \A path \in Paths : Settled(path)' => Settled(path)
  PROVE  PagesInv'
<1>1. ASSUME NEW c \in Clients, ~visit'[c].late, Settled(visit[c].path)',
             visit'[c].at \in {"routed", "lookup", "handle", "save"}
      PROVE  /\ visit'[c].handler = Handler(visit[c].path)'
             /\ visit'[c].at = "save" => visit'[c].page = Current(visit[c].path)'
  <2>1. visit'[c] = visit[c] /\ visit[c].path \in Paths
    BY <1>1 DEF pageVars, Typed, Known
  <2>2. PICK path \in Paths : path = visit[c].path
    BY <2>1
  <2>3. Settled(path)
    BY <1>1, <2>1, <2>2 DEF Settled
  <2>4. /\ visit[c].handler = Handler(path)
        /\ visit[c].at = "save" => visit[c].page = Current(path)
    BY <1>1, <2>1, <2>2, <2>3 DEF PagesInv, VisitsCurrent
  <2>5. Handler(path)' = Handler(path) /\ Current(path)' = Current(path)
    BY SameRows
  <2>6. Handler(visit[c].path)' = Handler(path)' /\ Current(visit[c].path)' = Current(path)'
    BY <2>1, <2>2 DEF Handler, Current, Rendered, Exists, PostPage
  <2> QED BY <2>1, <2>4, <2>5, <2>6
<1>2. VisitsCurrent'
  BY <1>1 DEF VisitsCurrent
<1>3. PagesCurrent'
  BY SameRows DEF PagesInv, PagesCurrent, pageVars
<1> QED BY <1>2, <1>3 DEF PagesInv

\* A commit: only paths that it touches change, and they have a purge to come.
LEMMA CommitPages ==
  ASSUME Typed, PagesInv, NEW c \in Clients, NEW at \in {"reload", "purge"},
         NEW old \in Paths, NEW path \in Paths, NEW drops, NEW locked,
         Commit(c, at, old, path, drops, locked),
         \A p \in Paths \ {old, path} :
           rows'[p] = rows[p] /\ (p \in gone' <=> p \in gone),
         at = "reload" => rows'[path] # None
  PROVE  PagesInv'
<1>1. /\ write'[c].at = at /\ write'[c].old = old /\ write'[c].path = path
      /\ write[c].at = "idle" /\ \A w \in Clients \ {c} : write'[w] = write[w]
      /\ UNCHANGED <<pages, pageLate, visit, unpurged>>
  BY DEF Commit, Idle, NoWrite, Typed, TypeOK, pageVars, skipped
<1>2. ~Settled(old)' /\ ~Settled(path)'
  BY <1>1 DEF Settled, Due, Exists
<1>3. ASSUME NEW p \in Paths \ {old, path}
      PROVE  /\ Settled(p)' => Settled(p)
             /\ Handler(p)' = Handler(p) /\ Current(p)' = Current(p)
  <2>1. rows'[p] = rows[p] /\ (p \in gone' <=> p \in gone)
    OBVIOUS
  <2>2. Handler(p)' = Handler(p) /\ Current(p)' = Current(p)
    BY <2>1 DEF Handler, Current, Rendered, Exists, PostPage, GonePage, NotFoundPage
  <2>3. \A w \in Clients : Due(w, p) => Due(w, p)'
    BY <1>1, <2>1 DEF Due, Exists
  <2> QED BY <1>1, <2>2, <2>3 DEF Settled
<1>4. ASSUME NEW v \in Clients, Settled(visit[v].path)', ~visit'[v].late,
             visit'[v].at \in {"routed", "lookup", "handle", "save"}
      PROVE  /\ visit'[v].handler = Handler(visit[v].path)'
             /\ visit'[v].at = "save" => visit'[v].page = Current(visit[v].path)'
  <2>1. PICK p \in Paths : p = visit[v].path /\ p = visit'[v].path
    BY <1>1, <1>4 DEF Typed, Known
  <2>2. Settled(p)' /\ p \notin {old, path}
    BY <1>2, <1>4, <2>1 DEF Settled, Due, Exists
  <2>3. /\ visit[v].handler = Handler(p)
        /\ visit[v].at = "save" => visit[v].page = Current(p)
    BY <1>1, <1>3, <1>4, <2>1, <2>2 DEF PagesInv, VisitsCurrent
  <2>4. Handler(visit[v].path)' = Handler(p)' /\ Current(visit[v].path)' = Current(p)'
    BY <2>1 DEF Handler, Current, Rendered, Exists, PostPage
  <2> QED BY <1>1, <1>3, <2>2, <2>3, <2>4
<1>5. VisitsCurrent'
  BY <1>4 DEF VisitsCurrent
<1>6. PagesCurrent'
  BY <1>1, <1>2, <1>3 DEF PagesInv, PagesCurrent
<1> QED BY <1>5, <1>6 DEF PagesInv

LEMMA VisitStepPages ==
  ASSUME Typed, PagesInv, NEW c \in Clients, VisitStep(c),
         UNCHANGED <<rows, gone, write, unpurged>>
  PROVE  PagesInv'
<1> USE DEF VisitAt
<1>q. \A path : Settled(path)' <=> Settled(path)
  BY DEF Settled, Due, Exists
<1>s. /\ visit \in [Clients -> PageRequest] /\ pages \in [Paths -> Page \cup {None}]
      /\ pageLate \in [Paths -> BOOLEAN]
      /\ visit[c].at # "idle" => visit[c].path \in Paths
  BY DEF Typed, TypeOK, Known, PageTypeOK
<1>r. \A path : Handler(path)' = Handler(path) /\ Current(path)' = Current(path)
  BY SameRows
<1> SUFFICES /\ \A v \in Clients : ~visit'[v].late /\ Settled(visit'[v].path) =>
                  /\ visit'[v].at \in {"routed", "lookup", "handle", "save"} =>
                       visit'[v].handler = Handler(visit'[v].path)
                  /\ visit'[v].at = "save" =>
                       visit'[v].page = Current(visit'[v].path)
             /\ \A path \in Paths :
                  pages'[path] # None /\ ~pageLate'[path] /\ Settled(path) =>
                    pages'[path] = Current(path)
  <2>1. \A v \in Clients :
          /\ Settled(visit[v].path)' <=> Settled(visit'[v].path)
          /\ Handler(visit[v].path)' = Handler(visit'[v].path)
          /\ Current(visit[v].path)' = Current(visit'[v].path)
    BY DEF Settled, Due, Exists, Handler, Current, Rendered, PostPage
  <2> QED BY <1>q, <1>r, <2>1 DEF PagesInv, VisitsCurrent, PagesCurrent
<1> USE DEF PagesInv, VisitsCurrent, PagesCurrent
<1>1. CASE LeadPage(c)
  BY <1>1, <1>s DEF LeadPage, PageRequest
<1>2. CASE AwaitPage(c)
  BY <1>2, <1>s DEF AwaitPage, PageRequest
<1>3. CASE PageHit(c)
  BY <1>3, <1>s DEF PageHit, PageRequest
<1>4. CASE PageMiss(c)
  BY <1>4, <1>s DEF PageMiss, PageRequest
<1>5. CASE Handle(c)
  <2>1. ~visit[c].late /\ Settled(visit[c].path) =>
          visit[c].handler = Handler(visit[c].path)
    BY <1>5 DEF Handle
  <2>2. ~visit[c].late /\ Settled(visit[c].path) =>
          Rendered(visit[c].handler, visit[c].path) = Current(visit[c].path)
    BY <2>1 DEF Current
  <2> QED BY <1>5, <1>s, <2>1, <2>2 DEF Handle, PageRequest
<1>6. CASE SavePage(c)
  BY <1>6, <1>s DEF SavePage, PageRequest
<1>7. CASE ServePage(c)
  BY <1>7, <1>s DEF ServePage, NoVisit
<1> QED BY <1>1, <1>2, <1>3, <1>4, <1>5, <1>6, <1>7 DEF VisitStep

LEMMA PagesStep ==
  ASSUME Typed, PagesInv, [Next]_vars
  PROVE  PagesInv'
<1>s. /\ write \in [Clients -> Operation] /\ rows \in [Paths -> Row \cup {None}]
      /\ visit \in [Clients -> PageRequest]
      /\ \A w \in Clients : write[w].at # "idle" => write[w].path \in Paths
  BY DEF Typed, TypeOK, PageTypeOK, Known
<1>1. ASSUME NEW c \in Clients, NEW path \in Paths, NEW row \in Row,
             SavePost(c, path, row)
      PROVE  PagesInv'
  BY <1>1, <1>s, CommitPages, RowsAssumption DEF SavePost
<1>2. ASSUME NEW c \in Clients, NEW old \in Paths, NEW path \in Paths,
             NEW row \in Row, MovePost(c, old, path, row)
      PROVE  PagesInv'
  <2>1. /\ Commit(c, "reload", old, path, TRUE, FALSE) /\ gone' = gone
        /\ old # path /\ rows' = [rows EXCEPT ![old] = None, ![path] = row]
    BY <1>2 DEF MovePost
  <2>2. rows'[path] # None /\ \A p \in Paths \ {old, path} : rows'[p] = rows[p]
    BY <1>s, <2>1, RowsAssumption
  <2> QED BY <2>1, <2>2, CommitPages
<1>3. ASSUME NEW c \in Clients, NEW path \in Paths,
             MarkDeleted(c, path) \/ RemovePost(c, path) \/ UndeletePost(c, path)
      PROVE  PagesInv'
  <2>1. PICK drops \in BOOLEAN : Commit(c, "purge", path, path, drops, TRUE)
    BY <1>3 DEF MarkDeleted, RemovePost, UndeletePost
  <2>2. \A p \in Paths \ {path} : rows'[p] = rows[p] /\ (p \in gone' <=> p \in gone)
    BY <1>3, <1>s DEF MarkDeleted, RemovePost, UndeletePost
  <2> QED BY <2>1, <2>2, CommitPages
<1>4. ASSUME NEW c \in Clients, BeginVisit(c) PROVE PagesInv'
  <2>1. PICK path \in Paths : Route(c, path)
    BY <1>4, ReadsAssumption DEF BeginVisit, ReadsAssumption
  <2>2. UNCHANGED <<rows, gone, write, pages, pageLate, unpurged>>
    BY <1>4, <2>1 DEF BeginVisit, Route, skipped
  <2>3. \A p : /\ Handler(p)' = Handler(p) /\ Current(p)' = Current(p)
               /\ Settled(p)' <=> Settled(p)
    BY <2>2, SameRows DEF Settled, Due, Exists
  <2>4. /\ visit'[c].at = "routed" /\ visit'[c].path = path
        /\ visit'[c].handler = Handler(path)
        /\ \A v \in Clients \ {c} : visit'[v] = visit[v]
    BY <2>1, <1>s DEF Route, NoVisit
  <2>5. \A v \in Clients :
          /\ Settled(visit[v].path)' <=> Settled(visit'[v].path)
          /\ Handler(visit[v].path)' = Handler(visit'[v].path)
          /\ Current(visit[v].path)' = Current(visit'[v].path)
    BY <2>2 DEF Settled, Due, Exists, Handler, Current, Rendered, PostPage
  <2> QED BY <2>2, <2>3, <2>4, <2>5 DEF PagesInv, VisitsCurrent, PagesCurrent
\* Steps of nobody who writes or handles pages.
<1>5. ASSUME UNCHANGED <<rows, gone, pageVars, write, unpurged>> PROVE PagesInv'
  <2>1. \A p \in Paths : Settled(p)' => Settled(p)
    BY <1>5 DEF Settled, Due, Exists
  <2> QED BY <1>5, <2>1, PagesUntouched
<1>6. ASSUME NEW c \in Clients, BeginReading(c) \/ BeginReaction(c) PROVE PagesInv'
  BY <1>5, <1>6 DEF BeginReading, BeginReaction, skipped
<1>7. ASSUME NEW c \in Clients, VisitStep(c), UNCHANGED <<rows, gone, write, unpurged>>
      PROVE  PagesInv'
  BY <1>7, VisitStepPages
<1>8. ASSUME NEW c \in Clients, ReactionStep(c),
             UNCHANGED <<rows, gone, pageVars, write, unpurged>>
      PROVE  PagesInv'
  BY <1>5, <1>8
<1>9. ASSUME NEW c \in Clients, Reload(c) \/ ReloadMisses(c) \/ ReloadFails(c)
      PROVE  PagesInv'
  <2>1. UNCHANGED <<rows, gone, pageVars>> /\ write[c].at = "reload"
        /\ \A w \in Clients \ {c} : write'[w] = write[w]
    BY <1>9, <1>s DEF Reload, ReloadMisses, ReloadFails
  <2>2. \A w \in Clients \ {c}, p \in Paths : Due(w, p) => Due(w, p)'
    BY <2>1 DEF Due, Exists
  <2>3. unpurged \subseteq unpurged'
    BY <1>9 DEF Reload, ReloadMisses, ReloadFails, skipped
  <2>4. ASSUME NEW p \in Paths, Due(c, p) PROVE Due(c, p)' \/ p \in unpurged'
    <3>1. CASE Reload(c)
      BY <2>1, <2>4, <3>1, <1>s DEF Reload, Due, Operation
    <3>2. CASE ReloadMisses(c)
      BY <2>1, <2>4, <3>2 DEF ReloadMisses, Due
    <3>3. CASE ReloadFails(c)
      BY <2>1, <2>4, <3>3 DEF ReloadFails, Due
    <3> QED BY <1>9, <3>1, <3>2, <3>3
  <2>5. \A p \in Paths : Settled(p)' => Settled(p)
    BY <2>2, <2>3, <2>4 DEF Settled
  <2> QED BY <2>1, <2>5, PagesUntouched
<1>10. ASSUME NEW c \in Clients, Purge(c) PROVE PagesInv'
  <2>1. \A path \in Paths : pages'[path] = None
    BY <1>10 DEF Purge, PurgeCache
  <2>2. \A v \in Clients : visit'[v].late = ~VisitAt(v, "idle")
                           /\ visit'[v].at = visit[v].at
    BY <1>10, <1>s DEF Purge, PurgeCache, VisitAt, PageRequest
  <2> QED BY <2>1, <2>2 DEF PagesInv, VisitsCurrent, PagesCurrent, VisitAt
<1>11. ASSUME NEW c \in Clients, DropReactions(c) PROVE PagesInv'
  <2>1. /\ UNCHANGED <<rows, gone, pageVars, unpurged>> /\ write[c].at = "drop"
        /\ \A w \in Clients \ {c} : write'[w] = write[w]
    BY <1>11, <1>s DEF DropReactions
  <2>2. \A w \in Clients, p \in Paths : Due(w, p) => Due(w, p)'
    BY <2>1 DEF Due, Exists
  <2>3. \A p \in Paths : Settled(p)' => Settled(p)
    BY <2>1, <2>2 DEF Settled
  <2> QED BY <2>1, <2>3, PagesUntouched
<1>12. ASSUME NEW path \in Paths, PageExpires(path) PROVE PagesInv'
  <2>1. UNCHANGED <<rows, gone, visit, write, unpurged>>
    BY <1>12 DEF PageExpires, ExpirePage, skipped
  <2>2. \A p : /\ Handler(p)' = Handler(p) /\ Current(p)' = Current(p)
               /\ Settled(p)' <=> Settled(p)
    BY <2>1, SameRows DEF Settled, Due, Exists
  <2>3. \A p \in Paths : pages'[p] = None \/ (pages'[p] = pages[p] /\ pageLate'[p] = pageLate[p])
    BY <1>12 DEF PageExpires, ExpirePage, Typed, TypeOK, PageTypeOK
  <2>4. \A v \in Clients :
          /\ Settled(visit[v].path)' <=> Settled(visit[v].path)
          /\ Handler(visit[v].path)' = Handler(visit[v].path)
          /\ Current(visit[v].path)' = Current(visit[v].path)
    BY <2>1 DEF Settled, Due, Exists, Handler, Current, Rendered, PostPage, NotFoundPage,
                GonePage
  <2> QED BY <2>1, <2>2, <2>3, <2>4 DEF PagesInv, VisitsCurrent, PagesCurrent
<1>13. ASSUME NEW path \in Paths, AnswerExpires(path) PROVE PagesInv'
  BY <1>5, <1>13 DEF AnswerExpires, skipped
<1>14. CASE UNCHANGED vars
  BY <1>5, <1>14 DEF vars, skipped
<1>15. ASSUME NEW c \in Clients, BeginWrite(c) PROVE PagesInv'
  BY <1>1, <1>2, <1>3, <1>15 DEF BeginWrite
<1>16. ASSUME NEW c \in Clients, Continue(c) PROVE PagesInv'
  BY <1>7, <1>8, <1>9, <1>10, <1>11, <1>16 DEF Continue, skipped
<1> QED BY <1>4, <1>6, <1>12, <1>13, <1>14, <1>15, <1>16 DEF Next

\* A stale page in the cache was saved for a request older than the last purge,
\* or a save that wrote its path left the purge out.
THEOREM PagesAreCurrent == Spec => []StalePageIsLate
<1>1. Typed /\ PagesInv /\ [Next]_vars => Typed' /\ PagesInv'
  BY ReadsAssumption, TypedStep, PagesStep
<1>2. Init => Typed /\ PagesInv
  BY ReadsAssumption, TypedInit
  DEF Init, PageInit, PagesInv, VisitsCurrent, PagesCurrent, NoVisit
<1>3. PagesInv => StalePageIsLate
  BY DEF PagesInv, PagesCurrent, StalePageIsLate, Settled, Due, Current
<1> QED BY <1>1, <1>2, <1>3, PTL DEF Spec

-----------------------------------------------------------------------------
(***************************************************************************)
(* Cached answers.                                                         *)
(***************************************************************************)

\* Somebody has still to drop the answer of the path.
Pending(path) ==
  \/ \E c \in Clients : reader[c].at = "drop" /\ reader[c].path = path
  \/ \E c \in Clients : write[c].drops /\ write[c].path = path

\* Of a path no post is at nobody reads the answer.
Covered(path) == Pending(path) \/ path \in undropped \/ ~Exists(path)

Fresh(answer, path) == answer = Queried(path) \/ Covered(path)

\* What a query has read since the last drop is current.
QueriesCurrent ==
  \A c \in Clients :
    reader[c].at = "set" /\ ~reader[c].late =>
      Fresh(reader[c].answer, reader[c].path)

AnswersCurrent ==
  \A path \in Paths :
    answers[path] # None /\ ~answerLate[path] => Fresh(answers[path], path)

AnswersInv == QueriesCurrent /\ AnswersCurrent

\* What is stored and what is queried stays; nothing that was pending is done.
LEMMA AnswersUntouched ==
  ASSUME AnswersInv, UNCHANGED <<answers, answerLate>>,
         \A c \in Clients : reader'[c].at = "set" /\ ~reader'[c].late =>
           \/ /\ reader[c].at = "set" /\ ~reader[c].late
              /\ reader'[c].answer = reader[c].answer
              /\ reader'[c].path = reader[c].path
           \/ Fresh(reader[c].answer, reader[c].path)',
         \A c \in Clients : reader[c].at = "set" => reader[c].path \in Paths,
         \A path \in Paths :
           (Queried(path)' = Queried(path) /\ (Covered(path) => Covered(path)'))
             \/ Covered(path)'
  PROVE  AnswersInv'
<1>1. ASSUME NEW c \in Clients, reader'[c].at = "set", ~reader'[c].late
      PROVE  Fresh(reader[c].answer, reader[c].path)'
  <2>1. CASE /\ reader[c].at = "set" /\ ~reader[c].late
             /\ reader'[c].answer = reader[c].answer
             /\ reader'[c].path = reader[c].path
    <3>1. PICK path \in Paths : path = reader[c].path
      BY <2>1
    <3>2. Fresh(reader[c].answer, path)
      BY <2>1, <3>1 DEF AnswersInv, QueriesCurrent
    <3>3. reader'[c].answer = Queried(path)' \/ Covered(path)'
      BY <2>1, <3>2 DEF Fresh
    <3> QED BY <2>1, <3>1, <3>3 DEF Fresh
  <2> QED BY <1>1, <2>1
<1>2. ASSUME NEW path \in Paths, answers'[path] # None, ~answerLate'[path]
      PROVE  Fresh(answers[path], path)'
  BY <1>2 DEF AnswersInv, AnswersCurrent, Fresh
<1> QED BY <1>1, <1>2 DEF AnswersInv, QueriesCurrent, AnswersCurrent

\* The answer of a path is dropped, and the queries of the path are late.
LEMMA AnswersDropped ==
  ASSUME AnswersInv, Typed, NEW path \in Paths, DropAnswer(path),
         \A c \in Clients : reader'[c].at = "set" /\ ~reader'[c].late =>
           /\ reader[c].at = "set" /\ ~reader[c].late
           /\ reader'[c].answer = reader[c].answer
           /\ reader'[c].path = reader[c].path /\ reader[c].path # path,
         \A p \in Paths \ {path} :
           Queried(p)' = Queried(p) /\ (Covered(p) => Covered(p)')
  PROVE  AnswersInv'
<1>1. ASSUME NEW c \in Clients, reader'[c].at = "set", ~reader'[c].late
      PROVE  Fresh(reader[c].answer, reader[c].path)'
  <2>1. PICK p \in Paths : p = reader[c].path
    BY <1>1 DEF Typed, Known
  <2>2. Fresh(reader[c].answer, p) /\ p # path
    BY <1>1, <2>1 DEF AnswersInv, QueriesCurrent
  <2>3. reader'[c].answer = Queried(p)' \/ Covered(p)'
    BY <1>1, <2>2 DEF Fresh
  <2> QED BY <1>1, <2>1, <2>3 DEF Fresh
<1>2. ASSUME NEW p \in Paths, answers'[p] # None, ~answerLate'[p]
      PROVE  Fresh(answers[p], p)'
  <2>1. p # path /\ answers'[p] = answers[p] /\ answerLate'[p] = answerLate[p]
    BY <1>2 DEF DropAnswer, Typed, TypeOK, ReactionsTypeOK
  <2>2. Fresh(answers[p], p)
    BY <1>2, <2>1 DEF AnswersInv, AnswersCurrent
  <2> QED BY <2>1, <2>2 DEF Fresh
<1> QED BY <1>1, <1>2 DEF AnswersInv, QueriesCurrent, AnswersCurrent

\* Reading of a row what a query of reactions reads of it.
LEMMA SameQuery ==
  ASSUME NEW path, counts'[path] = counts[path], Exists(path)' = Exists(path),
         Exists(path) => rows'[path].reactions = rows[path].reactions
  PROVE  Queried(path)' = Queried(path)
BY DEF Queried

LEMMA ReactionStepAnswers ==
  ASSUME Typed, AnswersInv, NEW c \in Clients, ReactionStep(c),
         UNCHANGED <<rows, write, undropped>>
  PROVE  AnswersInv'
<1> USE DEF ReaderAt, GoTo
<1>t. ReaderTyped /\ TablesTyped
  BY ReactionsSplit DEF Typed, TypeOK, Known
<1>s. /\ \A r \in Clients : reader[r].at # "idle" => reader[r].path \in Paths
      /\ reader \in [Clients -> ReactionRequest]
  BY <1>t DEF ReaderTyped, Sound
<1>e. \A path : Exists(path)' = Exists(path)
  BY DEF Exists
<1>q. counts' = counts => \A path : Queried(path)' = Queried(path)
  BY <1>e, SameQuery
<1>1. CASE InsertReaction(c)
  <2>1. PICK path \in Paths : path = reader[c].path
    BY <1>1, <1>s DEF InsertReaction
  <2>2. /\ reader'[c].at = "drop" /\ reader'[c].path = path
        /\ \A r \in Clients \ {c} : reader'[r] = reader[r]
        /\ reader[c].at = "insert"
        /\ UNCHANGED <<answers, answerLate>>
        /\ \A p \in Paths \ {path} : counts'[p] = counts[p]
    BY <1>1, <1>t, <1>s, <2>1 DEF InsertReaction, ReactionRequest, TablesTyped
  <2>3. Covered(path)'
    BY <2>2 DEF Covered, Pending
  <2>4. \A p \in Paths \ {path} : Queried(p)' = Queried(p)
    BY <2>2, <1>e, SameQuery
  <2>5. \A p \in Paths : Covered(p) => Covered(p)'
    BY <2>2 DEF Covered, Pending, Exists
  <2>6. \A p \in Paths :
          (Queried(p)' = Queried(p) /\ (Covered(p) => Covered(p)')) \/ Covered(p)'
    BY <2>3, <2>4, <2>5
  <2> QED BY <1>s, <2>2, <2>6, AnswersUntouched
<1>2. ASSUME UNCHANGED <<counts, answers, answerLate>>, reader[c].at # "drop",
             \A r \in Clients \ {c} : reader'[r] = reader[r],
             reader'[c].at # "set"
      PROVE  AnswersInv'
  <2>1. \A p \in Paths : Covered(p) => Covered(p)'
    BY <1>2 DEF Covered, Pending, Exists
  <2> QED BY <1>2, <1>s, <1>q, <2>1, AnswersUntouched
<1>3. CASE RefuseReaction(c)
  BY <1>2, <1>3, <1>s DEF RefuseReaction, ReactionRequest
<1>4. CASE DropOwn(c)
  <2>1. PICK path \in Paths : path = reader[c].path
    BY <1>4, <1>s DEF DropOwn
  <2>2. DropAnswer(path) /\ counts' = counts
    BY <1>4, <2>1 DEF DropOwn
  <2>3. \A r \in Clients \ {c} :
          /\ reader'[r].at = reader[r].at /\ reader'[r].path = reader[r].path
          /\ reader'[r].answer = reader[r].answer
          /\ reader'[r].late = (reader[r].late
                                 \/ (reader[r].path = path /\ reader[r].at = "set"))
    BY <1>4, <1>t, <2>1, LateReadersTyped DEF DropOwn
  <2>4. reader'[c].at = "forget" /\ reader[c].at = "drop"
    BY <1>4, <1>t, LateReadersTyped DEF DropOwn, ReactionRequest
  <2>5. \A p \in Paths \ {path} : Covered(p) => Covered(p)'
    BY <2>1, <2>3 DEF Covered, Pending, Exists
  <2> QED BY <2>2, <2>3, <2>4, <2>5, <1>q, AnswersDropped
<1>5. CASE ForgetCall(c)
  BY <1>2, <1>5, <1>s DEF ForgetCall, ReactionRequest, NoRequest
<1>6. CASE GetOwn(c)
  BY <1>2, <1>6, <1>s DEF GetOwn, ReactionRequest, NoRequest
<1>7. CASE AnswerHit(c)
  BY <1>2, <1>7, <1>s DEF AnswerHit, ReactionRequest
<1>8. CASE AnswerMiss(c)
  BY <1>2, <1>8, <1>s DEF AnswerMiss, ReactionRequest
<1>9. CASE LeadAnswer(c)
  BY <1>2, <1>9, <1>s DEF LeadAnswer, ReactionRequest
<1>10. CASE AwaitAnswer(c)
  BY <1>2, <1>10, <1>s DEF AwaitAnswer, ReactionRequest
<1>11. CASE QueryReactions(c)
  <2>1. /\ UNCHANGED <<counts, answers, answerLate>> /\ reader[c].at = "query"
        /\ \A r \in Clients \ {c} : reader'[r] = reader[r]
        /\ reader'[c].answer = Queried(reader[c].path)
        /\ reader'[c].path = reader[c].path /\ reader[c].path \in Paths
    BY <1>11, <1>s DEF QueryReactions, ReactionRequest
  <2>2. PICK path \in Paths : path = reader[c].path
    BY <2>1
  <2>3. reader'[c].answer = Queried(path)' /\ reader'[c].path = path
    BY <2>1, <2>2, <1>q
  <2>4. Fresh(reader[c].answer, reader[c].path)'
    BY <2>3 DEF Fresh
  <2>5. \A p \in Paths : Covered(p) => Covered(p)'
    BY <2>1 DEF Covered, Pending, Exists
  <2> QED BY <1>s, <1>q, <2>1, <2>4, <2>5, AnswersUntouched
<1>12. CASE SetAnswer(c)
  <2>1. PICK path \in Paths : path = reader[c].path
    BY <1>12, <1>s DEF SetAnswer
  <2>2. /\ counts' = counts /\ reader[c].at = "set" /\ reader'[c].at = "end"
        /\ \A r \in Clients \ {c} : reader'[r] = reader[r]
        /\ answers'[path] = reader[c].answer
        /\ answerLate'[path] = reader[c].late
        /\ \A p \in Paths \ {path} :
             answers'[p] = answers[p] /\ answerLate'[p] = answerLate[p]
    BY <1>12, <1>s, <1>t, <2>1 DEF SetAnswer, ReactionRequest, TablesTyped
  <2>3. \A p \in Paths : Queried(p)' = Queried(p) /\ (Covered(p) => Covered(p)')
    BY <2>2, <1>q DEF Covered, Pending, Exists
  <2>4. ASSUME NEW r \in Clients, reader'[r].at = "set", ~reader'[r].late
        PROVE  Fresh(reader[r].answer, reader[r].path)'
    <3>1. r # c /\ reader'[r] = reader[r]
      BY <2>2, <2>4
    <3>2. PICK p \in Paths : p = reader[r].path
      BY <2>4, <3>1, <1>s
    <3>3. Fresh(reader[r].answer, p)
      BY <2>4, <3>1, <3>2 DEF AnswersInv, QueriesCurrent
    <3>4. reader'[r].answer = Queried(p)' \/ Covered(p)'
      BY <2>3, <3>1, <3>3 DEF Fresh
    <3> QED BY <3>1, <3>2, <3>4 DEF Fresh
  <2>5. ASSUME NEW p \in Paths, answers'[p] # None, ~answerLate'[p]
        PROVE  Fresh(answers[p], p)'
    <3>1. CASE p = path
      <4>1. Fresh(reader[c].answer, path)
        BY <2>1, <2>2, <2>5, <3>1 DEF AnswersInv, QueriesCurrent
      <4> QED BY <2>2, <2>3, <3>1, <4>1 DEF Fresh
    <3>2. CASE p # path
      <4>1. Fresh(answers[p], p)
        BY <2>2, <2>5, <3>2 DEF AnswersInv, AnswersCurrent
      <4> QED BY <2>2, <2>3, <3>2, <4>1 DEF Fresh
    <3> QED BY <3>1, <3>2
  <2> QED BY <2>4, <2>5 DEF AnswersInv, QueriesCurrent, AnswersCurrent
<1>13. CASE EndCall(c)
  <2>1. /\ UNCHANGED <<counts, answers, answerLate>> /\ reader[c].at = "end"
        /\ \A r \in Clients :
             \/ reader'[r] = reader[r]
             \/ reader'[r].at = "answered" /\ reader[r].at \in {"end", "waiting"}
    BY <1>13, <1>s DEF EndCall, ReactionRequest
  <2>2. \A p \in Paths : Covered(p) => Covered(p)'
    BY <2>1 DEF Covered, Pending, Exists
  <2> QED BY <1>s, <1>q, <2>1, <2>2, AnswersUntouched
<1>14. CASE ReturnReactions(c)
  BY <1>2, <1>14, <1>s DEF ReturnReactions, NoRequest
<1> QED BY <1>1, <1>3, <1>4, <1>5, <1>6, <1>7, <1>8, <1>9, <1>10, <1>11, <1>12,
           <1>13, <1>14 DEF ReactionStep

LEMMA AnswersStep ==
  ASSUME Typed, AnswersInv, [Next]_vars
  PROVE  AnswersInv'
<1>s. /\ \A r \in Clients : reader[r].at # "idle" => reader[r].path \in Paths
      /\ \A r \in Clients : reader[r].at = "set" => reader[r].path \in Paths
      /\ reader \in [Clients -> ReactionRequest]
      /\ write \in [Clients -> Operation]
  BY DEF Typed, TypeOK, Known, ReactionsTypeOK
<1>1. ASSUME NEW c \in Clients, NEW at, NEW old \in Paths, NEW path \in Paths,
             NEW drops \in BOOLEAN, NEW locked \in BOOLEAN,
             Commit(c, at, old, path, drops, locked),
             \A r \in Clients : /\ reader'[r].at = reader[r].at
                                /\ reader'[r].path = reader[r].path
                                /\ reader'[r].answer = reader[r].answer
                                /\ reader'[r].late = reader[r].late,
             UNCHANGED <<answers, answerLate>>,
             \A p \in Paths : (p # path \/ ~drops) =>
               \/ ~Exists(p)'
               \/ Queried(p)' = Queried(p) /\ (~Exists(p) => ~Exists(p)')
      PROVE  AnswersInv'
  <2>1. /\ ~write[c].drops /\ write'[c].drops = drops /\ write'[c].path = path
        /\ \A w \in Clients \ {c} : write'[w] = write[w]
        /\ UNCHANGED undropped
    BY <1>1, <1>s DEF Commit, Idle, NoWrite, skipped
  <2>2. drops => Pending(path)'
    BY <2>1 DEF Pending
  <2>3. \A p \in Paths : Pending(p) => Pending(p)'
    BY <1>1, <2>1 DEF Pending
  <2>4. ASSUME NEW p \in Paths
        PROVE  (Queried(p)' = Queried(p) /\ (Covered(p) => Covered(p)')) \/ Covered(p)'
    <3>1. CASE drops /\ p = path
      BY <2>2, <3>1 DEF Covered
    <3>2. CASE ~drops \/ p # path
      BY <1>1, <2>1, <2>3, <3>2 DEF Covered
    <3> QED BY <3>1, <3>2
  <2> QED BY <1>s, <1>1, <2>4, AnswersUntouched
<1>2. ASSUME NEW c \in Clients, NEW path \in Paths, NEW row \in Row,
             SavePost(c, path, row)
      PROVE  AnswersInv'
  <2>1. \A p \in Paths : p # path => rows'[p] = rows[p]
    BY <1>2 DEF SavePost, Typed, TypeOK
  <2>2. UNCHANGED reactionVars /\ Commit(c, "reload", path, path, TRUE, FALSE)
    BY <1>2 DEF SavePost
  <2>3. \A p \in Paths : p # path =>
          Queried(p)' = Queried(p) /\ (~Exists(p) => ~Exists(p)')
    BY <2>1, <2>2 DEF Queried, Exists, reactionVars
  <2> QED BY <1>1, <2>2, <2>3 DEF reactionVars
<1>m. ASSUME NEW c \in Clients, NEW old \in Paths, NEW path \in Paths, NEW row \in Row,
             MovePost(c, old, path, row)
      PROVE  AnswersInv'
  <2>1. /\ Commit(c, "reload", old, path, TRUE, FALSE) /\ old # path
        /\ reader' = Freed(old) /\ UNCHANGED <<answers, answerLate>>
    BY <1>m DEF MovePost
  <2>2. /\ rows'[old] = None
        /\ \A p \in Paths \ {old, path} : rows'[p] = rows[p] /\ counts'[p] = counts[p]
    BY <1>m, <2>1 DEF MovePost, Typed, TypeOK, ReactionsTypeOK
  <2>3. ASSUME NEW p \in Paths, p # path
        PROVE  \/ ~Exists(p)'
               \/ Queried(p)' = Queried(p) /\ (~Exists(p) => ~Exists(p)')
    BY <2>2, <2>3 DEF Queried, Exists
  <2> QED BY <1>1, <2>1, <2>3, FreedTyped
<1>3. ASSUME NEW c \in Clients, NEW path \in Paths,
             MarkDeleted(c, path) \/ UndeletePost(c, path)
      PROVE  AnswersInv'
  <2>1. /\ Exists(path) /\ rows'[path] # None
        /\ rows'[path].reactions = rows[path].reactions
        /\ \A p \in Paths \ {path} : rows'[p] = rows[p]
    <3>1. rows[path] \in Row
      BY <1>3 DEF MarkDeleted, UndeletePost, Exists, Typed, TypeOK
    <3>2. PICK b \in BOOLEAN : rows' = [rows EXCEPT ![path].deleted = b]
      BY <1>3 DEF MarkDeleted, UndeletePost
    <3>3. rows'[path] = [rows[path] EXCEPT !.deleted = b]
      BY <3>2 DEF Typed, TypeOK
    <3>4. rows'[path] # None
      BY <1>3, <3>1, <3>3, RowsAssumption DEF Row
    <3> QED BY <1>3, <3>1, <3>2, <3>3, <3>4
        DEF MarkDeleted, UndeletePost, Exists, Typed, TypeOK, Row
  <2>2. UNCHANGED reactionVars
    BY <1>3 DEF MarkDeleted, UndeletePost
  <2>3. \A p \in Paths : Queried(p)' = Queried(p) /\ (~Exists(p) => ~Exists(p)')
    BY <2>1, <2>2 DEF Queried, Exists, reactionVars
  <2>4. Commit(c, "purge", path, path, FALSE, TRUE)
    BY <1>3 DEF MarkDeleted, UndeletePost
  <2> QED BY <1>1, <2>2, <2>3, <2>4 DEF reactionVars
<1>4. ASSUME NEW c \in Clients, NEW path \in Paths, RemovePost(c, path)
      PROVE  AnswersInv'
  <2>1. \A p \in Paths \ {path} : rows'[p] = rows[p] /\ counts'[p] = counts[p]
    BY <1>4 DEF RemovePost, Typed, TypeOK, ReactionsTypeOK
  <2>2. \A p \in Paths : p # path =>
          Queried(p)' = Queried(p) /\ (~Exists(p) => ~Exists(p)')
    BY <2>1 DEF Queried, Exists
  <2>3. /\ Commit(c, "purge", path, path, TRUE, TRUE) /\ reader' = Freed(path)
        /\ UNCHANGED <<answers, answerLate>>
    BY <1>4 DEF RemovePost
  <2> QED BY <1>1, <2>2, <2>3, FreedTyped
\* Steps that leave the tables, the answers and whoever has to drop one.
<1>5. ASSUME UNCHANGED <<rows, counts, answers, answerLate>>, undropped \subseteq undropped',
             \A r \in Clients : reader'[r] # reader[r] =>
               reader[r].at # "drop" /\ reader'[r].at # "set",
             \A w \in Clients : write[w].drops =>
               \/ write'[w].drops /\ write'[w].path = write[w].path
               \/ write[w].path \in undropped' \/ ~Exists(write[w].path)
      PROVE  AnswersInv'
  <2>1. \A p \in Paths : Queried(p)' = Queried(p)
    BY <1>5 DEF Queried, Exists
  <2>2. ASSUME NEW p \in Paths, Covered(p) PROVE Covered(p)'
    <3>1. CASE \E r \in Clients : reader[r].at = "drop" /\ reader[r].path = p
      BY <1>5, <3>1 DEF Covered, Pending
    <3>2. CASE \E w \in Clients : write[w].drops /\ write[w].path = p
      BY <1>5, <3>2 DEF Covered, Pending, Exists
    <3>3. CASE p \in undropped \/ ~Exists(p)
      BY <1>5, <3>3 DEF Covered, Exists
    <3> QED BY <2>2, <3>1, <3>2, <3>3 DEF Covered, Pending
  <2> QED BY <1>s, <1>5, <2>1, <2>2, AnswersUntouched
<1>6. ASSUME NEW c \in Clients, BeginVisit(c)
      PROVE  AnswersInv'
  BY <1>5, <1>6 DEF BeginVisit, reactionVars, skipped
<1>7. ASSUME NEW c \in Clients, BeginReading(c) \/ BeginReaction(c)
      PROVE  AnswersInv'
  <2>1. PICK path \in Paths : GetReactions(c, path) \/ PostReaction(c, path)
    BY <1>7, ReadsAssumption DEF BeginReading, BeginReaction, ReadsAssumption
  <2>2. UNCHANGED <<rows, counts, answers, answerLate, write, undropped>>
    BY <1>7, <2>1 DEF BeginReading, BeginReaction, GetReactions, PostReaction, skipped
  <2>3. /\ reader[c].at = "idle" /\ reader'[c].at # "set"
        /\ \A r \in Clients \ {c} : reader'[r] = reader[r]
    BY <2>1, <1>s DEF GetReactions, PostReaction, ReaderAt, ReactionRequest
  <2> QED BY <1>5, <2>2, <2>3
<1>8. ASSUME NEW c \in Clients, VisitStep(c),
             UNCHANGED <<rows, gone, reactionVars, write, writes, skipped>>
      PROVE  AnswersInv'
  BY <1>5, <1>8 DEF reactionVars, skipped
<1>9. ASSUME NEW c \in Clients, ReactionStep(c),
             UNCHANGED <<rows, gone, pageVars, write, writes, skipped>>
      PROVE  AnswersInv'
  BY <1>9, ReactionStepAnswers DEF skipped
<1>10. ASSUME NEW c \in Clients, Purge(c)
       PROVE  AnswersInv'
  <2>1. \A w \in Clients : write[w].drops =>
          write'[w].drops /\ write'[w].path = write[w].path
    BY <1>10, <1>s DEF Purge, Operation
  <2> QED BY <1>5, <1>10, <2>1 DEF Purge, reactionVars
<1>r. ASSUME NEW c \in Clients, Reload(c) \/ ReloadMisses(c) \/ ReloadFails(c)
      PROVE  AnswersInv'
  <2>1. /\ UNCHANGED <<rows, reactionVars>> /\ undropped \subseteq undropped'
        /\ \A w \in Clients \ {c} : write'[w] = write[w]
    BY <1>r, <1>s DEF Reload, ReloadMisses, ReloadFails, skipped
  <2>2. \/ write'[c].drops = write[c].drops /\ write'[c].path = write[c].path
        \/ write[c].path \in undropped' \/ ~Exists(write[c].path)
    BY <1>r, <1>s DEF Reload, ReloadMisses, ReloadFails, Operation
  <2> QED BY <1>5, <2>1, <2>2 DEF reactionVars
<1>11. ASSUME NEW c \in Clients, DropReactions(c)
       PROVE  AnswersInv'
  <2>1. PICK path \in Paths : path = write[c].path
    BY <1>11 DEF DropReactions, Typed, Known
  <2>2. ReaderTyped
    BY ReactionsSplit DEF Typed, TypeOK, Known
  <2>3. \A r \in Clients :
          /\ reader'[r].at = reader[r].at /\ reader'[r].path = reader[r].path
          /\ reader'[r].answer = reader[r].answer
          /\ reader'[r].late = (reader[r].late
                                 \/ (reader[r].path = path /\ reader[r].at = "set"))
    BY <1>11, <2>1, <2>2, LateReadersTyped DEF DropReactions
  <2>4. \A w \in Clients \ {c} : write'[w] = write[w]
    BY <1>11, <1>s DEF DropReactions
  <2>0. UNCHANGED rows /\ undropped' = undropped \ {path}
    BY <1>11, <2>1 DEF DropReactions
  <2>5. \A p \in Paths \ {path} : Covered(p) => Covered(p)'
    BY <2>0, <2>1, <2>3, <2>4 DEF Covered, Pending, Exists
  <2>6. \A p \in Paths : Queried(p)' = Queried(p)
    BY <1>11 DEF DropReactions, Queried, Exists
  <2>7. DropAnswer(path)
    BY <1>11, <2>1 DEF DropReactions
  <2> QED BY <2>3, <2>5, <2>6, <2>7, AnswersDropped
<1>12. ASSUME NEW path \in Paths, PageExpires(path)
       PROVE  AnswersInv'
  BY <1>5, <1>12 DEF PageExpires, reactionVars, skipped
<1>13. ASSUME NEW path \in Paths, AnswerExpires(path)
       PROVE  AnswersInv'
  <2>1. /\ UNCHANGED <<rows, counts, reader, write, undropped>>
        /\ \A p \in Paths : answers'[p] # None =>
             answers'[p] = answers[p] /\ answerLate'[p] = answerLate[p]
    BY <1>13 DEF AnswerExpires, ExpireAnswer, DropAnswer, Typed, TypeOK,
                 ReactionsTypeOK, skipped
  <2>2. \A p \in Paths : Queried(p)' = Queried(p) /\ (Covered(p) <=> Covered(p)')
    BY <2>1 DEF Queried, Exists, Covered, Pending
  <2>3. ASSUME NEW r \in Clients, reader'[r].at = "set", ~reader'[r].late
        PROVE  Fresh(reader[r].answer, reader[r].path)'
    <3>1. PICK p \in Paths : p = reader[r].path
      BY <1>s, <2>1, <2>3
    <3>2. Fresh(reader[r].answer, p)
      BY <2>1, <2>3, <3>1 DEF AnswersInv, QueriesCurrent
    <3>3. reader'[r].answer = Queried(p)' \/ Covered(p)'
      BY <2>1, <2>2, <3>2 DEF Fresh
    <3> QED BY <2>1, <3>1, <3>3 DEF Fresh
  <2>4. ASSUME NEW p \in Paths, answers'[p] # None, ~answerLate'[p]
        PROVE  Fresh(answers[p], p)'
    BY <2>1, <2>2, <2>4 DEF AnswersInv, AnswersCurrent, Fresh
  <2> QED BY <2>3, <2>4 DEF AnswersInv, QueriesCurrent, AnswersCurrent
<1>14. CASE UNCHANGED vars
  BY <1>5, <1>14 DEF vars, reactionVars, skipped
<1> QED BY <1>2, <1>m, <1>r, <1>3, <1>4, <1>6, <1>7, <1>8, <1>9, <1>10, <1>11, <1>12, <1>13,
           <1>14 DEF Next, BeginWrite, Continue

\* reactions.go: a cached answer that was read after the last drop is what a
\* query would read now, unless a reaction or a write has still to drop it.
THEOREM AnswersAreCurrent == Spec => []StaleAnswerIsLate
<1>1. Typed /\ AnswersInv /\ [Next]_vars => (Typed /\ AnswersInv)'
  BY ReadsAssumption, TypedStep, AnswersStep
<1>2. Init => Typed /\ AnswersInv
  BY ReadsAssumption, TypedInit
  DEF Init, ReactionsInit, AnswersInv, QueriesCurrent, AnswersCurrent, NoRequest
<1>3. AnswersInv => StaleAnswerIsLate
  BY DEF AnswersInv, AnswersCurrent, StaleAnswerIsLate, Fresh, Covered, Pending, ReaderAt
<1> QED BY <1>1, <1>2, <1>3, PTL DEF Spec
-----------------------------------------------------------------------------
(***************************************************************************)
(* Answers of those who miss the cache.  The call in the table of a path   *)
(* has not queried yet, or has counted all reactions whose senders had     *)
(* forgotten calls by then: each of them has removed the call that ran     *)
(* before.  So who joins a call gets what it has to see.                   *)
(***************************************************************************)
Running(c, path) == reader[c].at \in {"query", "set", "end"} /\ reader[c].path = path

\* What the call has queried, if it has, counts so many reactions.
Counts(c, n) ==
  reader[c].at \in {"set", "end"} /\ reader[c].answer.on =>
    reader[c].answer.count >= n

ForgottenAreCounted == \A path \in Paths : forgotten[path] <= counts[path]

CallsFresh ==
  \A path \in Paths :
    answerCalls[path] # None =>
      /\ Running(answerCalls[path], path)
      /\ Counts(answerCalls[path], forgotten[path])

\* What a request has to see exists, and its own answer shows it.
Seen(c) ==
  /\ reader[c].at # "idle" =>
       /\ reader[c].least <= counts[reader[c].path]
       /\ reader[c].mine # None => reader[c].mine <= counts[reader[c].path]
  /\ reader[c].at \in {"idle", "insert", "drop", "forget", "get", "check", "miss"} =>
       reader[c].least = 0
  /\ reader[c].at \in {"set", "end", "answered"} /\ reader[c].answer.on =>
       reader[c].answer.count >= reader[c].least
  /\ reader[c].at = "idle" => reader[c].mine = None

Waits(c) ==
  reader[c].at = "waiting" =>
    /\ reader[c].call \in Clients
    /\ Running(reader[c].call, reader[c].path)
    /\ Counts(reader[c].call, reader[c].least)

\* Nobody has reacted to what is not there.
CountsOfPosts == \A path \in Paths : ~Exists(path) => counts[path] = 0

MissInv ==
  /\ ForgottenAreCounted /\ CallsFresh
  /\ \A c \in Clients : Seen(c) /\ Waits(c)

\* Steps that change nothing of a request but late.
SameRequest(c) ==
  /\ reader'[c].at = reader[c].at /\ reader'[c].path = reader[c].path
  /\ reader'[c].mine = reader[c].mine /\ reader'[c].least = reader[c].least
  /\ reader'[c].answer = reader[c].answer /\ reader'[c].call = reader[c].call

\* A step of a request that leads no call yet.
LEMMA OutsideCalls ==
  ASSUME Typed, Typed', MissInv, NEW c \in Clients,
         \A r \in Clients \ {c} : SameRequest(r),
         reader[c].at \notin {"query", "set", "end"},
         Seen(c)', Waits(c)',
         \A path \in Paths : counts[path] <= counts'[path],
         \A path \in Paths :
           \/ forgotten'[path] = forgotten[path]
           \/ forgotten'[path] <= counts'[path] /\ answerCalls'[path] = None,
         \A path \in Paths :
           \/ answerCalls'[path] \in {None, answerCalls[path]}
           \/ answerCalls'[path] = c /\ reader'[c].at = "query"
              /\ reader'[c].path = path
  PROVE  MissInv'
<1>t. /\ counts \in [Paths -> Nat] /\ forgotten \in [Paths -> Nat]
      /\ counts' \in [Paths -> Nat] /\ forgotten' \in [Paths -> Nat]
      /\ reader \in [Clients -> ReactionRequest]
      /\ answerCalls \in [Paths -> Clients \cup {None}]
      /\ \A r \in Clients : reader[r].at # "idle" => reader[r].path \in Paths
  BY DEF Typed, TypeOK, Known, ReactionsTypeOK
<1>2. ForgottenAreCounted'
  <2> SUFFICES ASSUME NEW path \in Paths PROVE forgotten'[path] <= counts'[path]
    BY DEF ForgottenAreCounted
  <2>1. forgotten[path] <= counts[path] /\ counts[path] <= counts'[path]
    BY DEF MissInv, ForgottenAreCounted
  <2>2. /\ forgotten[path] \in Nat /\ counts[path] \in Nat
        /\ counts'[path] \in Nat
    BY <1>t
  <2> QED BY <2>1, <2>2
<1>3. CallsFresh'
  <2> SUFFICES ASSUME NEW path \in Paths, answerCalls'[path] # None
               PROVE  /\ Running(answerCalls[path], path)'
                      /\ Counts(answerCalls[path], forgotten[path])'
    BY DEF CallsFresh
  <2>1. CASE answerCalls'[path] = c /\ reader'[c].at = "query"
             /\ reader'[c].path = path
    BY <2>1 DEF Running, Counts
  <2>2. CASE answerCalls'[path] = answerCalls[path]
    <3>1. PICK l \in Clients : l = answerCalls[path]
      BY <1>t, <2>2
    <3>2. Running(l, path) /\ Counts(l, forgotten[path])
      BY <2>2, <3>1 DEF MissInv, CallsFresh
    <3>3. l # c
      BY <3>2 DEF Running
    <3>4. Running(l, path)' /\ Counts(l, forgotten[path])'
      BY <2>2, <3>2, <3>3 DEF SameRequest, Running, Counts
    <3> QED BY <2>2, <3>1, <3>4 DEF Running, Counts
  <2> QED BY <2>1, <2>2
<1>4. ASSUME NEW r \in Clients PROVE Seen(r)'
  <2>1. CASE r = c
    BY <2>1
  <2>2. CASE r # c
    <3>1. SameRequest(r) /\ Seen(r)
      BY <2>2 DEF MissInv
    <3>2. reader[r].least \in Nat /\ reader[r].mine \in Nat \cup {None}
      BY <1>t DEF ReactionRequest
    <3>3. reader[r].at # "idle" =>
            /\ counts[reader[r].path] \in Nat /\ counts'[reader[r].path] \in Nat
            /\ counts[reader[r].path] <= counts'[reader[r].path]
      BY <1>t
    <3> QED BY <3>1, <3>2, <3>3 DEF Seen, SameRequest
  <2> QED BY <2>1, <2>2
<1>5. ASSUME NEW r \in Clients PROVE Waits(r)'
  <2> USE DEF Waits
  <2> HAVE reader'[r].at = "waiting"
  <2> SUFFICES ASSUME r # c
               PROVE  /\ reader'[r].call \in Clients
                      /\ Running(reader[r].call, reader[r].path)'
                      /\ Counts(reader[r].call, reader[r].least)'
    OBVIOUS
  <2>1. SameRequest(r)
    OBVIOUS
  <2>2. /\ reader[r].call \in Clients
        /\ Running(reader[r].call, reader[r].path)
        /\ Counts(reader[r].call, reader[r].least)
    BY <2>1 DEF MissInv, Waits, SameRequest
  <2>3. PICK l \in Clients : l = reader[r].call
    BY <2>2
  <2>4. SameRequest(l)
    BY <2>2, <2>3 DEF Running
  <2> QED BY <2>1, <2>2, <2>3, <2>4 DEF Running, Counts, SameRequest
<1> QED BY <1>2, <1>3, <1>4, <1>5 DEF MissInv

\* Steps that change nothing but late.
LEMMA CallersSame ==
  ASSUME MissInv, \A r \in Clients : SameRequest(r),
         UNCHANGED <<counts, forgotten, answerCalls>>, Typed
  PROVE  MissInv'
<1>t. /\ answerCalls \in [Paths -> Clients \cup {None}]
  BY DEF Typed, TypeOK, ReactionsTypeOK
<1>1. ForgottenAreCounted'
  BY DEF MissInv, ForgottenAreCounted
<1>2. CallsFresh'
  BY <1>t DEF MissInv, CallsFresh, SameRequest, Running, Counts
<1>3. ASSUME NEW r \in Clients PROVE Seen(r)' /\ Waits(r)'
  <2>1. SameRequest(r) /\ Seen(r) /\ Waits(r)
    BY DEF MissInv
  <2>2. Seen(r)'
    BY <2>1 DEF Seen, SameRequest
  <2>3. Waits(r)'
    BY <2>1 DEF Waits, SameRequest, Running, Counts
  <2> QED BY <2>2, <2>3
<1> QED BY <1>1, <1>2, <1>3 DEF MissInv

\* A call that goes on and has counted what is there.
LEMMA InsideCall ==
  ASSUME Typed, Typed', MissInv, NEW c \in Clients,
         \A r \in Clients \ {c} : SameRequest(r),
         UNCHANGED <<counts, forgotten, answerCalls>>,
         reader[c].at \in {"query", "set", "end"},
         reader'[c].at \in {"query", "set", "end"},
         reader'[c].path = reader[c].path,
         reader'[c].least = reader[c].least, reader'[c].mine = reader[c].mine,
         \A n \in Nat : n <= counts[reader[c].path] /\ Counts(c, n) => Counts(c, n)'
  PROVE  MissInv'
<1>t. /\ counts \in [Paths -> Nat] /\ forgotten \in [Paths -> Nat]
      /\ reader \in [Clients -> ReactionRequest]
      /\ answerCalls \in [Paths -> Clients \cup {None}]
      /\ \A r \in Clients : reader[r].at # "idle" => reader[r].path \in Paths
      /\ \A r \in Clients : reader[r].least \in Nat
  BY DEF Typed, TypeOK, Known, ReactionsTypeOK, ReactionRequest
<1>1. ForgottenAreCounted'
  BY DEF MissInv, ForgottenAreCounted
\* What may be asked of any call stays true of it.
<1>2. ASSUME NEW l \in Clients, NEW path \in Paths, NEW n \in Nat,
             n <= counts[path], Running(l, path), Counts(l, n)
      PROVE  Running(l, path)' /\ Counts(l, n)'
  <2>1. CASE l = c
    BY <1>2, <2>1 DEF Running
  <2>2. CASE l # c
    BY <1>2, <2>2 DEF Running, Counts, SameRequest
  <2> QED BY <2>1, <2>2
<1>3. CallsFresh'
  <2> SUFFICES ASSUME NEW path \in Paths, answerCalls[path] # None
               PROVE  /\ Running(answerCalls[path], path)'
                      /\ Counts(answerCalls[path], forgotten[path])'
    BY DEF CallsFresh
  <2>1. PICK l \in Clients : l = answerCalls[path]
    BY <1>t
  <2>2. Running(l, path) /\ Counts(l, forgotten[path])
    BY <2>1 DEF MissInv, CallsFresh
  <2>3. forgotten[path] \in Nat /\ forgotten[path] <= counts[path]
    BY <1>t DEF MissInv, ForgottenAreCounted
  <2>4. Running(l, path)' /\ Counts(l, forgotten[path])'
    BY <1>2, <2>2, <2>3 DEF Counts
  <2> QED BY <2>1, <2>4 DEF Running, Counts
<1>4. ASSUME NEW r \in Clients PROVE Seen(r)'
  <2>1. Seen(r)
    BY DEF MissInv
  <2>2. CASE r # c
    BY <2>1, <2>2 DEF Seen, SameRequest
  <2>3. CASE r = c
    <3>1. /\ reader[c].least <= counts[reader[c].path]
          /\ reader[c].mine # None => reader[c].mine <= counts[reader[c].path]
      BY <2>1, <2>3 DEF Seen
    <3>2. Counts(c, reader[c].least)
      BY <2>1, <2>3 DEF Seen, Counts
    <3>3. Counts(c, reader[c].least)'
      BY <1>t, <3>1, <3>2 DEF Counts
    <3> QED BY <2>3, <3>1, <3>3 DEF Seen, Counts
  <2> QED BY <2>2, <2>3
<1>5. ASSUME NEW r \in Clients PROVE Waits(r)'
  <2> USE DEF Waits
  <2> HAVE reader'[r].at = "waiting"
  <2>1. r # c /\ SameRequest(r)
    OBVIOUS
  <2>2. /\ reader[r].call \in Clients
        /\ Running(reader[r].call, reader[r].path)
        /\ Counts(reader[r].call, reader[r].least)
    BY <2>1 DEF MissInv, Waits, SameRequest
  <2>3. PICK l \in Clients : l = reader[r].call
    BY <2>2
  <2>4. reader[r].path \in Paths /\ reader[r].least <= counts[reader[r].path]
    BY <1>t, <2>1 DEF MissInv, Seen, SameRequest
  <2>5. Running(l, reader[r].path)' /\ Counts(l, reader[r].least)'
    <3>1. PICK path \in Paths : path = reader[r].path
      BY <2>4
    <3>2. PICK n \in Nat : n = reader[r].least
      BY <1>t
    <3>3. Running(l, path)' /\ Counts(l, n)'
      BY <1>2, <2>2, <2>3, <2>4, <3>1, <3>2
    <3> QED BY <2>1, <3>1, <3>2, <3>3 DEF SameRequest, Running, Counts
  <2> QED BY <2>1, <2>3, <2>5 DEF SameRequest, Running, Counts
<1> QED BY <1>1, <1>3, <1>4, <1>5 DEF MissInv

LEMMA EndCallMiss ==
  ASSUME Typed, MissInv, NEW c \in Clients, EndCall(c)
  PROVE  MissInv'
<1>t. /\ reader \in [Clients -> ReactionRequest]
      /\ answerCalls \in [Paths -> Clients \cup {None}]
      /\ reader[c].path \in Paths
  BY DEF Typed, TypeOK, Known, ReactionsTypeOK, EndCall, ReaderAt
<1> DEFINE served(r) == r = c \/ (reader[r].at = "waiting" /\ reader[r].call = c)
<1>1. /\ \A r \in Clients : ~served(r) => reader'[r] = reader[r]
      /\ \A r \in Clients : served(r) =>
           /\ reader'[r].at = "answered" /\ reader'[r].answer = reader[c].answer
           /\ reader'[r].path = reader[r].path
           /\ reader'[r].mine = reader[r].mine
           /\ reader'[r].least = reader[r].least
      /\ UNCHANGED <<counts, forgotten>> /\ reader[c].at = "end"
  BY <1>t DEF EndCall, ReaderAt, ReactionRequest
<1>2. \A p \in Paths : \/ answerCalls'[p] = None
                       \/ answerCalls'[p] = answerCalls[p] /\ answerCalls[p] # c
  <2> TAKE p \in Paths
  <2>1. answerCalls[p] = c => p = reader[c].path
    BY RowsAssumption DEF MissInv, CallsFresh, Running
  <2> QED BY <1>t, <2>1 DEF EndCall, Ended, Forgotten
<1>3. ForgottenAreCounted'
  BY <1>1 DEF MissInv, ForgottenAreCounted
<1>4. CallsFresh'
  <2> SUFFICES ASSUME NEW path \in Paths, answerCalls'[path] # None
               PROVE  /\ Running(answerCalls[path], path)'
                      /\ Counts(answerCalls[path], forgotten[path])'
    BY DEF CallsFresh
  <2>1. PICK l \in Clients : l = answerCalls[path] /\ l = answerCalls'[path] /\ l # c
    BY <1>2, <1>t
  <2>2. Running(l, path) /\ Counts(l, forgotten[path])
    BY <2>1 DEF MissInv, CallsFresh
  <2>3. reader'[l] = reader[l]
    BY <1>1, <2>1, <2>2 DEF Running
  <2> QED BY <1>1, <2>1, <2>2, <2>3 DEF Running, Counts
<1>5. ASSUME NEW r \in Clients PROVE Seen(r)'
  <2>1. Seen(r) /\ Seen(c) /\ Waits(r)
    BY DEF MissInv
  <2>2. CASE ~served(r)
    BY <1>1, <2>1, <2>2 DEF Seen
  <2>3. CASE served(r)
    <3>1. reader[c].answer.on => reader[c].answer.count >= reader[r].least
      BY <1>1, <2>1, <2>3 DEF Seen, Waits, Counts
    <3>2. reader[r].at # "idle"
      BY <1>1, <2>3
    <3> HIDE DEF served
    <3> QED BY <1>1, <2>1, <2>3, <3>1, <3>2 DEF Seen
  <2> QED BY <2>2, <2>3
<1>6. ASSUME NEW r \in Clients PROVE Waits(r)'
  <2> SUFFICES ASSUME reader'[r].at = "waiting" PROVE Waits(r)'
    BY DEF Waits
  <2>1. ~served(r) /\ reader'[r] = reader[r]
    BY <1>1
  <2>2. /\ reader[r].call \in Clients
        /\ Running(reader[r].call, reader[r].path)
        /\ Counts(reader[r].call, reader[r].least)
    BY <2>1 DEF MissInv, Waits
  <2>3. PICK l \in Clients : l = reader[r].call /\ l # c
    BY <2>1, <2>2
  <2>4. reader'[l] = reader[l]
    BY <1>1, <2>2, <2>3 DEF Running
  <2> QED BY <2>1, <2>2, <2>3, <2>4 DEF Waits, Running, Counts
<1> QED BY <1>3, <1>4, <1>5, <1>6 DEF MissInv

LEMMA ReactionStepMiss ==
  ASSUME Typed, Typed', MissInv, NEW c \in Clients, ReactionStep(c)
  PROVE  MissInv'
<1>t. /\ counts \in [Paths -> Nat] /\ forgotten \in [Paths -> Nat]
      /\ reader \in [Clients -> ReactionRequest]
      /\ answerCalls \in [Paths -> Clients \cup {None}]
      /\ \A r \in Clients : reader[r].at # "idle" => reader[r].path \in Paths
  BY DEF Typed, TypeOK, Known, ReactionsTypeOK
<1>p. counts' \in [Paths -> Nat] /\ reader' \in [Clients -> ReactionRequest]
  BY DEF Typed, TypeOK, ReactionsTypeOK
<1>c. /\ Seen(c) /\ Waits(c) /\ reader[c].least \in Nat
      /\ reader[c].mine \in Nat \cup {None}
  BY <1>t DEF MissInv, ReactionRequest
<1>0. \A path \in Paths : counts[path] <= counts[path]
  BY <1>t
<1> USE DEF ReaderAt, GoTo
\* Steps of one request that touch neither counts nor calls.
<1>1. ASSUME \A r \in Clients \ {c} : reader'[r] = reader[r],
             UNCHANGED <<forgotten, answerCalls, counts>>,
             reader[c].at \notin {"query", "set", "end"},
             reader'[c].at # "waiting", Seen(c)'
      PROVE  MissInv'
  <2>1. Waits(c)'
    BY <1>1 DEF Waits
  <2> QED BY <1>0, <1>1, <2>1, OutsideCalls DEF SameRequest
<1>2. CASE InsertReaction(c)
  <2>1. PICK path \in Paths : path = reader[c].path
    BY <1>2, <1>t DEF InsertReaction
  <2>2. /\ counts' = [counts EXCEPT ![path] = counts[path] + 1]
        /\ counts[path] \in Nat /\ counts'[path] = counts[path] + 1
        /\ \A r \in Clients \ {c} : reader'[r] = reader[r]
        /\ UNCHANGED <<forgotten, answerCalls>> /\ reader[c].at = "insert"
        /\ reader'[c].at = "drop" /\ reader'[c].path = path
        /\ reader'[c].mine = counts[path] + 1 /\ reader'[c].least = reader[c].least
    BY <1>2, <1>t, <2>1 DEF InsertReaction, ReactionRequest
  <2>3. \A p \in Paths : counts[p] <= counts'[p]
    BY <1>t, <2>2
  <2>4. Seen(c)'
    BY <1>c, <2>1, <2>2 DEF Seen
  <2>5. Waits(c)'
    BY <2>2 DEF Waits
  <2> QED BY <2>2, <2>3, <2>4, <2>5, OutsideCalls DEF SameRequest
<1>3. CASE RefuseReaction(c)
  <2>1. Seen(c)'
    BY <1>3, <1>c, <1>t DEF RefuseReaction, Seen, ReactionRequest
  <2> QED BY <1>1, <1>3, <1>t, <2>1 DEF RefuseReaction, ReactionRequest
<1>4. CASE DropOwn(c)
  <2>1. \A r \in Clients \ {c} : SameRequest(r)
    BY <1>4, <1>t, ReactionsSplit, LateReadersTyped DEF DropOwn, SameRequest, Typed, TypeOK, Known
  <2>2. /\ reader'[c].at = "forget" /\ reader'[c].path = reader[c].path
        /\ reader'[c].mine = reader[c].mine /\ reader'[c].least = reader[c].least
        /\ reader[c].at = "drop" /\ UNCHANGED <<forgotten, answerCalls, counts>>
    BY <1>4, <1>t, ReactionsSplit, LateReadersTyped
    DEF DropOwn, Typed, TypeOK, Known, ReactionRequest
  <2>3. Seen(c)'
    BY <2>2, <1>c DEF Seen
  <2>4. Waits(c)'
    BY <2>2 DEF Waits
  <2> QED BY <1>0, <2>1, <2>2, <2>3, <2>4, OutsideCalls
<1>5. CASE ForgetCall(c)
  <2>1. PICK path \in Paths : path = reader[c].path
    BY <1>5, <1>t DEF ForgetCall
  <2>2. /\ answerCalls' = [answerCalls EXCEPT ![path] = None]
        /\ \A r \in Clients \ {c} : reader'[r] = reader[r]
        /\ UNCHANGED counts /\ reader[c].at = "forget"
        /\ \/ reader'[c] = NoRequest /\ UNCHANGED forgotten
           \/ /\ reader[c].mine # None /\ reader'[c].at = "get"
              /\ reader'[c].path = path /\ reader'[c].least = reader[c].least
              /\ reader'[c].mine = reader[c].mine
              /\ forgotten' = [forgotten EXCEPT ![path] =
                   IF reader[c].mine > forgotten[path] THEN reader[c].mine
                   ELSE forgotten[path]]
    BY <1>5, <1>t, <2>1 DEF ForgetCall, Forgotten, ReactionRequest
  <2>3. \A p \in Paths : answerCalls'[p] \in {None, answerCalls[p]}
    BY <1>t, <2>2
  <2>4. \A p \in Paths :
          \/ forgotten'[p] = forgotten[p]
          \/ forgotten'[p] <= counts'[p] /\ answerCalls'[p] = None
    BY <1>t, <1>c, <2>1, <2>2 DEF Seen
  <2>5. Seen(c)'
    BY <1>c, <2>1, <2>2 DEF Seen, NoRequest
  <2>6. Waits(c)'
    BY <2>2 DEF Waits, NoRequest
  <2> QED BY <1>0, <2>2, <2>3, <2>4, <2>5, <2>6, OutsideCalls DEF SameRequest
<1>6. CASE GetOwn(c)
  <2>1. Seen(c)'
    BY <1>6, <1>c, <1>t DEF GetOwn, Seen, NoRequest, ReactionRequest
  <2> QED BY <1>1, <1>6, <1>t, <2>1 DEF GetOwn, NoRequest, ReactionRequest
<1>7. CASE AnswerHit(c)
  <2>1. answers[reader[c].path] \in Counted
    BY <1>7, <1>t DEF AnswerHit, Typed, TypeOK, ReactionsTypeOK
  <2>2. /\ reader'[c].at = "answered" /\ reader'[c].path = reader[c].path
        /\ reader'[c].mine = reader[c].mine /\ reader'[c].least = reader[c].least
        /\ reader'[c].answer = answers[reader[c].path] /\ reader[c].at = "check"
        /\ reader'[c].answer.count \in Nat /\ UNCHANGED counts
    BY <1>7, <1>t, <2>1 DEF AnswerHit, ReactionRequest, Counted
  <2>3. Seen(c)'
    BY <1>c, <2>2 DEF Seen
  <2> QED BY <1>1, <1>7, <1>t, <2>2, <2>3 DEF AnswerHit
<1>8. CASE AnswerMiss(c)
  <2>1. Seen(c)'
    BY <1>8, <1>c, <1>t DEF AnswerMiss, Seen, ReactionRequest
  <2> QED BY <1>1, <1>8, <1>t, <2>1 DEF AnswerMiss, ReactionRequest
<1>9. CASE LeadAnswer(c)
  <2>1. PICK path \in Paths : path = reader[c].path
    BY <1>9, <1>t DEF LeadAnswer
  <2>2. /\ answerCalls' = [answerCalls EXCEPT ![path] = c]
        /\ \A r \in Clients \ {c} : reader'[r] = reader[r]
        /\ UNCHANGED <<counts, forgotten>> /\ reader[c].at = "miss"
        /\ reader'[c].at = "query" /\ reader'[c].path = path
        /\ reader'[c].mine = reader[c].mine /\ reader'[c].least = forgotten[path]
    BY <1>9, <1>t, <2>1 DEF LeadAnswer, Led, ReactionRequest
  <2>3. \A p \in Paths : \/ answerCalls'[p] \in {None, answerCalls[p]}
                         \/ answerCalls'[p] = c /\ p = path
    BY <1>t, <2>2
  <2>4. Seen(c)' /\ Waits(c)'
    BY <1>c, <2>1, <2>2 DEF Seen, Waits, MissInv, ForgottenAreCounted
  <2> QED BY <1>0, <2>2, <2>3, <2>4, OutsideCalls DEF SameRequest
<1>10. CASE AwaitAnswer(c)
  <2>1. PICK path \in Paths : path = reader[c].path
    BY <1>10, <1>t DEF AwaitAnswer
  <2>2. PICK l \in Clients : l = answerCalls[path]
    BY <1>10, <1>t, <2>1 DEF AwaitAnswer
  <2>3. /\ \A r \in Clients \ {c} : reader'[r] = reader[r]
        /\ UNCHANGED <<counts, forgotten, answerCalls>> /\ reader[c].at = "miss"
        /\ reader'[c].at = "waiting" /\ reader'[c].path = path
        /\ reader'[c].call = l /\ answerCalls[path] # None
        /\ reader'[c].mine = reader[c].mine /\ reader'[c].least = forgotten[path]
    BY <1>10, <1>t, <2>1, <2>2 DEF AwaitAnswer, ReactionRequest
  <2>4. Running(l, path) /\ Counts(l, forgotten[path])
    BY <2>2, <2>3 DEF MissInv, CallsFresh
  <2>5. reader'[l] = reader[l]
    BY <2>3, <2>4 DEF Running
  <2>6. Waits(c)'
    BY <2>3, <2>4, <2>5 DEF Waits, Running, Counts
  <2>7. Seen(c)'
    BY <1>c, <2>1, <2>3 DEF Seen, MissInv, ForgottenAreCounted
  <2> QED BY <1>0, <2>3, <2>6, <2>7, OutsideCalls DEF SameRequest
<1>11. CASE QueryReactions(c)
  <2>1. PICK path \in Paths : path = reader[c].path
    BY <1>11, <1>t DEF QueryReactions
  <2>2. /\ \A r \in Clients \ {c} : reader'[r] = reader[r]
        /\ UNCHANGED <<counts, forgotten, answerCalls>> /\ reader[c].at = "query"
        /\ reader'[c].at = "set" /\ reader'[c].path = path
        /\ reader'[c].mine = reader[c].mine /\ reader'[c].least = reader[c].least
        /\ reader'[c].answer = Queried(path)
    BY <1>11, <1>t, <2>1 DEF QueryReactions, ReactionRequest
  <2>3. Queried(path).on => Queried(path).count = counts[path]
    BY DEF Queried
  <2>4. \A n \in Nat : n <= counts[path] => Counts(c, n)'
    BY <1>t, <2>2, <2>3 DEF Counts
  <2> QED BY <2>1, <2>2, <2>4, InsideCall DEF SameRequest
<1>12. CASE SetAnswer(c)
  <2>1. /\ \A r \in Clients \ {c} : reader'[r] = reader[r]
        /\ UNCHANGED <<counts, forgotten, answerCalls>> /\ reader[c].at = "set"
        /\ reader'[c].at = "end" /\ reader'[c].path = reader[c].path
        /\ reader'[c].mine = reader[c].mine /\ reader'[c].least = reader[c].least
        /\ reader'[c].answer = reader[c].answer
    BY <1>12, <1>t DEF SetAnswer, ReactionRequest
  <2>2. \A n \in Nat : Counts(c, n) => Counts(c, n)'
    BY <2>1 DEF Counts
  <2> QED BY <2>1, <2>2, InsideCall DEF SameRequest
<1>13. CASE EndCall(c)
  BY <1>13, EndCallMiss
<1>14. CASE ReturnReactions(c)
  <2>1. Seen(c)'
    BY <1>14, <1>t DEF ReturnReactions, Seen, NoRequest
  <2> QED BY <1>1, <1>14, <1>t, <2>1 DEF ReturnReactions, NoRequest
<1> QED BY <1>2, <1>3, <1>4, <1>5, <1>6, <1>7, <1>8, <1>9, <1>10, <1>11, <1>12,
           <1>13, <1>14 DEF ReactionStep

\* The reactions of a path are gone from it, and no other path loses any.
LEMMA FreedMiss ==
  ASSUME Typed, Typed', MissInv, NEW path \in Paths, reader' = Freed(path),
         counts'[path] = 0, forgotten' = [forgotten EXCEPT ![path] = 0],
         \A p \in Paths \ {path} : counts[p] <= counts'[p],
         UNCHANGED answerCalls
  PROVE  MissInv'
<1>t. /\ counts \in [Paths -> Nat] /\ forgotten \in [Paths -> Nat]
      /\ counts' \in [Paths -> Nat]
      /\ reader \in [Clients -> ReactionRequest]
      /\ answerCalls \in [Paths -> Clients \cup {None}]
      /\ \A r \in Clients : reader[r].at # "idle" => reader[r].path \in Paths
      /\ \A r \in Clients : reader[r].at \in {"set", "end", "answered"} =>
           reader[r].answer \in Counted
  BY DEF Typed, TypeOK, Known, ReactionsTypeOK
<1>2. \A r \in Clients :
        /\ reader'[r].at = reader[r].at /\ reader'[r].path = reader[r].path
        /\ reader'[r].answer = reader[r].answer
        /\ reader'[r].call = reader[r].call
  BY FreedTyped
<1>3. \A r \in Clients :
        IF reader[r].path = path
          THEN /\ reader'[r].least = 0 /\ reader'[r].mine \in {None, 0}
               /\ reader[r].mine = None => reader'[r].mine = None
          ELSE reader'[r] = reader[r]
  <2> TAKE r \in Clients
  <2>1. CASE reader[r].path # path
    BY <2>1 DEF Freed
  <2>2. CASE reader[r].path = path
    <3>1. reader'[r] = [reader[r] EXCEPT !.mine = IF @ = None THEN None ELSE 0,
                                         !.least = 0]
      BY <2>2 DEF Freed
    <3> QED BY <1>t, <2>2, <3>1 DEF ReactionRequest
  <2> QED BY <2>1, <2>2
<1>4. ForgottenAreCounted'
  <2> SUFFICES ASSUME NEW p \in Paths PROVE forgotten'[p] <= counts'[p]
    BY DEF ForgottenAreCounted
  <2>1. forgotten[p] <= counts[p]
    BY DEF MissInv, ForgottenAreCounted
  <2> QED BY <1>t, <2>1
\* Any call counts none or more.
<1>5. ASSUME NEW l \in Clients PROVE Counts(l, 0)'
  BY <1>t, <1>2 DEF Counts, Counted
<1>6. CallsFresh'
  <2> SUFFICES ASSUME NEW p \in Paths, answerCalls[p] # None
               PROVE  /\ Running(answerCalls[p], p)'
                      /\ Counts(answerCalls[p], forgotten[p])'
    BY DEF CallsFresh
  <2>1. PICK l \in Clients : l = answerCalls[p]
    BY <1>t
  <2>2. Running(l, p) /\ Counts(l, forgotten[p])
    BY <2>1 DEF MissInv, CallsFresh
  <2>3. Running(l, p)'
    BY <1>2, <2>2 DEF Running
  <2>4. Counts(l, forgotten[p])'
    BY <1>t, <1>2, <1>5, <2>2 DEF Counts
  <2> QED BY <2>1, <2>3, <2>4 DEF Running, Counts
<1>7. ASSUME NEW r \in Clients PROVE Seen(r)'
  <2>1. Seen(r)
    BY DEF MissInv
  <2>2. CASE reader[r].path # path
    <3>1. reader'[r] = reader[r] /\ reader[r].least \in Nat /\ reader[r].mine \in Nat \cup {None}
      BY <1>t, <1>3, <2>2 DEF ReactionRequest
    <3>2. reader[r].at # "idle" =>
            /\ counts[reader[r].path] \in Nat /\ counts'[reader[r].path] \in Nat
            /\ counts[reader[r].path] <= counts'[reader[r].path]
      BY <1>t, <2>2
    <3> QED BY <2>1, <3>1, <3>2 DEF Seen
  <2>3. CASE reader[r].path = path
    <3>1. /\ counts'[path] = 0 /\ reader'[r].least = 0 /\ reader'[r].mine \in {None, 0}
          /\ reader[r].mine = None => reader'[r].mine = None
      BY <1>t, <1>3, <2>3
    <3>2. reader'[r].at \in {"set", "end", "answered"} => reader'[r].answer.count >= 0
      BY <1>t, <1>2 DEF Counted
    <3> QED BY <1>2, <2>1, <2>3, <3>1, <3>2 DEF Seen
  <2> QED BY <2>2, <2>3
<1>8. ASSUME NEW r \in Clients PROVE Waits(r)'
  <2> SUFFICES ASSUME reader'[r].at = "waiting" PROVE Waits(r)'
    BY DEF Waits
  <2>1. /\ reader[r].call \in Clients
        /\ Running(reader[r].call, reader[r].path)
        /\ Counts(reader[r].call, reader[r].least)
    BY <1>2 DEF MissInv, Waits
  <2>2. PICK l \in Clients : l = reader[r].call
    BY <2>1
  <2>3. PICK n \in {0, reader[r].least} : reader'[r].least = n
    BY <1>3
  <2>4. Counts(l, n)'
    BY <1>2, <1>5, <2>1, <2>2 DEF Counts
  <2>5. Running(l, reader[r].path)'
    BY <1>2, <2>1, <2>2 DEF Running
  <2> QED BY <1>2, <2>2, <2>3, <2>4, <2>5 DEF Waits, Running, Counts
<1> QED BY <1>4, <1>6, <1>7, <1>8 DEF MissInv

LEMMA MissStep ==
  ASSUME Typed, Typed', MissInv, CountsOfPosts, [Next]_vars
  PROVE  MissInv'
<1>t. /\ reader \in [Clients -> ReactionRequest] /\ counts \in [Paths -> Nat]
  BY DEF Typed, TypeOK, ReactionsTypeOK
\* Steps that leave the requests for reactions alone.
<1>1. ASSUME UNCHANGED <<counts, forgotten, answerCalls, reader>> PROVE MissInv'
  BY <1>1, CallersSame DEF SameRequest
<1>2. ASSUME NEW c \in Clients, NEW path \in Paths, RemovePost(c, path)
      PROVE  MissInv'
  <2>1. /\ reader' = Freed(path) /\ counts' = [counts EXCEPT ![path] = 0]
        /\ forgotten' = [forgotten EXCEPT ![path] = 0] /\ UNCHANGED answerCalls
    BY <1>2 DEF RemovePost
  <2>2. counts'[path] = 0 /\ \A p \in Paths \ {path} : counts[p] <= counts'[p]
    BY <1>t, <2>1
  <2> QED BY <2>1, <2>2, FreedMiss
<1>m. ASSUME NEW c \in Clients, NEW old \in Paths, NEW path \in Paths, NEW row \in Row,
             MovePost(c, old, path, row), CountsOfPosts
      PROVE  MissInv'
  <2>1. /\ reader' = Freed(old) /\ old # path /\ counts[path] = 0
        /\ counts' = [counts EXCEPT ![old] = 0, ![path] = counts[old]]
        /\ forgotten' = [forgotten EXCEPT ![old] = 0] /\ UNCHANGED answerCalls
    BY <1>m DEF MovePost, CountsOfPosts
  <2>2. counts'[old] = 0 /\ \A p \in Paths \ {old} : counts[p] <= counts'[p]
    BY <1>t, <2>1
  <2> QED BY <2>1, <2>2, FreedMiss
<1>3. ASSUME NEW c \in Clients, NEW path \in Paths,
             \/ \E row \in Row : SavePost(c, path, row)
             \/ MarkDeleted(c, path) \/ UndeletePost(c, path)
      PROVE  MissInv'
  BY <1>1, <1>3 DEF SavePost, MarkDeleted, UndeletePost, reactionVars
<1>4. ASSUME NEW c \in Clients, BeginReading(c) \/ BeginReaction(c)
      PROVE  MissInv'
  <2>1. PICK path \in Paths : GetReactions(c, path) \/ PostReaction(c, path)
    BY <1>4, ReadsAssumption DEF BeginReading, BeginReaction, ReadsAssumption
  <2>2. /\ \A r \in Clients \ {c} : reader'[r] = reader[r]
        /\ UNCHANGED <<counts, forgotten, answerCalls>>
        /\ reader[c].at = "idle" /\ reader'[c].at \in {"check", "insert"}
        /\ reader'[c].path = path /\ reader'[c].mine = reader[c].mine
        /\ reader'[c].least = reader[c].least
    BY <2>1, <1>t DEF GetReactions, PostReaction, ReaderAt, ReactionRequest
  <2>3. reader[c].mine = None /\ reader[c].least = 0 /\ counts[path] \in Nat
    BY <2>2, <1>t DEF MissInv, Seen
  <2>4. Seen(c)' /\ Waits(c)'
    BY <2>2, <2>3 DEF Seen, Waits
  <2>5. \A p \in Paths : counts[p] <= counts[p]
    BY <1>t
  <2> QED BY <2>2, <2>4, <2>5, OutsideCalls DEF SameRequest
<1>5. ASSUME NEW c \in Clients, Continue(c) PROVE MissInv'
  <2>1. CASE VisitStep(c) /\ UNCHANGED <<rows, gone, reactionVars, write, writes, skipped>>
    BY <1>1, <2>1 DEF reactionVars
  <2>2. CASE ReactionStep(c)
    BY <2>2, ReactionStepMiss
  <2>3. CASE Purge(c)
    BY <1>1, <2>3 DEF Purge, reactionVars
  <2>4. CASE DropReactions(c)
    <3>1. \A r \in Clients : SameRequest(r)
      BY <2>4, ReactionsSplit, LateReadersTyped
      DEF DropReactions, SameRequest, Typed, TypeOK, Known
    <3> QED BY <2>4, <3>1, CallersSame DEF DropReactions
  <2>5. CASE Reload(c) \/ ReloadMisses(c) \/ ReloadFails(c)
    BY <1>1, <2>5 DEF Reload, ReloadMisses, ReloadFails, reactionVars
  <2> QED BY <1>5, <2>1, <2>2, <2>3, <2>4, <2>5 DEF Continue
<1>6. ASSUME NEW c \in Clients, BeginVisit(c) PROVE MissInv'
  BY <1>1, <1>6 DEF BeginVisit, reactionVars
<1>7. ASSUME NEW path \in Paths, PageExpires(path) \/ AnswerExpires(path)
      PROVE  MissInv'
  BY <1>1, <1>7 DEF PageExpires, AnswerExpires, ExpireAnswer, reactionVars
<1>8. CASE UNCHANGED vars
  BY <1>1, <1>8 DEF vars, reactionVars
<1> QED BY <1>2, <1>m, <1>3, <1>4, <1>5, <1>6, <1>7, <1>8 DEF Next, BeginWrite

LEMMA CountsStep ==
  ASSUME Typed, CountsOfPosts, [Next]_vars
  PROVE  CountsOfPosts'
<1>t. /\ rows \in [Paths -> Row \cup {None}] /\ counts \in [Paths -> Nat]
      /\ \A r \in Clients : reader[r].at # "idle" => reader[r].path \in Paths
  BY DEF Typed, TypeOK, Known, ReactionsTypeOK
<1> USE DEF CountsOfPosts, Exists
<1>1. ASSUME UNCHANGED <<rows, counts>> PROVE CountsOfPosts'
  BY <1>1
<1>2. ASSUME NEW c \in Clients, NEW path \in Paths, NEW row \in Row,
             SavePost(c, path, row)
      PROVE  CountsOfPosts'
  BY <1>2, <1>t, RowsAssumption DEF SavePost, reactionVars
<1>3. ASSUME NEW c \in Clients, NEW old \in Paths, NEW path \in Paths, NEW row \in Row,
             MovePost(c, old, path, row)
      PROVE  CountsOfPosts'
  BY <1>3, <1>t, RowsAssumption DEF MovePost
<1>4. ASSUME NEW c \in Clients, NEW path \in Paths, RemovePost(c, path)
      PROVE  CountsOfPosts'
  BY <1>4, <1>t DEF RemovePost
<1>5. ASSUME NEW c \in Clients, NEW path \in Paths,
             MarkDeleted(c, path) \/ UndeletePost(c, path)
      PROVE  CountsOfPosts'
  <2>1. PICK b \in BOOLEAN : rows' = [rows EXCEPT ![path].deleted = b]
    BY <1>5 DEF MarkDeleted, UndeletePost
  <2>2. rows[path] # None /\ UNCHANGED counts
    BY <1>5 DEF MarkDeleted, UndeletePost, reactionVars
  <2>3. \A p \in Paths \ {path} : rows'[p] = rows[p]
    BY <1>t, <2>1
  <2>4. rows[path] \in Row /\ rows'[path] = [rows[path] EXCEPT !.deleted = b]
    BY <1>t, <2>1, <2>2
  <2>5. rows'[path] # None
    BY <2>4, RowsAssumption DEF Row
  <2> QED BY <2>2, <2>3, <2>5
<1>6. ASSUME NEW c \in Clients, Continue(c) PROVE CountsOfPosts'
  <2>1. CASE InsertReaction(c) /\ UNCHANGED rows
    <3>1. /\ reader[c].path \in Paths /\ Exists(reader[c].path)
          /\ \A p \in Paths \ {reader[c].path} : counts'[p] = counts[p]
      BY <1>t, <2>1 DEF InsertReaction, ReaderAt
    <3> QED BY <2>1, <3>1
  <2>2. CASE ~InsertReaction(c)
    <3>1. ReactionStep(c) => UNCHANGED counts
      BY <2>2 DEF ReactionStep, RefuseReaction, DropOwn, ForgetCall, GetOwn, AnswerHit,
                  AnswerMiss, LeadAnswer, AwaitAnswer, QueryReactions, SetAnswer, EndCall,
                  ReturnReactions
    <3>2. UNCHANGED <<rows, counts>>
      BY <1>6, <3>1 DEF Continue, Purge, DropReactions, Reload, ReloadMisses, ReloadFails,
                        reactionVars
    <3> QED BY <1>1, <3>2
  <2>3. InsertReaction(c) /\ Continue(c) => UNCHANGED rows
    BY DEF Continue, Purge, DropReactions, Reload, ReloadMisses, ReloadFails
  <2> QED BY <1>6, <2>1, <2>2, <2>3
<1>7. ASSUME NEW c \in Clients, BeginVisit(c) \/ BeginReading(c) \/ BeginReaction(c)
      PROVE  CountsOfPosts'
  BY <1>1, <1>7 DEF BeginVisit, BeginReading, BeginReaction, GetReactions, PostReaction,
                    reactionVars
<1>8. ASSUME NEW path \in Paths, PageExpires(path) \/ AnswerExpires(path)
      PROVE  CountsOfPosts'
  BY <1>1, <1>8 DEF PageExpires, AnswerExpires, ExpireAnswer, reactionVars
<1>9. CASE UNCHANGED vars
  BY <1>1, <1>9 DEF vars, reactionVars
<1> QED BY <1>2, <1>3, <1>4, <1>5, <1>6, <1>7, <1>8, <1>9 DEF Next, BeginWrite

\* reactions.go: whoever misses the cache and joins or leads a call sees all
\* reactions whose senders had forgotten the running call before.
THEOREM MissesAreFresh == Spec => []MissIsFresh
<1>1. Typed /\ MissInv /\ CountsOfPosts /\ [Next]_vars =>
        (Typed /\ MissInv /\ CountsOfPosts)'
  BY ReadsAssumption, TypedStep, MissStep, CountsStep
<1>2. Init => Typed /\ MissInv /\ CountsOfPosts
  <2> HAVE Init
  <2>1. Typed
    BY ReadsAssumption, TypedInit
  <2>2. MissInv
    BY DEF Init, ReactionsInit, NoRequest, MissInv, ForgottenAreCounted, CallsFresh,
           Seen, Waits
  <2>3. CountsOfPosts
    BY DEF Init, ReactionsInit, CountsOfPosts
  <2> QED BY <2>1, <2>2, <2>3
<1>3. MissInv => MissIsFresh
  BY DEF MissInv, Seen, MissIsFresh, ReaderAt
<1> QED BY <1>1, <1>2, <1>3, PTL DEF Spec

=============================================================================
