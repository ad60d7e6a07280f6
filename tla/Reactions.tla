----------------------------- MODULE Reactions -----------------------------
(***************************************************************************)
(* Reactions to posts (reactions.go).  A reaction is inserted, then the    *)
(* cached answer of its post is dropped, then the running call of the post *)
(* is forgotten, and its sender gets the reactions as every reader does:   *)
(* from the cache or, on a miss, from one query for all that wait.         *)
(***************************************************************************)
EXTENDS Integers, PostRows

VARIABLES
  counts,       \* table reactions
  answers,      \* the cache: what was read last, or None, for every path
  answerLate,   \* history: the answer was read before it was dropped once
  answerCalls,  \* the running call of every path
  reader,       \* the request every client has made
  forgotten     \* history: reactions after whose insertion calls were forgotten

reactionVars ==
  <<counts, answers, answerLate, answerCalls, reader, forgotten>>

Counted == [count : Nat, on : BOOLEAN]

\* mine, least and late are history: the count after the client's own
\* reaction, the count at least to be seen, whether the answer was dropped
\* since the client leads the call.
NoRequest ==
  [at |-> "idle", path |-> None, mine |-> None, least |-> 0, answer |-> None,
   call |-> None, late |-> FALSE]

ReactionRequest ==
  [at : {"idle", "insert", "drop", "forget", "get", "check", "miss", "query",
         "set", "end", "waiting", "answered"},
   path : Paths \cup {None},
   mine : Nat \cup {None}, least : Nat,
   answer : Counted \cup {None},
   call : Clients \cup {None},
   late : BOOLEAN]

ReactionsTypeOK ==
  /\ counts \in [Paths -> Nat]
  /\ answers \in [Paths -> Counted \cup {None}]
  /\ answerLate \in [Paths -> BOOLEAN]
  /\ answerCalls \in [Paths -> Clients \cup {None}]
  /\ reader \in [Clients -> ReactionRequest]
  /\ forgotten \in [Paths -> Nat]
  /\ \A c \in Clients :
       reader[c].at \in {"set", "end", "answered"} => reader[c].answer \in Counted

ReactionsInit ==
  /\ counts = [path \in Paths |-> 0]
  /\ answers = [path \in Paths |-> None]
  /\ answerLate = [path \in Paths |-> FALSE]
  /\ answerCalls = [path \in Paths |-> None]
  /\ reader = [c \in Clients |-> NoRequest]
  /\ forgotten = [path \in Paths |-> 0]

-----------------------------------------------------------------------------
ReaderAt(c, at) == reader[c].at = at
GoTo(c, at)     == reader' = [reader EXCEPT ![c].at = at]

\* reactionsQuery: nothing if the parameter "reactions" of the post forbids it.
Queried(path) ==
  LET on == Exists(path) => rows[path].reactions
  IN  [count |-> IF on THEN counts[path] ELSE 0, on |-> on]

\* deleteReactionsCache: a call whose query runs already stores its old
\* answer later.
DropAnswer(path) ==
  /\ answers' = [answers EXCEPT ![path] = None]
  /\ answerLate' = [answerLate EXCEPT ![path] = FALSE]
LateReaders(path) ==
  [c \in Clients |->
     [reader[c] EXCEPT !.late = @ \/ (reader[c].path = path /\ ReaderAt(c, "set"))]]

-----------------------------------------------------------------------------
(***************************************************************************)
(* postReaction and saveReaction.  The deferred calls run also after an    *)
(* insertion that the foreign key refuses because the post was removed.    *)
(***************************************************************************)
PostReaction(c, path) ==
  /\ ReaderAt(c, "idle") /\ Exists(path)
  /\ reader' = [reader EXCEPT ![c].at = "insert", ![c].path = path]
  /\ UNCHANGED <<counts, answers, answerLate, answerCalls, forgotten>>

InsertReaction(c) ==
  LET path == reader[c].path IN
  /\ ReaderAt(c, "insert") /\ Exists(path)
  /\ counts' = [counts EXCEPT ![path] = @ + 1]
  /\ reader' = [reader EXCEPT ![c].at = "drop", ![c].mine = counts[path] + 1]
  /\ UNCHANGED <<answers, answerLate, answerCalls, forgotten>>

RefuseReaction(c) ==
  /\ ReaderAt(c, "insert") /\ ~Exists(reader[c].path)
  /\ GoTo(c, "drop")
  /\ UNCHANGED <<counts, answers, answerLate, answerCalls, forgotten>>

DropOwn(c) ==
  /\ ReaderAt(c, "drop")
  /\ DropAnswer(reader[c].path)
  /\ reader' = [LateReaders(reader[c].path) EXCEPT ![c].at = "forget"]
  /\ UNCHANGED <<counts, answerCalls, forgotten>>

\* Mistake: the running call is not forgotten.
ForgetCallNot(c) ==
  LET path == reader[c].path IN
  /\ ReaderAt(c, "forget")
  /\ IF reader[c].mine = None
       THEN reader' = [reader EXCEPT ![c] = NoRequest] /\ UNCHANGED forgotten
       ELSE /\ GoTo(c, "get")
            /\ forgotten' = [forgotten EXCEPT ![path] =
                               IF reader[c].mine > @ THEN reader[c].mine ELSE @]
  /\ UNCHANGED <<counts, answers, answerLate, answerCalls>>

ForgetCall(c) ==
  LET path == reader[c].path IN
  /\ ReaderAt(c, "forget")
  /\ answerCalls' = Forgotten(answerCalls, path)
  /\ IF reader[c].mine = None
       THEN reader' = [reader EXCEPT ![c] = NoRequest] /\ UNCHANGED forgotten
       ELSE /\ GoTo(c, "get")
            /\ forgotten' = [forgotten EXCEPT ![path] =
                               IF reader[c].mine > @ THEN reader[c].mine ELSE @]
  /\ UNCHANGED <<counts, answers, answerLate>>

-----------------------------------------------------------------------------
(***************************************************************************)
(* getReactions: a post that does not exist is an error; the cache is      *)
(* asked before the call is joined or begun.                               *)
(***************************************************************************)
GetReactions(c, path) ==
  /\ ReaderAt(c, "idle") /\ Exists(path)
  /\ reader' = [reader EXCEPT ![c].at = "check", ![c].path = path]
  /\ UNCHANGED <<counts, answers, answerLate, answerCalls, forgotten>>

GetOwn(c) ==
  /\ ReaderAt(c, "get")
  /\ reader' = IF Exists(reader[c].path) THEN [reader EXCEPT ![c].at = "check"]
               ELSE [reader EXCEPT ![c] = NoRequest]
  /\ UNCHANGED <<counts, answers, answerLate, answerCalls, forgotten>>

AnswerHit(c) ==
  LET path == reader[c].path IN
  /\ ReaderAt(c, "check") /\ answers[path] # None
  /\ reader' = [reader EXCEPT ![c].at = "answered", ![c].answer = answers[path]]
  /\ UNCHANGED <<counts, answers, answerLate, answerCalls, forgotten>>

AnswerMiss(c) ==
  /\ ReaderAt(c, "check") /\ answers[reader[c].path] = None
  /\ GoTo(c, "miss")
  /\ UNCHANGED <<counts, answers, answerLate, answerCalls, forgotten>>

LeadAnswer(c) ==
  LET path == reader[c].path IN
  /\ ReaderAt(c, "miss") /\ answerCalls[path] = None
  /\ answerCalls' = Led(answerCalls, path, c)
  /\ reader' = [reader EXCEPT ![c].at = "query", ![c].least = forgotten[path]]
  /\ UNCHANGED <<counts, answers, answerLate, forgotten>>

AwaitAnswer(c) ==
  LET path == reader[c].path IN
  /\ ReaderAt(c, "miss") /\ answerCalls[path] # None
  /\ reader' = [reader EXCEPT ![c].at = "waiting", ![c].least = forgotten[path],
                              ![c].call = answerCalls[path]]
  /\ UNCHANGED <<counts, answers, answerLate, answerCalls, forgotten>>

QueryReactions(c) ==
  /\ ReaderAt(c, "query")
  /\ reader' = [reader EXCEPT ![c].at = "set",
                              ![c].answer = Queried(reader[c].path)]
  /\ UNCHANGED <<counts, answers, answerLate, answerCalls, forgotten>>

SetAnswer(c) ==
  /\ ReaderAt(c, "set")
  /\ answers' = [answers EXCEPT ![reader[c].path] = reader[c].answer]
  /\ answerLate' = [answerLate EXCEPT ![reader[c].path] = reader[c].late]
  /\ GoTo(c, "end")
  /\ UNCHANGED <<counts, answerCalls, forgotten>>

\* The call ends for its leader and for all who wait for it.
EndCall(c) ==
  /\ ReaderAt(c, "end")
  /\ answerCalls' = Ended(answerCalls, reader[c].path, c)
  /\ reader' = [r \in Clients |->
       IF r = c \/ (ReaderAt(r, "waiting") /\ reader[r].call = c)
         THEN [reader[r] EXCEPT !.at = "answered", !.answer = reader[c].answer,
                                !.late = FALSE]
         ELSE reader[r]]
  /\ UNCHANGED <<counts, answers, answerLate, forgotten>>

ReturnReactions(c) ==
  /\ ReaderAt(c, "answered")
  /\ reader' = [reader EXCEPT ![c] = NoRequest]
  /\ UNCHANGED <<counts, answers, answerLate, answerCalls, forgotten>>

ReactionStep(c) ==
  \/ InsertReaction(c) \/ RefuseReaction(c) \/ DropOwn(c) \/ ForgetCall(c)
  \/ GetOwn(c) \/ AnswerHit(c) \/ AnswerMiss(c) \/ LeadAnswer(c)
  \/ AwaitAnswer(c) \/ QueryReactions(c) \/ SetAnswer(c) \/ EndCall(c)
  \/ ReturnReactions(c)

ExpireAnswer(path) ==
  /\ answers[path] # None
  /\ DropAnswer(path)
  /\ UNCHANGED <<counts, answerCalls, reader, forgotten>>
=============================================================================
