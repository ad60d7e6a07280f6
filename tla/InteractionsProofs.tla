------------------------- MODULE InteractionsProofs -------------------------
(***************************************************************************)
(* Proofs about Interactions, for every number of pages, notes, comments,  *)
(* requests, inputs and faults: the types, and the four invariants that    *)
(* relate what is stored of a source to what the source is.                *)
(***************************************************************************)
EXTENDS Interactions, FiniteSetTheorems, TLAPS

TypeOK == TablesTypeOK /\ MentionsTypeOK /\ CommentsTypeOK

-----------------------------------------------------------------------------
(***************************************************************************)
(* The parts of the inductive invariant.                                   *)
(***************************************************************************)

\* Every change was or will be made for an input: requests that may still
\* change a comment have an input in hand.
Changing == {r \in Requests : request[r].at \in {"find", "insert", "update"}}
Budget ==
  /\ IsFiniteSet(Changing)
  /\ changes + Cardinality(Changing) <= inputs

\* The item of the worker is still in the queue, and a redirect leads from a
\* page to a page.
Held ==
  /\ worker.at = "idle" => worker = Resting
  /\ worker.at # "idle" =>
       /\ queue[worker.source] > 0
       /\ worker.source \in Ids \/ worker.final \in Ids => worker.final = worker.source

\* The worker has read the page of the source.
HasRead == worker.at \in {"lookup", "update", "insert"}

\* A number that was never given has no traces.
Unused ==
  \A id \in Ids :
    id > lastId =>
      /\ comments[id] = None /\ mentions[id] = None /\ asked[id] = 0
      /\ HasRead => worker.source # id
      /\ \A r \in Requests :
           request[r].at \in {"update", "queue", "delete"} => request[r].id # id

\* Sources get only newer: none is older than when it was queued.
AskedIsPast ==
  /\ \A page \in Pages : asked[page] <= pages[page].version
  /\ \A id \in Ids : comments[id] # None => asked[id] <= comments[id].version
  /\ \A page \in Pages : pages[page].version <= changes
  /\ \A id \in Ids : comments[id] # None => comments[id].version <= changes

\* What came for a source after the worker read it is still in the queue.
More(source) == queue[source] > (IF worker.source = source THEN 1 ELSE 0)
ReadIsNew == HasRead => worker.version >= asked[worker.final] \/ More(worker.final)

\* What the worker is about to insert is not there.
NothingStored == worker.at = "insert" => \A source \in Touched : mentions[source] = None

\* Nothing of the source is left to verify, or will be when the worker is done.
Verifiedly(source) ==
  /\ source \notin dropped
  /\ \/ queue[source] = 0
     \/ queue[source] = 1 /\ worker.source = source /\ worker.at = "dequeue"

StoredIsNew ==
  \A source \in Sources :
    Verifiedly(source) /\ mentions[source] # None =>
      mentions[source].version >= asked[source]

\* A request is about to queue the comment again.
ToQueue(id) == \E r \in Requests : request[r].at = "queue" /\ request[r].id = id

ReadIsCurrent ==
  \A id \in Ids :
    /\ HasRead /\ worker.source = id /\ comments[id] # None
    /\ ~ToQueue(id) /\ ~More(id) /\ id \notin dropped
    => worker.version = comments[id].version

StoredIsCurrent ==
  \A id \in Ids :
    /\ Verifiedly(id) /\ ~ToQueue(id) /\ comments[id] # None /\ mentions[id] # None
    => mentions[id].version = comments[id].version

\* The note of a comment never changes: who has read it has its note.
NotesAgree ==
  /\ \A id \in Ids :
       /\ comments[id] # None /\ mentions[id] # None => mentions[id].note = comments[id].note
       /\ comments[id] # None /\ HasRead /\ worker.source = id => worker.note = comments[id].note
       /\ worker.at = "update" /\ worker.source = id /\ mentions[id] # None =>
            mentions[id].note = worker.note \/ id \in forsaken
  /\ \A r \in Requests :
       request[r].at = "delete" /\ comments[request[r].id] # None =>
         request[r].note = comments[request[r].id].note

\* A comment that goes while the worker holds it is forsaken ...
HeldIsForsaken ==
  \A id \in Ids :
    HoldsComment(id) /\ comments[id] = None => id \in forsaken

\* ... and of any other the row is about to be deleted.
Orphans ==
  \A id \in Ids :
    comments[id] = None /\ mentions[id] # None /\ id \notin forsaken =>
      \E r \in Requests : request[r].at = "deleteMentions" /\ request[r].note = mentions[id].note

\* Two requests look for or insert a note only if it came again meanwhile, and
\* so does one that inserts a note a comment has.
Doubles ==
  /\ \A r, s \in Requests :
       /\ r # s /\ request[r].note = request[s].note /\ request[r].note # None
       /\ request[r].at \in {"find", "insert"} /\ request[s].at \in {"find", "insert"}
       => request[r].note \in overlapped
  /\ \A r \in Requests, id \in Ids :
       /\ request[r].at = "insert" /\ request[r].note # None
       /\ comments[id] # None /\ comments[id].note = request[r].note
       => request[r].note \in overlapped

Shape == TypeOK /\ Budget /\ Held /\ Unused
IInv ==
  /\ Shape /\ AskedIsPast
  /\ ReadIsNew /\ NothingStored /\ StoredIsNew
  /\ ReadIsCurrent /\ StoredIsCurrent
  /\ NotesAgree /\ HeldIsForsaken /\ Orphans
  /\ Doubles /\ OneCommentPerNote

-----------------------------------------------------------------------------
(***************************************************************************)
(* Each part depends on few variables: a step that leaves them alone keeps *)
(* it.                                                                     *)
(***************************************************************************)
LEMMA Frames ==
  /\ Budget /\ UNCHANGED <<inputs, changes, request>>
       => Budget'
  /\ Held /\ UNCHANGED <<worker, queue>>
       => Held'
  /\ Unused /\ UNCHANGED <<lastId, comments, mentions, asked, worker, request>>
       => Unused'
  /\ AskedIsPast /\ UNCHANGED <<asked, pages, comments, changes>>
       => AskedIsPast'
  /\ ReadIsNew /\ UNCHANGED <<worker, asked, queue>>
       => ReadIsNew'
  /\ NothingStored /\ UNCHANGED <<worker, mentions>>
       => NothingStored'
  /\ StoredIsNew /\ UNCHANGED <<dropped, queue, worker, mentions, asked>>
       => StoredIsNew'
  /\ ReadIsCurrent /\ UNCHANGED <<worker, comments, request, queue, dropped>>
       => ReadIsCurrent'
  /\ StoredIsCurrent /\ UNCHANGED <<dropped, queue, worker, request, comments, mentions>>
       => StoredIsCurrent'
  /\ NotesAgree /\ UNCHANGED <<comments, mentions, worker, forsaken, request>>
       => NotesAgree'
  /\ HeldIsForsaken /\ UNCHANGED <<worker, comments, forsaken>>
       => HeldIsForsaken'
  /\ Orphans /\ UNCHANGED <<comments, mentions, forsaken, request>>
       => Orphans'
  /\ Doubles /\ UNCHANGED <<request, overlapped, comments>>
       => Doubles'
  /\ OneCommentPerNote /\ UNCHANGED <<comments, overlapped>>
       => OneCommentPerNote'
<1>1. Budget /\ UNCHANGED <<inputs, changes, request>>
        => Budget'
  BY DEF Budget, Changing
<1>2. Held /\ UNCHANGED <<worker, queue>>
        => Held'
  BY DEF Held
<1>3. Unused /\ UNCHANGED <<lastId, comments, mentions, asked, worker, request>>
        => Unused'
  BY DEF Unused, HasRead
<1>4. AskedIsPast /\ UNCHANGED <<asked, pages, comments, changes>>
        => AskedIsPast'
  BY DEF AskedIsPast
<1>5. ReadIsNew /\ UNCHANGED <<worker, asked, queue>>
        => ReadIsNew'
  BY DEF ReadIsNew, HasRead, More
<1>6. NothingStored /\ UNCHANGED <<worker, mentions>>
        => NothingStored'
  BY DEF NothingStored, Touched
<1>7. StoredIsNew /\ UNCHANGED <<dropped, queue, worker, mentions, asked>>
        => StoredIsNew'
  BY DEF StoredIsNew, Verifiedly
<1>8. ReadIsCurrent /\ UNCHANGED <<worker, comments, request, queue, dropped>>
        => ReadIsCurrent'
  BY DEF ReadIsCurrent, HasRead, ToQueue, More
<1>9. StoredIsCurrent /\ UNCHANGED <<dropped, queue, worker, request, comments, mentions>>
        => StoredIsCurrent'
  BY DEF StoredIsCurrent, Verifiedly, ToQueue
<1>10. NotesAgree /\ UNCHANGED <<comments, mentions, worker, forsaken, request>>
        => NotesAgree'
  BY DEF NotesAgree, HasRead
<1>11. HeldIsForsaken /\ UNCHANGED <<worker, comments, forsaken>>
        => HeldIsForsaken'
  BY DEF HeldIsForsaken, HoldsComment
<1>12. Orphans /\ UNCHANGED <<comments, mentions, forsaken, request>>
        => Orphans'
  BY DEF Orphans
<1>13. Doubles /\ UNCHANGED <<request, overlapped, comments>>
        => Doubles'
  BY DEF Doubles
<1>14. OneCommentPerNote /\ UNCHANGED <<comments, overlapped>>
        => OneCommentPerNote'
  BY DEF OneCommentPerNote
<1> QED BY <1>1, <1>2, <1>3, <1>4, <1>5, <1>6, <1>7, <1>8, <1>9, <1>10, <1>11, <1>12, <1>13,
           <1>14

-----------------------------------------------------------------------------
(***************************************************************************)
(* What a page, a comment and a redirect are when they are read.           *)
(***************************************************************************)
LEMMA Versions ==
  ASSUME TypeOK, NEW source \in Sources
  PROVE  /\ VersionOf(source) \in Version
         /\ NoteOf(source) \in Notes \cup {None}
         /\ source \in Pages => VersionOf(source) = pages[source].version
         /\ source \in Ids /\ comments[source] # None =>
              /\ VersionOf(source) = comments[source].version
              /\ NoteOf(source) = comments[source].note
         /\ source \in Ids /\ comments[source] = None =>
              VersionOf(source) = 0 /\ Is(source) = "gone"
<1> USE TablesAssumption DEF TypeOK, TablesTypeOK, Sources, Ids, Page, Comment
<1>1. source \notin Pages \/ source \notin 1 .. MaxComments
  OBVIOUS
<1>2. 0 \in Version
  BY DEF Version
<1>3. CASE source \in Pages
  BY <1>1, <1>3 DEF VersionOf, NoteOf
<1>4. CASE source \in 1 .. MaxComments /\ comments[source] # None
  BY <1>1, <1>4 DEF VersionOf, NoteOf
<1>5. CASE source \in 1 .. MaxComments /\ comments[source] = None
  BY <1>1, <1>2, <1>5 DEF VersionOf, NoteOf, Is
<1> QED BY <1>3, <1>4, <1>5

LEMMA Redirects ==
  ASSUME NEW source \in Sources
  PROVE  /\ Final(source) \in Sources
         /\ source \in Ids \/ Final(source) \in Ids => Final(source) = source
BY TablesAssumption DEF Final, Sources, Ids

\* What the types say of single values: the proofs use nothing else of them.
Typed ==
  /\ lastId \in Nat /\ changes \in Nat /\ inputs \in Nat
  /\ \A source \in Sources :
       /\ queue[source] \in Nat /\ asked[source] \in Nat
       /\ mentions[source] # None => mentions[source].version \in Nat
  /\ \A page \in Pages : page \in Sources /\ pages[page].version \in Nat
  /\ \A id \in Ids :
       /\ id \in Nat /\ id \in Sources /\ id \notin Pages
       /\ comments[id] # None => comments[id].version \in Nat
  /\ worker.version \in Nat
  /\ worker.at # "idle" => worker.source \in Sources /\ worker.final \in Sources
  /\ \A r \in Requests :
       request[r].at \in {"update", "queue", "delete"} => request[r].id \in Ids

LEMMA Ranges == TypeOK => Typed
<1> SUFFICES ASSUME TypeOK PROVE Typed
  OBVIOUS
<1> USE TablesAssumption DEF TypeOK, Version
<1>1. /\ lastId \in Nat /\ changes \in Nat /\ inputs \in Nat
  BY DEF TablesTypeOK
<1>2. \A source \in Sources :
        /\ queue[source] \in Nat /\ asked[source] \in Nat
        /\ mentions[source] # None => mentions[source].version \in Nat
  BY DEF TablesTypeOK, Mention
<1>3. \A page \in Pages : page \in Sources /\ pages[page].version \in Nat
  BY DEF TablesTypeOK, Page, Sources
<1>4. \A id \in Ids :
        /\ id \in Nat /\ id \in Sources /\ id \notin Pages
        /\ comments[id] # None => comments[id].version \in Nat
  <2>1. ASSUME NEW id \in Ids PROVE id \in Nat /\ id \in Sources /\ id \notin Pages
    BY <2>1 DEF Sources, Ids
  <2>2. ASSUME NEW id \in Ids, comments[id] # None PROVE comments[id].version \in Nat
    <3>1. comments[id] \in Comment
      BY <2>2 DEF TablesTypeOK
    <3> QED BY <3>1 DEF Comment
  <2> QED BY <2>1, <2>2
<1>5. /\ worker.version \in Nat
      /\ worker.at # "idle" => worker.source \in Sources /\ worker.final \in Sources
  BY DEF MentionsTypeOK, Verification
<1>6. \A r \in Requests :
        request[r].at \in {"update", "queue", "delete"} => request[r].id \in Ids
  BY DEF CommentsTypeOK
<1> QED BY <1>1, <1>2, <1>3, <1>4, <1>5, <1>6 DEF Typed

LEMMA GoesOn ==
  ASSUME TypeOK,
         NEW at \in {"source", "remove", "lookup", "update", "insert", "dequeue"}, GoOn(at)
  PROVE  /\ worker' \in Verification /\ worker'.at = at
         /\ worker'.source = worker.source /\ worker'.final = worker.final
         /\ worker'.version = worker.version /\ worker'.note = worker.note
BY DEF TypeOK, MentionsTypeOK, GoOn, Verification

-----------------------------------------------------------------------------
(***************************************************************************)
(* The budget of changes: an input allows one, now or later.               *)
(***************************************************************************)
LEMMA Spent ==
  ASSUME Budget, inputs \in Nat, changes \in Nat, inputs' \in Nat, changes' \in Nat,
         \/ /\ Changing' \subseteq Changing
            /\ \/ changes' = changes /\ inputs' \in {inputs, inputs + 1}
               \/ changes' = changes + 1 /\ inputs' = inputs + 1
         \/ \E r \in Requests :
              /\ Changing' \subseteq Changing \cup {r}
              /\ changes' = changes /\ inputs' = inputs + 1
         \/ \E r \in Changing :
              /\ Changing' \subseteq Changing \ {r}
              /\ changes' = changes + 1 /\ inputs' = inputs
  PROVE  Budget'
<1>1. IsFiniteSet(Changing) /\ Cardinality(Changing) \in Nat
  BY FS_CardinalityType DEF Budget
<1>2. CASE /\ Changing' \subseteq Changing
           /\ \/ changes' = changes /\ inputs' \in {inputs, inputs + 1}
              \/ changes' = changes + 1 /\ inputs' = inputs + 1
  <2>1. IsFiniteSet(Changing') /\ Cardinality(Changing') <= Cardinality(Changing)
    BY <1>1, <1>2, FS_Subset
  <2>2. Cardinality(Changing') \in Nat
    BY <2>1, FS_CardinalityType
  <2>3. changes + Cardinality(Changing) <= inputs
    BY DEF Budget
  <2>4. changes' + Cardinality(Changing') <= inputs'
    BY <1>1, <1>2, <2>1, <2>2, <2>3
  <2> QED BY <2>1, <2>4 DEF Budget
<1>3. ASSUME NEW r \in Requests, Changing' \subseteq Changing \cup {r},
             changes' = changes, inputs' = inputs + 1
      PROVE  Budget'
  <2>1. IsFiniteSet(Changing \cup {r})
    BY <1>1, FS_AddElement
  <2>2. Cardinality(Changing \cup {r}) \in Nat
    BY <2>1, FS_CardinalityType
  <2>3. Cardinality(Changing \cup {r}) <= Cardinality(Changing) + 1
    BY <1>1, FS_AddElement
  <2>4. IsFiniteSet(Changing') /\ Cardinality(Changing') <= Cardinality(Changing \cup {r})
    BY <1>3, <2>1, FS_Subset
  <2>5. Cardinality(Changing') \in Nat
    BY <2>4, FS_CardinalityType
  <2> QED BY <1>1, <1>3, <2>2, <2>3, <2>4, <2>5 DEF Budget
<1>4. ASSUME NEW r \in Changing, Changing' \subseteq Changing \ {r},
             changes' = changes + 1, inputs' = inputs
      PROVE  Budget'
  <2>1. IsFiniteSet(Changing \ {r}) /\ Cardinality(Changing \ {r}) = Cardinality(Changing) - 1
    BY <1>1, <1>4, FS_RemoveElement
  <2>2. IsFiniteSet(Changing') /\ Cardinality(Changing') <= Cardinality(Changing \ {r})
    BY <1>4, <2>1, FS_Subset
  <2>3. Cardinality(Changing') \in Nat
    BY <2>2, FS_CardinalityType
  <2> QED BY <1>1, <1>4, <2>1, <2>2, <2>3 DEF Budget
<1> QED BY <1>2, <1>3, <1>4

LEMMA Allowed ==
  ASSUME Budget, changes \in Nat, inputs \in Nat
  PROVE  /\ changes <= inputs
         /\ \A r \in Changing : changes + 1 <= inputs
<1>1. IsFiniteSet(Changing) /\ Cardinality(Changing) \in Nat
  BY FS_CardinalityType DEF Budget
<1>2. ASSUME NEW r \in Changing PROVE Cardinality(Changing) > 0
  BY <1>1, <1>2, FS_EmptySet
<1> QED BY <1>1, <1>2 DEF Budget

-----------------------------------------------------------------------------
(***************************************************************************)
(* The steps.  <1>a says what the step does, value by value; a step that   *)
(* leaves the variables of a part alone keeps it by Frames.                *)
(***************************************************************************)

\* A page changes: its version is the newest.
LEMMA ChangePageKeeps ==
  ASSUME IInv, NEW page \in Pages, ChangePage(page), UNCHANGED commentVars
  PROVE  IInv'
<1> USE TablesAssumption, RowsAssumption, FaultsAssumption
    DEF IInv, Shape, mentionVars, commentVars, tables
<1>a. /\ inputs' = inputs + 1 /\ inputs' \in 0 .. MaxInputs
      /\ changes' = changes + 1 /\ changes' \in Version
      /\ pages' \in [Pages -> Page] /\ pages'[page].version = changes + 1
      /\ \A q \in Pages \ {page} : pages'[q] = pages[q]
      /\ UNCHANGED <<comments, lastId, mentions, queue, asked, dropped, worker, faults,
                     request, overlapped, forsaken>>
  <2>1. inputs \in Nat /\ changes \in Nat /\ pages \in [Pages -> Page]
    BY DEF TypeOK, TablesTypeOK, Version
  <2>2. changes <= inputs
    BY <2>1, Allowed
  <2>3. /\ inputs' = inputs + 1 /\ inputs' \in 0 .. MaxInputs
        /\ changes' = changes + 1 /\ changes' \in Version
    BY <2>1, <2>2 DEF ChangePage, Input, Change, Version
  <2>4. /\ pages' \in [Pages -> Page] /\ pages'[page].version = changes + 1
        /\ \A q \in Pages \ {page} : pages'[q] = pages[q]
    BY <2>1, <2>3 DEF ChangePage, Page
  <2> QED BY <2>3, <2>4 DEF ChangePage
<1>b. Typed
  BY Ranges
<1>1. TypeOK'
  BY <1>a DEF TypeOK, TablesTypeOK, MentionsTypeOK, CommentsTypeOK
<1>2. Budget'
  <2>1. inputs \in Nat /\ changes \in Nat /\ inputs' \in Nat /\ changes' \in Nat
    BY <1>1 DEF TypeOK, TablesTypeOK, Version
  <2>2. Changing' \subseteq Changing /\ changes' = changes + 1 /\ inputs' = inputs + 1
    BY <1>a, <2>1 DEF Changing
  <2> QED BY <2>1, <2>2, Spent
<1>3. AskedIsPast'
  BY <1>a, <1>b DEF AskedIsPast, Unused, HasRead, Typed
<1>4. /\ Held' /\ Unused' /\ ReadIsNew' /\ NothingStored' /\ StoredIsNew'
      /\ ReadIsCurrent' /\ StoredIsCurrent' /\ NotesAgree' /\ HeldIsForsaken'
      /\ Orphans' /\ Doubles' /\ OneCommentPerNote'
  BY <1>a, Frames
<1> QED BY <1>1, <1>2, <1>3, <1>4 DEF IInv, Shape

\* A webmention arrives and is queued: no claim about its source is left.
LEMMA HandleWebmentionKeeps ==
  ASSUME IInv, NEW source \in Sources, HandleWebmention(source), UNCHANGED commentVars
  PROVE  IInv'
<1> USE TablesAssumption, RowsAssumption, FaultsAssumption
    DEF IInv, Shape, mentionVars, commentVars, tables
<1>a. /\ inputs' = inputs + 1 /\ inputs' \in 0 .. MaxInputs
      /\ queue' \in [Sources -> Nat] /\ queue'[source] = queue[source] + 1
      /\ asked' \in [Sources -> Version] /\ asked'[source] = VersionOf(source)
      /\ \A s \in Sources \ {source} : queue'[s] = queue[s] /\ asked'[s] = asked[s]
      /\ VersionOf(source) \in Version
      /\ source \in Pages => VersionOf(source) = pages[source].version
      /\ source \in Ids /\ comments[source] # None => VersionOf(source) = comments[source].version
      /\ source \in Ids /\ comments[source] = None => VersionOf(source) = 0
      /\ UNCHANGED <<changes, pages, comments, lastId, mentions, dropped, worker, faults,
                     request, overlapped, forsaken>>
  BY Versions DEF HandleWebmention, Input, Queue, TypeOK, TablesTypeOK
<1>b. Typed
  BY Ranges
<1>1. TypeOK'
  BY <1>a DEF TypeOK, TablesTypeOK, MentionsTypeOK, CommentsTypeOK
<1>2. Budget'
  <2>1. inputs \in Nat /\ changes \in Nat /\ inputs' \in Nat /\ changes' \in Nat
    BY <1>1 DEF TypeOK, TablesTypeOK, Version
  <2>2. Changing' \subseteq Changing /\ changes' = changes /\ inputs' = inputs + 1
    BY <1>a, <2>1 DEF Changing
  <2> QED BY <2>1, <2>2, Spent
<1>3. Held'
  BY <1>a, <1>b DEF Held, Typed
<1>4. Unused'
  BY <1>a, <1>b DEF Unused, HasRead, Held, Typed
<1>5. AskedIsPast'
  BY <1>a, <1>b DEF AskedIsPast, Unused, HasRead, Typed
<1>6. ReadIsNew'
  BY <1>a, <1>b DEF ReadIsNew, HasRead, More, AskedIsPast, Held, Typed
<1>7. StoredIsNew'
  BY <1>a, <1>b DEF StoredIsNew, Verifiedly, Held, NothingStored, Touched, ReadIsNew,
                    HasRead, More, Typed
<1>8. ReadIsCurrent'
  BY <1>a, <1>b DEF ReadIsCurrent, HasRead, ToQueue, More, Held, Typed
<1>9. StoredIsCurrent'
  BY <1>a, <1>b DEF StoredIsCurrent, Verifiedly, ToQueue, Held, NothingStored, Touched,
                    ReadIsCurrent, HasRead, More, Typed
<1>10. /\ NothingStored' /\ NotesAgree' /\ HeldIsForsaken' /\ Orphans' /\ Doubles'
       /\ OneCommentPerNote'
  BY <1>a, Frames
<1> QED BY <1>1, <1>2, <1>3, <1>4, <1>5, <1>6, <1>7, <1>8, <1>9, <1>10 DEF IInv, Shape

LEMMA DeleteMentionKeeps ==
  ASSUME IInv, NEW source \in Sources, DeleteMention(source), UNCHANGED commentVars
  PROVE  IInv'
<1> USE TablesAssumption, RowsAssumption, FaultsAssumption
    DEF IInv, Shape, mentionVars, commentVars, tables
<1>a. /\ inputs' = inputs + 1 /\ inputs' \in 0 .. MaxInputs
      /\ mentions' \in [Sources -> Mention \cup {None}]
      /\ \A s \in Sources : mentions'[s] = None \/ mentions'[s] = mentions[s]
      /\ UNCHANGED <<changes, pages, comments, lastId, queue, asked, dropped, worker, faults,
                     request, overlapped, forsaken>>
  BY DEF DeleteMention, Input, Without, TypeOK, TablesTypeOK
<1>b. Typed
  BY Ranges
<1>1. TypeOK'
  BY <1>a DEF TypeOK, TablesTypeOK, MentionsTypeOK, CommentsTypeOK
<1>2. Budget'
  <2>1. inputs \in Nat /\ changes \in Nat /\ inputs' \in Nat /\ changes' \in Nat
    BY <1>1 DEF TypeOK, TablesTypeOK, Version
  <2>2. Changing' \subseteq Changing /\ changes' = changes /\ inputs' = inputs + 1
    BY <1>a, <2>1 DEF Changing
  <2> QED BY <2>1, <2>2, Spent
<1>3. Unused'
  BY <1>a, <1>b DEF Unused, HasRead, Held, Typed
<1>4. NothingStored'
  BY <1>a, <1>b DEF NothingStored, Touched, Typed
<1>5. StoredIsNew'
  BY <1>a, <1>b DEF StoredIsNew, Verifiedly, Held, NothingStored, Touched, ReadIsNew,
                    HasRead, More, Typed
<1>6. StoredIsCurrent'
  BY <1>a, <1>b DEF StoredIsCurrent, Verifiedly, ToQueue, Held, NothingStored, Touched,
                    ReadIsCurrent, HasRead, More, Typed
<1>7. NotesAgree'
  BY <1>a, <1>b DEF NotesAgree, HasRead, Unused, HeldIsForsaken, HoldsComment, Held, Typed
<1>8. Orphans'
  BY <1>a, <1>b DEF Orphans, NotesAgree, HasRead, HeldIsForsaken, HoldsComment, Held, Typed
<1>9. /\ Held' /\ AskedIsPast' /\ ReadIsNew' /\ ReadIsCurrent' /\ HeldIsForsaken'
      /\ Doubles' /\ OneCommentPerNote'
  BY <1>a, Frames
<1> QED BY <1>1, <1>2, <1>3, <1>4, <1>5, <1>6, <1>7, <1>8, <1>9 DEF IInv, Shape

\* The worker takes a webmention: it has not read anything yet.
LEMMA TakeMentionKeeps ==
  ASSUME IInv, NEW source \in Sources, TakeMention(source), UNCHANGED commentVars
  PROVE  IInv'
<1> USE TablesAssumption, RowsAssumption, FaultsAssumption
    DEF IInv, Shape, mentionVars, commentVars, tables
<1>a. /\ worker.at = "idle" /\ queue[source] > 0
      /\ worker' \in Verification /\ worker'.at = "target"
      /\ worker'.source = source /\ worker'.final = source
      /\ dropped' = dropped \ {source}
      /\ UNCHANGED <<inputs, changes, pages, comments, lastId, mentions, queue, asked, faults,
                     request, overlapped, forsaken>>
  <2>1. worker' = [at |-> "target", source |-> source, final |-> source, version |-> 0,
                   note |-> None]
    BY DEF TakeMention, Resting
  <2>2. 0 \in Version
    BY DEF Version
  <2>3. worker' \in Verification
    BY <2>1, <2>2 DEF Verification
  <2> QED BY <2>1, <2>3 DEF TakeMention, WorkerAt
<1>b. Typed
  BY Ranges
<1>1. TypeOK'
  BY <1>a DEF TypeOK, TablesTypeOK, MentionsTypeOK, CommentsTypeOK
<1>2. Held'
  BY <1>a, <1>b DEF Held, Typed
<1>3. Unused'
  BY <1>a, <1>b DEF Unused, HasRead, Held, Typed
<1>4. ReadIsNew'
  BY <1>a, <1>b DEF ReadIsNew, HasRead, More, AskedIsPast, Held, Typed
<1>5. NothingStored'
  BY <1>a, <1>b DEF NothingStored, Touched, Typed
<1>6. StoredIsNew'
  BY <1>a, <1>b DEF StoredIsNew, Verifiedly, Held, NothingStored, Touched, ReadIsNew,
                    HasRead, More, Typed
<1>7. ReadIsCurrent'
  BY <1>a, <1>b DEF ReadIsCurrent, HasRead, ToQueue, More, Held, Typed
<1>8. StoredIsCurrent'
  BY <1>a, <1>b DEF StoredIsCurrent, Verifiedly, ToQueue, Held, NothingStored, Touched,
                    ReadIsCurrent, HasRead, More, Typed
<1>9. NotesAgree'
  BY <1>a, <1>b DEF NotesAgree, HasRead, Unused, HeldIsForsaken, HoldsComment, Held, Typed
<1>10. HeldIsForsaken'
  BY <1>a, <1>b DEF HeldIsForsaken, HoldsComment, Typed
<1>11. Budget' /\ AskedIsPast' /\ Orphans' /\ Doubles' /\ OneCommentPerNote'
  BY <1>a, Frames
<1> QED BY <1>1, <1>2, <1>3, <1>4, <1>5, <1>6, <1>7, <1>8, <1>9, <1>10, <1>11 DEF IInv, Shape

LEMMA RequestTargetKeeps ==
  ASSUME IInv, RequestTarget, UNCHANGED commentVars
  PROVE  IInv'
<1> USE TablesAssumption, RowsAssumption, FaultsAssumption
    DEF IInv, Shape, mentionVars, commentVars, tables
<1>a. /\ worker.at = "target" /\ worker'.at \in {"source", "remove"}
      /\ worker.source \in Sources /\ worker.final \in Sources
      /\ worker' \in Verification /\ worker'.source = worker.source
      /\ worker'.final = worker.final /\ worker'.version = worker.version
      /\ worker'.note = worker.note
      /\ UNCHANGED <<tables, faults, request, overlapped, forsaken>>
  BY GoesOn DEF RequestTarget, WorkerAt, TypeOK, MentionsTypeOK
<1>b. Typed
  BY Ranges
<1>1. TypeOK'
  BY <1>a DEF TypeOK, TablesTypeOK, MentionsTypeOK, CommentsTypeOK
<1>2. Held'
  BY <1>a, <1>b DEF Held, Typed
<1>3. Unused'
  BY <1>a, <1>b DEF Unused, HasRead, Held, Typed
<1>4. ReadIsNew'
  BY <1>a, <1>b DEF ReadIsNew, HasRead, More, AskedIsPast, Held, Typed
<1>5. NothingStored'
  BY <1>a, <1>b DEF NothingStored, Touched, Typed
<1>6. StoredIsNew'
  BY <1>a, <1>b DEF StoredIsNew, Verifiedly, Held, NothingStored, Touched, ReadIsNew,
                    HasRead, More, Typed
<1>7. ReadIsCurrent'
  BY <1>a, <1>b DEF ReadIsCurrent, HasRead, ToQueue, More, Held, Typed
<1>8. StoredIsCurrent'
  BY <1>a, <1>b DEF StoredIsCurrent, Verifiedly, ToQueue, Held, NothingStored, Touched,
                    ReadIsCurrent, HasRead, More, Typed
<1>9. NotesAgree'
  BY <1>a, <1>b DEF NotesAgree, HasRead, Unused, HeldIsForsaken, HoldsComment, Held, Typed
<1>10. HeldIsForsaken'
  BY <1>a, <1>b DEF HeldIsForsaken, HoldsComment, Typed
<1>11. Budget' /\ AskedIsPast' /\ Orphans' /\ Doubles' /\ OneCommentPerNote'
  BY <1>a, Frames
<1> QED BY <1>1, <1>2, <1>3, <1>4, <1>5, <1>6, <1>7, <1>8, <1>9, <1>10, <1>11 DEF IInv, Shape

\* The worker reads the source: what it has read is current.
LEMMA RequestSourceKeeps ==
  ASSUME IInv, RequestSource, UNCHANGED commentVars
  PROVE  IInv'
<1> USE TablesAssumption, RowsAssumption, FaultsAssumption
    DEF IInv, Shape, mentionVars, commentVars, tables
<1>a. /\ worker.at = "source" /\ worker'.at \in {"remove", "lookup"}
      /\ worker.source \in Sources /\ worker'.source = worker.source
      /\ worker' \in Verification /\ worker'.final \in Sources
      /\ worker'.final \in Ids \/ worker.source \in Ids => worker'.final = worker.source
      /\ worker'.at = "lookup" =>
           /\ worker'.final \in Pages => worker'.version = pages[worker'.final].version
           /\ worker'.final \in Ids =>
                /\ comments[worker'.final] # None
                /\ worker'.version = comments[worker'.final].version
                /\ worker'.note = comments[worker'.final].note
      /\ UNCHANGED <<tables, faults, request, overlapped, forsaken>>
  <2> DEFINE final == Final(worker.source)
  <2>1. worker.at = "source" /\ worker.source \in Sources /\ worker.final \in Sources
    BY DEF RequestSource, WorkerAt, TypeOK, MentionsTypeOK
  <2>2. /\ final \in Sources
        /\ worker.source \in Ids \/ final \in Ids => final = worker.source
    BY <2>1, Redirects
  <2>3. VersionOf(final) \in Version /\ NoteOf(final) \in Notes \cup {None}
    BY <2>2, Versions
  <2>4. Is(final) = "linking" =>
          /\ final \in Pages => VersionOf(final) = pages[final].version
          /\ final \in Ids =>
               /\ comments[final] # None /\ VersionOf(final) = comments[final].version
               /\ NoteOf(final) = comments[final].note
    BY <2>2, Versions
  <2>5. worker.source \in Ids \/ worker.final \in Ids => worker.final = worker.source
    BY <2>1 DEF Held
  <2>6. CASE GoOn("remove")
    BY <2>1, <2>5, <2>6 DEF GoOn, RequestSource, TypeOK, MentionsTypeOK, Verification
  <2>7. CASE worker' = [worker EXCEPT !.at = "remove", !.final = final]
    <3> HIDE DEF final
    <3> QED BY <2>1, <2>2, <2>7 DEF RequestSource, TypeOK, MentionsTypeOK, Verification
  <2>8. CASE /\ Is(final) = "linking"
             /\ worker' = [worker EXCEPT !.at = "lookup", !.final = final,
                             !.version = VersionOf(final), !.note = NoteOf(final)]
    <3> HIDE DEF final
    <3> QED BY <2>1, <2>2, <2>3, <2>4, <2>8
            DEF RequestSource, TypeOK, MentionsTypeOK, Verification
  <2> QED BY <2>6, <2>7, <2>8 DEF RequestSource
<1>b. Typed
  BY Ranges
<1>1. TypeOK'
  BY <1>a DEF TypeOK, TablesTypeOK, MentionsTypeOK, CommentsTypeOK
<1>2. Held'
  BY <1>a, <1>b DEF Held, Typed
<1>3. Unused'
  BY <1>a, <1>b DEF Unused, HasRead, Held, Typed
<1>4. ReadIsNew'
  BY <1>a, <1>b DEF ReadIsNew, HasRead, More, AskedIsPast, Held, Typed, Sources
<1>5. NothingStored'
  BY <1>a, <1>b DEF NothingStored, Touched, Typed
<1>6. StoredIsNew'
  BY <1>a, <1>b DEF StoredIsNew, Verifiedly, Held, NothingStored, Touched, ReadIsNew,
                    HasRead, More, Typed
<1>7. ReadIsCurrent'
  BY <1>a, <1>b DEF ReadIsCurrent, HasRead, ToQueue, More, Held, Typed
<1>8. StoredIsCurrent'
  BY <1>a, <1>b DEF StoredIsCurrent, Verifiedly, ToQueue, Held, NothingStored, Touched,
                    ReadIsCurrent, HasRead, More, Typed
<1>9. NotesAgree'
  BY <1>a, <1>b DEF NotesAgree, HasRead, Unused, HeldIsForsaken, HoldsComment, Held, Typed
<1>10. HeldIsForsaken'
  BY <1>a, <1>b DEF HeldIsForsaken, HoldsComment, Typed
<1>11. Budget' /\ AskedIsPast' /\ Orphans' /\ Doubles' /\ OneCommentPerNote'
  BY <1>a, Frames
<1> QED BY <1>1, <1>2, <1>3, <1>4, <1>5, <1>6, <1>7, <1>8, <1>9, <1>10, <1>11 DEF IInv, Shape

LEMMA RequestFailsKeeps ==
  ASSUME IInv, RequestFails, UNCHANGED commentVars
  PROVE  IInv'
<1> USE TablesAssumption, RowsAssumption, FaultsAssumption
    DEF IInv, Shape, mentionVars, commentVars, tables
<1>a. /\ worker.at \in {"target", "source"} /\ worker'.at = "dequeue"
      /\ worker.source \in Sources /\ worker.final \in Sources
      /\ worker' \in Verification /\ worker'.source = worker.source
      /\ worker'.final = worker.final /\ worker'.version = worker.version
      /\ worker'.note = worker.note
      /\ dropped' = dropped \cup {worker.source} /\ dropped' \subseteq Sources
      /\ faults' \in 0 .. MaxFaults
      /\ UNCHANGED <<inputs, changes, pages, comments, lastId, mentions, queue, asked,
                     request, overlapped, forsaken>>
  BY GoesOn DEF RequestFails, Fault, WorkerAt, TypeOK, TablesTypeOK, MentionsTypeOK
<1>b. Typed
  BY Ranges
<1>1. TypeOK'
  BY <1>a DEF TypeOK, TablesTypeOK, MentionsTypeOK, CommentsTypeOK
<1>2. Held'
  BY <1>a, <1>b DEF Held, Typed
<1>3. Unused'
  BY <1>a, <1>b DEF Unused, HasRead, Held, Typed
<1>4. ReadIsNew'
  BY <1>a, <1>b DEF ReadIsNew, HasRead, More, AskedIsPast, Held, Typed
<1>5. NothingStored'
  BY <1>a, <1>b DEF NothingStored, Touched, Typed
<1>6. StoredIsNew'
  BY <1>a, <1>b DEF StoredIsNew, Verifiedly, Held, NothingStored, Touched, ReadIsNew,
                    HasRead, More, Typed
<1>7. ReadIsCurrent'
  BY <1>a, <1>b DEF ReadIsCurrent, HasRead, ToQueue, More, Held, Typed
<1>8. StoredIsCurrent'
  BY <1>a, <1>b DEF StoredIsCurrent, Verifiedly, ToQueue, Held, NothingStored, Touched,
                    ReadIsCurrent, HasRead, More, Typed
<1>9. NotesAgree'
  BY <1>a, <1>b DEF NotesAgree, HasRead, Unused, HeldIsForsaken, HoldsComment, Held, Typed
<1>10. HeldIsForsaken'
  BY <1>a, <1>b DEF HeldIsForsaken, HoldsComment, Typed
<1>11. Budget' /\ AskedIsPast' /\ Orphans' /\ Doubles' /\ OneCommentPerNote'
  BY <1>a, Frames
<1> QED BY <1>1, <1>2, <1>3, <1>4, <1>5, <1>6, <1>7, <1>8, <1>9, <1>10, <1>11 DEF IInv, Shape

LEMMA RemoveMentionsKeeps ==
  ASSUME IInv, RemoveMentions, UNCHANGED commentVars
  PROVE  IInv'
<1> USE TablesAssumption, RowsAssumption, FaultsAssumption
    DEF IInv, Shape, mentionVars, commentVars, tables
<1>a. /\ worker.at = "remove" /\ worker'.at = "dequeue"
      /\ worker.source \in Sources /\ worker.final \in Sources
      /\ worker' \in Verification /\ worker'.source = worker.source
      /\ worker'.final = worker.final /\ worker'.version = worker.version
      /\ worker'.note = worker.note
      /\ mentions' \in [Sources -> Mention \cup {None}]
      /\ mentions'[worker.source] = None
      /\ \A source \in Sources : mentions'[source] = None \/ mentions'[source] = mentions[source]
      /\ UNCHANGED <<inputs, changes, pages, comments, lastId, queue, asked, dropped, faults,
                     request, overlapped, forsaken>>
  BY GoesOn DEF RemoveMentions, WorkerAt, Without, Touched, TypeOK, TablesTypeOK, MentionsTypeOK
<1>b. Typed
  BY Ranges
<1>1. TypeOK'
  BY <1>a DEF TypeOK, TablesTypeOK, MentionsTypeOK, CommentsTypeOK
<1>2. Held'
  BY <1>a, <1>b DEF Held, Typed
<1>3. Unused'
  BY <1>a, <1>b DEF Unused, HasRead, Held, Typed
<1>4. ReadIsNew'
  BY <1>a, <1>b DEF ReadIsNew, HasRead, More, AskedIsPast, Held, Typed
<1>5. NothingStored'
  BY <1>a, <1>b DEF NothingStored, Touched, Typed
<1>6. StoredIsNew'
  BY <1>a, <1>b DEF StoredIsNew, Verifiedly, Held, NothingStored, Touched, ReadIsNew,
                    HasRead, More, Typed
<1>7. ReadIsCurrent'
  BY <1>a, <1>b DEF ReadIsCurrent, HasRead, ToQueue, More, Held, Typed
<1>8. StoredIsCurrent'
  BY <1>a, <1>b DEF StoredIsCurrent, Verifiedly, ToQueue, Held, NothingStored, Touched,
                    ReadIsCurrent, HasRead, More, Typed
<1>9. NotesAgree'
  BY <1>a, <1>b DEF NotesAgree, HasRead, Unused, HeldIsForsaken, HoldsComment, Held, Typed
<1>10. HeldIsForsaken'
  BY <1>a, <1>b DEF HeldIsForsaken, HoldsComment, Typed
<1>11. Orphans'
  BY <1>a, <1>b DEF Orphans, NotesAgree, HasRead, HeldIsForsaken, HoldsComment, Held, Typed
<1>12. Budget' /\ AskedIsPast' /\ Doubles' /\ OneCommentPerNote'
  BY <1>a, Frames
<1> QED BY <1>1, <1>2, <1>3, <1>4, <1>5, <1>6, <1>7, <1>8, <1>9, <1>10, <1>11, <1>12
           DEF IInv, Shape

\* The worker looks for a row, and what it found decides what it writes.
LEMMA LookUpMentionKeeps ==
  ASSUME IInv, LookUpMention, UNCHANGED commentVars
  PROVE  IInv'
<1> USE TablesAssumption, RowsAssumption, FaultsAssumption
    DEF IInv, Shape, mentionVars, commentVars, tables
<1>a. /\ worker.at = "lookup" /\ worker'.at \in {"update", "insert"}
      /\ worker.source \in Sources /\ worker.final \in Sources
      /\ worker' \in Verification /\ worker'.source = worker.source
      /\ worker'.final = worker.final /\ worker'.version = worker.version
      /\ worker'.note = worker.note
      /\ worker'.at = "insert" => mentions[worker.source] = None /\ mentions[worker.final] = None
      /\ UNCHANGED <<tables, faults, request, overlapped, forsaken>>
  <2>1. worker.at = "lookup" /\ worker.source \in Sources /\ worker.final \in Sources
    BY DEF LookUpMention, WorkerAt, TypeOK, MentionsTypeOK
  <2>2. CASE GoOn("update")
    BY <2>1, <2>2, GoesOn DEF LookUpMention
  <2>3. CASE GoOn("insert") /\ \A source \in Touched : mentions[source] = None
    BY <2>1, <2>3, GoesOn DEF LookUpMention, Touched
  <2> QED BY <2>2, <2>3 DEF LookUpMention
<1>b. Typed
  BY Ranges
<1>1. TypeOK'
  BY <1>a DEF TypeOK, TablesTypeOK, MentionsTypeOK, CommentsTypeOK
<1>2. Held'
  BY <1>a, <1>b DEF Held, Typed
<1>3. Unused'
  BY <1>a, <1>b DEF Unused, HasRead, Held, Typed
<1>4. ReadIsNew'
  BY <1>a, <1>b DEF ReadIsNew, HasRead, More, AskedIsPast, Held, Typed
<1>5. NothingStored'
  BY <1>a, <1>b DEF NothingStored, Touched, Typed
<1>6. StoredIsNew'
  BY <1>a, <1>b DEF StoredIsNew, Verifiedly, Held, NothingStored, Touched, ReadIsNew,
                    HasRead, More, Typed
<1>7. ReadIsCurrent'
  BY <1>a, <1>b DEF ReadIsCurrent, HasRead, ToQueue, More, Held, Typed
<1>8. StoredIsCurrent'
  BY <1>a, <1>b DEF StoredIsCurrent, Verifiedly, ToQueue, Held, NothingStored, Touched,
                    ReadIsCurrent, HasRead, More, Typed
<1>9. NotesAgree'
  BY <1>a, <1>b DEF NotesAgree, HasRead, Unused, HeldIsForsaken, HoldsComment, Held, Typed
<1>10. HeldIsForsaken'
  BY <1>a, <1>b DEF HeldIsForsaken, HoldsComment, Typed
<1>11. Budget' /\ AskedIsPast' /\ Orphans' /\ Doubles' /\ OneCommentPerNote'
  BY <1>a, Frames
<1> QED BY <1>1, <1>2, <1>3, <1>4, <1>5, <1>6, <1>7, <1>8, <1>9, <1>10, <1>11 DEF IInv, Shape

\* The worker changes the row it found, should it still be there.
LEMMA UpdateMentionKeeps ==
  ASSUME IInv, UpdateMention, UNCHANGED commentVars
  PROVE  IInv'
<1> USE TablesAssumption, RowsAssumption, FaultsAssumption
    DEF IInv, Shape, mentionVars, commentVars, tables
<1>a. /\ worker.at = "update" /\ worker'.at = "dequeue"
      /\ worker' \in Verification /\ worker'.source = worker.source
      /\ worker'.final = worker.final /\ worker'.version = worker.version
      /\ worker'.note = worker.note
      /\ worker.source \in Sources /\ worker.final \in Sources
      /\ \/ /\ mentions' = mentions /\ dropped' = dropped
            /\ mentions[worker.source] = None /\ mentions[worker.final] = None
         \/ /\ dropped' = dropped /\ mentions' \in [Sources -> Mention \cup {None}]
            /\ mentions[worker.source] # None \/ mentions[worker.final] # None
            /\ mentions'[worker.final] # None
            /\ mentions'[worker.final] = [version |-> worker.version, note |-> worker.note]
            /\ worker.source # worker.final => mentions'[worker.source] = None
            /\ \A source \in Sources :
                 source \notin {worker.source, worker.final} =>
                   mentions'[source] = mentions[source]
         \/ /\ mentions' = mentions /\ dropped' = dropped \cup {worker.source}
            /\ worker.source # worker.final
      /\ dropped' \subseteq Sources
      /\ UNCHANGED <<inputs, changes, pages, comments, lastId, queue, asked, faults,
                     request, overlapped, forsaken>>
  <2> DEFINE stored == {source \in Touched : mentions[source] # None}
  <2>1. /\ worker.at = "update" /\ worker.source \in Sources /\ worker.final \in Sources
        /\ Verified \in Mention /\ dropped \subseteq Sources
        /\ worker' \in Verification /\ worker'.source = worker.source
        /\ worker'.final = worker.final /\ worker'.version = worker.version
        /\ worker'.note = worker.note
        /\ worker'.at = "dequeue"
    BY GoesOn DEF UpdateMention, WorkerAt, TypeOK, TablesTypeOK, MentionsTypeOK, Verified,
                  Mention, Verification
  <2>2. CASE stored = {} /\ UNCHANGED <<mentions, dropped>>
    BY <2>1, <2>2 DEF UpdateMention, Touched
  <2>3. CASE /\ \E source \in stored : stored = {source}
             /\ mentions' = [Without(stored) EXCEPT ![worker.final] = Verified]
             /\ UNCHANGED dropped
    <3>1. \A source \in Sources : source \in stored <=> source \in Touched /\ mentions[source] # None
      OBVIOUS
    <3>2. mentions[worker.source] # None \/ mentions[worker.final] # None
      BY <2>1, <2>3 DEF Touched
    <3> HIDE DEF stored
    <3>3. /\ mentions'[worker.final] = Verified
          /\ \A source \in Sources \ {worker.final} :
               mentions'[source] = IF source \in stored THEN None ELSE mentions[source]
          /\ mentions' \in [Sources -> Mention \cup {None}]
      BY <2>1, <2>3 DEF Without, TypeOK, TablesTypeOK
    <3> QED BY <2>1, <2>3, <3>1, <3>2, <3>3, SMTT(30) DEF UpdateMention, Touched, Verified
  <2>4. CASE /\ worker.source # worker.final
             /\ dropped' = dropped \cup {worker.source} /\ UNCHANGED mentions
    BY <2>1, <2>4 DEF UpdateMention
  <2> QED BY <2>2, <2>3, <2>4 DEF UpdateMention
<1>b. Typed
  BY Ranges
<1>1. TypeOK'
  BY <1>a DEF TypeOK, TablesTypeOK, MentionsTypeOK, CommentsTypeOK
<1>2. Held'
  BY <1>a, <1>b DEF Held, Typed
<1>3. Unused'
  BY <1>a, <1>b DEF Unused, HasRead, Held, Typed
<1>4. ReadIsNew'
  BY <1>a, <1>b DEF ReadIsNew, HasRead, More, AskedIsPast, Held, Typed
<1>5. NothingStored'
  BY <1>a, <1>b DEF NothingStored, Touched, Typed
<1>6. StoredIsNew'
  BY <1>a, <1>b DEF StoredIsNew, Verifiedly, Held, NothingStored, Touched, ReadIsNew,
                    HasRead, More, Typed
<1>7. ReadIsCurrent'
  BY <1>a, <1>b DEF ReadIsCurrent, HasRead, ToQueue, More, Held, Typed
<1>8. StoredIsCurrent'
  BY <1>a, <1>b DEF StoredIsCurrent, Verifiedly, ToQueue, Held, NothingStored, Touched,
                    ReadIsCurrent, HasRead, More, Typed
<1>9. NotesAgree'
  BY <1>a, <1>b DEF NotesAgree, HasRead, Unused, HeldIsForsaken, HoldsComment, Held, Typed
<1>10. HeldIsForsaken'
  BY <1>a, <1>b DEF HeldIsForsaken, HoldsComment, Typed
<1>11. Orphans'
  BY <1>a, <1>b DEF Orphans, NotesAgree, HasRead, HeldIsForsaken, HoldsComment, Held, Typed
<1>12. Budget' /\ AskedIsPast' /\ Doubles' /\ OneCommentPerNote'
  BY <1>a, Frames
<1> QED BY <1>1, <1>2, <1>3, <1>4, <1>5, <1>6, <1>7, <1>8, <1>9, <1>10, <1>11, <1>12
           DEF IInv, Shape

LEMMA InsertMentionKeeps ==
  ASSUME IInv, InsertMention, UNCHANGED commentVars
  PROVE  IInv'
<1> USE TablesAssumption, RowsAssumption, FaultsAssumption
    DEF IInv, Shape, mentionVars, commentVars, tables
<1>a. /\ worker.at = "insert" /\ worker'.at = "dequeue"
      /\ worker.source \in Sources /\ worker.final \in Sources
      /\ worker' \in Verification /\ worker'.source = worker.source
      /\ worker'.final = worker.final /\ worker'.version = worker.version
      /\ worker'.note = worker.note
      /\ mentions' \in [Sources -> Mention \cup {None}]
      /\ mentions'[worker.final] = [version |-> worker.version, note |-> worker.note]
      /\ mentions'[worker.final] # None
      /\ \A source \in Sources \ {worker.final} : mentions'[source] = mentions[source]
      /\ UNCHANGED <<inputs, changes, pages, comments, lastId, queue, asked, dropped, faults,
                     request, overlapped, forsaken>>
  <2>1. /\ worker.at = "insert" /\ worker.source \in Sources /\ worker.final \in Sources
        /\ worker \in Verification
    BY DEF InsertMention, WorkerAt, TypeOK, MentionsTypeOK
  <2>2. Verified \in Mention /\ Verified # None
    BY <2>1 DEF Verified, Mention, Verification
  <2>3. /\ mentions' \in [Sources -> Mention \cup {None}] /\ mentions'[worker.final] = Verified
        /\ \A source \in Sources \ {worker.final} : mentions'[source] = mentions[source]
    BY <2>1, <2>2 DEF InsertMention, TypeOK, TablesTypeOK
  <2> QED BY <2>1, <2>2, <2>3, GoesOn DEF InsertMention, Verified
<1>b. Typed
  BY Ranges
<1>1. TypeOK'
  BY <1>a DEF TypeOK, TablesTypeOK, MentionsTypeOK, CommentsTypeOK
<1>2. Held'
  BY <1>a, <1>b DEF Held, Typed
<1>3. Unused'
  BY <1>a, <1>b DEF Unused, HasRead, Held, Typed
<1>4. ReadIsNew'
  BY <1>a, <1>b DEF ReadIsNew, HasRead, More, AskedIsPast, Held, Typed
<1>5. NothingStored'
  BY <1>a, <1>b DEF NothingStored, Touched, Typed
<1>6. StoredIsNew'
  BY <1>a, <1>b DEF StoredIsNew, Verifiedly, Held, NothingStored, Touched, ReadIsNew,
                    HasRead, More, Typed
<1>7. ReadIsCurrent'
  BY <1>a, <1>b DEF ReadIsCurrent, HasRead, ToQueue, More, Held, Typed
<1>8. StoredIsCurrent'
  BY <1>a, <1>b DEF StoredIsCurrent, Verifiedly, ToQueue, Held, NothingStored, Touched,
                    ReadIsCurrent, HasRead, More, Typed
<1>9. NotesAgree'
  BY <1>a, <1>b DEF NotesAgree, HasRead, Unused, HeldIsForsaken, HoldsComment, Held, Typed
<1>10. HeldIsForsaken'
  BY <1>a, <1>b DEF HeldIsForsaken, HoldsComment, Typed
<1>11. Orphans'
  BY <1>a, <1>b DEF Orphans, NotesAgree, HasRead, HeldIsForsaken, HoldsComment, Held, Typed
<1>12. Budget' /\ AskedIsPast' /\ Doubles' /\ OneCommentPerNote'
  BY <1>a, Frames
<1> QED BY <1>1, <1>2, <1>3, <1>4, <1>5, <1>6, <1>7, <1>8, <1>9, <1>10, <1>11, <1>12
           DEF IInv, Shape

\* The worker is done: what it wrote is as new as what was asked for, or more is queued.
LEMMA DequeueMentionKeeps ==
  ASSUME IInv, DequeueMention, UNCHANGED commentVars
  PROVE  IInv'
<1> USE TablesAssumption, RowsAssumption, FaultsAssumption
    DEF IInv, Shape, mentionVars, commentVars, tables
<1>a. /\ worker.at = "dequeue" /\ worker.source \in Sources /\ worker' = Resting
      /\ worker' \in Verification /\ worker'.at = "idle" /\ worker'.source = None
      /\ worker'.source \notin Sources
      /\ queue' \in [Sources -> Nat] /\ queue'[worker.source] = queue[worker.source] - 1
      /\ \A source \in Sources \ {worker.source} : queue'[source] = queue[source]
      /\ UNCHANGED <<inputs, changes, pages, comments, lastId, mentions, asked, dropped, faults,
                     request, overlapped, forsaken>>
  <2>1. worker.at = "dequeue" /\ worker.source \in Sources /\ queue[worker.source] > 0
    BY DEF DequeueMention, WorkerAt, TypeOK, MentionsTypeOK, Held
  <2>2. /\ Resting \in Verification /\ Resting.at = "idle" /\ Resting.source = None
        /\ None \notin Sources
    BY DEF Resting, Verification, Version, Sources, Ids
  <2> QED BY <2>1, <2>2 DEF DequeueMention, TypeOK, TablesTypeOK
<1>b. Typed
  BY Ranges
<1>1. TypeOK'
  BY <1>a DEF TypeOK, TablesTypeOK, MentionsTypeOK, CommentsTypeOK
<1>2. Held'
  BY <1>a, <1>b DEF Held, Typed
<1>3. Unused'
  BY <1>a, <1>b DEF Unused, HasRead, Held, Typed
<1>4. ReadIsNew'
  BY <1>a, <1>b DEF ReadIsNew, HasRead, More, AskedIsPast, Held, Typed
<1>5. NothingStored'
  BY <1>a, <1>b DEF NothingStored, Touched, Typed
<1>6. StoredIsNew'
  BY <1>a, <1>b DEF StoredIsNew, Verifiedly, Held, NothingStored, Touched, ReadIsNew,
                    HasRead, More, Typed
<1>7. ReadIsCurrent'
  BY <1>a, <1>b DEF ReadIsCurrent, HasRead, ToQueue, More, Held, Typed
<1>8. StoredIsCurrent'
  BY <1>a, <1>b DEF StoredIsCurrent, Verifiedly, ToQueue, Held, NothingStored, Touched,
                    ReadIsCurrent, HasRead, More, Typed
<1>9. NotesAgree'
  BY <1>a, <1>b DEF NotesAgree, HasRead, Unused, HeldIsForsaken, HoldsComment, Held, Typed
<1>10. HeldIsForsaken'
  BY <1>a, <1>b DEF HeldIsForsaken, HoldsComment, Typed
<1>11. Budget' /\ AskedIsPast' /\ Orphans' /\ Doubles' /\ OneCommentPerNote'
  BY <1>a, Frames
<1> QED BY <1>1, <1>2, <1>3, <1>4, <1>5, <1>6, <1>7, <1>8, <1>9, <1>10, <1>11 DEF IInv, Shape

\* A request begins; a note that comes again while it is handled is noted.
LEMMA BeginKeeps ==
  ASSUME IInv, NEW r \in Requests, NEW at \in {"insert", "find", "findDeleted", "update"},
         NEW note \in Notes \cup {None}, NEW id \in Ids \cup {None},
         at = "insert" => note = None, at = "update" => id \in Ids /\ comments[id] # None,
         Begin(r, at, note, id), UNCHANGED mentionVars
  PROVE  IInv'
<1> USE TablesAssumption, RowsAssumption, FaultsAssumption
    DEF IInv, Shape, mentionVars, commentVars, tables
<1>a. /\ inputs' = inputs + 1 /\ inputs' \in 0 .. MaxInputs
      /\ request[r].at = "idle" /\ request' \in [Requests -> Request]
      /\ request'[r].at = at /\ request'[r].note = note /\ request'[r].id = id
      /\ \A q \in Requests \ {r} : request'[q] = request[q]
      /\ overlapped \subseteq overlapped' /\ overlapped' \subseteq Notes
      /\ note \in Notes /\ at = "find" =>
           \A q \in Requests :
             request[q].at \in {"find", "insert"} /\ request[q].note = note => note \in overlapped'
      /\ at = "insert" => note = None
      /\ UNCHANGED <<changes, pages, comments, lastId, mentions, queue, asked, dropped, worker,
                     faults, forsaken>>
  <2>1. request \in [Requests -> Request] /\ overlapped \subseteq Notes /\ inputs \in 0 .. MaxInputs
    BY DEF TypeOK, TablesTypeOK, CommentsTypeOK
  <2>2. /\ inputs' = inputs + 1 /\ inputs' \in 0 .. MaxInputs /\ request[r].at = "idle"
    BY <2>1 DEF Begin, Input, RequestAt
  <2>3. [at |-> at, note |-> note, id |-> id] \in Request
    BY DEF Request
  <2>4. /\ request' \in [Requests -> Request]
        /\ request'[r].at = at /\ request'[r].note = note /\ request'[r].id = id
        /\ \A q \in Requests \ {r} : request'[q] = request[q]
    BY <2>1, <2>3 DEF Begin
  <2>5. /\ overlapped \subseteq overlapped' /\ overlapped' \subseteq Notes
        /\ note \in Notes /\ at = "find" =>
             \A q \in Requests :
               request[q].at \in {"find", "insert"} /\ request[q].note = note => note \in overlapped'
    BY <2>1 DEF Begin
  <2> QED BY <2>2, <2>4, <2>5 DEF Begin
<1>b. Typed
  BY Ranges
<1>1. TypeOK'
  BY <1>a DEF TypeOK, TablesTypeOK, MentionsTypeOK, CommentsTypeOK
<1>2. Budget'
  <2>1. inputs \in Nat /\ changes \in Nat /\ inputs' \in Nat /\ changes' \in Nat
    BY <1>1 DEF TypeOK, TablesTypeOK, Version
  <2>2. Changing' \subseteq Changing \cup {r} /\ changes' = changes /\ inputs' = inputs + 1
    BY <1>a DEF Changing
  <2> QED BY <2>1, <2>2, Spent
<1>3. Unused'
  BY <1>a, <1>b DEF Unused, HasRead, Held, Typed
<1>4. ReadIsCurrent'
  BY <1>a, <1>b DEF ReadIsCurrent, HasRead, ToQueue, More, Held, Typed
<1>5. StoredIsCurrent'
  BY <1>a, <1>b DEF StoredIsCurrent, Verifiedly, ToQueue, Held, NothingStored, Touched,
                    ReadIsCurrent, HasRead, More, Typed
<1>6. NotesAgree'
  BY <1>a, <1>b DEF NotesAgree, HasRead, Unused, HeldIsForsaken, HoldsComment, Held, Typed
<1>7. Orphans'
  BY <1>a, <1>b DEF Orphans, NotesAgree, HasRead, HeldIsForsaken, HoldsComment, Held, Typed
<1>8. Doubles'
  BY <1>a, <1>b DEF Doubles, Typed
<1>9. OneCommentPerNote'
  BY <1>a, <1>b DEF OneCommentPerNote, Doubles, Typed
<1>10. /\ Held' /\ AskedIsPast' /\ ReadIsNew' /\ NothingStored' /\ StoredIsNew'
       /\ HeldIsForsaken'
  BY <1>a, Frames
<1> QED BY <1>1, <1>2, <1>3, <1>4, <1>5, <1>6, <1>7, <1>8, <1>9, <1>10 DEF IInv, Shape

LEMMA FindCommentKeeps ==
  ASSUME IInv, NEW r \in Requests, FindComment(r), UNCHANGED mentionVars
  PROVE  IInv'
<1> USE TablesAssumption, RowsAssumption, FaultsAssumption
    DEF IInv, Shape, mentionVars, commentVars, tables
<1>a. /\ request[r].at = "find" /\ request' \in [Requests -> Request]
      /\ \A q \in Requests \ {r} : request'[q] = request[q]
      /\ request'[r].note = request[r].note
      /\ \/ /\ request'[r].at = "insert"
            /\ \A id \in Ids : comments[id] # None => comments[id].note # request[r].note
         \/ /\ request'[r].at = "update" /\ request'[r].id \in Ids
            /\ comments[request'[r].id] # None
      /\ UNCHANGED <<inputs, changes, pages, comments, lastId, mentions, queue, asked,
                     dropped, worker, faults, overlapped, forsaken>>
  <2>1. request[r].at = "find" /\ request \in [Requests -> Request]
    BY DEF FindComment, RequestAt, TypeOK, CommentsTypeOK
  <2>2. CASE WithNote(request[r].note) = {} /\ Step(r, "insert")
    BY <2>1, <2>2 DEF FindComment, WithNote, Step, Request
  <2>3. CASE \E id \in WithNote(request[r].note) : Known(r, "update", id)
    <3>1. PICK id \in WithNote(request[r].note) : Known(r, "update", id)
      BY <2>3
    <3>2. id \in Ids /\ comments[id] # None /\ comments[id].note = request[r].note
      BY DEF WithNote
    <3> HIDE <2>3
    <3> QED BY <2>1, <3>1, <3>2, ZenonT(60) DEF FindComment, Known, Request
  <2> QED BY <2>2, <2>3 DEF FindComment
<1>b. Typed
  BY Ranges
<1>1. TypeOK'
  BY <1>a DEF TypeOK, TablesTypeOK, MentionsTypeOK, CommentsTypeOK
<1>2. Budget'
  <2>1. inputs \in Nat /\ changes \in Nat /\ inputs' \in Nat /\ changes' \in Nat
    BY <1>1 DEF TypeOK, TablesTypeOK, Version
  <2>2. Changing' \subseteq Changing /\ changes' = changes /\ inputs' = inputs
    BY <1>a, <2>1 DEF Changing
  <2> QED BY <2>1, <2>2, Spent
<1>3. Unused'
  BY <1>a, <1>b DEF Unused, HasRead, Held, Typed
<1>4. ReadIsCurrent'
  BY <1>a, <1>b DEF ReadIsCurrent, HasRead, ToQueue, More, Held, Typed
<1>5. StoredIsCurrent'
  BY <1>a, <1>b DEF StoredIsCurrent, Verifiedly, ToQueue, Held, NothingStored, Touched,
                    ReadIsCurrent, HasRead, More, Typed
<1>6. NotesAgree'
  BY <1>a, <1>b DEF NotesAgree, HasRead, Unused, HeldIsForsaken, HoldsComment, Held, Typed
<1>7. Orphans'
  BY <1>a, <1>b DEF Orphans, NotesAgree, HasRead, HeldIsForsaken, HoldsComment, Held, Typed
<1>8. Doubles'
  BY <1>a, <1>b DEF Doubles, Typed
<1>9. /\ Held' /\ AskedIsPast' /\ ReadIsNew' /\ NothingStored' /\ StoredIsNew'
      /\ HeldIsForsaken' /\ OneCommentPerNote'
  BY <1>a, Frames
<1> QED BY <1>1, <1>2, <1>3, <1>4, <1>5, <1>6, <1>7, <1>8, <1>9 DEF IInv, Shape

\* A comment gets a number that was never used, so nothing refers to it.
LEMMA InsertCommentKeeps ==
  ASSUME IInv, NEW r \in Requests, InsertComment(r), UNCHANGED mentionVars
  PROVE  IInv'
<1> USE TablesAssumption, RowsAssumption, FaultsAssumption
    DEF IInv, Shape, mentionVars, commentVars, tables
<1>a. /\ lastId + 1 \in Ids /\ lastId' = lastId + 1 /\ lastId \in Nat
      /\ request[r].at = "insert" /\ request' \in [Requests -> Request]
      /\ \A q \in Requests \ {r} : request'[q] = request[q]
      /\ request'[r].at = "queue" /\ request'[r].id = lastId + 1
      /\ changes' = changes + 1 /\ changes \in Nat /\ changes' \in Version
      /\ comments' \in [Ids -> Comment \cup {None}]
      /\ comments'[lastId + 1] = [note |-> request[r].note, version |-> changes + 1]
      /\ comments'[lastId + 1] # None
      /\ \A id \in Ids \ {lastId + 1} : comments'[id] = comments[id]
      /\ UNCHANGED <<inputs, pages, mentions, queue, asked, dropped, worker, faults,
                     overlapped, forsaken>>
  <2>1. /\ request[r].at = "insert" /\ request[r] \in Request
        /\ request \in [Requests -> Request] /\ comments \in [Ids -> Comment \cup {None}]
    BY DEF InsertComment, RequestAt, TypeOK, TablesTypeOK, CommentsTypeOK
  <2>2. lastId \in Nat /\ lastId + 1 \in Ids
    BY DEF InsertComment, TypeOK, TablesTypeOK, Ids
  <2>3. changes \in Nat /\ inputs \in 0 .. MaxInputs /\ inputs \in Nat
    BY DEF TypeOK, TablesTypeOK, Version
  <2>4. r \in Changing
    BY <2>1 DEF Changing
  <2>5. changes + 1 \in Version
    BY <2>3, <2>4, Allowed DEF Version
  <2>6. [note |-> request[r].note, version |-> changes + 1] \in Comment
    BY <2>1, <2>5 DEF Request, Comment
  <2>7. /\ request' \in [Requests -> Request]
        /\ \A q \in Requests \ {r} : request'[q] = request[q]
        /\ request'[r].at = "queue" /\ request'[r].id = lastId + 1
    BY <2>1, <2>2 DEF InsertComment, Known, Request
  <2>8. /\ comments' \in [Ids -> Comment \cup {None}]
        /\ comments'[lastId + 1] = [note |-> request[r].note, version |-> changes + 1]
        /\ \A id \in Ids \ {lastId + 1} : comments'[id] = comments[id]
    BY <2>1, <2>2, <2>6 DEF InsertComment
  <2>9. comments'[lastId + 1] # None
    BY <2>6, <2>8
  <2> QED BY <2>1, <2>2, <2>3, <2>5, <2>7, <2>8, <2>9 DEF InsertComment, Change
<1>b. Typed
  BY Ranges
<1>1. TypeOK'
  <2>1. lastId' \in 0 .. MaxComments
    BY <1>a DEF Ids
  <2> QED BY <1>a, <2>1 DEF TypeOK, TablesTypeOK, MentionsTypeOK, CommentsTypeOK
<1>2. Budget'
  <2>1. inputs \in Nat /\ changes \in Nat /\ inputs' \in Nat /\ changes' \in Nat
    BY <1>1 DEF TypeOK, TablesTypeOK, Version
  <2>2. r \in Changing /\ Changing' \subseteq Changing \ {r} /\ changes' = changes + 1 /\ inputs' = inputs
    BY <1>a DEF Changing
  <2> QED BY <2>1, <2>2, Spent
<1>3. Unused'
  BY <1>a, <1>b DEF Unused, HasRead, Held, Typed
<1>4. AskedIsPast'
  BY <1>a, <1>b DEF AskedIsPast, Unused, HasRead, Typed
<1>5. ReadIsCurrent'
  BY <1>a, <1>b DEF ReadIsCurrent, HasRead, ToQueue, More, Held, Typed
<1>6. StoredIsCurrent'
  BY <1>a, <1>b DEF StoredIsCurrent, Verifiedly, ToQueue, Held, NothingStored, Touched,
                    ReadIsCurrent, HasRead, More, Typed
<1>7. NotesAgree'
  BY <1>a, <1>b DEF NotesAgree, HasRead, Unused, HeldIsForsaken, HoldsComment, Held, Typed
<1>8. HeldIsForsaken'
  BY <1>a, <1>b DEF HeldIsForsaken, HoldsComment, Typed
<1>9. Orphans'
  BY <1>a, <1>b DEF Orphans, NotesAgree, HasRead, HeldIsForsaken, HoldsComment, Held, Typed
<1>10. Doubles'
  BY <1>a, <1>b DEF Doubles, Typed
<1>11. OneCommentPerNote'
  BY <1>a, <1>b DEF OneCommentPerNote, Doubles, Typed
<1>12. Held' /\ ReadIsNew' /\ NothingStored' /\ StoredIsNew'
  BY <1>a, Frames
<1> QED BY <1>1, <1>2, <1>3, <1>4, <1>5, <1>6, <1>7, <1>8, <1>9, <1>10, <1>11, <1>12
           DEF IInv, Shape

\* A comment changes and its request goes on to queue it.
LEMMA UpdateCommentKeeps ==
  ASSUME IInv, NEW r \in Requests, UpdateComment(r), UNCHANGED mentionVars
  PROVE  IInv'
<1> USE TablesAssumption, RowsAssumption, FaultsAssumption
    DEF IInv, Shape, mentionVars, commentVars, tables
<1>a. /\ request[r].at = "update" /\ request' \in [Requests -> Request]
      /\ \A q \in Requests \ {r} : request'[q] = request[q]
      /\ request'[r].at = "queue" /\ request'[r].id = request[r].id /\ request[r].id \in Ids
      /\ changes' = changes + 1 /\ changes \in Nat /\ changes' \in Version
      /\ comments' \in [Ids -> Comment \cup {None}]
      /\ \A id \in Ids \ {request[r].id} : comments'[id] = comments[id]
      /\ \A id \in Ids : comments'[id] = None <=> comments[id] = None
      /\ \A id \in Ids : comments[id] # None =>
           comments'[id].note = comments[id].note /\ comments'[id].version \in Version
      /\ comments[request[r].id] # None => comments'[request[r].id].version = changes + 1
      /\ UNCHANGED <<inputs, pages, lastId, mentions, queue, asked, dropped, worker, faults,
                     overlapped, forsaken>>
  <2> DEFINE id == request[r].id
  <2>1. /\ request[r].at = "update" /\ id \in Ids
        /\ request \in [Requests -> Request] /\ comments \in [Ids -> Comment \cup {None}]
    BY DEF UpdateComment, RequestAt, TypeOK, TablesTypeOK, CommentsTypeOK
  <2>3. changes \in Nat /\ inputs \in 0 .. MaxInputs /\ inputs \in Nat
    BY DEF TypeOK, TablesTypeOK, Version
  <2>4. r \in Changing
    BY <2>1 DEF Changing
  <2>5. changes + 1 \in Version
    BY <2>3, <2>4, Allowed DEF Version
  <2>7. /\ request' \in [Requests -> Request]
        /\ \A q \in Requests \ {r} : request'[q] = request[q]
        /\ request'[r].at = "queue" /\ request'[r].id = id
    BY <2>1 DEF UpdateComment, Step, Request
  <2> HIDE DEF id
  <2>8. CASE comments[id] = None /\ comments' = comments
    BY <2>1, <2>3, <2>5, <2>7, <2>8 DEF UpdateComment, Change, id, Comment
  <2>9. CASE comments[id] # None /\ comments' = [comments EXCEPT ![id].version = changes + 1]
    <3>1. comments[id] \in Comment
      BY <2>1, <2>9
    <3>2. comments' = [comments EXCEPT ![id] = [note |-> comments[id].note, version |-> changes + 1]]
      <4>1. [comments[id] EXCEPT !.version = changes + 1]
              = [note |-> comments[id].note, version |-> changes + 1]
        BY <3>1 DEF Comment
      <4> QED BY <2>9, <4>1
    <3>3. [note |-> comments[id].note, version |-> changes + 1] \in Comment
      BY <2>5, <3>1 DEF Comment
    <3>4. /\ comments' \in [Ids -> Comment \cup {None}]
          /\ \A i \in Ids \ {id} : comments'[i] = comments[i]
          /\ comments'[id] = [note |-> comments[id].note, version |-> changes + 1]
      BY <2>1, <3>2, <3>3
    <3>5. comments'[id] # None
      BY <3>3, <3>4
    <3> QED BY <2>1, <2>3, <2>5, <2>7, <2>9, <3>4, <3>5 DEF UpdateComment, Change, id, Comment
  <2> QED BY <2>8, <2>9 DEF UpdateComment, id
<1>b. Typed
  BY Ranges
<1>1. TypeOK'
  BY <1>a DEF TypeOK, TablesTypeOK, MentionsTypeOK, CommentsTypeOK
<1>2. Budget'
  <2>1. inputs \in Nat /\ changes \in Nat /\ inputs' \in Nat /\ changes' \in Nat
    BY <1>1 DEF TypeOK, TablesTypeOK, Version
  <2>2. r \in Changing /\ Changing' \subseteq Changing \ {r} /\ changes' = changes + 1 /\ inputs' = inputs
    BY <1>a DEF Changing
  <2> QED BY <2>1, <2>2, Spent
<1>3. Unused'
  BY <1>a, <1>b DEF Unused, HasRead, Held, Typed
<1>4. AskedIsPast'
  BY <1>a, <1>b DEF AskedIsPast, Unused, HasRead, Typed
<1>5. ReadIsCurrent'
  BY <1>a, <1>b DEF ReadIsCurrent, HasRead, ToQueue, More, Held, Typed
<1>6. StoredIsCurrent'
  BY <1>a, <1>b DEF StoredIsCurrent, Verifiedly, ToQueue, Held, NothingStored, Touched,
                    ReadIsCurrent, HasRead, More, Typed
<1>7. NotesAgree'
  BY <1>a, <1>b DEF NotesAgree, HasRead, Unused, HeldIsForsaken, HoldsComment, Held, Typed
<1>8. HeldIsForsaken'
  BY <1>a, <1>b DEF HeldIsForsaken, HoldsComment, Typed
<1>9. Orphans'
  BY <1>a, <1>b DEF Orphans, NotesAgree, HasRead, HeldIsForsaken, HoldsComment, Held, Typed
<1>10. Doubles'
  BY <1>a, <1>b DEF Doubles, Typed
<1>11. OneCommentPerNote'
  BY <1>a, <1>b DEF OneCommentPerNote, Doubles, Typed
<1>12. Held' /\ ReadIsNew' /\ NothingStored' /\ StoredIsNew'
  BY <1>a, Frames
<1> QED BY <1>1, <1>2, <1>3, <1>4, <1>5, <1>6, <1>7, <1>8, <1>9, <1>10, <1>11, <1>12
           DEF IInv, Shape

LEMMA QueueCommentKeeps ==
  ASSUME IInv, NEW r \in Requests, QueueComment(r), UNCHANGED mentionVars
  PROVE  IInv'
<1> USE TablesAssumption, RowsAssumption, FaultsAssumption
    DEF IInv, Shape, mentionVars, commentVars, tables
<1>a. /\ request[r].at = "queue" /\ request' \in [Requests -> Request]
      /\ \A q \in Requests \ {r} : request'[q] = request[q]
      /\ request'[r].at = "idle" /\ request[r].id \in Ids
      /\ queue' \in [Sources -> Nat] /\ queue'[request[r].id] = queue[request[r].id] + 1
      /\ asked' \in [Sources -> Version] /\ asked'[request[r].id] = VersionOf(request[r].id)
      /\ \A s \in Sources \ {request[r].id} : queue'[s] = queue[s] /\ asked'[s] = asked[s]
      /\ VersionOf(request[r].id) \in Version
      /\ comments[request[r].id] # None =>
           VersionOf(request[r].id) = comments[request[r].id].version
      /\ UNCHANGED <<inputs, changes, pages, comments, lastId, mentions, dropped, worker,
                     faults, overlapped, forsaken>>
  <2>1. request[r].at = "queue" /\ request[r].id \in Ids /\ request \in [Requests -> Request]
    BY DEF QueueComment, RequestAt, TypeOK, CommentsTypeOK
  <2>2. /\ request' \in [Requests -> Request]
        /\ \A q \in Requests \ {r} : request'[q] = request[q]
        /\ request'[r].at = "idle"
    BY <2>1 DEF QueueComment, End, NoRequest, Request
  <2>3. /\ VersionOf(request[r].id) \in Version
        /\ comments[request[r].id] # None =>
             VersionOf(request[r].id) = comments[request[r].id].version
    BY <2>1, Versions DEF Sources
  <2> QED BY <2>1, <2>2, <2>3 DEF QueueComment, Queue, TypeOK, TablesTypeOK, Sources
<1>b. Typed
  BY Ranges
<1>1. TypeOK'
  BY <1>a DEF TypeOK, TablesTypeOK, MentionsTypeOK, CommentsTypeOK
<1>2. Budget'
  <2>1. inputs \in Nat /\ changes \in Nat /\ inputs' \in Nat /\ changes' \in Nat
    BY <1>1 DEF TypeOK, TablesTypeOK, Version
  <2>2. Changing' \subseteq Changing /\ changes' = changes /\ inputs' = inputs
    BY <1>a, <2>1 DEF Changing
  <2> QED BY <2>1, <2>2, Spent
<1>3. Held'
  BY <1>a, <1>b DEF Held, Typed
<1>4. Unused'
  BY <1>a, <1>b DEF Unused, HasRead, Held, Typed
<1>5. AskedIsPast'
  BY <1>a, <1>b DEF AskedIsPast, Unused, HasRead, Typed
<1>6. ReadIsNew'
  BY <1>a, <1>b DEF ReadIsNew, HasRead, More, AskedIsPast, Held, Typed
<1>7. StoredIsNew'
  BY <1>a, <1>b DEF StoredIsNew, Verifiedly, Held, NothingStored, Touched, ReadIsNew,
                    HasRead, More, Typed
<1>8. ReadIsCurrent'
  BY <1>a, <1>b DEF ReadIsCurrent, HasRead, ToQueue, More, Held, Typed
<1>9. StoredIsCurrent'
  BY <1>a, <1>b DEF StoredIsCurrent, Verifiedly, ToQueue, Held, NothingStored, Touched,
                    ReadIsCurrent, HasRead, More, Typed
<1>10. NotesAgree'
  BY <1>a, <1>b DEF NotesAgree, HasRead, Unused, HeldIsForsaken, HoldsComment, Held, Typed
<1>11. Orphans'
  BY <1>a, <1>b DEF Orphans, NotesAgree, HasRead, HeldIsForsaken, HoldsComment, Held, Typed
<1>12. Doubles'
  BY <1>a, <1>b DEF Doubles, Typed
<1>13. NothingStored' /\ HeldIsForsaken' /\ OneCommentPerNote'
  BY <1>a, Frames
<1> QED BY <1>1, <1>2, <1>3, <1>4, <1>5, <1>6, <1>7, <1>8, <1>9, <1>10, <1>11, <1>12, <1>13
           DEF IInv, Shape

LEMMA FindDeletedKeeps ==
  ASSUME IInv, NEW r \in Requests, FindDeleted(r), UNCHANGED mentionVars
  PROVE  IInv'
<1> USE TablesAssumption, RowsAssumption, FaultsAssumption
    DEF IInv, Shape, mentionVars, commentVars, tables
<1>a. /\ request[r].at = "findDeleted" /\ request' \in [Requests -> Request]
      /\ \A q \in Requests \ {r} : request'[q] = request[q]
      /\ \/ request'[r].at = "idle"
         \/ /\ request'[r].at = "delete" /\ request'[r].id \in Ids
            /\ comments[request'[r].id] # None
            /\ comments[request'[r].id].note = request'[r].note
      /\ UNCHANGED <<inputs, changes, pages, comments, lastId, mentions, queue, asked,
                     dropped, worker, faults, overlapped, forsaken>>
  <2>1. request[r].at = "findDeleted" /\ request \in [Requests -> Request]
    BY DEF FindDeleted, RequestAt, TypeOK, CommentsTypeOK
  <2>2. CASE End(r)
    BY <2>1, <2>2 DEF FindDeleted, End, NoRequest, Request
  <2>3. CASE \E id \in WithNote(request[r].note) : Known(r, "delete", id)
    <3>1. PICK id \in WithNote(request[r].note) : Known(r, "delete", id)
      BY <2>3
    <3>2. id \in Ids /\ comments[id] # None /\ comments[id].note = request[r].note
      BY DEF WithNote
    <3> HIDE <2>3
    <3> QED BY <2>1, <3>1, <3>2, ZenonT(60) DEF FindDeleted, Known, Request
  <2> QED BY <2>2, <2>3 DEF FindDeleted
<1>b. Typed
  BY Ranges
<1>1. TypeOK'
  BY <1>a DEF TypeOK, TablesTypeOK, MentionsTypeOK, CommentsTypeOK
<1>2. Budget'
  <2>1. inputs \in Nat /\ changes \in Nat /\ inputs' \in Nat /\ changes' \in Nat
    BY <1>1 DEF TypeOK, TablesTypeOK, Version
  <2>2. Changing' \subseteq Changing /\ changes' = changes /\ inputs' = inputs
    BY <1>a, <2>1 DEF Changing
  <2> QED BY <2>1, <2>2, Spent
<1>3. Unused'
  BY <1>a, <1>b DEF Unused, HasRead, Held, Typed
<1>4. ReadIsCurrent'
  BY <1>a, <1>b DEF ReadIsCurrent, HasRead, ToQueue, More, Held, Typed
<1>5. StoredIsCurrent'
  BY <1>a, <1>b DEF StoredIsCurrent, Verifiedly, ToQueue, Held, NothingStored, Touched,
                    ReadIsCurrent, HasRead, More, Typed
<1>6. NotesAgree'
  BY <1>a, <1>b DEF NotesAgree, HasRead, Unused, HeldIsForsaken, HoldsComment, Held, Typed
<1>7. Orphans'
  BY <1>a, <1>b DEF Orphans, NotesAgree, HasRead, HeldIsForsaken, HoldsComment, Held, Typed
<1>8. Doubles'
  BY <1>a, <1>b DEF Doubles, Typed
<1>9. /\ Held' /\ AskedIsPast' /\ ReadIsNew' /\ NothingStored' /\ StoredIsNew'
      /\ HeldIsForsaken' /\ OneCommentPerNote'
  BY <1>a, Frames
<1> QED BY <1>1, <1>2, <1>3, <1>4, <1>5, <1>6, <1>7, <1>8, <1>9 DEF IInv, Shape

LEMMA DeleteMentionsKeeps ==
  ASSUME IInv, NEW r \in Requests, DeleteMentions(r), UNCHANGED mentionVars
  PROVE  IInv'
<1> USE TablesAssumption, RowsAssumption, FaultsAssumption
    DEF IInv, Shape, mentionVars, commentVars, tables
<1>a. /\ request[r].at = "deleteMentions" /\ request' \in [Requests -> Request]
      /\ \A q \in Requests \ {r} : request'[q] = request[q]
      /\ request'[r].at = "idle"
      /\ mentions' \in [Sources -> Mention \cup {None}]
      /\ \A source \in Sources :
           \/ mentions'[source] = None
           \/ mentions'[source] = mentions[source] /\ mentions[source].note # request[r].note
      /\ UNCHANGED <<inputs, changes, pages, comments, lastId, queue, asked, dropped, worker,
                     faults, overlapped, forsaken>>
  <2>1. request[r].at = "deleteMentions" /\ request \in [Requests -> Request]
    BY DEF DeleteMentions, RequestAt, TypeOK, CommentsTypeOK
  <2>2. /\ request' \in [Requests -> Request]
        /\ \A q \in Requests \ {r} : request'[q] = request[q]
        /\ request'[r].at = "idle"
    BY <2>1 DEF DeleteMentions, End, NoRequest, Request
  <2>3. /\ mentions' \in [Sources -> Mention \cup {None}]
        /\ \A source \in Sources :
             \/ mentions'[source] = None
             \/ mentions'[source] = mentions[source] /\ mentions[source].note # request[r].note
    BY DEF DeleteMentions, Without, TypeOK, TablesTypeOK
  <2> QED BY <2>1, <2>2, <2>3 DEF DeleteMentions
<1>b. Typed
  BY Ranges
<1>1. TypeOK'
  BY <1>a DEF TypeOK, TablesTypeOK, MentionsTypeOK, CommentsTypeOK
<1>2. Budget'
  <2>1. inputs \in Nat /\ changes \in Nat /\ inputs' \in Nat /\ changes' \in Nat
    BY <1>1 DEF TypeOK, TablesTypeOK, Version
  <2>2. Changing' \subseteq Changing /\ changes' = changes /\ inputs' = inputs
    BY <1>a, <2>1 DEF Changing
  <2> QED BY <2>1, <2>2, Spent
<1>3. Unused'
  BY <1>a, <1>b DEF Unused, HasRead, Held, Typed
<1>4. NothingStored'
  BY <1>a, <1>b DEF NothingStored, Touched, Typed
<1>5. StoredIsNew'
  BY <1>a, <1>b DEF StoredIsNew, Verifiedly, Held, NothingStored, Touched, ReadIsNew,
                    HasRead, More, Typed
<1>6. ReadIsCurrent'
  BY <1>a, <1>b DEF ReadIsCurrent, HasRead, ToQueue, More, Held, Typed
<1>7. StoredIsCurrent'
  BY <1>a, <1>b DEF StoredIsCurrent, Verifiedly, ToQueue, Held, NothingStored, Touched,
                    ReadIsCurrent, HasRead, More, Typed
<1>8. NotesAgree'
  BY <1>a, <1>b DEF NotesAgree, HasRead, Unused, HeldIsForsaken, HoldsComment, Held, Typed
<1>9. Orphans'
  BY <1>a, <1>b DEF Orphans, NotesAgree, HasRead, HeldIsForsaken, HoldsComment, Held, Typed
<1>10. Doubles'
  BY <1>a, <1>b DEF Doubles, Typed
<1>11. Held' /\ AskedIsPast' /\ ReadIsNew' /\ HeldIsForsaken' /\ OneCommentPerNote'
  BY <1>a, Frames
<1> QED BY <1>1, <1>2, <1>3, <1>4, <1>5, <1>6, <1>7, <1>8, <1>9, <1>10, <1>11 DEF IInv, Shape

\* A comment goes: the worker holds it, or its row is deleted next.
LEMMA DeleteCommentKeeps ==
  ASSUME IInv, NEW r \in Requests, DeleteComment(r)
  PROVE  IInv'
<1> USE TablesAssumption, RowsAssumption, FaultsAssumption
    DEF IInv, Shape, mentionVars, commentVars, tables
<1>a. /\ request[r].at = "delete" /\ request' \in [Requests -> Request] /\ request[r].id \in Ids
      /\ \A q \in Requests \ {r} : request'[q] = request[q]
      /\ request'[r].at = "deleteMentions" /\ request'[r].note = request[r].note
      /\ comments' \in [Ids -> Comment \cup {None}] /\ comments'[request[r].id] = None
      /\ \A id \in Ids \ {request[r].id} : comments'[id] = comments[id]
      /\ forsaken \subseteq forsaken' /\ forsaken' \subseteq Ids
      /\ HoldsComment(request[r].id) => request[r].id \in forsaken'
      /\ UNCHANGED <<inputs, changes, pages, lastId, mentions, queue, asked, dropped, worker,
                     faults, overlapped>>
  <2>1. request[r].at = "delete" /\ request[r].id \in Ids /\ request \in [Requests -> Request]
    BY DEF DeleteComment, RequestAt, TypeOK, CommentsTypeOK
  <2>2. /\ request' \in [Requests -> Request]
        /\ \A q \in Requests \ {r} : request'[q] = request[q]
        /\ request'[r].at = "deleteMentions" /\ request'[r].note = request[r].note
    BY <2>1 DEF DeleteComment, Step, Request
  <2>3. /\ forsaken \subseteq forsaken' /\ forsaken' \subseteq Ids
        /\ HoldsComment(request[r].id) => request[r].id \in forsaken'
    BY <2>1 DEF DeleteComment, Remove, TypeOK, CommentsTypeOK
  <2> QED BY <2>1, <2>2, <2>3 DEF DeleteComment, Remove, TypeOK, TablesTypeOK
<1>b. Typed
  BY Ranges
<1>1. TypeOK'
  BY <1>a DEF TypeOK, TablesTypeOK, MentionsTypeOK, CommentsTypeOK
<1>2. Budget'
  <2>1. inputs \in Nat /\ changes \in Nat /\ inputs' \in Nat /\ changes' \in Nat
    BY <1>1 DEF TypeOK, TablesTypeOK, Version
  <2>2. Changing' \subseteq Changing /\ changes' = changes /\ inputs' = inputs
    BY <1>a, <2>1 DEF Changing
  <2> QED BY <2>1, <2>2, Spent
<1>3. Unused'
  BY <1>a, <1>b DEF Unused, HasRead, Held, Typed
<1>4. AskedIsPast'
  BY <1>a, <1>b DEF AskedIsPast, Unused, HasRead, Typed
<1>5. ReadIsCurrent'
  BY <1>a, <1>b DEF ReadIsCurrent, HasRead, ToQueue, More, Held, Typed
<1>6. StoredIsCurrent'
  BY <1>a, <1>b DEF StoredIsCurrent, Verifiedly, ToQueue, Held, NothingStored, Touched,
                    ReadIsCurrent, HasRead, More, Typed
<1>7. NotesAgree'
  BY <1>a, <1>b DEF NotesAgree, HasRead, Unused, HeldIsForsaken, HoldsComment, Held, Typed
<1>8. HeldIsForsaken'
  BY <1>a, <1>b DEF HeldIsForsaken, HoldsComment, Typed
<1>9. Orphans'
  BY <1>a, <1>b DEF Orphans, NotesAgree, HasRead, HeldIsForsaken, HoldsComment, Held, Typed
<1>10. Doubles'
  BY <1>a, <1>b DEF Doubles, Typed
<1>11. OneCommentPerNote'
  BY <1>a, <1>b DEF OneCommentPerNote, Doubles, Typed
<1>12. Held' /\ ReadIsNew' /\ NothingStored' /\ StoredIsNew'
  BY <1>a, Frames
<1> QED BY <1>1, <1>2, <1>3, <1>4, <1>5, <1>6, <1>7, <1>8, <1>9, <1>10, <1>11, <1>12
           DEF IInv, Shape

LEMMA AdminDeleteCommentKeeps ==
  ASSUME IInv, NEW id \in Ids, AdminDeleteComment(id)
  PROVE  IInv'
<1> USE TablesAssumption, RowsAssumption, FaultsAssumption
    DEF IInv, Shape, mentionVars, commentVars, tables
<1>a. /\ inputs' = inputs + 1 /\ inputs' \in 0 .. MaxInputs
      /\ comments' \in [Ids -> Comment \cup {None}] /\ comments'[id] = None
      /\ \A i \in Ids \ {id} : comments'[i] = comments[i]
      /\ forsaken' = forsaken \cup {id} /\ forsaken' \subseteq Ids
      /\ UNCHANGED <<changes, pages, lastId, mentions, queue, asked, dropped, worker, faults,
                     request, overlapped>>
  BY DEF AdminDeleteComment, Input, Remove, TypeOK, TablesTypeOK, CommentsTypeOK
<1>b. Typed
  BY Ranges
<1>1. TypeOK'
  BY <1>a DEF TypeOK, TablesTypeOK, MentionsTypeOK, CommentsTypeOK
<1>2. Budget'
  <2>1. inputs \in Nat /\ changes \in Nat /\ inputs' \in Nat /\ changes' \in Nat
    BY <1>1 DEF TypeOK, TablesTypeOK, Version
  <2>2. Changing' \subseteq Changing /\ changes' = changes /\ inputs' = inputs + 1
    BY <1>a, <2>1 DEF Changing
  <2> QED BY <2>1, <2>2, Spent
<1>3. Unused'
  BY <1>a, <1>b DEF Unused, HasRead, Held, Typed
<1>4. AskedIsPast'
  BY <1>a, <1>b DEF AskedIsPast, Unused, HasRead, Typed
<1>5. ReadIsCurrent'
  BY <1>a, <1>b DEF ReadIsCurrent, HasRead, ToQueue, More, Held, Typed
<1>6. StoredIsCurrent'
  BY <1>a, <1>b DEF StoredIsCurrent, Verifiedly, ToQueue, Held, NothingStored, Touched,
                    ReadIsCurrent, HasRead, More, Typed
<1>7. NotesAgree'
  BY <1>a, <1>b DEF NotesAgree, HasRead, Unused, HeldIsForsaken, HoldsComment, Held, Typed
<1>8. HeldIsForsaken'
  BY <1>a, <1>b DEF HeldIsForsaken, HoldsComment, Typed
<1>9. Orphans'
  BY <1>a, <1>b DEF Orphans, NotesAgree, HasRead, HeldIsForsaken, HoldsComment, Held, Typed
<1>10. Doubles'
  BY <1>a, <1>b DEF Doubles, Typed
<1>11. OneCommentPerNote'
  BY <1>a, <1>b DEF OneCommentPerNote, Doubles, Typed
<1>12. Held' /\ ReadIsNew' /\ NothingStored' /\ StoredIsNew'
  BY <1>a, Frames
<1> QED BY <1>1, <1>2, <1>3, <1>4, <1>5, <1>6, <1>7, <1>8, <1>9, <1>10, <1>11, <1>12
           DEF IInv, Shape

\* The process dies: what was under way is forgotten, lost or forsaken.
LEMMA CrashKeeps ==
  ASSUME IInv, Crash
  PROVE  IInv'
<1> USE TablesAssumption, RowsAssumption, FaultsAssumption
    DEF IInv, Shape, mentionVars, commentVars, tables
<1>a. /\ worker' = Resting /\ Resting \in Verification /\ Resting.at = "idle"
      /\ Resting.source = None /\ None \notin Sources /\ \A r \in Requests : request'[r].at = "idle"
      /\ request' \in [Requests -> Request] /\ faults' \in 0 .. MaxFaults
      /\ dropped \subseteq dropped' /\ dropped' \subseteq Sources
      /\ \A id \in Ids : ToQueue(id) => id \in dropped'
      /\ forsaken \subseteq forsaken' /\ forsaken' \subseteq Ids
      /\ \A id \in Ids :
           /\ mentions[id] # None
           /\ \E r \in Requests : request[r].at = "deleteMentions" /\ request[r].note = mentions[id].note
           => id \in forsaken'
      /\ UNCHANGED <<inputs, changes, pages, comments, lastId, mentions, queue, asked,
                     overlapped>>
  <2>1. /\ request' = [r \in Requests |-> NoRequest] /\ NoRequest \in Request
    BY DEF Crash, NoRequest, Request
  <2>2. faults' \in 0 .. MaxFaults
    BY DEF Crash, Fault, TypeOK, MentionsTypeOK
  <2>3. /\ Resting \in Verification /\ Resting.at = "idle" /\ Resting.source = None
        /\ None \notin Sources
    BY DEF Resting, Verification, Version, Sources, Ids
  <2> QED BY <2>1, <2>2, <2>3 DEF Crash, NoRequest, ToQueue, RequestAt, TypeOK, TablesTypeOK,
                                  CommentsTypeOK, Sources
<1>b. Typed
  BY Ranges
<1>1. TypeOK'
  BY <1>a DEF TypeOK, TablesTypeOK, MentionsTypeOK, CommentsTypeOK
<1>2. Budget'
  <2>1. inputs \in Nat /\ changes \in Nat /\ inputs' \in Nat /\ changes' \in Nat
    BY <1>1 DEF TypeOK, TablesTypeOK, Version
  <2>2. Changing' \subseteq Changing /\ changes' = changes /\ inputs' = inputs
    BY <1>a, <2>1 DEF Changing
  <2> QED BY <2>1, <2>2, Spent
<1>3. Held'
  BY <1>a, <1>b DEF Held, Typed
<1>4. Unused'
  BY <1>a, <1>b DEF Unused, HasRead, Held, Typed
<1>5. ReadIsNew'
  BY <1>a, <1>b DEF ReadIsNew, HasRead, More, AskedIsPast, Held, Typed
<1>6. NothingStored'
  BY <1>a, <1>b DEF NothingStored, Touched, Typed
<1>7. StoredIsNew'
  BY <1>a, <1>b DEF StoredIsNew, Verifiedly, Held, NothingStored, Touched, ReadIsNew,
                    HasRead, More, Typed
<1>8. ReadIsCurrent'
  BY <1>a, <1>b DEF ReadIsCurrent, HasRead, ToQueue, More, Held, Typed
<1>9. StoredIsCurrent'
  BY <1>a, <1>b DEF StoredIsCurrent, Verifiedly, ToQueue, Held, NothingStored, Touched,
                    ReadIsCurrent, HasRead, More, Typed
<1>10. NotesAgree'
  BY <1>a, <1>b DEF NotesAgree, HasRead, Unused, HeldIsForsaken, HoldsComment, Held, Typed
<1>11. HeldIsForsaken'
  BY <1>a, <1>b DEF HeldIsForsaken, HoldsComment, Typed
<1>12. Orphans'
  BY <1>a, <1>b DEF Orphans, NotesAgree, HasRead, HeldIsForsaken, HoldsComment, Held, Typed
<1>13. Doubles'
  BY <1>a, <1>b DEF Doubles, Typed
<1>14. AskedIsPast' /\ OneCommentPerNote'
  BY <1>a, Frames
<1> QED BY <1>1, <1>2, <1>3, <1>4, <1>5, <1>6, <1>7, <1>8, <1>9, <1>10, <1>11, <1>12, <1>13,
           <1>14
           DEF IInv, Shape

-----------------------------------------------------------------------------
(***************************************************************************)
(* The theorems.                                                           *)
(***************************************************************************)
LEMMA InitHolds == Init => IInv
<1> SUFFICES ASSUME Init PROVE IInv
  OBVIOUS
<1> USE TablesAssumption, RowsAssumption, FaultsAssumption
    DEF Init, TablesInit, MentionsInit, CommentsInit
<1>1. 0 \in Version /\ None \notin Ids
  BY DEF Version, Ids
<1>2. PICK some \in SUBSET Pages :
        mentions = [source \in Sources |->
          IF source \in some THEN [version |-> 0, note |-> None] ELSE None]
  OBVIOUS
<1>3. \A source \in Sources :
        /\ mentions[source] \in Mention \cup {None}
        /\ mentions[source] # None => source \in Pages /\ mentions[source].version = 0
  BY <1>1, <1>2 DEF Mention
<1>4. Resting \in Verification /\ Resting.at = "idle" /\ NoRequest \in Request
  BY <1>1 DEF Resting, Verification, NoRequest, Request
<1>5. TypeOK
  <2>1. pages \in [Pages -> Page]
    BY <1>1 DEF Page
  <2>2. mentions \in [Sources -> Mention \cup {None}]
    BY <1>2, <1>3
  <2> QED BY <1>1, <1>4, <2>1, <2>2
          DEF TypeOK, TablesTypeOK, MentionsTypeOK, CommentsTypeOK, Resting, NoRequest
<1>6. Budget
  <2>1. Changing = {}
    BY DEF Changing, NoRequest
  <2> QED BY <2>1, FS_EmptySet DEF Budget
<1>7. \A id \in Ids : comments[id] = None /\ mentions[id] = None /\ asked[id] = 0
  <2>1. \A id \in Ids : id \in Sources /\ id \notin Pages
    BY DEF Ids, Sources
  <2> QED BY <1>3, <2>1
<1>8. worker.at = "idle" /\ ~HasRead /\ \A r \in Requests : request[r].at = "idle"
  BY DEF HasRead, Resting, NoRequest
<1>9. Held /\ Unused
  BY <1>7, <1>8 DEF Held, Unused
<1>10. AskedIsPast
  BY <1>7 DEF AskedIsPast, Sources
<1>11. ReadIsNew /\ NothingStored /\ StoredIsNew
  BY <1>3, <1>8 DEF ReadIsNew, NothingStored, StoredIsNew
<1>12. ReadIsCurrent /\ StoredIsCurrent /\ NotesAgree /\ HeldIsForsaken /\ Orphans
  BY <1>7, <1>8 DEF ReadIsCurrent, StoredIsCurrent, NotesAgree, HeldIsForsaken, HoldsComment,
                    Orphans
<1>13. Doubles /\ OneCommentPerNote
  BY <1>7, <1>8 DEF Doubles, OneCommentPerNote
<1> QED BY <1>5, <1>6, <1>9, <1>10, <1>11, <1>12, <1>13 DEF IInv, Shape

LEMMA StutterKeeps == IInv /\ UNCHANGED vars => IInv'
<1> SUFFICES ASSUME IInv, UNCHANGED vars PROVE IInv'
  OBVIOUS
<1> USE DEF IInv, Shape, vars, tables, mentionVars, commentVars
<1>1. TypeOK'
  BY DEF TypeOK, TablesTypeOK, MentionsTypeOK, CommentsTypeOK
<1> QED BY <1>1, Frames

LEMMA StepKeeps == IInv /\ [Next]_vars => IInv'
<1> SUFFICES ASSUME IInv, [Next]_vars PROVE IInv'
  OBVIOUS
<1>1. ASSUME Outside, UNCHANGED commentVars PROVE IInv'
  BY <1>1, ChangePageKeeps, HandleWebmentionKeeps, DeleteMentionKeeps DEF Outside
<1>2. ASSUME Verifying, UNCHANGED commentVars PROVE IInv'
  BY <1>2, TakeMentionKeeps DEF Verifying
<1>3. ASSUME VerifyMention, UNCHANGED commentVars PROVE IInv'
  BY <1>3, RequestTargetKeeps, RequestSourceKeeps, RequestFailsKeeps, RemoveMentionsKeeps,
     LookUpMentionKeeps, UpdateMentionKeeps, InsertMentionKeeps, DequeueMentionKeeps
     DEF VerifyMention
<1>4. ASSUME NEW r \in Requests, CreateComment(r), UNCHANGED mentionVars PROVE IInv'
  BY <1>4, BeginKeeps DEF CreateComment
<1>5. ASSUME NEW r \in Requests, NEW note \in Notes,
             ReceiveNote(r, note) \/ DeleteNote(r, note), UNCHANGED mentionVars
      PROVE  IInv'
  BY <1>5, BeginKeeps DEF ReceiveNote, DeleteNote
<1>6. ASSUME NEW r \in Requests, NEW id \in Ids, EditComment(r, id), UNCHANGED mentionVars
      PROVE  IInv'
  BY <1>6, BeginKeeps DEF EditComment
<1>7. ASSUME NEW r \in Requests, HandleRequest(r), UNCHANGED mentionVars PROVE IInv'
  BY <1>7, FindCommentKeeps, InsertCommentKeeps, UpdateCommentKeeps, QueueCommentKeeps,
     FindDeletedKeeps, DeleteMentionsKeeps DEF HandleRequest
<1>8. ASSUME NEW r \in Requests, DeleteComment(r) PROVE IInv'
  BY <1>8, DeleteCommentKeeps
<1>9. ASSUME NEW id \in Ids, AdminDeleteComment(id) PROVE IInv'
  BY <1>9, AdminDeleteCommentKeeps
<1>10. ASSUME Crash PROVE IInv'
  BY <1>10, CrashKeeps
<1>11. ASSUME UNCHANGED vars PROVE IInv'
  BY <1>11, StutterKeeps
<1> QED BY <1>1, <1>2, <1>3, <1>4, <1>5, <1>6, <1>7, <1>8, <1>9, <1>10, <1>11 DEF Next

LEMMA Invariance == Spec => []IInv
<1>1. Init => IInv
  BY InitHolds
<1>2. IInv /\ [Next]_vars => IInv'
  BY StepKeeps
<1> QED BY <1>1, <1>2, PTL DEF Spec

\* The tables, the worker and the requests keep their types; that no change goes
\* beyond the inputs needs the budget of changes.
THEOREM TypesAreRight == Spec => []TypeOK
<1>1. IInv => TypeOK
  BY DEF IInv, Shape
<1> QED BY <1>1, Invariance, PTL

\* verifyMention with its queue: when all that came for a source is verified, its
\* row is at least as new as the source was when the last of it came.
THEOREM MentionsFollowTheirSources == Spec => []MentionFollowsSource
<1>1. IInv => MentionFollowsSource
  BY DEF IInv, StoredIsNew, Verifiedly, MentionFollowsSource, Settled
<1> QED BY <1>1, Invariance, PTL

\* commentsEditor, apOnCreateUpdate and verifyMention together: a post shows a
\* comment as it is, once the webmentions of the comment are verified.
THEOREM ShownCommentsAreCurrent == Spec => []ShownCommentIsCurrent
<1>1. IInv => ShownCommentIsCurrent
  BY DEF IInv, StoredIsCurrent, Verifiedly, ToQueue, RequestAt, ShownCommentIsCurrent, Settled
<1> QED BY <1>1, Invariance, PTL

\* createComment: a note has two comments only if it came again while it was
\* looked for and inserted.
THEOREM NotesHaveOneComment == Spec => []OneCommentPerNote
<1>1. IInv => OneCommentPerNote
  BY DEF IInv
<1> QED BY <1>1, Invariance, PTL

\* apHandleInbox: the webmention of a removed comment stays only if the
\* administrator removed it, the worker held it or the process died in between.
THEOREM NoneIsOrphaned == Spec => []NoOrphan
<1>1. IInv => NoOrphan
  BY DEF IInv, Orphans, RequestAt, NoOrphan
<1> QED BY <1>1, Invariance, PTL
=============================================================================
