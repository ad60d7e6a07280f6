----------------------------- MODULE EditorSync -----------------------------
(***************************************************************************)
(* editorWebsocket.go and editor.js: the text of a new post, kept in the   *)
(* database and synchronised between the browser tabs that edit it.  Every *)
(* tab has a connection with a handler of its own; a tab whose text is     *)
(* replaced sends it back half a second later, as if it had been typed.    *)
(***************************************************************************)
EXTENDS Naturals, FiniteSets, Sequences

CONSTANTS
  Tabs,
  Words,           \* texts
  Odd,             \* the texts that begin with "format:"
  MaxConnections,  \* bounds: on the connections opened, one after the other,
  MaxTyped,        \* on changes made by the user,
  MaxWaiting,      \* on messages waiting in one direction of a connection,
  MaxTroubles      \* on broken connections and failed statements

ASSUME OddAssumption == Odd \subseteq Words \ {""} /\ "format:" \notin Words \ Odd

VARIABLES
  stored,   \* the editor state in persistent_cache: a set of one text, {} for no row
  flight,   \* what a running read of it has found: a set of one result, {} if none runs
  doubt,    \* history: since the state was last written, a statement has failed, or a handler
            \* has shared a read from before that
  text,     \* [Tabs -> the text of the editor]
  timer,    \* tabs that wait for half a second without input
  unsent,   \* tabs whose text is not what they have sent last: the template, which is no
            \* input, or a text that was submitted
  posting,  \* tabs whose form is submitted and not answered yet
  socket,   \* [Tabs -> the connection, as a set of at most one]
  line,     \* [Connections -> [open, up, down]]: what is on its way in both directions
  server,   \* [Connections -> what the handler does next]
  esws,     \* connections that get what the others write
  typed, troubles

Connections == 1 .. MaxConnections

editorVars ==
  <<stored, flight, doubt, text, timer, unsent, posting, socket, line, server, esws, typed, troubles>>

Empty == ""
Contents == Words \cup {Empty}
Toolbar == "format:"           \* what a click in the toolbar sends
Message == Contents \cup {Toolbar}
Reply == {"sync", "formatted"} \X Contents

Closed == [open |-> FALSE, up |-> <<>>, down |-> <<>>]
Doing(step, state, to) == [at |-> step, state |-> state, to |-> to]
Unused == Doing("unused", Empty, {})
Listening == Doing("listen", Empty, {})
Returned == Doing("returned", Empty, {})

EditorTypeOK ==
  /\ stored \subseteq Contents /\ flight \subseteq SUBSET Contents
  /\ doubt \in BOOLEAN
  /\ text \in [Tabs -> Contents] /\ timer \subseteq Tabs /\ unsent \subseteq Tabs /\ posting \subseteq Tabs
  /\ socket \in [Tabs -> SUBSET Connections]
  /\ line \in [Connections -> [open : BOOLEAN, up : Seq(Message), down : Seq(Reply)]]
  /\ server \in [Connections -> [at : STRING, state : Contents, to : SUBSET Connections]]
  /\ esws \subseteq Connections
  /\ typed \in 0 .. MaxTyped /\ troubles \in 0 .. MaxTroubles

EditorInit ==
  /\ stored = {} /\ flight = {} /\ doubt = FALSE
  /\ text = [t \in Tabs |-> Empty] /\ timer = {} /\ unsent = {} /\ posting = {}
  /\ socket = [t \in Tabs |-> {}]
  /\ line = [c \in Connections |-> Closed]
  /\ server = [c \in Connections |-> Unused]
  /\ esws = {} /\ typed = 0 /\ troubles = 0

\* retrievePersistentCacheContext: who comes while a read is running gets its result.
getEditorStateFromDatabase ==
  /\ flight' = IF flight = {} THEN {stored} ELSE flight
  /\ doubt' = (doubt \/ flight' # {stored})

-----------------------------------------------------------------------------
(* The browser: editor.js *)

\* A tab without a connection opens one; serveEditorWebsocket accepts it, registers it, and
\* reads the state to begin with.
openWS(t) ==
  /\ socket[t] = {}
  /\ \E c \in Connections :
       /\ server[c] = Unused /\ \A d \in 1 .. c - 1 : server[d] # Unused
       /\ socket' = [socket EXCEPT ![t] = {c}]
       /\ line' = [line EXCEPT ![c].open = TRUE]
       /\ server' = [server EXCEPT ![c] = Doing("greet", Empty, {})]
       /\ getEditorStateFromDatabase
       /\ esws' = esws \cup {c}
  /\ UNCHANGED <<stored, text, timer, unsent, posting, typed, troubles>>

\* What is sent on a connection that is broken already is lost.
Sends(t, message) ==
  /\ \A c \in socket[t] : Len(line[c].up) < MaxWaiting
  /\ line' = [c \in Connections |->
                IF c \in socket[t] /\ line[c].open
                THEN [line[c] EXCEPT !.up = Append(@, message)] ELSE line[c]]

Trouble == troubles < MaxTroubles /\ troubles' = troubles + 1

Changes(t) == typed < MaxTyped /\ typed' = typed + 1

Type(t) ==
  /\ Changes(t)
  /\ \E w \in Words \ {text[t]} : text' = [text EXCEPT ![t] = w]
  /\ timer' = timer \cup {t} /\ unsent' = unsent \ {t}
  /\ UNCHANGED <<stored, flight, doubt, posting, socket, line, server, esws, troubles>>

\* Without a connection the text is not sent, and not later either.
Debounced(t) ==
  /\ t \in timer /\ timer' = timer \ {t}
  /\ unsent' = unsent \ {t}
  /\ Sends(t, text[t])
  /\ UNCHANGED <<stored, flight, doubt, text, posting, socket, server, esws, typed, troubles>>

clickToolbar(t) ==
  /\ Changes(t)
  /\ socket[t] # {} /\ Sends(t, Toolbar)
  /\ UNCHANGED <<stored, flight, doubt, text, timer, unsent, posting, socket, server, esws, troubles>>

\* The template is set as the value of the editor, which is no input event.
setupTemplateButton(t) ==
  /\ Changes(t)
  /\ \E w \in Words : text' = [text EXCEPT ![t] = w]
  /\ unsent' = unsent \cup {t}
  /\ UNCHANGED <<stored, flight, doubt, timer, posting, socket, line, server, esws, troubles>>

\* Mistake: a replaced text is not sent back.
execReplaceOnly(t, w) ==
  /\ text' = [text EXCEPT ![t] = w]
  /\ UNCHANGED timer
\* execUndoableReplace inserts the text as if typed, which starts the timer.
execUndoableReplace(t, w) ==
  /\ text' = [text EXCEPT ![t] = w]
  /\ timer' = timer \cup {t}

onmessage(t) ==
  \E c \in socket[t] :
    /\ line[c].down # <<>>
    /\ line' = [line EXCEPT ![c].down = Tail(@)]
    /\ LET reply == Head(line[c].down) IN
         IF reply = <<"sync", text[t]>> THEN UNCHANGED <<text, timer, unsent>>
         ELSE execUndoableReplace(t, reply[2]) /\ unsent' = unsent \ {t}
    /\ UNCHANGED <<stored, flight, doubt, posting, socket, server, esws, typed, troubles>>

\* The end of a connection is noticed after what has arrived; another one follows.
onclose(t) ==
  \E c \in socket[t] :
    /\ ~line[c].open /\ line[c].down = <<>>
    /\ socket' = [socket EXCEPT ![t] = {}]
    /\ UNCHANGED <<stored, flight, doubt, text, timer, unsent, posting, line, server, esws, typed, troubles>>

\* The form is sent: only the stored state is emptied. The text, the connection and a running
\* timer stay until the answer comes.
submit(t) ==
  /\ Changes(t)
  /\ Sends(t, Empty)
  /\ posting' = posting \cup {t}
  /\ unsent' = unsent \cup {t}
  /\ UNCHANGED <<stored, flight, doubt, text, timer, socket, server, esws, troubles>>

\* The answer replaces the page, and what has been sent arrives; the editor may be opened again.
pageLeft(t) ==
  /\ t \in posting /\ posting' = posting \ {t}
  /\ line' = [c \in Connections |->
                IF c \in socket[t] THEN [line[c] EXCEPT !.open = FALSE, !.down = <<>>] ELSE line[c]]
  /\ socket' = [socket EXCEPT ![t] = {}]
  /\ text' = [text EXCEPT ![t] = Empty]
  /\ timer' = timer \ {t} /\ unsent' = unsent \ {t}
  /\ UNCHANGED <<stored, flight, doubt, server, esws, typed, troubles>>

\* Or the author stops waiting for it.
givenUp(t) ==
  /\ t \in posting /\ posting' = posting \ {t}
  /\ UNCHANGED <<stored, flight, doubt, text, timer, unsent, socket, line, server, esws, typed, troubles>>

\* A connection breaks; what is on its way is lost.
Break(c) ==
  /\ Trouble
  /\ line[c].open
  /\ line' = [line EXCEPT ![c] = Closed]
  /\ UNCHANGED <<stored, flight, doubt, text, timer, unsent, posting, socket, server, esws, typed>>

-----------------------------------------------------------------------------
(* The server: serveEditorWebsocket, one handler for each connection *)

Proceed(c, next) == server' = [server EXCEPT ![c] = next]

\* The deferred calls.
Returns(c) ==
  /\ Proceed(c, Returned)
  /\ esws' = esws \ {c}
  /\ line' = [line EXCEPT ![c].open = FALSE, ![c].up = <<>>]

\* The message is new if it differs from the last state; no state equals an empty one.
Compared(last, state) ==
  IF last = {state} \/ (last = {} /\ state = Empty) THEN Listening ELSE Doing("update", state, {})

Greeted(last) == IF last = {} THEN Listening ELSE Doing("hello", CHOOSE s \in last : TRUE, {})

\* The read ends for all that wait for it.
stateIsRead ==
  \E last \in flight :
    /\ flight' = {}
    /\ server' = [c \in Connections |->
                    CASE server[c].at = "greet"   -> Greeted(last)
                      [] server[c].at = "compare" -> Compared(last, server[c].state)
                      [] OTHER                        -> server[c]]
    /\ UNCHANGED <<stored, doubt, text, timer, unsent, posting, socket, line, esws, typed, troubles>>

\* The read fails: a new connection ends, a message counts as new unless it is empty.
readFails ==
  /\ Trouble
  /\ flight # {} /\ flight' = {}
  /\ doubt' = TRUE
  /\ LET ended == {c \in Connections : server[c].at = "greet"} IN
       /\ esws' = esws \ ended
       /\ line' = [c \in Connections |->
                     IF c \in ended THEN [line[c] EXCEPT !.open = FALSE, !.up = <<>>] ELSE line[c]]
       /\ server' = [c \in Connections |->
                       CASE c \in ended                   -> Returned
                         [] server[c].at = "compare" -> Compared({}, server[c].state)
                         [] OTHER                        -> server[c]]
  /\ UNCHANGED <<stored, text, timer, unsent, posting, socket, typed>>

CanTake(c) == Len(line[c].down) < MaxWaiting
Replies(c, reply) == line' = [line EXCEPT ![c].down = Append(@, reply)]

sendInitialState(c) ==
  /\ server[c].at = "hello"
  /\ IF line[c].open
     THEN CanTake(c) /\ Replies(c, <<"sync", server[c].state>>) /\ Proceed(c, Listening) /\ UNCHANGED esws
     ELSE Returns(c)
  /\ UNCHANGED <<stored, flight, doubt, text, timer, unsent, posting, socket, typed, troubles>>

\* The formatted text goes back on the connection, unless the selection makes no sense.
handleEditorFormat(c, taken) ==
  \/ line' = taken
  \/ /\ line[c].open /\ CanTake(c)
     /\ \E w \in Words : line' = [taken EXCEPT ![c].down = Append(@, <<"formatted", w>>)]

\* Which message is a text is told by its prefix only: a text may have it as well.
HasPrefix(message) == message = Toolbar \/ message \in Odd

receiveMessage(c) ==
  /\ server[c] = Listening /\ line[c].up # <<>>
  /\ LET message == Head(line[c].up)
         taken == [line EXCEPT ![c].up = Tail(@)] IN
       IF HasPrefix(message)
       THEN handleEditorFormat(c, taken) /\ UNCHANGED <<server, flight, doubt>>
       ELSE /\ line' = taken
            /\ getEditorStateFromDatabase
            /\ Proceed(c, Doing("compare", message, {}))
  /\ UNCHANGED <<stored, text, timer, unsent, posting, socket, esws, typed, troubles>>

\* The connection has ended.
leave(c) ==
  /\ server[c] = Listening /\ line[c].up = <<>> /\ ~line[c].open
  /\ Returns(c)
  /\ UNCHANGED <<stored, flight, doubt, text, timer, unsent, posting, socket, typed, troubles>>

SendTo(state, others) == IF others = {} THEN Listening ELSE Doing("send", state, others)

\* An error of the statement is ignored.
updateEditorStateInDatabase(c) ==
  /\ server[c].at = "update"
  /\ \/ stored' = {server[c].state} /\ doubt' = FALSE /\ UNCHANGED troubles
     \/ Trouble /\ doubt' = TRUE /\ UNCHANGED stored
  /\ Proceed(c, SendTo(server[c].state, esws \ {c}))
  /\ UNCHANGED <<flight, text, timer, unsent, posting, socket, line, esws, typed>>

\* sendNewEditorStateToAllConnections: a connection that cannot be written to gets nothing
\* any more, also if it was the time of the sender that was up.
sendEditorState(c) ==
  /\ server[c].at = "send"
  /\ \E d \in server[c].to :
       /\ Proceed(c, SendTo(server[c].state, server[c].to \ {d}))
       /\ \/ d \notin esws /\ UNCHANGED <<line, esws, troubles>>
          \/ d \in esws /\ line[d].open /\ CanTake(d) /\ Replies(d, <<"sync", server[c].state>>)
             /\ UNCHANGED <<esws, troubles>>
          \/ d \in esws /\ ~line[d].open /\ esws' = esws \ {d} /\ UNCHANGED <<line, troubles>>
          \/ d \in esws /\ line[d].open /\ Trouble /\ esws' = esws \ {d} /\ UNCHANGED line
  /\ UNCHANGED <<stored, flight, doubt, text, timer, unsent, posting, socket, typed>>

EditorNext ==
  \/ \E t \in Tabs :
       \/ openWS(t) \/ Type(t) \/ Debounced(t) \/ clickToolbar(t) \/ setupTemplateButton(t)
       \/ onmessage(t) \/ onclose(t) \/ submit(t) \/ pageLeft(t) \/ givenUp(t)
  \/ \E c \in Connections :
       \/ Break(c) \/ sendInitialState(c) \/ receiveMessage(c)
       \/ leave(c) \/ updateEditorStateInDatabase(c) \/ sendEditorState(c)
  \/ stateIsRead \/ readFails

-----------------------------------------------------------------------------
\* Nothing is under way that could still change a text.
AtRest ==
  /\ timer = {} /\ flight = {}
  /\ \A c \in Connections :
       /\ server[c] \in {Unused, Listening, Returned}
       /\ line[c].up = <<>> /\ line[c].down = <<>>
       /\ server[c] = Listening => line[c].open

\* In whatever order the tabs have typed, sent, submitted, lost their connections and come
\* back: at rest every tab with a connection shows the stored text - unless its text begins
\* with "format:", or it has neither typed nor received anything since it took the template or
\* submitted its form and stayed.
EditorsConverge ==
  AtRest /\ stored # {} /\ ~doubt =>
    \A t \in Tabs \ unsent : text[t] \notin Odd /\ socket[t] \cap esws # {} => stored = {text[t]}
=============================================================================
