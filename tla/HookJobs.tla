------------------------------ MODULE HookJobs ------------------------------
(***************************************************************************)
(* What follows an event of a post: postPostHooks and its siblings start   *)
(* every hook function in a goroutine of its own, with the post as it was  *)
(* read for the event.  The hooks of this module's users publish the post  *)
(* on a service (a message, a record, an audio file) and keep what names   *)
(* it there as a parameter of the post.  A job is such a goroutine.        *)
(***************************************************************************)
EXTENDS Naturals, FiniteSets

CONSTANTS
  None,
  Path,
  Service,      \* those a blog may have enabled
  MaxRequests,  \* bounds of the model
  MaxFaults

ASSUME HooksAssumption ==
  /\ Service \subseteq {"telegram", "atproto", "tts"}
  /\ MaxRequests \in Nat /\ MaxFaults \in Nat
  /\ None \notin Nat

Chat == 0  \* the Telegram channel of the blog

VARIABLES
  service,  \* the one that is enabled
  row,      \* the post in the tables posts and post_parameters
  jobs,     \* running hooks
  remote,   \* what the service shows
  sent,     \* names given out by the service so far
  faults,
  causes    \* history: why row and service may differ

hookVars == <<service, row, jobs, remote, sent, faults, causes>>

Param      == {"telegramchat", "telegrammsg", "atprotouri", "tts"}
Visibility == {"public", "unlisted", "private"}
Cause      == {"unsent", "unedited", "failure", "crash", "stale", "moved", "hasty", "odd",
               "restored", "racing"}

Parameters == {params \in [Param -> Nat \cup {None}] : params["telegramchat"] \in {Chat, None}}
Post == [path : Path, version : Nat, visibility : Visibility, deleted : BOOLEAN,
         params : Parameters]
Job  == [n : Nat, post : Post, at : STRING, id : Nat \cup {None}]
Item == [id : Nat, version : Nat]

ASSUME PostAssumption == None \notin Post

HooksTypeOK ==
  /\ service \in Service
  /\ row \in Post \cup {None}
  /\ jobs \subseteq Job /\ IsFiniteSet(jobs)
  /\ remote \subseteq Item
  /\ sent \in Nat
  /\ faults \in 0 .. MaxFaults
  /\ causes \subseteq Cause

HooksInit ==
  /\ service \in Service
  /\ row = None
  /\ jobs = {} /\ remote = {}
  /\ sent = 0 /\ faults = 0
  /\ causes = {}

-----------------------------------------------------------------------------
IsPublic(p) == ~p.deleted /\ p.visibility = "public"

\* go f(p), for a hook that has something to do at the step named.
Start(p, step) ==
  LET free == CHOOSE n \in 1 .. Cardinality(jobs) + 1 : \A j \in jobs : j.n # n
  IN jobs' = jobs \cup {[n |-> free, post |-> p, at |-> step, id |-> None]}

Ends(j)     == jobs' = jobs \ {j}
Goes(j, at) == jobs' = (jobs \ {j}) \cup {[j EXCEPT !.at = at]}
Holds(j, id, at) == jobs' = (jobs \ {j}) \cup {[j EXCEPT !.at = at, !.id = id]}

\* A call of the service or a statement fails.
FailsFor(cause) ==
  /\ faults < MaxFaults
  /\ faults' = faults + 1
  /\ causes' = causes \cup {cause}

Fails == FailsFor("failure")

Works == UNCHANGED <<faults, causes>>

\* replacePostParam, under pcm, for the path the job knows: for a post that is
\* elsewhere or gone the foreign key refuses the insertion.
ReplacePostParam(path, param, value) ==
  row' = IF row # None /\ row.path = path THEN [row EXCEPT !.params[param] = value]
         ELSE row

\* Its error is logged and the hook goes on.
SaveParam(j, param, value) ==
  \/ ReplacePostParam(j.post.path, param, value) /\ Works
  \/ UNCHANGED row /\ Fails

\* The service takes the item; its answer may get lost.
Publishes(j, id, at) ==
  /\ remote' = remote \cup {[id |-> id, version |-> j.post.version]}
  /\ \/ Holds(j, id, at) /\ Works
     \/ Ends(j) /\ Fails

WithoutItem(id) == {item \in remote : item.id # id}

\* The item is removed, unless the call fails.
Withdraws(id) ==
  \/ remote' = WithoutItem(id) /\ Works
  \/ UNCHANGED remote /\ Fails
=============================================================================
