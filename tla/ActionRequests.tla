--------------------------- MODULE ActionRequests ---------------------------
(***************************************************************************)
(* POST /api/execution-control/action: ExecutionControlActionFacade        *)
(* (execution_control.py) over the table of action requests                *)
(* (unified_auto_execution_store.py).                                      *)
(*                                                                         *)
(* Every HTTP request runs in a thread of its own and opens a connection   *)
(* of its own, so the store's lock separates nothing: what two requests    *)
(* with one id share is the row.  A client repeats a request it got no     *)
(* answer to, or changes its content and keeps the id.                     *)
(***************************************************************************)
EXTENDS Naturals

CONSTANTS
    Threads,     \* HTTP threads
    Ids,         \* request ids the clients choose
    Contents,    \* what payloadHash tells apart: environment, action, reason, ...
    None,        \* no row, no request, no result
    MaxPosts,    \* bound on the requests a client sends
    MaxDeaths    \* bound on process deaths

ASSUME NoneAssumption == None \notin Contents /\ None \notin Ids
ASSUME BoundAssumption == MaxPosts \in Nat /\ MaxDeaths \in Nat

VARIABLES
    row,        \* row[i]: AutoExecutionActionRequests, None without a row
    pc,         \* control state of each thread
    id,         \* the request's id
    content,    \* the request's content
    result,     \* what the action returned to the thread
    \* History.
    runs,       \* runs[i]: contents that were dispatched, each with its number
    told,       \* final answers that reached a client
    posts,
    deaths

request == <<pc, id, content, result>>
history == <<runs, told, posts, deaths>>
vars    == <<row, request, history>>

\* What the facade makes of an action that returned, failed, raised or timed
\* out: in each case a response that is stored and told.
Outcomes == {"completed", "failed"}

\* A dispatch is told from a repetition of it by its number.
Results == [outcome : Outcomes, run : Nat]
Rows    == [content : Contents, status : {"pending"}, result : {None}]
           \union [content : Contents, status : {"completed"}, result : Results]

ASSUME RowAssumption == None \notin Rows

Pcs     == {"idle", "select", "insert", "dispatch", "run", "complete", "answer"}

RequestsTypeOK ==
    /\ row \in [Ids -> Rows \union {None}]
    /\ pc \in [Threads -> Pcs]
    /\ id \in [Threads -> Ids \union {None}]
    /\ content \in [Threads -> Contents \union {None}]
    /\ result \in [Threads -> Results \union {None}]
    /\ runs \in [Ids -> Nat]
    /\ told \subseteq [id : Ids, content : Contents, result : Results]
    /\ posts \in 0..MaxPosts
    /\ deaths \in 0..MaxDeaths

Init ==
    /\ row = [i \in Ids |-> None]
    /\ pc = [t \in Threads |-> "idle"]
    /\ id = [t \in Threads |-> None]
    /\ content = [t \in Threads |-> None]
    /\ result = [t \in Threads |-> None]
    /\ runs = [i \in Ids |-> 0]
    /\ told = {}
    /\ posts = 0
    /\ deaths = 0

-----------------------------------------------------------------------------

Goto(t, p) == pc' = [pc EXCEPT ![t] = p]

\* The request is answered, or an exception leaves it.
Leave(t) ==
    /\ Goto(t, "idle")
    /\ id' = [id EXCEPT ![t] = None]
    /\ content' = [content EXCEPT ![t] = None]
    /\ result' = [result EXCEPT ![t] = None]

Tell(t, r) == told' = told \union {[id |-> id[t], content |-> content[t], result |-> r]}

\* execute, up to the semantic payload: an action that is allowed.
Posts(t, i, c) ==
    /\ pc[t] = "idle"
    /\ posts < MaxPosts
    /\ posts' = posts + 1
    /\ Goto(t, "select")
    /\ id' = [id EXCEPT ![t] = i]
    /\ content' = [content EXCEPT ![t] = c]
    /\ UNCHANGED <<row, result, runs, told, deaths>>

\* claim_action_request: SELECT finds no row.
FindsNoRow(t) ==
    /\ pc[t] = "select"
    /\ row[id[t]] = None
    /\ Goto(t, "insert")
    /\ UNCHANGED <<row, id, content, result, history>>

\* It finds a row of other content, or one that is pending: the client is told
\* conflict or in_progress, and nothing final.
Refused(t) ==
    /\ pc[t] = "select"
    /\ row[id[t]] # None
    /\ row[id[t]].content # content[t] \/ row[id[t]].status = "pending"
    /\ Leave(t)
    /\ UNCHANGED <<row, history>>

\* Mutant: the content of the request is not compared.
ReplaysAny(t) ==
    /\ pc[t] = "select"
    /\ row[id[t]] # None
    /\ row[id[t]].status = "completed"
    /\ Tell(t, row[id[t]].result)
    /\ Leave(t)
    /\ UNCHANGED <<row, runs, posts, deaths>>

\* It finds the completed row of this request: idempotentReplay.
Replays(t) ==
    /\ pc[t] = "select"
    /\ row[id[t]] # None
    /\ row[id[t]].content = content[t]
    /\ row[id[t]].status = "completed"
    /\ Tell(t, row[id[t]].result)
    /\ Leave(t)
    /\ UNCHANGED <<row, runs, posts, deaths>>

\* Mutant: INSERT OR REPLACE.
Upserts(t) ==
    /\ pc[t] = "insert"
    /\ row' = [row EXCEPT ![id[t]] =
                [content |-> content[t], status |-> "pending", result |-> None]]
    /\ Goto(t, "dispatch")
    /\ UNCHANGED <<id, content, result, history>>

\* INSERT, on the primary key.
Claims(t) ==
    /\ pc[t] = "insert"
    /\ row[id[t]] = None
    /\ row' = [row EXCEPT ![id[t]] =
                [content |-> content[t], status |-> "pending", result |-> None]]
    /\ Goto(t, "dispatch")
    /\ UNCHANGED <<id, content, result, history>>

\* IntegrityError, which nobody catches: HTTP 500.
ClaimRaises(t) ==
    /\ pc[t] = "insert"
    /\ row[id[t]] # None
    /\ Leave(t)
    /\ UNCHANGED <<row, history>>

\* action_runner is called: from here on the action may have had its effect.
Dispatches(t) ==
    /\ pc[t] = "dispatch"
    /\ runs' = [runs EXCEPT ![id[t]] = @ + 1]
    /\ Goto(t, "run")
    /\ UNCHANGED <<row, id, content, result, told, posts, deaths>>

\* It returns, or raises TimeoutError or another exception: a response either way.
ActionEnds(t) ==
    /\ pc[t] = "run"
    /\ \E o \in Outcomes :
        result' = [result EXCEPT ![t] = [outcome |-> o, run |-> runs[id[t]]]]
    /\ Goto(t, "complete")
    /\ UNCHANGED <<row, id, content, history>>

\* complete_action_request
Completes(t) ==
    /\ pc[t] = "complete"
    /\ row' = [row EXCEPT ![id[t]] =
                [content |-> @.content, status |-> "completed", result |-> result[t]]]
    /\ Goto(t, "answer")
    /\ UNCHANGED <<id, content, result, history>>

\* The UPDATE raises (a locked database): HTTP 500, the row stays pending.
CompleteRaises(t) ==
    /\ pc[t] = "complete"
    /\ Leave(t)
    /\ UNCHANGED <<row, history>>

\* The response is sent, or lost.
Answers(t) ==
    /\ pc[t] = "answer"
    /\ Tell(t, result[t])
    /\ Leave(t)
    /\ UNCHANGED <<row, runs, posts, deaths>>

AnswerLost(t) ==
    /\ pc[t] = "answer"
    /\ Leave(t)
    /\ UNCHANGED <<row, history>>

\* The process dies, with every thread.  The row survives.
Dies ==
    /\ deaths < MaxDeaths
    /\ deaths' = deaths + 1
    /\ pc' = [t \in Threads |-> "idle"]
    /\ id' = [t \in Threads |-> None]
    /\ content' = [t \in Threads |-> None]
    /\ result' = [t \in Threads |-> None]
    /\ UNCHANGED <<row, runs, told, posts>>

Handles(t) ==
    \/ FindsNoRow(t)
    \/ Refused(t)
    \/ Replays(t)
    \/ Claims(t)
    \/ ClaimRaises(t)
    \/ Dispatches(t)
    \/ ActionEnds(t)
    \/ Completes(t)
    \/ CompleteRaises(t)
    \/ Answers(t)
    \/ AnswerLost(t)

Next ==
    \/ \E t \in Threads, i \in Ids, c \in Contents : Posts(t, i, c)
    \/ \E t \in Threads : Handles(t)
    \/ Dies

Spec == Init /\ [][Next]_vars

-----------------------------------------------------------------------------
\* An action is dispatched at most once for a request id, whoever repeats it
\* and whenever: from two threads at once, with other content, after a lost
\* answer, after an UPDATE that failed, or after a restart.
DispatchedOnce == \A i \in Ids : runs[i] <= 1

\* Everybody who is told an outcome under a request id asked for the content
\* that was dispatched, and is told the outcome of that one dispatch.
OneAnswer ==
    \A a, b \in told :
        a.id = b.id => /\ a = b
                       /\ row[a.id].content = a.content
                       /\ row[a.id].result = a.result
=============================================================================
