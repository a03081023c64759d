------------------------ MODULE ActionRequests_proofs ------------------------
(***************************************************************************)
(* Theorems about ActionRequests for any number of threads, ids, contents, *)
(* requests and process deaths, checked by TLAPS.                          *)
(***************************************************************************)
EXTENDS ActionRequests, TLAPS

\* The thread's INSERT succeeded, and it has not left since.
Claimed(t) == pc[t] \in {"dispatch", "run", "complete", "answer"}

\* A request has an id and a content.
Busy == \A t \in Threads : pc[t] # "idle" => id[t] \in Ids /\ content[t] \in Contents

\* A thread that claimed a row has it to itself: it alone may dispatch, and the
\* row says how far it is.
Progress ==
    \A t \in Threads : Claimed(t) =>
        /\ row[id[t]] # None
        /\ row[id[t]].content = content[t]
        /\ pc[t] = "dispatch" => row[id[t]].status = "pending" /\ runs[id[t]] = 0
        /\ pc[t] \in {"run", "complete"} => row[id[t]].status = "pending"
        /\ pc[t] = "complete" => result[t] \in Results
        /\ pc[t] = "answer" => /\ row[id[t]].status = "completed"
                               /\ row[id[t]].result = result[t]

Alone ==
    \A t, u \in Threads : Claimed(t) /\ Claimed(u) /\ id[t] = id[u] => t = u

\* What nobody claimed was not dispatched.
Unclaimed == \A i \in Ids : row[i] = None => runs[i] = 0

\* What a client was told is what the row says, for good.
ToldFromRow ==
    \A a \in told : /\ row[a.id] # None
                    /\ row[a.id].status = "completed"
                    /\ row[a.id].content = a.content
                    /\ row[a.id].result = a.result

RequestsInv ==
    /\ RequestsTypeOK
    /\ Busy
    /\ Progress
    /\ Alone
    /\ Unclaimed
    /\ DispatchedOnce
    /\ ToldFromRow

LEMMA RequestsInitial == Init => RequestsInv
  BY BoundAssumption, NoneAssumption
  DEF Init, RequestsInv, RequestsTypeOK, Busy, Progress, Claimed, Alone, Unclaimed,
      DispatchedOnce, ToldFromRow, Pcs

-----------------------------------------------------------------------------
(* Steps.                                                                  *)

\* Facts about rows: a row is not None, and is completed with a result.
LEMMA RowFacts ==
  ASSUME RequestsTypeOK, NEW i \in Ids, row[i] # None
  PROVE  /\ row[i].content \in Contents
         /\ row[i].status \in {"pending", "completed"}
         /\ row[i].status = "completed" => row[i].result \in Results
  BY DEF RequestsTypeOK, Rows

\* A thread that leaves disturbs nobody.
LEMMA LeaveStep ==
  ASSUME RequestsInv, NEW t \in Threads, Leave(t), UNCHANGED <<row, history>>
  PROVE  RequestsInv'
<1> USE DEF RequestsInv, Leave, Goto, history
<1>1. RequestsTypeOK'
  BY DEF RequestsTypeOK, Pcs
<1>2. Busy'
  BY DEF Busy, RequestsTypeOK
<1>3. \A u \in Threads : Claimed(u)' => u # t /\ Claimed(u) /\ id'[u] = id[u]
                                        /\ pc'[u] = pc[u] /\ content'[u] = content[u]
                                        /\ result'[u] = result[u]
  BY DEF Claimed, RequestsTypeOK
<1>4. Progress' /\ Alone'
  BY <1>3 DEF Progress, Alone
<1>5. Unclaimed' /\ DispatchedOnce' /\ ToldFromRow'
  BY DEF Unclaimed, DispatchedOnce, ToldFromRow
<1> QED
  BY <1>1, <1>2, <1>4, <1>5

\* A thread that leaves and is told what a completed row of its content says.
LEMMA TellStep ==
  ASSUME RequestsInv, NEW t \in Threads, pc[t] # "idle",
         row[id[t]] # None, row[id[t]].content = content[t],
         row[id[t]].status = "completed",
         Tell(t, row[id[t]].result), Leave(t), UNCHANGED <<row, runs, posts, deaths>>
  PROVE  RequestsInv'
<1> USE DEF RequestsInv, Leave, Goto
<1>1. id[t] \in Ids /\ content[t] \in Contents /\ row[id[t]].result \in Results
  BY RowFacts DEF Busy
<1> DEFINE new == [id |-> id[t], content |-> content[t], result |-> row[id[t]].result]
<1>2. told' = told \union {new} /\ new \in [id : Ids, content : Contents, result : Results]
  BY <1>1 DEF Tell
<1>3. RequestsTypeOK'
  BY <1>2 DEF RequestsTypeOK, Pcs
<1>4. Busy'
  BY DEF Busy, RequestsTypeOK
<1>5. \A u \in Threads : Claimed(u)' => u # t /\ Claimed(u) /\ id'[u] = id[u]
                                        /\ pc'[u] = pc[u] /\ content'[u] = content[u]
                                        /\ result'[u] = result[u]
  BY DEF Claimed, RequestsTypeOK
<1>6. Progress' /\ Alone'
  BY <1>5 DEF Progress, Alone
<1>7. Unclaimed' /\ DispatchedOnce'
  BY DEF Unclaimed, DispatchedOnce
<1>8. ToldFromRow'
  BY <1>2 DEF ToldFromRow
<1> QED
  BY <1>3, <1>4, <1>6, <1>7, <1>8

LEMMA ClaimStep ==
  ASSUME RequestsInv, NEW t \in Threads, Claims(t)
  PROVE  RequestsInv'
<1> DEFINE i == id[t]
           new == [content |-> content[t], status |-> "pending", result |-> None]
<1> USE DEF RequestsInv, Claims, Goto, history
<1>1. i \in Ids /\ content[t] \in Contents /\ row[i] = None /\ runs[i] = 0
  BY DEF Busy, Unclaimed
<1>2. new \in Rows /\ new # None
  BY <1>1, RowAssumption DEF Rows
<1>3. row' = [row EXCEPT ![i] = new]
  OBVIOUS
<1>4. RequestsTypeOK'
  BY <1>2, <1>3 DEF RequestsTypeOK, Pcs
<1>5. \A u \in Threads \ {t} : Claimed(u)' => Claimed(u) /\ id[u] # i
  BY <1>1 DEF Claimed, Progress, RequestsTypeOK
<1>6. Progress'
  BY <1>1, <1>2, <1>3, <1>5 DEF Progress, Claimed, Busy, RequestsTypeOK
<1>7. Alone'
  BY <1>5 DEF Alone, Claimed, RequestsTypeOK
<1>8. Busy' /\ Unclaimed' /\ DispatchedOnce'
  BY <1>2, <1>3 DEF Busy, Unclaimed, DispatchedOnce, RequestsTypeOK
<1>9. ToldFromRow'
  BY <1>1, <1>3 DEF ToldFromRow, RequestsTypeOK
<1> QED
  BY <1>4, <1>6, <1>7, <1>8, <1>9

LEMMA DispatchStep ==
  ASSUME RequestsInv, NEW t \in Threads, Dispatches(t)
  PROVE  RequestsInv'
<1> USE DEF RequestsInv, Dispatches, Goto
<1>1. id[t] \in Ids /\ runs[id[t]] = 0 /\ row[id[t]] # None
  BY DEF Busy, Progress, Claimed
<1>2. runs' = [runs EXCEPT ![id[t]] = 1]
  BY <1>1 DEF RequestsTypeOK
<1>3. RequestsTypeOK' /\ Busy'
  BY <1>1, <1>2 DEF RequestsTypeOK, Pcs, Busy
<1>4. Alone'
  BY DEF Alone, Claimed, RequestsTypeOK
<1>5. \A u \in Threads \ {t} : Claimed(u) => id[u] # id[t]
  BY DEF Alone, Claimed
<1>6. Progress'
  BY <1>1, <1>2, <1>5 DEF Progress, Claimed, RequestsTypeOK, Busy
<1>7. Unclaimed' /\ DispatchedOnce' /\ ToldFromRow'
  BY <1>1, <1>2 DEF Unclaimed, DispatchedOnce, ToldFromRow, RequestsTypeOK
<1> QED
  BY <1>3, <1>4, <1>6, <1>7

LEMMA EndStep ==
  ASSUME RequestsInv, NEW t \in Threads, ActionEnds(t)
  PROVE  RequestsInv'
<1> USE DEF RequestsInv, ActionEnds, Goto, history
<1>1. PICK o \in Outcomes :
          result' = [result EXCEPT ![t] = [outcome |-> o, run |-> runs[id[t]]]]
  OBVIOUS
<1>2. [outcome |-> o, run |-> runs[id[t]]] \in Results
  BY DEF Results, RequestsTypeOK, Busy
<1>3. RequestsTypeOK'
  BY <1>1, <1>2 DEF RequestsTypeOK, Pcs
<1>4. Alone' /\ Busy'
  BY DEF Alone, Claimed, RequestsTypeOK, Busy
<1>5. Progress'
  BY <1>1, <1>2 DEF Progress, Claimed, RequestsTypeOK
<1>6. Unclaimed' /\ DispatchedOnce' /\ ToldFromRow'
  BY DEF Unclaimed, DispatchedOnce, ToldFromRow
<1> QED
  BY <1>3, <1>4, <1>5, <1>6

LEMMA CompleteStep ==
  ASSUME RequestsInv, NEW t \in Threads, Completes(t)
  PROVE  RequestsInv'
<1> DEFINE i == id[t]
           new == [content |-> row[i].content, status |-> "completed",
                   result |-> result[t]]
<1> USE DEF RequestsInv, Completes, Goto, history
<1>1. /\ i \in Ids /\ row[i] # None /\ row[i].content = content[t]
      /\ row[i].status = "pending" /\ result[t] \in Results /\ content[t] \in Contents
  BY DEF Busy, Progress, Claimed
<1>2. new \in Rows /\ new # None /\ new.content = content[t] /\ new.result = result[t]
      /\ new.status = "completed"
  BY <1>1, RowFacts, RowAssumption DEF Rows
<1>3. row' = [row EXCEPT ![i] = new]
  OBVIOUS
<1>4. RequestsTypeOK' /\ Busy'
  BY <1>2, <1>3 DEF RequestsTypeOK, Pcs, Busy
<1>5. Alone'
  BY DEF Alone, Claimed, RequestsTypeOK
<1>6. \A u \in Threads \ {t} : Claimed(u) => id[u] # i
  BY DEF Alone, Claimed
<1>7. Progress'
  BY <1>1, <1>2, <1>3, <1>6 DEF Progress, Claimed, RequestsTypeOK, Busy
<1>8. Unclaimed' /\ DispatchedOnce'
  BY <1>1, <1>2, <1>3 DEF Unclaimed, DispatchedOnce, RequestsTypeOK
<1>9. ToldFromRow'
  BY <1>1, <1>3 DEF ToldFromRow, RequestsTypeOK
<1> QED
  BY <1>4, <1>5, <1>7, <1>8, <1>9

LEMMA RequestsStep == RequestsInv /\ [Next]_vars => RequestsInv'
<1> SUFFICES ASSUME RequestsInv, [Next]_vars PROVE RequestsInv'
  OBVIOUS
<1>1. ASSUME NEW t \in Threads, NEW i \in Ids, NEW c \in Contents, Posts(t, i, c)
      PROVE  RequestsInv'
  BY <1>1, BoundAssumption
  DEF Posts, Goto, RequestsInv, RequestsTypeOK, Pcs, Busy, Progress, Claimed, Alone,
      Unclaimed, DispatchedOnce, ToldFromRow
<1>2. ASSUME NEW t \in Threads, FindsNoRow(t) PROVE RequestsInv'
  BY <1>2
  DEF FindsNoRow, Goto, history, RequestsInv, RequestsTypeOK, Pcs, Busy, Progress,
      Claimed, Alone, Unclaimed, DispatchedOnce, ToldFromRow
<1>3. ASSUME NEW t \in Threads, Refused(t) \/ ClaimRaises(t) \/ CompleteRaises(t)
                                 \/ AnswerLost(t)
      PROVE  RequestsInv'
  BY <1>3, LeaveStep DEF Refused, ClaimRaises, CompleteRaises, AnswerLost
<1>4. ASSUME NEW t \in Threads, Replays(t) PROVE RequestsInv'
  BY <1>4, TellStep DEF Replays
<1>5. ASSUME NEW t \in Threads, Claims(t) PROVE RequestsInv'
  BY <1>5, ClaimStep
<1>6. ASSUME NEW t \in Threads, Dispatches(t) PROVE RequestsInv'
  BY <1>6, DispatchStep
<1>7. ASSUME NEW t \in Threads, ActionEnds(t) PROVE RequestsInv'
  BY <1>7, EndStep
<1>8. ASSUME NEW t \in Threads, Completes(t) PROVE RequestsInv'
  BY <1>8, CompleteStep
<1>9. ASSUME NEW t \in Threads, Answers(t) PROVE RequestsInv'
  <2>1. /\ row[id[t]] # None /\ row[id[t]].content = content[t]
        /\ row[id[t]].status = "completed" /\ row[id[t]].result = result[t]
    BY <1>9 DEF Answers, RequestsInv, Progress, Claimed
  <2> QED
    BY <1>9, <2>1, TellStep DEF Answers
<1>10. CASE Dies
  BY <1>10, BoundAssumption
  DEF Dies, RequestsInv, RequestsTypeOK, Pcs, Busy, Progress, Claimed, Alone, Unclaimed,
      DispatchedOnce, ToldFromRow
<1>11. CASE UNCHANGED vars
  BY <1>11
  DEF vars, request, history, RequestsInv, RequestsTypeOK, Busy, Progress, Claimed,
      Alone, Unclaimed, DispatchedOnce, ToldFromRow
<1> QED
  BY <1>1, <1>2, <1>3, <1>4, <1>5, <1>6, <1>7, <1>8, <1>9, <1>10, <1>11
  DEF Next, Handles

LEMMA RequestsInvariant == Spec => []RequestsInv
  BY RequestsInitial, RequestsStep, PTL DEF Spec

-----------------------------------------------------------------------------
\* Every variable keeps its type.
THEOREM RequestsTypeCorrect == Spec => []RequestsTypeOK
<1>1. RequestsInv => RequestsTypeOK
  BY DEF RequestsInv
<1> QED
  BY <1>1, RequestsInvariant, PTL

\* An action is dispatched at most once for an id.
THEOREM OneDispatch == Spec => []DispatchedOnce
<1>1. RequestsInv => DispatchedOnce
  BY DEF RequestsInv
<1> QED
  BY <1>1, RequestsInvariant, PTL

\* Whoever is told an outcome is told the outcome of that dispatch.
THEOREM OneOutcome == Spec => []OneAnswer
<1>1. RequestsInv => OneAnswer
  BY DEF RequestsInv, RequestsTypeOK, ToldFromRow, OneAnswer
<1> QED
  BY <1>1, RequestsInvariant, PTL
=============================================================================
