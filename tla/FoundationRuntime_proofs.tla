---------------------- MODULE FoundationRuntime_proofs ----------------------
(***************************************************************************)
(* Theorems about FoundationLease, for any number of processes and any     *)
(* term, and about FoundationRuntime, for any number of worker processes   *)
(* and any bounds, checked by TLAPS.  The lease is treated once and alone: *)
(* a step of the runtime is a step of the lease or leaves it alone, so     *)
(* what is proved of LeaseSpec holds of Spec.                              *)
(***************************************************************************)
EXTENDS FoundationRuntime, TLAPS

-----------------------------------------------------------------------------
(* The lease.                                                              *)

\* The row, if there is one, is that of the latest grant; a claim is of a
\* grant that was made, and of one process; a clock reading is in the past.
LeaseInv ==
    /\ LeaseTypeOK
    /\ row # None => row.fence = seq
    /\ \A h \in Holders : claim[h] <= seq
    /\ \A g, h \in Holders : claim[g] = claim[h] /\ claim[g] # 0 => g = h
    /\ \A h \in Holders : since[h] <= now
    /\ \A h \in Holders : call[h] = "acquire" => claim[h] = 0

LEMMA LeaseInitial == LeaseInit => LeaseInv
  BY BoundAssumption, NoneAssumption DEF LeaseInit, LeaseInv, LeaseTypeOK, Calls

LEMMA LeaseStep == LeaseInv /\ [LeaseNext]_leaseVars => LeaseInv'
<1> SUFFICES ASSUME LeaseInv, [LeaseNext]_leaseVars PROVE LeaseInv'
  OBVIOUS
<1> USE TTLAssumption, BoundAssumption, NoneAssumption
    DEF LeaseInv, LeaseTypeOK, Lease, Calls, tables, callers,
        Begin, Finish, Return, Valid, Active, Owns
<1>1. ASSUME NEW h \in Holders, AcquireBegin(h) PROVE LeaseInv'
  BY <1>1 DEF AcquireBegin
<1>2. ASSUME NEW h \in Holders, AcquireGranted(h) PROVE LeaseInv'
  BY <1>2 DEF AcquireGranted
<1>3. ASSUME NEW h \in Holders, AcquireRefused(h) PROVE LeaseInv'
  BY <1>3 DEF AcquireRefused
<1>4. ASSUME NEW h \in Holders, HeartbeatAssert(h) PROVE LeaseInv'
  BY <1>4 DEF HeartbeatAssert
<1>5. ASSUME NEW h \in Holders, HeartbeatUpdate(h) PROVE LeaseInv'
  BY <1>5 DEF HeartbeatUpdate
<1>6. ASSUME NEW h \in Holders, ReleaseAssert(h) PROVE LeaseInv'
  BY <1>6 DEF ReleaseAssert
<1>7. ASSUME NEW h \in Holders, ReleaseDelete(h) PROVE LeaseInv'
  BY <1>7 DEF ReleaseDelete
<1>8. ASSUME NEW h \in Holders, Forget(h) PROVE LeaseInv'
  BY <1>8 DEF Forget
<1>9. CASE Tick
  BY <1>9 DEF Tick
<1>10. CASE UNCHANGED leaseVars
  BY <1>10 DEF leaseVars
<1> QED
  BY <1>1, <1>2, <1>3, <1>4, <1>5, <1>6, <1>7, <1>8, <1>9, <1>10 DEF LeaseNext

LEMMA LeaseInvariant == LeaseSpec => []LeaseInv
  BY LeaseInitial, LeaseStep, PTL DEF LeaseSpec

\* Every variable keeps its type.
THEOREM LeaseTypeCorrect == LeaseSpec => []LeaseTypeOK
<1>1. LeaseInv => LeaseTypeOK
  BY DEF LeaseInv
<1> QED
  BY <1>1, LeaseInvariant, PTL

\* assert_authority never accepts two processes.
THEOREM OneAuthority == LeaseSpec => []SingleAuthority
<1>1. LeaseInv => SingleAuthority
  <2> SUFFICES ASSUME LeaseInv, NEW g \in Holders, NEW h \in Holders, Valid(g), Valid(h)
               PROVE  g = h
    BY DEF SingleAuthority
  <2>1. row.fence \in 1..MaxTokens
    BY DEF LeaseInv, LeaseTypeOK, Lease, Valid, Active
  <2>2. claim[g] = row.fence /\ claim[h] = row.fence
    BY DEF Valid
  <2>3. row.fence # 0
    BY <2>1, BoundAssumption
  <2> QED
    BY <2>2, <2>3 DEF LeaseInv
<1> QED
  BY <1>1, LeaseInvariant, PTL

-----------------------------------------------------------------------------
(* Heartbeats.                                                             *)

\* A step that moves the term of the current grant is a heartbeat of its holder.
Extends ==
    row # None /\ row' # None /\ row'.fence = row.fence /\ row' # row
        => \E h \in Holders : claim[h] = row.fence /\ call[h] = "heartbeat"

LEMMA ExtendStep == LeaseInv /\ [LeaseNext]_leaseVars => Extends
<1> SUFFICES ASSUME LeaseInv, [LeaseNext]_leaseVars PROVE Extends
  OBVIOUS
<1> USE NoneAssumption DEF Extends, tables, callers
<1>1. ASSUME NEW h \in Holders, AcquireGranted(h) PROVE Extends
  <2>1. row'.fence = seq + 1
    BY <1>1 DEF AcquireGranted
  <2>2. row # None => row.fence = seq /\ seq \in Nat
    BY BoundAssumption DEF LeaseInv, LeaseTypeOK
  <2> QED
    BY <2>1, <2>2
<1>2. ASSUME NEW h \in Holders, HeartbeatUpdate(h) PROVE Extends
  BY <1>2 DEF HeartbeatUpdate, Owns
<1>3. ASSUME NEW h \in Holders, ReleaseDelete(h) PROVE Extends
  BY <1>3 DEF ReleaseDelete
<1>4. ASSUME NEW h \in Holders,
             AcquireBegin(h) \/ AcquireRefused(h) \/ HeartbeatAssert(h) \/
             ReleaseAssert(h) \/ Forget(h)
      PROVE  Extends
  BY <1>4
  DEF AcquireBegin, AcquireRefused, HeartbeatAssert, ReleaseAssert, Forget, Begin
<1>5. CASE Tick \/ UNCHANGED leaseVars
  BY <1>5 DEF Tick, leaseVars
<1> QED
  BY <1>1, <1>2, <1>3, <1>4, <1>5 DEF LeaseNext

\* A process that lost its lease cannot prolong that of its successor.
THEOREM HolderExtends == LeaseSpec => OnlyHolderExtends
<1>1. LeaseInv /\ [LeaseNext]_leaseVars =>
        [row # None /\ row' # None /\ row'.fence = row.fence /\ row' # row
            => \E h \in Holders : claim[h] = row.fence /\ call[h] = "heartbeat"]_row
  BY ExtendStep DEF Extends
<1> QED
  BY <1>1, LeaseInvariant, PTL DEF LeaseSpec, OnlyHolderExtends

-----------------------------------------------------------------------------
(* The abstract lease.                                                     *)

LEMMA PromiseInit == LeaseInit => Promise!Init
  BY DEF LeaseInit, Promise!Init

LEMMA PromiseStep == LeaseInv /\ [LeaseNext]_leaseVars => [Promise!Next]_Promise!leaseVars
<1> SUFFICES ASSUME LeaseInv, [LeaseNext]_leaseVars
             PROVE  Promise!Next \/ UNCHANGED Promise!leaseVars
  OBVIOUS
<1> DEFINE state == IF row = None THEN "free" ELSE IF Active THEN "held" ELSE "lapsed"
           Goal  == Promise!Next \/ UNCHANGED Promise!leaseVars
<1>1. ASSUME seq' = seq, row' = None \/ (row # None /\ row' # None) PROVE Goal
  BY <1>1
  DEF Active, Promise!Next, Promise!Lapse, Promise!Revive, Promise!Release,
      Promise!leaseVars
<1>2. ASSUME NEW h \in Holders, AcquireGranted(h) PROVE Goal
  <2>1. state # "held"
    BY <1>2, BoundAssumption, NoneAssumption
    DEF AcquireGranted, Active, LeaseInv, LeaseTypeOK, Lease
  <2>2. row' # None
    BY <1>2, TTLAssumption, BoundAssumption, NoneAssumption
    DEF AcquireGranted, LeaseInv, LeaseTypeOK
  <2> QED
    BY <1>2, <2>1, <2>2 DEF AcquireGranted, Active, Promise!Next, Promise!Grant
<1>3. ASSUME NEW h \in Holders, HeartbeatUpdate(h) PROVE Goal
  <2>1. row # None => row' # None
    BY <1>3, TTLAssumption, BoundAssumption, NoneAssumption
    DEF HeartbeatUpdate, Owns, LeaseInv, LeaseTypeOK, Lease
  <2>2. seq' = seq /\ (row = None => row' = None)
    BY <1>3 DEF HeartbeatUpdate, Owns
  <2> QED
    BY <1>1, <2>1, <2>2
<1>4. ASSUME NEW h \in Holders, ReleaseDelete(h) PROVE Goal
  BY <1>1, <1>4 DEF ReleaseDelete, Owns
<1>5. ASSUME NEW h \in Holders,
             AcquireBegin(h) \/ AcquireRefused(h) \/ HeartbeatAssert(h) \/
             ReleaseAssert(h) \/ Forget(h)
      PROVE  Goal
  BY <1>1, <1>5
  DEF AcquireBegin, AcquireRefused, HeartbeatAssert, ReleaseAssert, Forget, Begin,
      tables
<1>6. CASE Tick \/ UNCHANGED leaseVars
  BY <1>1, <1>6 DEF Tick, leaseVars, tables
<1> QED
  BY <1>2, <1>3, <1>4, <1>5, <1>6 DEF LeaseNext

\* The rows, clocks and two-step calls implement the abstract lease.
THEOREM LeaseRefines == LeaseSpec => ImplementsRoleLease
  BY PromiseInit, PromiseStep, LeaseInvariant, PTL
  DEF LeaseSpec, ImplementsRoleLease, Promise!Spec

-----------------------------------------------------------------------------
(* The processes use the lease store as FoundationLease says.              *)

LEMMA RuntimeLeaseStep == [Next]_vars => [LeaseNext]_leaseVars
<1> SUFFICES ASSUME [Next]_vars PROVE LeaseNext \/ UNCHANGED leaseVars
  OBVIOUS
<1>1. ASSUME NEW w \in Workers, Loop(w) PROVE LeaseNext \/ UNCHANGED leaseVars
  BY <1>1
  DEF Loop, Boot, StopSeen, FirstCycle, AcquiresLease, LeaseRefused, NextCycle, Fenced,
      RenewsLease, LeaseNext, Workers
<1>2. ASSUME NEW w \in Workers, Publish(w) PROVE LeaseNext \/ UNCHANGED leaseVars
  BY <1>2
  DEF Publish, Resumes, ResumeRefused, StartsFresh, Superseded, Archives,
      WritesTemporary, ReplacesCheckpoint, WritesReport, PublishesReport, PublishDraft
<1>3. ASSUME NEW w \in Workers, Close(w) \/ Dies(w) PROVE LeaseNext \/ UNCHANGED leaseVars
  BY <1>3
  DEF Close, Closes, ReleasesLease, LooksForHealth, WritesStopped, MarksStopped,
      PublishDraft, Dies, LeaseNext, Workers
<1>4. CASE Supervisor
  BY <1>4
  DEF Supervisor, StartBegins, DropsHealth, Spawns, StartSucceeds, StartFails,
      StartEnds,
      StopBegins, LooksAtLease, StopReports, StopLooksAgain, StopTimesOut
<1>5. CASE Deploys \/ Passes \/ UNCHANGED vars
  BY <1>5 DEF Deploys, Passes, LeaseNext, vars
<1> QED
  BY <1>1, <1>2, <1>3, <1>4, <1>5 DEF Next, Worker

\* The runtime implements the lease store, and so the abstract lease.
THEOREM RuntimeUsesLease == Spec => LeaseSpec /\ ImplementsRoleLease
<1>1. Init => LeaseInit
  BY DEF Init
<1>2. Spec => LeaseSpec
  BY <1>1, RuntimeLeaseStep, PTL DEF Spec, LeaseSpec
<1> QED
  BY <1>2, LeaseRefines

\* At most one worker process of a role passes assert_authority at any time.
THEOREM RuntimeOneAuthority == Spec => []SingleAuthority
  BY RuntimeUsesLease, OneAuthority

-----------------------------------------------------------------------------
(* Type correctness, and where a claim is held.                            *)

\* The worker processes.  One that runs a cycle holds a claim.
WorkersOK ==
    /\ pc \in [Workers -> WorkerPcs]
    /\ ident \in [Workers -> Manifests]
    /\ cycle \in [Workers -> 0..MaxCycles]
    /\ \A w \in Workers : pc[w] \in Running \union {"beat"} => claim[w] # 0

\* The files, the supervisor and what is remembered.
FilesOK ==
    /\ ckpt \in Checkpoint \union {None}
    /\ tmp \in Checkpoint \union {None}
    /\ health \in Healthy \union {Stopped, None}
    /\ draft \in Healthy \union {Stopped, None}
    /\ stopReq \in BOOLEAN
    /\ manifest \in Manifests
    /\ starter \in {"idle", "clean", "spawn", "watch", "undone"}
    /\ child \in Workers \union {None}
    /\ stopper \in {"idle", "lease", "health"}
    /\ sawLease \in BOOLEAN
    /\ granted \in [1..MaxTokens -> 0..MaxTime]
    /\ published \in [Manifests -> 0..MaxCycles]

TypeInv == LeaseTypeOK /\ WorkersOK /\ FilesOK

LEMMA TypeInit == Init => TypeInv
<1> SUFFICES ASSUME Init PROVE TypeInv
  OBVIOUS
<1> USE BoundAssumption, NoneAssumption, RuntimeBoundAssumption DEF Init
<1>1. LeaseTypeOK
  BY DEF LeaseInit, LeaseTypeOK, Calls
<1>2. ident \in [Workers -> Manifests] /\ manifest \in Manifests
  BY DEF Manifests
<1>3. pc \in [Workers -> WorkerPcs] /\ \A w \in Workers : pc[w] \notin Running \union {"beat"}
  BY DEF WorkerPcs, Running
<1>4. cycle \in [Workers -> 0..MaxCycles] /\ published \in [Manifests -> 0..MaxCycles]
  OBVIOUS
<1>5. granted \in [1..MaxTokens -> 0..MaxTime]
  OBVIOUS
<1>6. WorkersOK
  BY <1>2, <1>3, <1>4 DEF WorkersOK
<1>7. FilesOK
  BY <1>2, <1>4, <1>5 DEF FilesOK
<1> QED
  BY <1>1, <1>6, <1>7 DEF TypeInv

\* A worker moves on.
LEMMA GotoTypes ==
    ASSUME WorkersOK, NEW w \in Workers, NEW p \in WorkerPcs, Goto(w, p),
           \A v \in Workers : v # w => claim'[v] = claim[v],
           p \in Running \union {"beat"} => claim'[w] # 0
    PROVE  WorkersOK'
<1>1. pc' \in [Workers -> WorkerPcs] /\ UNCHANGED <<ident, cycle>>
  BY DEF WorkersOK, Goto
<1>2. pc'[w] = p /\ \A v \in Workers : v # w => pc'[v] = pc[v]
  BY DEF WorkersOK, Goto
<1>3. \A v \in Workers : pc'[v] \in Running \union {"beat"} => claim'[v] # 0
  BY <1>2 DEF WorkersOK
<1> QED
  BY <1>1, <1>3 DEF WorkersOK

\* A worker process ends.
LEMMA ExitTypes ==
    ASSUME WorkersOK, NEW w \in Workers, Exit(w),
           \A v \in Workers : v # w => claim'[v] = claim[v]
    PROVE  WorkersOK'
<1>1. pc' \in [Workers -> WorkerPcs] /\ pc'[w] = "off"
  BY DEF WorkersOK, WorkerPcs, Exit
<1>2. ident' \in [Workers -> Manifests]
  BY RuntimeBoundAssumption DEF WorkersOK, Manifests, Exit
<1>3. cycle' \in [Workers -> 0..MaxCycles]
  BY RuntimeBoundAssumption DEF WorkersOK, Exit
<1>4. \A v \in Workers : v # w => pc'[v] = pc[v]
  BY DEF WorkersOK, Exit
<1>5. \A v \in Workers : pc'[v] \in Running \union {"beat"} => claim'[v] # 0
  BY <1>1, <1>4 DEF WorkersOK, Running
<1> QED
  BY <1>1, <1>2, <1>3, <1>5 DEF WorkersOK

LEMMA SameWorkers == WorkersOK /\ UNCHANGED <<workers, claim>> => WorkersOK'
  BY DEF WorkersOK, workers

LEMMA WorkersLoop ==
    ASSUME TypeInv, NEW w \in Workers, Loop(w) PROVE WorkersOK'
<1> USE DEF TypeInv, WorkerPcs, Running, Closing, Workers
<1>1. CASE Boot(w)
  BY <1>1, GotoTypes DEF Boot, leaseVars, callers
<1>2. CASE StopSeen(w)
  BY <1>2, GotoTypes DEF StopSeen, leaseVars, callers
<1>3. CASE FirstCycle(w)
  BY <1>3, GotoTypes DEF FirstCycle, AcquireBegin, Begin
<1>4. CASE AcquiresLease(w)
  <2>1. claim'[w] # 0 /\ \A v \in Workers : v # w => claim'[v] = claim[v]
    BY <1>4 DEF AcquiresLease, AcquireGranted, LeaseTypeOK
  <2> QED
    BY <1>4, <2>1, GotoTypes DEF AcquiresLease
<1>5. CASE LeaseRefused(w)
  BY <1>5, ExitTypes DEF LeaseRefused, AcquireRefused
<1>6. CASE NextCycle(w)
  BY <1>6, GotoTypes DEF NextCycle, HeartbeatAssert, Begin
<1>7. CASE Fenced(w)
  BY <1>7, GotoTypes DEF Fenced, leaseVars, callers
<1>8. CASE RenewsLease(w)
  BY <1>8, GotoTypes DEF RenewsLease, HeartbeatUpdate, WorkersOK
<1> QED
  BY <1>1, <1>2, <1>3, <1>4, <1>5, <1>6, <1>7, <1>8 DEF Loop

LEMMA WorkersPublish ==
    ASSUME TypeInv, NEW w \in Workers, Publish(w) PROVE WorkersOK'
<1> USE DEF TypeInv, WorkerPcs, Running, Closing, leaseVars, callers
<1>1. CASE Resumes(w)
  <2>1. cycle' \in [Workers -> 0..MaxCycles]
    BY <1>1 DEF Resumes, WorkersOK, FilesOK, Checkpoint
  <2>2. pc' \in [Workers -> WorkerPcs] /\ UNCHANGED <<ident, claim>>
    BY <1>1 DEF Resumes, WorkersOK
  <2>3. \A v \in Workers : pc'[v] \in Running \union {"beat"} => claim'[v] # 0
    BY <1>1, <2>2 DEF Resumes, WorkersOK
  <2> QED
    BY <2>1, <2>2, <2>3 DEF WorkersOK
<1>2. CASE ResumeRefused(w)
  BY <1>2, GotoTypes DEF ResumeRefused
<1>3. CASE StartsFresh(w)
  BY <1>3, GotoTypes DEF StartsFresh, WorkersOK
<1>4. CASE Superseded(w)
  BY <1>4, GotoTypes DEF Superseded, WorkersOK
<1>5. CASE Archives(w)
  <2>1. claim'[w] # 0
    BY <1>5 DEF Archives, WorkersOK
  <2>2. CASE ckpt = None
    BY <1>5, <2>2, GotoTypes DEF Archives
  <2>3. CASE ckpt # None
    BY <1>5, <2>1, <2>3, GotoTypes DEF Archives
  <2> QED
    BY <2>2, <2>3
<1>6. CASE WritesTemporary(w)
  <2>1. cycle' \in [Workers -> 0..MaxCycles]
    BY <1>6, RuntimeBoundAssumption DEF WritesTemporary, WorkersOK
  <2>2. pc' \in [Workers -> WorkerPcs] /\ UNCHANGED <<ident, claim>>
    BY <1>6 DEF WritesTemporary, WorkersOK
  <2>3. \A v \in Workers : pc'[v] \in Running \union {"beat"} => claim'[v] # 0
    BY <1>6, <2>2 DEF WritesTemporary, WorkersOK
  <2> QED
    BY <2>1, <2>2, <2>3 DEF WorkersOK
<1>7. CASE ReplacesCheckpoint(w)
  <2>1. claim'[w] # 0
    BY <1>7 DEF ReplacesCheckpoint, WorkersOK
  <2>2. CASE tmp = None
    BY <1>7, <2>2, GotoTypes DEF ReplacesCheckpoint
  <2>3. CASE tmp # None
    BY <1>7, <2>1, <2>3, GotoTypes DEF ReplacesCheckpoint
  <2> QED
    BY <2>2, <2>3
<1>8. CASE WritesReport(w)
  BY <1>8, GotoTypes DEF WritesReport, WorkersOK
<1>9. CASE PublishesReport(w)
  <2>1. claim' = claim
    BY <1>9 DEF PublishesReport, PublishDraft
  <2>2. CASE draft = None
    BY <1>9, <2>1, <2>2, GotoTypes DEF PublishesReport
  <2>3. CASE draft # None
    BY <1>9, <2>1, <2>3, GotoTypes DEF PublishesReport
  <2> QED
    BY <2>2, <2>3
<1> QED
  BY <1>1, <1>2, <1>3, <1>4, <1>5, <1>6, <1>7, <1>8, <1>9 DEF Publish

LEMMA WorkersClose ==
    ASSUME TypeInv, NEW w \in Workers, Close(w) \/ Dies(w) PROVE WorkersOK'
<1> USE DEF TypeInv, WorkerPcs, Running, Closing, Workers
<1>1. CASE Closes(w)
  <2>1. CASE ReleaseAssert(w) /\ Goto(w, "delete")
    BY <2>1, GotoTypes DEF ReleaseAssert, Begin
  <2>2. CASE Forget(w) /\ Goto(w, "farewell")
    BY <2>2, GotoTypes DEF Forget
  <2>3. CASE UNCHANGED leaseVars /\ Exit(w)
    BY <2>3, ExitTypes DEF leaseVars, callers
  <2> QED
    BY <1>1, <2>1, <2>2, <2>3 DEF Closes
<1>2. CASE ReleasesLease(w)
  BY <1>2, GotoTypes DEF ReleasesLease, ReleaseDelete
<1>3. CASE LooksForHealth(w)
  <2>1. claim' = claim
    BY <1>3 DEF LooksForHealth, leaseVars, callers
  <2> QED
    BY <1>3, <2>1, GotoTypes, ExitTypes DEF LooksForHealth
<1>4. CASE WritesStopped(w)
  BY <1>4, GotoTypes DEF WritesStopped, leaseVars, callers
<1>5. CASE MarksStopped(w)
  BY <1>5, ExitTypes DEF MarksStopped, PublishDraft, leaseVars, callers
<1>6. CASE Dies(w)
  BY <1>6, ExitTypes DEF Dies, Forget
<1> QED
  BY <1>1, <1>2, <1>3, <1>4, <1>5, <1>6 DEF Close

LEMMA WorkersStep == TypeInv /\ [Next]_vars => WorkersOK'
<1> SUFFICES ASSUME TypeInv, [Next]_vars PROVE WorkersOK'
  OBVIOUS
<1> USE DEF leaseVars, callers
<1>1. ASSUME NEW w \in Workers, Worker(w) \/ Dies(w) PROVE WorkersOK'
  BY <1>1, WorkersLoop, WorkersPublish, WorkersClose DEF Worker
<1>2. CASE Supervisor
  <2>1. ASSUME NEW w \in Workers, Spawns(w) PROVE WorkersOK'
    <3>1. pc' \in [Workers -> WorkerPcs] /\ ident' \in [Workers -> Manifests]
      BY <2>1 DEF TypeInv, WorkersOK, FilesOK, Spawns, WorkerPcs
    <3>2. \A v \in Workers : pc'[v] \in Running \union {"beat"} => claim'[v] # 0
      BY <2>1 DEF TypeInv, WorkersOK, Spawns, Running
    <3> QED
      BY <2>1, <3>1, <3>2 DEF TypeInv, WorkersOK, Spawns
  <2>2. CASE StartBegins \/ DropsHealth \/ StartSucceeds \/ StartFails \/ StartEnds
    BY <2>2, SameWorkers
    DEF TypeInv, StartBegins, DropsHealth, StartSucceeds, StartFails, StartEnds
  <2>3. CASE StopBegins \/ LooksAtLease \/ StopReports \/ StopLooksAgain \/ StopTimesOut
    BY <2>3, SameWorkers
    DEF TypeInv, StopBegins, LooksAtLease, StopReports, StopLooksAgain, StopTimesOut
  <2> QED
    BY <1>2, <2>1, <2>2, <2>3 DEF Supervisor
<1>3. CASE Deploys \/ Passes \/ UNCHANGED vars
  BY <1>3, SameWorkers DEF TypeInv, Deploys, Passes, Tick, vars
<1> QED
  BY <1>1, <1>2, <1>3 DEF Next

LEMMA SameFiles == FilesOK /\ UNCHANGED <<files, supervisor, history>> => FilesOK'
  BY DEF FilesOK, files, supervisor, history

LEMMA DraftTypes ==
    ASSUME FilesOK, PublishDraft PROVE FilesOK'
<1>1. published' \in [Manifests -> 0..MaxCycles]
  <2>1. CASE draft \in {None, Stopped} \/ draft.cycle <= published[draft.ident]
    BY <2>1 DEF FilesOK, PublishDraft
  <2>2. CASE ~(draft \in {None, Stopped} \/ draft.cycle <= published[draft.ident])
    <3>1. draft.ident \in Manifests /\ draft.cycle \in 0..MaxCycles
      BY <2>2 DEF FilesOK, Healthy
    <3> QED
      BY <2>2, <3>1 DEF FilesOK, PublishDraft
  <2> QED
    BY <2>1, <2>2
<1>2. health' \in Healthy \union {Stopped, None} /\ draft' \in Healthy \union {Stopped, None}
  BY DEF FilesOK, PublishDraft
<1>3. UNCHANGED <<ckpt, tmp, stopReq, manifest, supervisor, granted>>
  BY DEF PublishDraft
<1> QED
  BY <1>1, <1>2, <1>3 DEF FilesOK, supervisor

LEMMA FilesWorker ==
    ASSUME TypeInv, NEW w \in Workers, Worker(w) \/ Dies(w) PROVE FilesOK'
<1> USE DEF TypeInv, supervisor, history
<1>1. CASE Boot(w)
  BY <1>1 DEF FilesOK, Boot
<1>2. CASE AcquiresLease(w)
  <2>1. granted' \in [1..MaxTokens -> 0..MaxTime]
    BY <1>2 DEF FilesOK, AcquiresLease, LeaseTypeOK
  <2> QED
    BY <1>2, <2>1 DEF FilesOK, files, AcquiresLease
<1>3. CASE StopSeen(w) \/ FirstCycle(w) \/ LeaseRefused(w) \/ NextCycle(w) \/
           Fenced(w) \/ RenewsLease(w)
  BY <1>3, SameFiles
  DEF StopSeen, FirstCycle, LeaseRefused, NextCycle, Fenced, RenewsLease
<1>4. CASE Resumes(w) \/ ResumeRefused(w) \/ StartsFresh(w) \/ Superseded(w)
  BY <1>4, SameFiles DEF Resumes, ResumeRefused, StartsFresh, Superseded
<1>5. CASE Archives(w)
  BY <1>5 DEF FilesOK, Archives
<1>6. CASE WritesTemporary(w)
  <2>1. claim[w] \in 1..MaxTokens /\ cycle[w] + 1 \in 0..MaxCycles /\ ident[w] \in Manifests
    BY <1>6, BoundAssumption, RuntimeBoundAssumption
    DEF WritesTemporary, LeaseTypeOK, WorkersOK, Running, Workers
  <2>2. tmp' \in Checkpoint
    BY <1>6, <2>1 DEF WritesTemporary, Checkpoint
  <2> QED
    BY <1>6, <2>2 DEF FilesOK, WritesTemporary
<1>7. CASE ReplacesCheckpoint(w)
  BY <1>7 DEF FilesOK, ReplacesCheckpoint
<1>8. CASE WritesReport(w)
  <2>1. /\ claim[w] \in 1..MaxTokens /\ cycle[w] \in 0..MaxCycles
        /\ ident[w] \in Manifests /\ since[w] \in 0..MaxTime
    BY <1>8, BoundAssumption DEF WritesReport, LeaseTypeOK, WorkersOK, Running, Workers
  <2>2. draft' \in Healthy
    BY <1>8, <2>1 DEF WritesReport, Healthy
  <2> QED
    BY <1>8, <2>2 DEF FilesOK, WritesReport
<1>9. CASE PublishesReport(w) \/ MarksStopped(w)
  BY <1>9, DraftTypes DEF PublishesReport, MarksStopped
<1>10. CASE Closes(w) \/ ReleasesLease(w) \/ LooksForHealth(w) \/ Dies(w)
  BY <1>10, SameFiles DEF Closes, ReleasesLease, LooksForHealth, Dies
<1>11. CASE WritesStopped(w)
  BY <1>11 DEF FilesOK, WritesStopped
<1> QED
  BY <1>1, <1>2, <1>3, <1>4, <1>5, <1>6, <1>7, <1>8, <1>9, <1>10, <1>11
  DEF Worker, Loop, Publish, Close

LEMMA FilesStep == TypeInv /\ LeaseTypeOK' /\ [Next]_vars => FilesOK'
<1> SUFFICES ASSUME TypeInv, LeaseTypeOK', [Next]_vars PROVE FilesOK'
  OBVIOUS
<1> USE DEF TypeInv, files, supervisor, history
<1>1. ASSUME NEW w \in Workers, Worker(w) \/ Dies(w) PROVE FilesOK'
  BY <1>1, FilesWorker
<1>2. CASE Supervisor
  <2>1. CASE StartBegins \/ DropsHealth
    BY <2>1 DEF FilesOK, StartBegins, DropsHealth
  <2>2. ASSUME NEW w \in Workers, Spawns(w) PROVE FilesOK'
    BY <2>2 DEF FilesOK, Spawns
  <2>3. CASE StartSucceeds \/ StartFails \/ StartEnds
    BY <2>3 DEF FilesOK, StartSucceeds, StartFails, StartEnds
  <2>4. CASE StopBegins \/ LooksAtLease
    BY <2>4 DEF FilesOK, StopBegins, LooksAtLease, Active
  <2>5. CASE StopReports \/ StopLooksAgain \/ StopTimesOut
    BY <2>5 DEF FilesOK, StopReports, StopLooksAgain, StopTimesOut
  <2> QED
    BY <1>2, <2>1, <2>2, <2>3, <2>4, <2>5 DEF Supervisor
<1>3. CASE Deploys
  <2>1. manifest' \in Manifests
    BY <1>3, RuntimeBoundAssumption DEF FilesOK, Deploys, Manifests
  <2> QED
    BY <1>3, <2>1 DEF FilesOK, Deploys
<1>4. CASE Passes \/ UNCHANGED vars
  BY <1>4, SameFiles DEF Passes, vars
<1> QED
  BY <1>1, <1>2, <1>3, <1>4 DEF Next

LEMMA RuntimeInvariant == Spec => [](TypeInv /\ LeaseInv)
<1>1. Spec => []LeaseInv
  BY RuntimeUsesLease, LeaseInvariant
<1>2. LeaseInv => LeaseTypeOK
  BY DEF LeaseInv
<1>3. TypeInv /\ LeaseTypeOK' /\ [Next]_vars => TypeInv'
  BY WorkersStep, FilesStep DEF TypeInv
<1> QED
  BY <1>1, <1>2, <1>3, TypeInit, PTL DEF Spec

\* Every variable keeps its type.
THEOREM RuntimeTypeCorrect == Spec => []RuntimeTypeOK
<1>1. TypeInv => RuntimeTypeOK
  BY DEF TypeInv, WorkersOK, FilesOK, RuntimeTypeOK
<1> QED
  BY <1>1, RuntimeInvariant, PTL

-----------------------------------------------------------------------------
(* Checkpoints and health reports carry the tokens of their writers.       *)

\* A step of w leaves the other workers where they are.
Alone(w) ==
    \A v \in Workers :
        v # w => pc'[v] = pc[v] /\ claim'[v] = claim[v] /\ since'[v] = since[v]

LEMMA Moves ==
    ASSUME WorkersOK, NEW w \in Workers
    PROVE  /\ \A p : Goto(w, p) =>
                pc'[w] = p /\ \A v \in Workers : v # w => pc'[v] = pc[v]
           /\ Exit(w) => pc'[w] = "off" /\ \A v \in Workers : v # w => pc'[v] = pc[v]
  BY DEF WorkersOK, Goto, Exit

LEMMA WorkerAlone ==
    ASSUME TypeInv, NEW w \in Workers, Worker(w) \/ Dies(w) PROVE Alone(w)
<1> USE Moves DEF TypeInv, Alone, leaseVars, callers
<1>1. CASE Boot(w) \/ StopSeen(w) \/ Fenced(w)
  BY <1>1 DEF Boot, StopSeen, Fenced
<1>2. CASE FirstCycle(w) \/ NextCycle(w)
  <2>1. Begin(w, "acquire") \/ Begin(w, "heartbeat")
    BY <1>2 DEF FirstCycle, NextCycle, AcquireBegin, HeartbeatAssert
  <2>2. \A v \in Workers : v # w => claim'[v] = claim[v] /\ since'[v] = since[v]
    BY <2>1 DEF Begin, LeaseTypeOK, Workers
  <2> QED
    BY <1>2, <2>2 DEF FirstCycle, NextCycle
<1>3. CASE AcquiresLease(w) \/ RenewsLease(w)
  <2>1. \A v \in Workers : v # w => claim'[v] = claim[v] /\ since'[v] = since[v]
    BY <1>3
    DEF AcquiresLease, RenewsLease, AcquireGranted, HeartbeatUpdate, LeaseTypeOK,
        Workers
  <2> QED
    BY <1>3, <2>1 DEF AcquiresLease, RenewsLease
<1>4. CASE LeaseRefused(w)
  BY <1>4 DEF LeaseRefused, AcquireRefused, Return
<1>5. CASE Resumes(w)
  BY <1>5 DEF Resumes
<1>6. CASE ResumeRefused(w) \/ StartsFresh(w) \/ Superseded(w) \/ Archives(w)
  BY <1>6 DEF ResumeRefused, StartsFresh, Superseded, Archives
<1>7. CASE WritesTemporary(w)
  BY <1>7 DEF WritesTemporary
<1>8. CASE ReplacesCheckpoint(w) \/ WritesReport(w) \/ PublishesReport(w)
  BY <1>8 DEF ReplacesCheckpoint, WritesReport, PublishesReport, PublishDraft
<1>9. CASE Closes(w)
  <2>1. CASE ReleaseAssert(w) /\ Goto(w, "delete")
    BY <2>1 DEF ReleaseAssert, Begin
  <2>2. CASE Forget(w) /\ Goto(w, "farewell")
    BY <2>2 DEF Forget, Return
  <2>3. CASE UNCHANGED leaseVars /\ Exit(w)
    BY <2>3
  <2> QED
    BY <1>9, <2>1, <2>2, <2>3 DEF Closes
<1>10. CASE ReleasesLease(w)
  BY <1>10 DEF ReleasesLease, ReleaseDelete, Return
<1>11. CASE LooksForHealth(w) \/ WritesStopped(w) \/ MarksStopped(w)
  BY <1>11 DEF LooksForHealth, WritesStopped, MarksStopped, PublishDraft
<1>12. CASE Dies(w)
  BY <1>12 DEF Dies, Forget, Return
<1> QED
  BY <1>1, <1>2, <1>3, <1>4, <1>5, <1>6, <1>7, <1>8, <1>9, <1>10, <1>11, <1>12
  DEF Worker, Loop, Publish, Close

\* What the files hold was written under a token granted by now, and a worker
\* that is about to resume has written nothing under its own.
FileInv ==
    /\ ckpt # None => ckpt.fence <= seq
    /\ tmp # None => tmp.fence <= seq
    /\ \A w \in Workers :
        pc[w] \in {"resume", "archive"} =>
            (ckpt # None => ckpt.fence # claim[w]) /\ (tmp # None => tmp.fence # claim[w])

LEMMA SameTokens ==
    ASSUME FileInv, NEW w \in Workers, Alone(w), UNCHANGED <<ckpt, tmp, seq>>,
           pc'[w] \in {"resume", "archive"} =>
                pc[w] \in {"resume", "archive"} /\ claim'[w] = claim[w]
    PROVE  FileInv'
<1>1. ASSUME NEW v \in Workers, pc'[v] \in {"resume", "archive"}
      PROVE  pc[v] \in {"resume", "archive"} /\ claim'[v] = claim[v]
  BY <1>1 DEF Alone
<1> QED
  BY <1>1 DEF FileInv

LEMMA FileWorker ==
    ASSUME TypeInv, LeaseInv, FileInv, NEW w \in Workers, Worker(w) \/ Dies(w)
    PROVE  FileInv'
<1>1. Alone(w)
  BY WorkerAlone
<1> USE DEF TypeInv, leaseVars, tables, files
<1>2. CASE Boot(w) \/ StopSeen(w) \/ Fenced(w)
  BY <1>1, <1>2, Moves, SameTokens DEF Boot, StopSeen, Fenced
<1>3. CASE FirstCycle(w) \/ NextCycle(w) \/ RenewsLease(w)
  BY <1>1, <1>3, Moves, SameTokens
  DEF FirstCycle, NextCycle, RenewsLease, AcquireBegin, HeartbeatAssert, Begin,
      HeartbeatUpdate
<1>4. CASE AcquiresLease(w)
  <2>1. seq' = seq + 1 /\ claim'[w] = seq + 1 /\ UNCHANGED <<ckpt, tmp>>
    BY <1>4 DEF AcquiresLease, AcquireGranted, LeaseTypeOK, Workers
  <2>2. \A r \in {ckpt, tmp} : r # None => r.fence \in Nat /\ r.fence <= seq
    BY DEF FileInv, FilesOK, Checkpoint
  <2>3. seq \in Nat
    BY BoundAssumption DEF LeaseTypeOK
  <2>4. \A r \in {ckpt, tmp} : r # None => r.fence <= seq' /\ r.fence # claim'[w]
    BY <2>1, <2>2, <2>3
  <2>5. \A v \in Workers : v # w => pc'[v] = pc[v] /\ claim'[v] = claim[v]
    BY <1>1 DEF Alone
  <2> QED
    BY <2>1, <2>4, <2>5 DEF FileInv
<1>5. CASE LeaseRefused(w) \/ Dies(w)
  BY <1>1, <1>5, Moves, SameTokens DEF LeaseRefused, Dies, AcquireRefused, Forget
<1>6. CASE Resumes(w)
  <2>1. pc'[w] = "write"
    BY <1>6 DEF Resumes, WorkersOK
  <2> QED
    BY <1>1, <1>6, <2>1, SameTokens DEF Resumes
<1>7. CASE ResumeRefused(w) \/ StartsFresh(w)
  BY <1>1, <1>7, Moves, SameTokens DEF ResumeRefused, StartsFresh
<1>8. CASE Superseded(w)
  BY <1>1, <1>8, Moves, SameTokens DEF Superseded, callers
<1>9. CASE Archives(w)
  <2>1. ckpt' = None /\ UNCHANGED <<tmp, seq>> /\ pc'[w] \in {"close", "write"}
    BY <1>9, Moves DEF Archives
  <2> QED
    BY <1>1, <2>1 DEF FileInv, Alone
<1>10. CASE WritesTemporary(w)
  <2>1. pc'[w] = "replace" /\ tmp'.fence = claim[w] /\ UNCHANGED <<ckpt, seq, claim>>
    BY <1>10 DEF WritesTemporary, WorkersOK, callers
  <2>2. claim[w] # 0 /\ claim[w] <= seq
    BY <1>10 DEF WritesTemporary, WorkersOK, Running, LeaseInv, Workers
  <2>3. \A v \in Workers : v # w => claim[v] # claim[w]
    BY <2>2 DEF LeaseInv, Workers
  <2> QED
    BY <1>1, <2>1, <2>2, <2>3 DEF FileInv, Alone
<1>11. CASE ReplacesCheckpoint(w)
  <2>1. pc'[w] \in {"close", "report"} /\ tmp' = None /\ ckpt' \in {ckpt, tmp}
    BY <1>11, Moves DEF ReplacesCheckpoint
  <2>2. UNCHANGED seq
    BY <1>11 DEF ReplacesCheckpoint
  <2> QED
    BY <1>1, <2>1, <2>2 DEF FileInv, Alone
<1>12. CASE WritesReport(w) \/ PublishesReport(w)
  BY <1>1, <1>12, Moves, SameTokens DEF WritesReport, PublishesReport, PublishDraft
<1>13. CASE Closes(w)
  <2>1. UNCHANGED <<ckpt, tmp, seq>>
    BY <1>13 DEF Closes, ReleaseAssert, Begin, Forget
  <2>2. pc'[w] \in {"delete", "farewell", "off"}
    BY <1>13, Moves DEF Closes
  <2> QED
    BY <1>1, <2>1, <2>2, SameTokens
<1>14. CASE ReleasesLease(w)
  BY <1>1, <1>14, Moves, SameTokens DEF ReleasesLease, ReleaseDelete
<1>15. CASE LooksForHealth(w)
  <2>1. pc'[w] \in {"off", "bury"}
    BY <1>15, Moves DEF LooksForHealth
  <2> QED
    BY <1>1, <1>15, <2>1, SameTokens DEF LooksForHealth
<1>16. CASE WritesStopped(w) \/ MarksStopped(w)
  BY <1>1, <1>16, Moves, SameTokens DEF WritesStopped, MarksStopped, PublishDraft
<1> QED
  BY <1>2, <1>3, <1>4, <1>5, <1>6, <1>7, <1>8, <1>9, <1>10, <1>11, <1>12, <1>13,
     <1>14, <1>15, <1>16 DEF Worker, Loop, Publish, Close

LEMMA FileInvStep == TypeInv /\ LeaseInv /\ FileInv /\ [Next]_vars => FileInv'
<1> SUFFICES ASSUME TypeInv, LeaseInv, FileInv, [Next]_vars PROVE FileInv'
  OBVIOUS
<1> USE DEF leaseVars, tables, callers, workers, files
<1>1. ASSUME NEW w \in Workers, Worker(w) \/ Dies(w) PROVE FileInv'
  BY <1>1, FileWorker
<1>2. CASE Supervisor
  <2>1. ASSUME NEW w \in Workers, Spawns(w) PROVE FileInv'
    <3>1. pc'[w] = "boot" /\ Alone(w)
      BY <2>1 DEF Spawns, TypeInv, WorkersOK, Alone
    <3> QED
      BY <2>1, <3>1, SameTokens DEF Spawns
  <2>2. CASE StartBegins \/ DropsHealth \/ StartSucceeds \/ StartFails \/ StartEnds
    BY <2>2 DEF FileInv, StartBegins, DropsHealth, StartSucceeds, StartFails, StartEnds
  <2>3. CASE StopBegins \/ LooksAtLease \/ StopReports \/ StopLooksAgain \/ StopTimesOut
    BY <2>3
    DEF FileInv, StopBegins, LooksAtLease, StopReports, StopLooksAgain, StopTimesOut
  <2> QED
    BY <1>2, <2>1, <2>2, <2>3 DEF Supervisor
<1>3. CASE Deploys \/ Passes \/ UNCHANGED vars
  BY <1>3 DEF FileInv, Deploys, Passes, Tick, vars
<1> QED
  BY <1>1, <1>2, <1>3 DEF Next

\* A checkpoint is refused as "not prior" only to a superseded worker.
THEOREM RefusalIsFencing == Spec => []RefusalMeansSuperseded
<1>1. Init => FileInv
  BY DEF Init, FileInv
<1>2. TypeInv /\ LeaseInv /\ FileInv => RefusalMeansSuperseded
  BY BoundAssumption
  DEF TypeInv, LeaseTypeOK, FilesOK, LeaseInv, FileInv, RefusalMeansSuperseded,
      Checkpoint, Workers
<1> QED
  BY <1>1, <1>2, RuntimeInvariant, FileInvStep, PTL DEF Spec

-----------------------------------------------------------------------------
(* A cycle that began after a takeover is never reported.                  *)

\* A worker in a cycle began it before its successor was granted the lease.
CyclesDated ==
    \A w \in Workers :
        pc[w] \in Running \union {"beat"} /\ claim[w] < seq
            => since[w] <= granted[claim[w] + 1]

\* A report carries a token granted by now, and predates the next one.
Dated(r) ==
    r \notin {None, Stopped} =>
        /\ r.fence <= seq
        /\ r.at <= now
        /\ r.fence < seq => r.at <= granted[r.fence + 1]

CycleInv == CyclesDated /\ Dated(health) /\ Dated(draft)

LEMMA SameCycles ==
    ASSUME CyclesDated, NEW w \in Workers, Alone(w), UNCHANGED <<seq, granted>>,
           pc'[w] \in Running \union {"beat"} =>
                /\ pc[w] \in Running \union {"beat"}
                /\ claim'[w] = claim[w] /\ since'[w] = since[w]
    PROVE  CyclesDated'
<1>1. ASSUME NEW v \in Workers, pc'[v] \in Running \union {"beat"}
      PROVE  /\ pc[v] \in Running \union {"beat"}
             /\ claim'[v] = claim[v] /\ since'[v] = since[v]
  BY <1>1 DEF Alone
<1> QED
  BY <1>1 DEF CyclesDated

LEMMA SameReports ==
    ASSUME Dated(health), Dated(draft), UNCHANGED <<now, seq, granted>>,
           health' \in {health, draft, None}, draft' \in {draft, Stopped, None}
    PROVE  Dated(health)' /\ Dated(draft)'
  BY DEF Dated

\* The grant that supersedes claim seq is made now.
LEMMA CycleGranted ==
    ASSUME TypeInv, LeaseInv, CycleInv, NEW w \in Workers, AcquiresLease(w)
    PROVE  CycleInv'
<1> USE DEF TypeInv
<1>1. /\ seq' = seq + 1 /\ claim'[w] = seq + 1 /\ seq + 1 \in 1..MaxTokens
      /\ UNCHANGED <<now, since, health, draft>>
  BY BoundAssumption DEF AcquiresLease, AcquireGranted, LeaseTypeOK, Workers, files
<1>2. granted'[seq + 1] = now /\ \A f \in 1..seq : granted'[f] = granted[f]
  BY <1>1, BoundAssumption DEF AcquiresLease, FilesOK, LeaseTypeOK
<1>3. CyclesDated'
  <2> SUFFICES ASSUME NEW v \in Workers, pc'[v] \in Running \union {"beat"}, claim'[v] < seq'
               PROVE  since'[v] <= granted'[claim'[v] + 1]
    BY DEF CyclesDated
  <2>1. v # w
    BY <1>1 DEF LeaseTypeOK
  <2>2. pc[v] = pc'[v] /\ claim'[v] = claim[v] /\ since'[v] = since[v]
    BY <2>1, WorkerAlone DEF Worker, Loop, Alone
  <2>3. claim[v] \in Nat /\ seq \in Nat /\ claim[v] # 0
    BY <2>2, BoundAssumption DEF LeaseTypeOK, WorkersOK, Workers
  <2>4. CASE claim[v] = seq
    BY <1>2, <2>2, <2>4 DEF LeaseInv, Workers
  <2>5. CASE claim[v] < seq
    <3>1. claim[v] + 1 \in 1..seq
      BY <2>3, <2>5
    <3> QED
      BY <1>2, <2>2, <2>5, <3>1 DEF CycleInv, CyclesDated
  <2> QED
    BY <1>1, <2>2, <2>3, <2>4, <2>5
<1>4. ASSUME NEW r \in Healthy \union {Stopped, None}, Dated(r) PROVE Dated(r)'
  <2> SUFFICES ASSUME r \notin {None, Stopped} PROVE Dated(r)'
    BY DEF Dated
  <2>1. r.fence \in 1..MaxTokens /\ r.fence <= seq /\ r.at <= now /\ seq \in Nat
    BY <1>4, BoundAssumption DEF Dated, Healthy, LeaseTypeOK
  <2>2. CASE r.fence = seq
    BY <1>1, <1>2, <2>1, <2>2 DEF Dated
  <2>3. CASE r.fence < seq
    <3>1. r.fence + 1 \in 1..seq
      BY <2>1, <2>3
    <3> QED
      BY <1>1, <1>2, <1>4, <2>1, <2>3, <3>1 DEF Dated
  <2> QED
    BY <2>1, <2>2, <2>3
<1>5. Dated(health)' /\ Dated(draft)'
  BY <1>1, <1>4 DEF CycleInv, FilesOK
<1> QED
  BY <1>3, <1>5 DEF CycleInv

LEMMA CycleLoop ==
    ASSUME TypeInv, LeaseInv, CycleInv, NEW w \in Workers, Loop(w) PROVE CycleInv'
<1>1. Alone(w)
  BY WorkerAlone DEF Worker
<1> USE DEF TypeInv, CycleInv, leaseVars, tables, callers, files, history, Running
<1>2. CASE Boot(w) \/ StopSeen(w) \/ Fenced(w)
  BY <1>1, <1>2, Moves, SameCycles, SameReports DEF Boot, StopSeen, Fenced
<1>3. CASE FirstCycle(w)
  BY <1>1, <1>3, Moves, SameCycles, SameReports DEF FirstCycle, AcquireBegin, Begin
<1>4. CASE AcquiresLease(w)
  BY <1>4, CycleGranted
<1>5. CASE LeaseRefused(w)
  BY <1>1, <1>5, Moves, SameCycles, SameReports DEF LeaseRefused, AcquireRefused
<1>6. CASE NextCycle(w)
  <2>1. claim'[w] = seq' /\ UNCHANGED <<now, seq, granted, health, draft>>
    BY <1>6 DEF NextCycle, HeartbeatAssert, Begin, Valid, Active, LeaseInv
  <2>2. Dated(health)' /\ Dated(draft)'
    BY <2>1, SameReports
  <2>3. ~(claim'[w] < seq')
    BY <2>1, BoundAssumption DEF LeaseTypeOK
  <2>4. CyclesDated'
    BY <1>1, <2>1, <2>3 DEF CyclesDated, Alone
  <2> QED
    BY <2>2, <2>4
<1>7. CASE RenewsLease(w)
  <2>1. pc[w] = "beat" /\ UNCHANGED <<now, seq, claim, since, granted, health, draft>>
    BY <1>7 DEF RenewsLease, HeartbeatUpdate
  <2> QED
    BY <1>1, <2>1, SameCycles, SameReports
<1> QED
  BY <1>2, <1>3, <1>4, <1>5, <1>6, <1>7 DEF Loop

LEMMA CyclePublish ==
    ASSUME TypeInv, LeaseInv, CycleInv, NEW w \in Workers, Publish(w) PROVE CycleInv'
<1>1. Alone(w)
  BY WorkerAlone DEF Worker
<1> USE DEF TypeInv, CycleInv, leaseVars, tables, callers, files, history, Running
<1>2. CASE Resumes(w)
  BY <1>1, <1>2, SameCycles, SameReports DEF Resumes
<1>3. CASE ResumeRefused(w) \/ StartsFresh(w) \/ Superseded(w)
  BY <1>1, <1>3, SameCycles, SameReports DEF ResumeRefused, StartsFresh, Superseded
<1>4. CASE Archives(w)
  BY <1>1, <1>4, SameCycles, SameReports DEF Archives
<1>5. CASE WritesTemporary(w)
  BY <1>1, <1>5, SameCycles, SameReports DEF WritesTemporary
<1>6. CASE ReplacesCheckpoint(w)
  BY <1>1, <1>6, SameCycles, SameReports DEF ReplacesCheckpoint
<1>7. CASE WritesReport(w)
  <2>1. /\ draft'.at = since[w] /\ draft'.fence = claim[w] /\ pc[w] = "report"
        /\ UNCHANGED <<now, seq, claim, since, granted, health>>
    BY <1>7 DEF WritesReport
  <2>2. CyclesDated'
    BY <1>1, <2>1, SameCycles
  <2>3. Dated(health)'
    BY <2>1 DEF Dated
  <2>4. since[w] <= now /\ claim[w] <= seq
    BY DEF LeaseInv, Workers
  <2>5. claim[w] < seq => since[w] <= granted[claim[w] + 1]
    BY <2>1 DEF CyclesDated
  <2>6. Dated(draft)'
    BY <2>1, <2>4, <2>5 DEF Dated
  <2> QED
    BY <2>2, <2>3, <2>6
<1>8. CASE PublishesReport(w)
  <2>1. /\ health' \in {health, draft} /\ draft' = None /\ pc[w] = "publish"
        /\ UNCHANGED <<now, seq, claim, since, granted>>
    BY <1>8 DEF PublishesReport, PublishDraft
  <2> QED
    BY <1>1, <2>1, SameCycles, SameReports
<1> QED
  BY <1>2, <1>3, <1>4, <1>5, <1>6, <1>7, <1>8 DEF Publish

LEMMA CycleClose ==
    ASSUME TypeInv, LeaseInv, CycleInv, NEW w \in Workers, Close(w) \/ Dies(w) PROVE CycleInv'
<1>1. Alone(w)
  BY WorkerAlone DEF Worker
<1> USE DEF TypeInv, CycleInv, leaseVars, tables, callers, files, history, Running
<1>2. CASE Closes(w)
  <2>1. UNCHANGED <<now, seq, granted, health, draft>>
    BY <1>2 DEF Closes, ReleaseAssert, Begin, Forget
  <2>2. pc'[w] \in {"delete", "farewell", "off"}
    BY <1>2, Moves DEF Closes
  <2> QED
    BY <1>1, <2>1, <2>2, SameCycles, SameReports
<1>3. CASE ReleasesLease(w)
  BY <1>1, <1>3, Moves, SameCycles, SameReports DEF ReleasesLease, ReleaseDelete
<1>4. CASE LooksForHealth(w)
  <2>1. pc'[w] \in {"off", "bury"}
    BY <1>4, Moves DEF LooksForHealth
  <2> QED
    BY <1>1, <1>4, <2>1, SameCycles, SameReports DEF LooksForHealth
<1>5. CASE WritesStopped(w)
  BY <1>1, <1>5, Moves, SameCycles, SameReports DEF WritesStopped
<1>6. CASE MarksStopped(w)
  <2>1. /\ health' \in {health, draft} /\ draft' = None /\ pc'[w] = "off"
        /\ UNCHANGED <<now, seq, granted>>
    BY <1>6, Moves DEF MarksStopped, PublishDraft
  <2> QED
    BY <1>1, <2>1, SameCycles, SameReports
<1>7. CASE Dies(w)
  BY <1>1, <1>7, Moves, SameCycles, SameReports DEF Dies, Forget
<1> QED
  BY <1>2, <1>3, <1>4, <1>5, <1>6, <1>7 DEF Close

LEMMA CycleStep == TypeInv /\ LeaseInv /\ CycleInv /\ [Next]_vars => CycleInv'
<1> SUFFICES ASSUME TypeInv, LeaseInv, CycleInv, [Next]_vars PROVE CycleInv'
  OBVIOUS
<1> USE DEF leaseVars, tables, callers, workers, files, history
<1>1. ASSUME NEW w \in Workers, Worker(w) \/ Dies(w) PROVE CycleInv'
  BY <1>1, CycleLoop, CyclePublish, CycleClose DEF Worker
<1>2. CASE Supervisor
  <2>1. ASSUME NEW w \in Workers, Spawns(w) PROVE CycleInv'
    <3>1. pc'[w] = "boot" /\ Alone(w)
      BY <2>1 DEF Spawns, TypeInv, WorkersOK, Alone
    <3> QED
      BY <2>1, <3>1, SameCycles, SameReports DEF Spawns, CycleInv, Running
  <2>2. CASE StartBegins \/ DropsHealth \/ StartSucceeds \/ StartFails \/ StartEnds
    BY <2>2, SameReports
    DEF CycleInv, CyclesDated, StartBegins, DropsHealth, StartSucceeds, StartFails,
        StartEnds
  <2>3. CASE StopBegins \/ LooksAtLease \/ StopReports \/ StopLooksAgain \/ StopTimesOut
    BY <2>3, SameReports
    DEF CycleInv, CyclesDated, StopBegins, LooksAtLease, StopReports,
        StopLooksAgain, StopTimesOut
  <2> QED
    BY <1>2, <2>1, <2>2, <2>3 DEF Supervisor
<1>3. CASE Deploys \/ UNCHANGED vars
  BY <1>3, SameReports DEF CycleInv, CyclesDated, Deploys, vars
<1>4. CASE Passes
  <2>1. ASSUME NEW r \in Healthy \union {Stopped, None}, Dated(r) PROVE Dated(r)'
    <3>1. now' = now + 1 /\ UNCHANGED <<seq, granted>>
      BY <1>4 DEF Passes, Tick
    <3>2. r \notin {None, Stopped} => r.at \in Nat /\ now \in Nat
      BY BoundAssumption DEF Healthy, TypeInv, LeaseTypeOK
    <3> QED
      BY <2>1, <3>1, <3>2 DEF Dated
  <2>2. Dated(health)' /\ Dated(draft)'
    BY <1>4, <2>1 DEF Passes, CycleInv, TypeInv, FilesOK
  <2>3. CyclesDated'
    BY <1>4 DEF Passes, Tick, CycleInv, CyclesDated
  <2> QED
    BY <2>2, <2>3 DEF CycleInv
<1> QED
  BY <1>1, <1>2, <1>3, <1>4 DEF Next

\* What a superseded worker still reports is older than the takeover.
THEOREM ReportsPredateTakeover == Spec => []HealthPredatesTakeover
<1>1. Init => CycleInv
  BY DEF Init, CycleInv, CyclesDated, Dated, Running
<1>2. CycleInv => HealthPredatesTakeover
  BY DEF CycleInv, Dated, HealthPredatesTakeover
<1> QED
  BY <1>1, <1>2, RuntimeInvariant, CycleStep, PTL DEF Spec

-----------------------------------------------------------------------------
(* A stop request: what of StopIsHonoured needs no fairness.               *)

\* How many steps a worker is from its end at most, once it is asked to stop.
Distance ==
    [p \in WorkerPcs |->
        CASE p = "off"       -> 0
          [] p = "last"      -> 1
          [] p = "bury"      -> 2
          [] p = "farewell"  -> 3
          [] p = "delete"    -> 4
          [] p = "close"     -> 5
          [] p = "loop"      -> 6
          [] p = "publish"   -> 7
          [] p = "report"    -> 8
          [] p = "replace"   -> 9
          [] p = "write"     -> 10
          [] p \in {"archive", "beat"} -> 11
          [] p = "resume"    -> 12
          [] p = "acquire"   -> 13
          [] p = "boot"      -> 14]

\* No step takes the worker back, and each of its own takes it on.
Nearer(w) ==
    /\ pc'[w] # pc[w] => Distance[pc'[w]] < Distance[pc[w]]
    /\ Worker(w) => pc'[w] # pc[w]

\* The moves of the loop; only those behind ~stopReq start a cycle.
LEMMA NearerWorker ==
    ASSUME TypeInv, NEW w \in Workers, Worker(w), stopReq, stopReq', pc[w] # "off"
    PROVE  pc'[w] # pc[w] /\ Distance[pc'[w]] < Distance[pc[w]]
<1> USE Moves DEF TypeInv
<1> USE DEF WorkerPcs, Running, Closing, Distance
<1>1. ~Boot(w) /\ ~FirstCycle(w) /\ ~NextCycle(w) /\ ~Fenced(w)
  BY DEF Boot, FirstCycle, NextCycle, Fenced
<1>2. CASE StopSeen(w)
  BY <1>2 DEF StopSeen
<1>3. CASE AcquiresLease(w) \/ LeaseRefused(w)
  BY <1>3 DEF AcquiresLease, LeaseRefused
<1>4. CASE RenewsLease(w)
  BY <1>4 DEF RenewsLease
<1>5. CASE Resumes(w)
  BY <1>5 DEF Resumes, WorkersOK
<1>6. CASE ResumeRefused(w) \/ StartsFresh(w) \/ Superseded(w)
  BY <1>6 DEF ResumeRefused, StartsFresh, Superseded
<1>7. CASE Archives(w)
  BY <1>7 DEF Archives
<1>8. CASE WritesTemporary(w)
  BY <1>8 DEF WritesTemporary, WorkersOK
<1>9. CASE ReplacesCheckpoint(w)
  BY <1>9 DEF ReplacesCheckpoint
<1>10. CASE WritesReport(w) \/ PublishesReport(w)
  BY <1>10 DEF WritesReport, PublishesReport
<1>11. CASE Closes(w) \/ ReleasesLease(w)
  BY <1>11 DEF Closes, ReleasesLease
<1>12. CASE LooksForHealth(w) \/ WritesStopped(w) \/ MarksStopped(w)
  BY <1>12 DEF LooksForHealth, WritesStopped, MarksStopped
<1> QED
  BY <1>1, <1>2, <1>3, <1>4, <1>5, <1>6, <1>7, <1>8, <1>9, <1>10, <1>11, <1>12
  DEF Worker, Loop, Publish, Close

\* While a stop is requested no step, of the worker or of anyone else, takes a
\* worker away from its end: it finishes the cycle that it is in, begins no
\* other, and is gone after at most thirteen steps of its own (run_forever looks
\* for the request at the head of its loop; worker.py, close).
THEOREM StopConverges ==
    Spec => [][\A w \in Workers : stopReq /\ stopReq' /\ pc[w] # "off" => Nearer(w)]_vars
<1>1. ASSUME TypeInv, [Next]_vars, NEW w \in Workers, stopReq, stopReq', pc[w] # "off"
      PROVE  Nearer(w)
  <2>1. CASE Worker(w)
    BY <1>1, <2>1, NearerWorker DEF Nearer
  <2>2. CASE ~Worker(w) /\ pc'[w] = pc[w]
    BY <2>2 DEF Nearer
  <2>3. CASE Dies(w)
    <3>1. pc'[w] = "off" /\ pc[w] \in WorkerPcs
      BY <1>1, <2>3, Moves DEF Dies, TypeInv, WorkersOK
    <3>2. Distance["off"] = 0 /\ \A p \in WorkerPcs : p # "off" => Distance[p] > 0
      BY DEF Distance, WorkerPcs, Running, Closing
    <3> QED
      BY <1>1, <2>3, <3>1, <3>2, <2>1 DEF Nearer
  <2>4. ASSUME NEW v \in Workers, v # w, Worker(v) \/ Dies(v) PROVE pc'[w] = pc[w]
    BY <1>1, <2>4, WorkerAlone DEF Alone
  <2>5. ASSUME Supervisor PROVE pc'[w] = pc[w]
    <3>1. ASSUME NEW v \in Workers, Spawns(v) PROVE pc'[w] = pc[w]
      BY <1>1, <3>1 DEF Spawns, TypeInv, WorkersOK
    <3>2. (\E v \in Workers : Spawns(v)) \/ UNCHANGED workers
      BY <2>5
      DEF Supervisor, StartBegins, DropsHealth, StartSucceeds, StartFails, StartEnds,
          StopBegins, LooksAtLease, StopReports, StopLooksAgain, StopTimesOut
    <3> QED
      BY <3>1, <3>2 DEF workers
  <2>6. ASSUME Deploys \/ Passes \/ UNCHANGED vars PROVE pc'[w] = pc[w]
    <3>1. UNCHANGED workers
      BY <2>6 DEF Deploys, Passes, vars
    <3> QED
      BY <3>1 DEF workers
  <2>7. pc'[w] = pc[w] \/ Worker(w) \/ Dies(w)
    <3>1. ASSUME NEW v \in Workers, Worker(v) \/ Dies(v)
          PROVE  pc'[w] = pc[w] \/ Worker(w) \/ Dies(w)
      BY <3>1, <2>4
    <3> QED
      BY <1>1, <3>1, <2>5, <2>6 DEF Next
  <2> QED
    BY <2>1, <2>2, <2>3, <2>7
<1>2. TypeInv /\ [Next]_vars
        => [\A w \in Workers : stopReq /\ stopReq' /\ pc[w] # "off" => Nearer(w)]_vars
  BY <1>1
<1> QED
  BY <1>2, RuntimeInvariant, PTL DEF Spec
=============================================================================
