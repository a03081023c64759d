------------------------- MODULE FoundationRuntime -------------------------
(***************************************************************************)
(* The headless role processes of server_foundation: FoundationWorker      *)
(* (worker.py) with its lease, its checkpoint (checkpoint.py) and its      *)
(* health file, and the start and stop commands of FoundationSupervisor    *)
(* (supervisor.py), which cli.py runs in processes of their own.           *)
(*                                                                         *)
(* One role is modelled: roles share nothing but the manifest.  Workers    *)
(* are the holders of FoundationLease.  A process can stall anywhere, or   *)
(* die anywhere, while the files and the lease table stay.                 *)
(***************************************************************************)
EXTENDS FoundationLease

CONSTANTS
    Stopped,      \* a health file that says stopped
    MaxAge,       \* maximum_age_seconds of a health check
    MaxCycles,    \* bound on the cycle count
    MaxManifests  \* bound on the number of deployed manifests

ASSUME StoppedAssumption ==
    Stopped # None /\ Stopped \notin [at : Nat, fence : Nat, ident : Nat, cycle : Nat]
ASSUME AgeAssumption == MaxAge \in Nat /\ MaxAge < TTL
ASSUME RuntimeBoundAssumption == MaxCycles \in Nat /\ MaxManifests \in Nat \ {0}

VARIABLES
    \* Files.
    ckpt,      \* checkpoints/<role>.checkpoint.json
    tmp,       \* the temporary file every writer of ckpt goes through
    health,    \* roles/<role>/health.json
    draft,     \* the temporary file every writer of health goes through
    stopReq,   \* roles/<role>/stop.request exists
    manifest,  \* the manifest on disk
    \* Worker processes.
    pc,        \* where the process is
    ident,     \* the manifest it was started with
    cycle,     \* self.cycle_count
    \* Supervisor processes.
    starter,   \* where the start command is
    child,     \* the process it spawned
    stopper,   \* where the stop command is
    sawLease,  \* the stop command found the role's lease active
    \* History.
    granted,   \* granted[f]: when the lease of token f was granted
    published  \* published[m]: the highest cycle a health file reported under m

files      == <<ckpt, tmp, health, draft, stopReq, manifest>>
workers    == <<pc, ident, cycle>>
supervisor == <<starter, child, stopper, sawLease>>
history    == <<granted, published>>
vars       == <<leaseVars, files, workers, supervisor, history>>

Workers   == Holders
Manifests == 1..MaxManifests

Checkpoint == [fence : 1..MaxTokens, cycle : 0..MaxCycles, ident : Manifests]
Healthy    ==
    [at : 0..MaxTime, fence : 1..MaxTokens, ident : Manifests, cycle : 0..MaxCycles]

Running == {"resume", "archive", "write", "replace", "report", "publish"}
Closing == {"close", "delete", "farewell", "bury", "last"}
WorkerPcs == {"off", "boot", "loop", "acquire", "beat"} \union Running \union Closing

RuntimeTypeOK ==
    /\ LeaseTypeOK
    /\ ckpt \in Checkpoint \union {None}
    /\ tmp \in Checkpoint \union {None}
    /\ health \in Healthy \union {Stopped, None}
    /\ draft \in Healthy \union {Stopped, None}
    /\ stopReq \in BOOLEAN
    /\ manifest \in Manifests
    /\ pc \in [Workers -> WorkerPcs]
    /\ ident \in [Workers -> Manifests]
    /\ cycle \in [Workers -> 0..MaxCycles]
    /\ starter \in {"idle", "clean", "spawn", "watch", "undone"}
    /\ child \in Workers \union {None}
    /\ stopper \in {"idle", "lease", "health"}
    /\ sawLease \in BOOLEAN
    /\ granted \in [1..MaxTokens -> 0..MaxTime]
    /\ published \in [Manifests -> 0..MaxCycles]

Init ==
    /\ LeaseInit
    /\ ckpt = None
    /\ tmp = None
    /\ health = None
    /\ draft = None
    /\ stopReq = FALSE
    /\ manifest = 1
    /\ pc = [w \in Workers |-> "off"]
    /\ ident = [w \in Workers |-> 1]
    /\ cycle = [w \in Workers |-> 0]
    /\ starter = "idle"
    /\ child = None
    /\ stopper = "idle"
    /\ sawLease = FALSE
    /\ granted = [f \in 1..MaxTokens |-> 0]
    /\ published = [m \in Manifests |-> 0]

Goto(w, p) == pc' = [pc EXCEPT ![w] = p] /\ UNCHANGED <<ident, cycle>>

\* The process is gone.
Exit(w) ==
    /\ pc' = [pc EXCEPT ![w] = "off"]
    /\ ident' = [ident EXCEPT ![w] = 1]
    /\ cycle' = [cycle EXCEPT ![w] = 0]

-----------------------------------------------------------------------------
(* FoundationWorker.run_forever                                            *)

\* A stop request that is there when the loop is entered is thrown away.
Boot(w) ==
    /\ pc[w] = "boot"
    /\ stopReq' = FALSE
    /\ Goto(w, "loop")
    /\ UNCHANGED <<leaseVars, ckpt, tmp, health, draft, manifest, supervisor, history>>

\* Mutant: the request is only looked for while the lease is held.
StopSeenInLease(w) ==
    /\ pc[w] = "loop"
    /\ stopReq
    /\ Valid(w)
    /\ Goto(w, "close")
    /\ UNCHANGED <<leaseVars, files, supervisor, history>>

StopSeen(w) ==
    /\ pc[w] = "loop"
    /\ stopReq
    /\ Goto(w, "close")
    /\ UNCHANGED <<leaseVars, files, supervisor, history>>

\* The first run_once acquires the lease.
FirstCycle(w) ==
    /\ pc[w] = "loop"
    /\ ~stopReq
    /\ AcquireBegin(w)
    /\ Goto(w, "acquire")
    /\ UNCHANGED <<files, supervisor, history>>

AcquiresLease(w) ==
    /\ pc[w] = "acquire"
    /\ AcquireGranted(w)
    /\ granted' = [granted EXCEPT ![seq + 1] = now]
    /\ Goto(w, "resume")
    /\ UNCHANGED <<files, supervisor, published>>

\* Without a claim close() returns at once: the process just exits.
LeaseRefused(w) ==
    /\ pc[w] = "acquire"
    /\ AcquireRefused(w)
    /\ Exit(w)
    /\ UNCHANGED <<files, supervisor, history>>

\* The later ones renew it.
NextCycle(w) ==
    /\ pc[w] = "loop"
    /\ ~stopReq
    /\ claim[w] # 0
    /\ HeartbeatAssert(w)
    /\ Goto(w, "beat")
    /\ UNCHANGED <<files, supervisor, history>>

\* PermissionError leaves run_forever; cli.py closes the worker.
Fenced(w) ==
    /\ pc[w] = "loop"
    /\ ~stopReq
    /\ claim[w] # 0
    /\ ~Valid(w)
    /\ Goto(w, "close")
    /\ UNCHANGED <<leaseVars, files, supervisor, history>>

RenewsLease(w) ==
    /\ pc[w] = "beat"
    /\ HeartbeatUpdate(w)
    /\ Goto(w, "write")
    /\ UNCHANGED <<files, supervisor, history>>

-----------------------------------------------------------------------------
(* run_once: the checkpoint to resume from.                                *)

\* load_for_resume: same identity, and a token before the one just granted.
Resumes(w) ==
    /\ pc[w] = "resume"
    /\ ckpt # None
    /\ ckpt.ident = ident[w]
    /\ ckpt.fence < claim[w]
    /\ cycle' = [cycle EXCEPT ![w] = ckpt.cycle]
    /\ pc' = [pc EXCEPT ![w] = "write"]
    /\ UNCHANGED <<leaseVars, files, ident, supervisor, history>>

\* "checkpoint_fencing_token_is_not_prior"
ResumeRefused(w) ==
    /\ pc[w] = "resume"
    /\ ckpt # None
    /\ ckpt.ident = ident[w]
    /\ ckpt.fence >= claim[w]
    /\ Goto(w, "close")
    /\ UNCHANGED <<leaseVars, files, supervisor, history>>

\* FileNotFoundError: nothing to resume.
StartsFresh(w) ==
    /\ pc[w] = "resume"
    /\ ckpt = None
    /\ Goto(w, "write")
    /\ UNCHANGED <<leaseVars, files, supervisor, history>>

\* The checkpoint is of another manifest: it is to be put aside.
Superseded(w) ==
    /\ pc[w] = "resume"
    /\ ckpt # None
    /\ ckpt.ident # ident[w]
    /\ Goto(w, "archive")
    /\ UNCHANGED <<leaseVars, files, supervisor, history>>

\* archive_superseded moves whatever the file holds by now; if it is gone the
\* worker closes.
Archives(w) ==
    /\ pc[w] = "archive"
    /\ ckpt' = None
    /\ Goto(w, IF ckpt = None THEN "close" ELSE "write")
    /\ UNCHANGED <<leaseVars, tmp, health, draft, stopReq, manifest, supervisor,
                   history>>

-----------------------------------------------------------------------------
(* run_once: the checkpoint and the health file are published.             *)

\* write_text of the temporary file, which all writers share.
WritesTemporary(w) ==
    /\ pc[w] = "write"
    /\ cycle[w] < MaxCycles
    /\ cycle' = [cycle EXCEPT ![w] = @ + 1]
    /\ tmp' = [fence |-> claim[w], cycle |-> cycle[w] + 1, ident |-> ident[w]]
    /\ pc' = [pc EXCEPT ![w] = "replace"]
    /\ UNCHANGED <<leaseVars, ckpt, health, draft, stopReq, manifest, ident,
                   supervisor, history>>

\* os.replace: it fails if another writer has moved the file away.
ReplacesCheckpoint(w) ==
    /\ pc[w] = "replace"
    /\ IF tmp = None
       THEN Goto(w, "close") /\ UNCHANGED ckpt
       ELSE Goto(w, "report") /\ ckpt' = tmp
    /\ tmp' = None
    /\ UNCHANGED <<leaseVars, health, draft, stopReq, manifest, supervisor, history>>

\* os.replace(draft, health): whatever some writer has put into the draft.
PublishDraft ==
    /\ health' = IF draft = None THEN health ELSE draft
    /\ draft' = None
    /\ published' = IF draft \in {None, Stopped} \/ draft.cycle <= published[draft.ident]
                    THEN published
                    ELSE [published EXCEPT ![draft.ident] = draft.cycle]
    /\ UNCHANGED <<leaseVars, ckpt, tmp, stopReq, manifest, supervisor, granted>>

\* Mutant: the heartbeat time is that of the write.
ReportsLate(w) ==
    /\ pc[w] = "report"
    /\ draft' = [at |-> now, fence |-> claim[w], ident |-> ident[w], cycle |-> cycle[w]]
    /\ Goto(w, "publish")
    /\ UNCHANGED <<leaseVars, ckpt, tmp, health, stopReq, manifest, supervisor,
                   history>>

\* lastHeartbeatAt is the time at which this cycle began.
WritesReport(w) ==
    /\ pc[w] = "report"
    /\ draft' = [at |-> since[w], fence |-> claim[w], ident |-> ident[w], cycle |-> cycle[w]]
    /\ Goto(w, "publish")
    /\ UNCHANGED <<leaseVars, ckpt, tmp, health, stopReq, manifest, supervisor,
                   history>>

\* If the draft is gone, os.replace raises and the worker closes.
PublishesReport(w) ==
    /\ pc[w] = "publish"
    /\ PublishDraft
    /\ Goto(w, IF draft = None THEN "close" ELSE "loop")

-----------------------------------------------------------------------------
(* FoundationWorker.close                                                  *)

Closes(w) ==
    /\ pc[w] = "close"
    /\ \/ claim[w] # 0 /\ ReleaseAssert(w) /\ Goto(w, "delete")
       \/ claim[w] # 0 /\ ~Valid(w) /\ Forget(w) /\ Goto(w, "farewell")
       \/ claim[w] = 0 /\ UNCHANGED leaseVars /\ Exit(w)
    /\ UNCHANGED <<files, supervisor, history>>

ReleasesLease(w) ==
    /\ pc[w] = "delete"
    /\ ReleaseDelete(w)
    /\ Goto(w, "farewell")
    /\ UNCHANGED <<files, supervisor, history>>

\* The health file, whoever wrote it last, is read ...
LooksForHealth(w) ==
    /\ pc[w] = "farewell"
    /\ IF health = None THEN Exit(w) ELSE Goto(w, "bury")
    /\ UNCHANGED <<leaseVars, files, supervisor, history>>

\* ... and written back as stopped.
WritesStopped(w) ==
    /\ pc[w] = "bury"
    /\ draft' = Stopped
    /\ Goto(w, "last")
    /\ UNCHANGED <<leaseVars, ckpt, tmp, health, stopReq, manifest, supervisor,
                   history>>

MarksStopped(w) ==
    /\ pc[w] = "last"
    /\ PublishDraft
    /\ Exit(w)

\* The process is killed.
Dies(w) ==
    /\ pc[w] # "off"
    /\ Forget(w)
    /\ Exit(w)
    /\ UNCHANGED <<files, supervisor, history>>

-----------------------------------------------------------------------------
(* FoundationSupervisor.start                                              *)

StartBegins ==
    /\ starter = "idle"
    /\ stopReq' = FALSE
    /\ starter' = "clean"
    /\ UNCHANGED <<leaseVars, ckpt, tmp, health, draft, manifest, workers, child,
                   stopper, sawLease, history>>

DropsHealth ==
    /\ starter = "clean"
    /\ health' = None
    /\ starter' = "spawn"
    /\ UNCHANGED <<leaseVars, ckpt, tmp, draft, stopReq, manifest, workers, child,
                   stopper, sawLease, history>>

Spawns(w) ==
    /\ starter = "spawn"
    /\ pc[w] = "off"
    /\ pc' = [pc EXCEPT ![w] = "boot"]
    /\ ident' = [ident EXCEPT ![w] = manifest]
    /\ child' = w
    /\ starter' = "watch"
    /\ UNCHANGED <<leaseVars, files, cycle, stopper, sawLease, history>>

\* What health() calls healthy.
LooksHealthy ==
    /\ health \notin {None, Stopped}
    /\ health.ident = manifest
    /\ now <= health.at + MaxAge

StartSucceeds ==
    /\ starter = "watch"
    /\ pc[child] # "off"
    /\ LooksHealthy
    /\ starter' = "idle"
    /\ child' = None
    /\ UNCHANGED <<leaseVars, files, workers, stopper, sawLease, history>>

\* The child has exited, or took too long: start calls stop and raises.
StartFails ==
    /\ starter = "watch"
    /\ stopReq' = TRUE
    /\ starter' = "undone"
    /\ UNCHANGED <<leaseVars, ckpt, tmp, health, draft, manifest, workers, child,
                   stopper, sawLease, history>>

\* The command ends: after that stop, or because somebody interrupted it.
StartEnds ==
    /\ starter # "idle"
    /\ starter' = "idle"
    /\ child' = None
    /\ UNCHANGED <<leaseVars, files, workers, stopper, sawLease, history>>

-----------------------------------------------------------------------------
(* FoundationSupervisor.stop, in a process that spawned no worker.         *)

StopBegins ==
    /\ stopper = "idle"
    /\ stopReq' = TRUE
    /\ stopper' = "lease"
    /\ UNCHANGED <<leaseVars, ckpt, tmp, health, draft, manifest, workers, starter,
                   child, sawLease, history>>

\* Each round looks at the leases first ...
LooksAtLease ==
    /\ stopper = "lease"
    /\ sawLease' = Active
    /\ stopper' = "health"
    /\ UNCHANGED <<leaseVars, files, workers, starter, child, history>>

\* ... and then at the health file.
StopReports ==
    /\ stopper = "health"
    /\ IF health = None THEN ~sawLease ELSE health = Stopped
    /\ stopper' = "idle"
    /\ sawLease' = FALSE
    /\ UNCHANGED <<leaseVars, files, workers, starter, child, history>>

StopLooksAgain ==
    /\ stopper = "health"
    /\ IF health = None THEN sawLease ELSE health # Stopped
    /\ stopper' = "lease"
    /\ sawLease' = FALSE
    /\ UNCHANGED <<leaseVars, files, workers, starter, child, history>>

StopTimesOut ==
    /\ stopper # "idle"
    /\ stopper' = "idle"
    /\ sawLease' = FALSE
    /\ UNCHANGED <<leaseVars, files, workers, starter, child, history>>

\* A new manifest is put in place; running processes keep theirs.
Deploys ==
    /\ manifest < MaxManifests
    /\ manifest' = manifest + 1
    /\ UNCHANGED <<leaseVars, ckpt, tmp, health, draft, stopReq, workers,
                   supervisor, history>>

Passes ==
    /\ Tick
    /\ UNCHANGED <<files, workers, supervisor, history>>

-----------------------------------------------------------------------------
Loop(w) ==
    \/ Boot(w)
    \/ StopSeen(w)
    \/ FirstCycle(w)
    \/ AcquiresLease(w)
    \/ LeaseRefused(w)
    \/ NextCycle(w)
    \/ Fenced(w)
    \/ RenewsLease(w)

Publish(w) ==
    \/ Resumes(w)
    \/ ResumeRefused(w)
    \/ StartsFresh(w)
    \/ Superseded(w)
    \/ Archives(w)
    \/ WritesTemporary(w)
    \/ ReplacesCheckpoint(w)
    \/ WritesReport(w)
    \/ PublishesReport(w)

Close(w) ==
    \/ Closes(w)
    \/ ReleasesLease(w)
    \/ LooksForHealth(w)
    \/ WritesStopped(w)
    \/ MarksStopped(w)

Worker(w) == Loop(w) \/ Publish(w) \/ Close(w)

Supervisor ==
    \/ StartBegins
    \/ DropsHealth
    \/ \E w \in Workers : Spawns(w)
    \/ StartSucceeds
    \/ StartFails
    \/ StartEnds
    \/ StopBegins
    \/ LooksAtLease
    \/ StopReports
    \/ StopLooksAgain
    \/ StopTimesOut

Next ==
    \/ \E w \in Workers : Worker(w) \/ Dies(w)
    \/ Supervisor
    \/ Deploys
    \/ Passes

Spec == Init /\ [][Next]_vars

-----------------------------------------------------------------------------
\* A worker is only refused its own checkpoint ("token is not prior") when it
\* stalled for so long that a later worker has taken its lease.
RefusalMeansSuperseded ==
    \A w \in Workers :
        (/\ pc[w] = "resume"
         /\ ckpt # None
         /\ ckpt.ident = ident[w]
         /\ ckpt.fence >= claim[w]) => claim[w] < seq

\* A heartbeat that touched no row is not noticed, so a worker may report one
\* more cycle after its lease was taken over.  But no cycle that began after
\* the takeover is ever reported: the report looks healthy for MaxAge at most.
HealthPredatesTakeover ==
    health \notin {None, Stopped} /\ health.fence < seq
        => health.at <= granted[health.fence + 1]

\* The processes are scheduled, and a round of the loop ends.
WorkerFairness == \A w \in Workers : WF_vars(Worker(w))

LiveSpec == Spec /\ WorkerFairness

\* The bounds of the model keep the worker from going on.
AtBound(w) ==
    \/ pc[w] = "write" /\ cycle[w] = MaxCycles
    \/ pc[w] = "acquire" /\ seq = MaxTokens

\* A worker that runs while a stop is requested stops, from wherever it is in
\* its cycle and whether or not it still has its lease, unless the request is
\* taken back (by a start command, or by another worker that boots).
StopIsHonoured ==
    \A w \in Workers :
        (stopReq /\ pc[w] \notin {"off", "boot"})
            ~> (pc[w] = "off" \/ ~stopReq \/ AtBound(w))

=============================================================================
