--------------------------- MODULE ExecutionLease ---------------------------
(***************************************************************************)
(* ExecutionRuntimeLeaseStore (execution_runtime_lease.py) for one         *)
(* environment, shared by several processes through one SQLite file.       *)
(*                                                                         *)
(* It differs from the foundation's store in what tells two grants apart:  *)
(* there is no fencing sequence, only a random token kept as a hash, and   *)
(* the UPDATE of a heartbeat names the environment alone.  A grant is      *)
(* numbered here by the history variable issued; the code compares the     *)
(* numbers for equality only, as it compares tokens.                       *)
(***************************************************************************)
EXTENDS Naturals

CONSTANTS
    Holders,   \* processes that use the store
    TTL,       \* ttl_seconds
    None,      \* no row
    MaxTime,   \* bound on the clock
    MaxGrants  \* bound on the number of grants

ASSUME TTLAssumption == TTL \in Nat \ {0}
ASSUME BoundAssumption == MaxTime \in Nat /\ MaxGrants \in Nat
ASSUME NoneAssumption == None \notin [token : Nat, expires : Nat]

VARIABLES
    now,     \* the clock of the machine
    row,     \* the row of ExecutionRuntimeLeases
    claim,   \* claim[h]: token of the claim h keeps, 0 for None
    call,    \* call[h]: the call h is in the middle of
    since,   \* since[h]: when that call read the clock
    issued   \* history: number of grants

callers   == <<claim, call, since>>
leaseVars == <<now, row, callers, issued>>

Calls == {"none", "acquire", "heartbeat", "release"}

LeaseTypeOK ==
    /\ now \in 0..MaxTime
    /\ row \in [token : 1..MaxGrants, expires : Nat] \union {None}
    /\ claim \in [Holders -> 0..MaxGrants]
    /\ call \in [Holders -> Calls]
    /\ since \in [Holders -> 0..MaxTime]
    /\ issued \in 0..MaxGrants

LeaseInit ==
    /\ now = 0
    /\ row = None
    /\ claim = [h \in Holders |-> 0]
    /\ call = [h \in Holders |-> "none"]
    /\ since = [h \in Holders |-> 0]
    /\ issued = 0

Active == row # None /\ row.expires > now

\* What assert_authority checks.
Valid(h) == Active /\ row.token = claim[h]

Owns(h) == row # None /\ row.token = claim[h]

-----------------------------------------------------------------------------
\* The call starts, and reads the clock.
Begin(h, name) ==
    /\ call[h] = "none"
    /\ call' = [call EXCEPT ![h] = name]
    /\ since' = [since EXCEPT ![h] = now]
    /\ UNCHANGED <<now, row, claim, issued>>

Return(h) ==
    /\ call' = [call EXCEPT ![h] = "none"]
    /\ since' = [since EXCEPT ![h] = 0]

AcquireBegin(h) == claim[h] = 0 /\ Begin(h, "acquire")

\* BEGIN IMMEDIATE, no row or one that had expired when the clock was read,
\* and the upsert with a new token.
AcquireGranted(h) ==
    /\ call[h] = "acquire"
    /\ row # None => row.expires <= since[h]
    /\ issued < MaxGrants
    /\ issued' = issued + 1
    /\ row' = [token |-> issued + 1, expires |-> since[h] + TTL]
    /\ claim' = [claim EXCEPT ![h] = issued + 1]
    /\ Return(h)
    /\ UNCHANGED now

\* PermissionError: "Execution authority is already held".
AcquireRefused(h) ==
    /\ call[h] = "acquire"
    /\ row # None
    /\ row.expires > since[h]
    /\ Return(h)
    /\ UNCHANGED <<now, row, claim, issued>>

\* heartbeat raises PermissionError unless this is enabled.
HeartbeatAssert(h) == Valid(h) /\ Begin(h, "heartbeat")

\* Mutant: the term is added to what is left of the old one.
HeartbeatAddsTerm(h) ==
    /\ call[h] = "heartbeat"
    /\ row' = IF row = None THEN None ELSE [row EXCEPT !.expires = @ + TTL]
    /\ Return(h)
    /\ UNCHANGED <<now, claim, issued>>

\* Mutant: the row is written as a whole, and so with the caller's token.
HeartbeatUpserts(h) ==
    /\ call[h] = "heartbeat"
    /\ \E t \in since[h]..now : row' = [token |-> claim[h], expires |-> t + TTL]
    /\ Return(h)
    /\ UNCHANGED <<now, claim, issued>>

\* UPDATE ... WHERE environment = ?: whatever row there is by now, its own or
\* a successor's, gets a new term.  The clock is read after the assertion.
HeartbeatUpdate(h) ==
    /\ call[h] = "heartbeat"
    /\ \E t \in since[h]..now :
        row' = IF row = None THEN None ELSE [row EXCEPT !.expires = t + TTL]
    /\ Return(h)
    /\ UNCHANGED <<now, claim, issued>>

ReleaseAssert(h) == Valid(h) /\ Begin(h, "release")

\* DELETE ... WHERE environment = ? AND tokenHash = ?
ReleaseDelete(h) ==
    /\ call[h] = "release"
    /\ row' = IF Owns(h) THEN None ELSE row
    /\ claim' = [claim EXCEPT ![h] = 0]
    /\ Return(h)
    /\ UNCHANGED <<now, issued>>

\* The process ends, or drops a claim whose release was refused.
Forget(h) ==
    /\ claim' = [claim EXCEPT ![h] = 0]
    /\ Return(h)
    /\ UNCHANGED <<now, row, issued>>

Tick ==
    /\ now < MaxTime
    /\ now' = now + 1
    /\ UNCHANGED <<row, callers, issued>>

LeaseNext ==
    \/ \E h \in Holders :
        \/ AcquireBegin(h)
        \/ AcquireGranted(h)
        \/ AcquireRefused(h)
        \/ HeartbeatAssert(h)
        \/ HeartbeatUpdate(h)
        \/ ReleaseAssert(h)
        \/ ReleaseDelete(h)
        \/ Forget(h)
    \/ Tick

LeaseSpec == LeaseInit /\ [][LeaseNext]_leaseVars

-----------------------------------------------------------------------------
\* assert_authority accepts at most one process at a time, although a process
\* that stalled keeps its claim and its heartbeat may write to any row.
SingleAuthority == \A g, h \in Holders : Valid(g) /\ Valid(h) => g = h

\* A process that dies, or that ends without releasing, blocks the others for
\* one term at most, counted from any moment: no heartbeat, however late or
\* misdirected, dates a term in the future.
LockoutBounded == row # None => row.expires <= now + TTL

\* The store implements the abstract lease, misdirected heartbeats included:
\* one that meets a successor's row can only lapse or revive that grant.
Promise ==
    INSTANCE RoleLease WITH
        state <- IF row = None THEN "free" ELSE IF Active THEN "held" ELSE "lapsed"

ImplementsRoleLease == Promise!Spec
=============================================================================
