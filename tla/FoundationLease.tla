-------------------------- MODULE FoundationLease --------------------------
(***************************************************************************)
(* FoundationLeaseStore (server_foundation/lease.py) for one environment   *)
(* and role, shared by several processes through one SQLite file.          *)
(*                                                                         *)
(* acquire is one BEGIN IMMEDIATE transaction, but it reads the clock      *)
(* before it gets the write lock.  heartbeat and release read the row in   *)
(* assert_authority and change it in a later transaction.  Each of these   *)
(* gaps is a pair of steps here, and any other process may come between.   *)
(*                                                                         *)
(* leaseId, ownerId, the token's hash and the fencing token are fresh      *)
(* together in every grant, so the fencing token stands for all four.      *)
(***************************************************************************)
EXTENDS Naturals

CONSTANTS
    Holders,    \* processes that use the store
    TTL,        \* ttl_seconds
    None,       \* no row
    MaxTime,    \* bound on the clock
    MaxTokens   \* bound on the number of grants

ASSUME TTLAssumption == TTL \in Nat \ {0}
ASSUME BoundAssumption == MaxTime \in Nat /\ MaxTokens \in Nat
ASSUME NoneAssumption == None \notin [fence : Nat, expires : Nat]

VARIABLES
    now,    \* the clock of the machine
    seq,    \* FoundationLeaseSequences.lastFencingToken
    row,    \* the row of FoundationRuntimeLeases
    claim,  \* claim[h]: fencing token of the claim h keeps, 0 for None
    call,   \* call[h]: the call h is in the middle of
    since   \* since[h]: when that call, or the last one, read the clock

tables    == <<seq, row>>
callers   == <<claim, call, since>>
leaseVars == <<now, tables, callers>>

Lease == [fence : 1..MaxTokens, expires : Nat]
Calls == {"none", "acquire", "heartbeat", "release"}

LeaseTypeOK ==
    /\ now \in 0..MaxTime
    /\ seq \in 0..MaxTokens
    /\ row \in Lease \union {None}
    /\ claim \in [Holders -> 0..MaxTokens]
    /\ call \in [Holders -> Calls]
    /\ since \in [Holders -> 0..MaxTime]

LeaseInit ==
    /\ now = 0
    /\ seq = 0
    /\ row = None
    /\ claim = [h \in Holders |-> 0]
    /\ call = [h \in Holders |-> "none"]
    /\ since = [h \in Holders |-> 0]

Active == row # None /\ row.expires > now

\* What assert_authority checks.
Valid(h) == Active /\ row.fence = claim[h]

Owns(h) == row # None /\ row.fence = claim[h]

-----------------------------------------------------------------------------
\* The call starts, and reads the clock.
Begin(h, name) ==
    /\ call[h] = "none"
    /\ call' = [call EXCEPT ![h] = name]
    /\ since' = [since EXCEPT ![h] = now]
    /\ UNCHANGED <<now, tables, claim>>

Finish(h) == call' = [call EXCEPT ![h] = "none"]

\* The call is over, and its clock reading is of no further use.
Return(h) == Finish(h) /\ since' = [since EXCEPT ![h] = 0]

AcquireBegin(h) == claim[h] = 0 /\ Begin(h, "acquire")

\* Mutant: the existing row is not looked at.
AcquireOverwrites(h) ==
    /\ call[h] = "acquire"
    /\ seq < MaxTokens
    /\ seq' = seq + 1
    /\ row' = [fence |-> seq + 1, expires |-> since[h] + TTL]
    /\ claim' = [claim EXCEPT ![h] = seq + 1]
    /\ Finish(h)
    /\ UNCHANGED <<now, since>>

\* Mutant: the next token is derived from the row, which a release deletes.
AcquireNumbersRow(h) ==
    /\ call[h] = "acquire"
    /\ row # None => row.expires <= since[h]
    /\ seq < MaxTokens
    /\ seq' = IF row = None THEN 1 ELSE row.fence + 1
    /\ row' = [fence |-> seq', expires |-> since[h] + TTL]
    /\ claim' = [claim EXCEPT ![h] = seq']
    /\ Finish(h)
    /\ UNCHANGED <<now, since>>

\* Mutant: a takeover of an expired row keeps its token.
AcquireKeepsToken(h) ==
    /\ call[h] = "acquire"
    /\ row # None => row.expires <= since[h]
    /\ seq < MaxTokens
    /\ seq' = IF row = None THEN seq + 1 ELSE seq
    /\ row' = [fence |-> seq', expires |-> since[h] + TTL]
    /\ claim' = [claim EXCEPT ![h] = seq']
    /\ Finish(h)
    /\ UNCHANGED <<now, since>>

AcquireGranted(h) ==
    /\ call[h] = "acquire"
    /\ row # None => row.expires <= since[h]
    /\ seq < MaxTokens
    /\ seq' = seq + 1
    /\ row' = [fence |-> seq + 1, expires |-> since[h] + TTL]
    /\ claim' = [claim EXCEPT ![h] = seq + 1]
    /\ Finish(h)
    /\ UNCHANGED <<now, since>>

\* PermissionError: the scope is owned.
AcquireRefused(h) ==
    /\ call[h] = "acquire"
    /\ row # None
    /\ row.expires > since[h]
    /\ Return(h)
    /\ UNCHANGED <<now, tables, claim>>

\* heartbeat and release raise PermissionError unless this is enabled.
HeartbeatAssert(h) == Valid(h) /\ Begin(h, "heartbeat")

\* Mutant: UPDATE ... WHERE environment = ? AND role = ?
HeartbeatUnfenced(h) ==
    /\ call[h] = "heartbeat"
    /\ \E t \in since[h]..now :
        row' = IF row # None THEN [row EXCEPT !.expires = t + TTL] ELSE row
    /\ Finish(h)
    /\ UNCHANGED <<now, seq, claim, since>>

\* UPDATE ... AND fencingToken = ?: it may touch no row, and heartbeat does
\* not look.  The clock is read again after assert_authority.
HeartbeatUpdate(h) ==
    /\ call[h] = "heartbeat"
    /\ \E t \in since[h]..now :
        row' = IF Owns(h) THEN [row EXCEPT !.expires = t + TTL] ELSE row
    /\ Finish(h)
    /\ UNCHANGED <<now, seq, claim, since>>

ReleaseAssert(h) == Valid(h) /\ Begin(h, "release")

\* DELETE ... AND tokenHash = ?
ReleaseDelete(h) ==
    /\ call[h] = "release"
    /\ row' = IF Owns(h) THEN None ELSE row
    /\ claim' = [claim EXCEPT ![h] = 0]
    /\ Return(h)
    /\ UNCHANGED <<now, seq>>

\* The process ends, or drops its claim without releasing it.
Forget(h) ==
    /\ claim' = [claim EXCEPT ![h] = 0]
    /\ Return(h)
    /\ UNCHANGED <<now, tables>>

Tick ==
    /\ now < MaxTime
    /\ now' = now + 1
    /\ UNCHANGED <<tables, callers>>

LeaseNext ==
    \/ \E h \in Holders :
        \/ AcquireBegin(h)
        \/ AcquireGranted(h)
        \/ AcquireRefused(h)
        \/ HeartbeatAssert(h)
        \/ HeartbeatUpdate(h)
        \/ ReleaseAssert(h)
        \/ ReleaseDelete(h)
        \/ Forget(h)
    \/ Tick

LeaseSpec == LeaseInit /\ [][LeaseNext]_leaseVars

-----------------------------------------------------------------------------
\* assert_authority accepts at most one process at a time, although a process
\* that stalled keeps its claim for as long as it likes.
SingleAuthority == \A g, h \in Holders : Valid(g) /\ Valid(h) => g = h

\* A grant is extended by the process it was made to and by nobody else,
\* whatever happened between that process's assertion and its UPDATE.
OnlyHolderExtends ==
    [][row # None /\ row' # None /\ row'.fence = row.fence /\ row' # row
        => \E h \in Holders : claim[h] = row.fence /\ call[h] = "heartbeat"]_row

\* The store implements the abstract lease.
Promise ==
    INSTANCE RoleLease WITH
        issued <- seq,
        state  <- IF row = None THEN "free" ELSE IF Active THEN "held" ELSE "lapsed"

ImplementsRoleLease == Promise!Spec
=============================================================================
