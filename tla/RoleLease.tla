----------------------------- MODULE RoleLease -----------------------------
(***************************************************************************)
(* What the runtime leases of server_foundation/lease.py promise to the    *)
(* processes of one (environment, role), without rows, clocks or calls:    *)
(* every grant has a token above all earlier ones, nothing is granted      *)
(* while a lease is held, and only the latest token is ever in authority.  *)
(***************************************************************************)
EXTENDS Naturals

VARIABLES
    issued,   \* the latest token, 0 if none was ever granted
    state     \* of the lease of that token

leaseVars == <<issued, state>>

Init == issued = 0 /\ state = "free"

\* A grant may be stillborn: its term is counted from before it was made.
Grant ==
    /\ state # "held"
    /\ issued' = issued + 1
    /\ state' \in {"held", "lapsed"}

Lapse == state = "held" /\ state' = "lapsed" /\ UNCHANGED issued

\* A late renewal revives a lease that nobody took over meanwhile.
Revive == state = "lapsed" /\ state' = "held" /\ UNCHANGED issued

Release == state # "free" /\ state' = "free" /\ UNCHANGED issued

Next == Grant \/ Lapse \/ Revive \/ Release

Spec == Init /\ [][Next]_leaseVars
=============================================================================
