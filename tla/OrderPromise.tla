---------------------------- MODULE OrderPromise ----------------------------
(***************************************************************************)
(* What an order path promises for every signal ("Exactly-Once Order       *)
(* Intent", docs/superpowers/specs/2026-07-12-unified-auto-execution-demo- *)
(* live-design.md, section 8), without callers, queries or restarts: the   *)
(* intent is durable before anything is sent, it is sent at most once, and *)
(* so the market holds at most one order for it, which ends once.          *)
(***************************************************************************)
EXTENDS Naturals

CONSTANT Signals

VARIABLES
    intended,  \* signals with a durable intent
    sends,     \* sends[s]: placement requests sent for s
    market     \* market[s]: "none", "open" or "done"

promiseVars == <<intended, sends, market>>

Init ==
    /\ intended = {}
    /\ sends = [s \in Signals |-> 0]
    /\ market = [s \in Signals |-> "none"]

Intend ==
    /\ \E s \in Signals : intended' = intended \union {s}
    /\ UNCHANGED <<sends, market>>

Send ==
    /\ \E s \in intended : sends[s] = 0 /\ sends' = [sends EXCEPT ![s] = 1]
    /\ UNCHANGED <<intended, market>>

\* The order of a signal appears, or ends.
Advances(s) ==
    \/ market'[s] = market[s]
    \/ sends[s] = 1 /\ market[s] = "none" /\ market'[s] = "open"
    \/ market[s] = "open" /\ market'[s] = "done"

Trade ==
    /\ market' \in [Signals -> {"none", "open", "done"}]
    /\ \A s \in Signals : Advances(s)
    /\ UNCHANGED <<intended, sends>>

Next == Intend \/ Send \/ Trade

Spec == Init /\ [][Next]_promiseVars
=============================================================================
