-------------------------------- MODULE Rpc --------------------------------
(***************************************************************************)
(* What the link promises its caller: while it waits its command, with its *)
(* payload, is executed at most once, and no other is.  A call that can be *)
(* trusted does not return before; damage on a line takes the trust away.  *)
(* The caller may be stopped at any time.                                  *)
(***************************************************************************)
EXTENDS Sequences

CONSTANT Payloads

VARIABLES
    stage,    \* "none" when the tool has been started, "waiting", "returned"
    asked,    \* the payload of the call under way
    runs,     \* what was executed since it was made
    trusted   \* no damage is in the way

rpcVars == <<stage, asked, runs, trusted>>

Init == stage = "none" /\ asked = 0 /\ runs = <<>> /\ trusted = TRUE

\* Trust comes back with a new call or a new start, never in a call.
Regains == trusted => trusted'

Call ==
    /\ stage # "waiting" /\ stage' = "waiting"
    /\ asked' \in Payloads
    /\ runs' = <<>>
    /\ trusted' \in BOOLEAN /\ Regains

Execute ==
    /\ stage = "waiting" /\ runs = <<>>
    /\ runs' = <<asked>>
    /\ UNCHANGED <<stage, asked, trusted>>

Return ==
    /\ stage = "waiting" /\ stage' = "returned"
    /\ trusted => runs = <<asked>>
    /\ asked' = 0
    /\ UNCHANGED <<runs, trusted>>

Damage ==
    /\ stage = "waiting"
    /\ trusted' = FALSE
    /\ UNCHANGED <<stage, asked, runs>>

Stop ==
    /\ stage' = "none" /\ asked' = 0
    /\ trusted' \in BOOLEAN /\ Regains
    /\ UNCHANGED runs

Next == Call \/ Execute \/ Return \/ Damage \/ Stop

Spec == Init /\ [][Next]_rpcVars
=============================================================================
