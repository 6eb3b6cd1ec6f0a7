---------------------------- MODULE AbortContract ----------------------------
(***************************************************************************)
(* What an operator may rely on when he sends "abort", without threads,    *)
(* queues or flags.  Commands write the board as they like while the       *)
(* computer is serving, and may still do so for a moment after the abort   *)
(* was sent.  Then no command is left, only the abort writes, and only     *)
(* towards the safe level; and when the computer serves again every valve  *)
(* is at its safe level, unless the device refused the latest write to it. *)
(***************************************************************************)
EXTENDS Valves

VARIABLES
    phase,       \* "serving", "draining" or "securing"
    busy,        \* some command is queued or under way
    reg,         \* the levels on the lines
    missed       \* the registers whose latest write the device refused

vars == <<phase, busy, reg, missed>>

\* V11_NO and V38_NO are shut, everything else is de-energised.
SafeLevel(v) == IF v \in {"V11_NO", "V38_NO"} THEN 0 ELSE 1

Secure == \A v \in Valve \ missed : reg[v] = SafeLevel(v)

Init ==
    /\ phase = "serving" /\ busy = FALSE /\ missed = {}
    /\ reg \in [Register -> Level]

Put(r, level) ==
    \/ reg' = [reg EXCEPT ![r] = level] /\ missed' = missed \ {r}
    \/ reg' = reg /\ missed' = missed \cup {r}

Accept ==
    /\ phase = "serving" /\ busy' = TRUE
    /\ UNCHANGED <<phase, reg, missed>>

CommandWrite ==
    /\ busy /\ phase # "securing"
    /\ \E r \in Register, level \in Level : Put(r, level)
    /\ UNCHANGED <<phase, busy>>

LastCommandEnds ==
    /\ phase # "securing" /\ busy' = FALSE
    /\ UNCHANGED <<phase, reg, missed>>

Request ==
    /\ phase = "serving" /\ phase' = "draining"
    /\ UNCHANGED <<busy, reg, missed>>

Drained ==
    /\ phase = "draining" /\ phase' = "securing" /\ busy' = FALSE
    /\ UNCHANGED <<reg, missed>>

SecureWrite ==
    /\ phase = "securing"
    /\ \E v \in Valve : Put(v, SafeLevel(v))
    /\ UNCHANGED <<phase, busy>>

Resume ==
    /\ phase = "securing" /\ Secure /\ phase' = "serving"
    /\ UNCHANGED <<busy, reg, missed>>

Next == \/ Accept \/ CommandWrite \/ LastCommandEnds
        \/ Request \/ Drained \/ SecureWrite \/ Resume

Spec == Init /\ [][Next]_vars
===============================================================================
