------------------------------- MODULE Timeline -------------------------------
(***************************************************************************)
(* One line of dispatchValve running alone against the clock.  Dispatch    *)
(* abstracts every duration away; here the clock ticks in tenths of a      *)
(* second, which is also the period of the sampling loop (scanRate 10), so *)
(* each tick may bring a new igniter temperature.                          *)
(*                                                                         *)
(* The board is external.  The program writes no valve at its start, so a  *)
(* script may find lines at level 0, and LJM_eWriteName may be refused: no *)
(* script looks at the error it returns, and goes on with the line where   *)
(* it was.                                                                 *)
(*                                                                         *)
(* Every write is noted with the time since the script began, or, once the *)
(* heat loop has let it pass, since that moment: the "t-0" of the comments *)
(* over the scripts in helpers.cpp.                                        *)
(***************************************************************************)
EXTENDS Scripts, FiniteSets

CONSTANTS
    Script,      \* the lines to choose from
    Temperature, \* the igniter temperatures, in degrees C, the loop can store
    FoundLow,    \* the lines that may be found at level 0
    MissBound,   \* bound: lines with a refused latest write, at any time
    HeatBound    \* bound: ticks spent in the heat loop

ASSUME TimelineAssumption ==
    /\ Script \subseteq [valve : STRING, status : STRING]
    /\ Temperature \subseteq Nat
    /\ FoundLow \subseteq Register
    /\ MissBound \in Nat /\ HeatBound \in Nat

VARIABLES
    line, pc,    \* the script and its next step
    slept,       \* ticks spent in that step
    clock,       \* ticks since the script began, or since t-0
    ignval,      \* the igniter temperature the sampling loop stored last
    ignited,     \* the temperature that ended the heat loop; 0 before
    reg,         \* the levels on the lines
    writes,      \* history: every call of LJM_eWriteName, with its time
    found,       \* history: the lines still at the level 0 they were found at
    missed       \* history: the lines whose latest write was refused

board == <<reg, writes, found, missed>>
vars  == <<line, pc, slept, clock, ignval, ignited, board>>

Program1 == Program(line)
Ended    == pc > Len(Program1)
At(op)   == ~Ended /\ Program1[pc].op = op

\* A write at a time, before t-0 or after it.
Event(lit, at, r, level) == [lit |-> lit, at |-> at, reg |-> r, level |-> level]

Init ==
    /\ line \in Script /\ pc = 1
    /\ slept = 0 /\ clock = 0 /\ ignval \in Temperature /\ ignited = 0
    /\ found \in SUBSET FoundLow
    /\ reg = [r \in Register |-> IF r \in found THEN 0 ELSE 1]
    /\ writes = {} /\ missed = {}

\* LJM_eWriteName carried out, or refused.
Put(r, level) ==
    \/ /\ reg' = [reg EXCEPT ![r] = level]
       /\ missed' = missed \ {r} /\ found' = found \ {r}
    \/ /\ Cardinality(missed \cup {r}) <= MissBound
       /\ missed' = missed \cup {r}
       /\ UNCHANGED <<reg, found>>

Write ==
    /\ At("write")
    /\ LET s == Program1[pc]
       IN  /\ Put(s.reg, s.level)
           /\ writes' = writes \cup {Event(ignited # 0, clock, s.reg, s.level)}
    /\ pc' = pc + 1
    /\ UNCHANGED <<line, slept, clock, ignval, ignited>>

\* sleepOrAbort returns FALSE after its duration: nobody aborts here.
Wake ==
    /\ At("sleep") /\ slept = Program1[pc].tenths
    /\ pc' = pc + 1 /\ slept' = 0
    /\ UNCHANGED <<line, clock, ignval, ignited, board>>

\* while (state->lj.ignval < 365) is over.
HotEnough == ignval >= 365

Ignite ==
    /\ At("heat") /\ HotEnough
    /\ pc' = pc + 1 /\ slept' = 0 /\ clock' = 0 /\ ignited' = ignval
    /\ UNCHANGED <<line, ignval, board>>

Tick ==
    /\ \/ At("sleep") /\ slept < Program1[pc].tenths
       \/ At("heat") /\ ~HotEnough /\ slept < HeatBound
    /\ slept' = slept + 1 /\ clock' = clock + 1
    /\ ignval' \in Temperature
    /\ UNCHANGED <<line, pc, ignited, board>>

Next == Write \/ Wake \/ Ignite \/ Tick

Spec == Init /\ [][Next]_vars
-------------------------------------------------------------------------------
(***************************************************************************)
(* What the comments over the scripts promise (helpers.cpp).               *)
(***************************************************************************)
Cold(at, r, level) == Event(FALSE, at, r, level)
Lit(at, r, level)  == Event(TRUE, at, r, level)

\* "4.0.3" and, word for word, "4.0.3A".
CommentOxidizer ==
    { Cold(0, "V34", 0),
      Cold(100, "V34", 1), Cold(100, "V30", 0),
      Cold(130, "V30", 1), Cold(130, "V31", 1), Cold(130, "V33", 0),
      Cold(200, "V33", 1) }

\* "5.0.2 Hot Fire sequence".
CommentHotFire ==
    { Cold(0, "V34", 0), Cold(100, Igniter, 0),
      Lit(0, "V34", 1), Lit(0, "V20", 0), Lit(0, "V30", 0),
      Lit(45, "V30", 1), Lit(45, "V33", 0),
      Lit(70, "V20", 1), Lit(70, "V22", 0),
      Lit(100, "V33", 1), Lit(100, "V22", 1), Lit(100, "V31", 1),
      Lit(100, "V10", 1) }

\* The script has asked for what the comment says at the times it says, nothing
\* else, and for all of it when it ends.
Follows(comment) == writes \subseteq comment /\ (Ended => writes = comment)

\* The oxidizer sequence does what its comment says, to the tenth of a second.
OxidizerAsCommented == line = Word("403") => Follows(CommentOxidizer)

\* The variant 403a carries the comment of 403.
VariantAsCommented == line = Word("403a") => Follows(CommentOxidizer)

\* The hot fire up to and after t-0 does what its comment says.
HotFireAsCommented == line = Word("502") => Follows(CommentHotFire)

\* From t-0 on the hot fire follows its comment, also when the igniter takes
\* its time.
BurnAsCommented ==
    line = Word("502") => {e \in writes : e.lit} \subseteq CommentHotFire

\* The hot fire opens the mains only once the igniter has reached 900 C.
IgnitedAt900 == ignited # 0 => ignited >= 900

\* These three comments, together.
AsCommented == VariantAsCommented /\ HotFireAsCommented /\ IgnitedAt900
-------------------------------------------------------------------------------
Open(v) == reg[v] = OpenLevel(v)

\* The pairs of valves no script by itself means to have open together, though it
\* switches from one to the other within one batch of writes: the press valve
\* and the oxidizer main, the oxidizer main and its vent, the fuel main and its
\* purge.
Exclusive == { {"V34", "V30"}, {"V30", "V33"}, {"V20", "V22"} }

\* Two valves of a pair are open together only if one of them was found open and
\* is so still, or its latest write was refused: one refused write is enough,
\* since the script opens the other all the same.
NeverBothOpen ==
    \A pair \in Exclusive :
        (\A v \in pair : Open(v)) => \E v \in pair : v \in found \cup missed

\* A main that the hot fire has opened, whatever was refused since, is open with
\* the igniter energised, unless the one write that energises it was refused:
\* then the script goes on and opens the mains unlit as soon as the temperature
\* on hand, which may be stale, is high enough.
FireOnlyIgnited ==
    (line = Word("502") /\ \E v \in {"V20", "V30"} \ found : Open(v)) =>
        reg[Igniter] = 0 \/ Igniter \in missed
===============================================================================
