------------------------------ MODULE Telemetry ------------------------------
(***************************************************************************)
(* How the sampling loop (main.cpp) learns the state of the valves: it     *)
(* reads DIO_STATE, the levels of the 23 lines as one number, reinterprets *)
(* the bits of the double it gets, names the bits with vljf and stores the *)
(* result in State, from which every client's status message is made.      *)
(* Meanwhile the threads of the pool move valves.                          *)
(*                                                                         *)
(* The LabJack is external: DIO_STATE is the sum of 2^i over the lines i   *)
(* that are high; lines 16 to 22 drive no valve.  A read can fail.         *)
(***************************************************************************)
EXTENDS Valves, FiniteSets, FiniteSetsExt

CONSTANTS
    Moving,      \* the valves that commands move
    Spare,       \* the sets of lines above 15 that may be high
    MoveBound    \* bound: moves of valves

ASSUME TelemetryAssumption ==
    /\ Moving \subseteq Valve
    /\ Spare \subseteq SUBSET (16..22)
    /\ MoveBound \in Nat

VARIABLES
    reg,         \* the levels on the valves' lines
    high,        \* the lines above 15 that are high
    moves,       \* moves made so far
    loop,        \* the next call of the sampling loop
    word,        \* the lines that were high in the DIO_STATE last read
    seen,        \* history: reg when it was read
    failed,      \* history: the last read failed
    valves,      \* State::valves
    told         \* the valves of the last status message; << >> before

reading == <<word, seen, failed>>
vars    == <<reg, high, moves, loop, reading, valves, told>>

Truth(levels) == [v \in Valve |-> levels[v] = OpenLevel(v)]

Init ==
    /\ reg \in {[v \in Valve |-> IF v \in s THEN 0 ELSE 1] : s \in SUBSET Moving}
    /\ high \in Spare
    /\ moves = 0 /\ loop = "read"
    /\ word = {} /\ seen = reg /\ failed = FALSE
    /\ valves = [v \in Valve |-> v \in NormallyOpen]
    /\ told = << >>

Lines(levels) == {vlj[v] : v \in {u \in Valve : levels[u] = 1}} \cup high

\* Bit b, below the exponent, of the IEEE 754 double that holds the sum of 2^i
\* for i in w: the leading one is implicit, the rest stand from bit 51 down.
MantissaBit(w, b) ==
    IF w = {} THEN 0
    ELSE LET lead == Max(w)
             i    == b - 52 + lead
         IN  IF i \in w /\ i < lead THEN 1 ELSE 0

\* Mutant of Vals: substr(19, 16).
ValsOffByOne(w) == [i \in 0..15 |-> MantissaBit(w, 29 + i)]

\* Mutant of Vals: the string is not reversed.
ValsUnreversed(w) == [i \in 0..15 |-> MantissaBit(w, 45 - i)]

\* bitset::to_string().substr(18, 16), reversed: bits 30 to 45.
Vals(w) == [i \in 0..15 |-> MantissaBit(w, 30 + i)]

\* Mutant of Decoded: the name's '_' is not heeded.
DecodedAlike(w) ==
    [v \in Valve |-> LET i == CHOOSE k \in 0..15 : vljf[k + 1] = v
                     IN  Vals(w)[i] = 0]

\* The levels named by vljf; low is open unless the name holds a '_'.
Decoded(w) ==
    [v \in Valve |-> LET i == CHOOSE k \in 0..15 : vljf[k + 1] = v
                     IN  IF v \in NormallyOpen THEN Vals(w)[i] = 1
                                               ELSE Vals(w)[i] = 0]

Move(v) ==
    /\ moves < MoveBound /\ moves' = moves + 1
    /\ reg' = [reg EXCEPT ![v] = 1 - @]
    /\ UNCHANGED <<high, loop, reading, valves, told>>

\* LJM_eReadName.  Nobody looks at its error: after a read that fails ljbits is
\* still the 0 it was made with, as if every line were low.
ReadDIO ==
    /\ loop = "read" /\ loop' = "store" /\ seen' = reg
    /\ \/ word' = Lines(reg) /\ failed' = FALSE
       \/ word' = {} /\ failed' = TRUE
    /\ UNCHANGED <<reg, high, moves, valves, told>>

\* The decoding, the stream reads and setValves(state).
Store ==
    /\ loop = "store" /\ loop' = "emit"
    /\ valves' = Decoded(word)
    /\ UNCHANGED <<reg, high, moves, reading, told>>

\* s.emit(sharedState): every slot renders State to its message.
Emit ==
    /\ loop = "emit" /\ loop' = "read"
    /\ told' = valves
    /\ UNCHANGED <<reg, high, moves, reading, valves>>

Sampling == ReadDIO \/ Store \/ Emit

Next == Sampling \/ \E v \in Moving : Move(v)

Spec == Init /\ [][Next]_vars

\* The sampling loop runs on the main thread and never waits for a client.
FairSpec == Spec /\ WF_vars(Sampling)
-------------------------------------------------------------------------------
TypeOK ==
    /\ reg \in [Valve -> Level] /\ high \subseteq 16..22
    /\ moves \in 0..MoveBound /\ loop \in {"read", "store", "emit"}
    /\ word \subseteq 0..22 /\ seen \in [Valve -> Level] /\ failed \in BOOLEAN
    /\ valves \in [Valve -> BOOLEAN]
    /\ told = << >> \/ told \in [Valve -> BOOLEAN]

AllLow == [v \in Valve |-> 0]

\* What State says of every valve is how it stood when DIO_STATE was read, if the
\* read succeeded and line 22 is high: the window of bits the loop cuts out is
\* where the first 16 lines are only if the leading one of the double is line 22.
\* If the read failed, State says that every line is low, however the valves
\* stand: all normally closed valves open, all normally open ones shut.
TellsWhatWasRead ==
    /\ loop = "emit" /\ ~failed /\ 22 \in high => valves = Truth(seen)
    /\ loop = "emit" /\ failed => valves = Truth(AllLow)

\* The inductive invariant: the word on hand is that of the levels seen, or 0.
TelemetryInv ==
    /\ TypeOK
    /\ TellsWhatWasRead
    /\ loop = "store" => word = IF failed THEN {} ELSE Lines(seen)

\* Reads may fail, but not all from some moment on.
ReadsSucceedAgain == []<>(loop = "store" /\ ~failed)

\* Once the valves rest, the clients are told how they stand, unless every read
\* fails from some moment on.
ReportCatchesUp ==
    ReadsSucceedAgain =>
        ((moves = MoveBound /\ 22 \in high) ~> told = Truth(reg))
===============================================================================
