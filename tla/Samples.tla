-------------------------------- MODULE Samples --------------------------------
(***************************************************************************)
(* The samples on their way into the CSV file and to the clients.  The     *)
(* sampling loop (main.cpp) reads both streams, stores the fourteen        *)
(* channels of State::lj one after another and emits; the CSV writer       *)
(* (run_signal) reads the same channels one after another for its row.     *)
(* Neither takes a lock: toJSON holds slock, the stores do not.            *)
(*                                                                         *)
(* A value is the input it was measured at and the iteration that stored   *)
(* it; its conversion is left out.  Reading a double that is being stored  *)
(* gives the old or the new value.  When the writer writes at all is in    *)
(* Recorder.  The clock is external: it may stand still or be set.         *)
(***************************************************************************)
EXTENDS Channels

CONSTANTS
    IterBound,   \* bound: iterations of the sampling loop
    Stamps       \* the timestamps are the numbers below this one

ASSUME SamplesAssumption == IterBound \in Nat /\ Stamps \in Nat \ {0}

VARIABLES
    loop,        \* the sampling loop: "read", the number of the next store, "emit"
    iter,        \* the iterations it has begun
    lj,          \* State::lj
    told,        \* the channels of the last status message (at first, State's), by name
    old_time,    \* the timestamp of the last row
    now,         \* the timestamp of the row being written, or of the last one
    column,      \* the next column of that row, 0 between rows
    row,         \* its columns so far
    before,      \* history: the iterations over when now was read
    previous     \* history: the timestamp of the row before that one, for the
                 \* first row the time the writer began; Stamps before any row

sampling == <<loop, iter, lj, told>>
writing  == <<old_time, now, column, row, before, previous>>
vars     == <<sampling, writing>>

Width == Len(Stored)

toJSON == [name \in ToSet(Names) |->
              lj[db[CHOOSE k \in 1..Width : Names[k] = name]]]

Init ==
    /\ loop = 0 /\ iter = 0
    /\ lj = [c \in Channel |-> [input |-> Taken[c], iter |-> 0]] /\ told = toJSON
    /\ old_time \in 0..Stamps - 1 /\ now = old_time
    /\ column = 0 /\ row = << >> /\ before = 0 /\ previous = Stamps
-------------------------------------------------------------------------------
\* Both streams are read.
ReadStreams ==
    /\ loop = 0 /\ iter < IterBound /\ iter' = iter + 1 /\ loop' = 1
    /\ UNCHANGED <<lj, told, writing>>

Store ==
    /\ loop \in 1..Width /\ loop' = loop + 1
    /\ lj' = [lj EXCEPT ![Stored[loop]] =
                 [input |-> Taken[Stored[loop]], iter |-> iter]]
    /\ UNCHANGED <<iter, told, writing>>

\* Mutant of Emit: a thread of its own emits.
EmitAnytime == told' = toJSON /\ UNCHANGED <<loop, iter, lj, writing>>

\* s.emit(sharedState): the slots render lj on the thread that stores it.
Emit ==
    /\ loop = Width + 1 /\ loop' = 0 /\ told' = toJSON
    /\ UNCHANGED <<iter, lj, writing>>
-------------------------------------------------------------------------------
\* (now - old_time) > 0, in unsigned arithmetic.
Later(t, t0) == (t - t0) % Stamps > 0

\* The iterations of the sampling loop that have stored everything.
Over == IF loop \in 1..Width THEN iter - 1 ELSE iter

\* The timestamp is read; there is a row only if it is not the last one's.
Stamp ==
    /\ column = 0
    /\ \E t \in 0..Stamps - 1 : Later(t, old_time) /\ now' = t
    /\ column' = 1 /\ row' = << >>
    /\ before' = Over /\ previous' = now
    /\ UNCHANGED <<sampling, old_time>>

\* Mutant of Column: the time is read again behind the last column.
ColumnRestamps ==
    /\ column > 0 /\ row' = Append(row, lj[Row[column]])
    /\ IF column < Width
       THEN column' = column + 1 /\ UNCHANGED <<old_time, now, before>>
       ELSE /\ column' = 0 /\ now' \in 0..Stamps - 1 /\ old_time' = now'
            /\ before' = Over
    /\ UNCHANGED <<sampling, previous>>

\* Mutant of Column: old_time is not brought up to date.
ColumnForgets ==
    /\ column > 0 /\ row' = Append(row, lj[Row[column]])
    /\ column' = IF column < Width THEN column + 1 ELSE 0
    /\ UNCHANGED <<sampling, old_time, now, before, previous>>

Column ==
    /\ column > 0 /\ row' = Append(row, lj[Row[column]])
    /\ IF column < Width THEN column' = column + 1 /\ UNCHANGED old_time
                         ELSE column' = 0 /\ old_time' = now
    /\ UNCHANGED <<sampling, now, before, previous>>

Next == ReadStreams \/ Store \/ Emit \/ Stamp \/ Column

Spec == Init /\ [][Next]_vars
-------------------------------------------------------------------------------
Cell == [input : {Taken[c] : c \in Channel}, iter : 0..IterBound]

TypeOK ==
    /\ loop \in 0..Width + 1 /\ iter \in 0..IterBound
    /\ lj \in [Channel -> Cell] /\ told \in [ToSet(Names) -> Cell]
    /\ {old_time, now} \subseteq 0..Stamps - 1
    /\ column \in 0..Width /\ row \in Seq(Cell) /\ before \in 0..iter
    /\ previous \in 0..Stamps

\* The channels are as far as the sampling loop has come: those it has stored
\* are of this iteration, the others of the one before.
StoredSoFar ==
    \A k \in 1..Width :
        lj[Stored[k]].iter = IF loop \in 1..k THEN iter - 1 ELSE iter

\* A status message holds the fourteen channels of one and the same sample, the
\* last one that was stored entirely.
MessageIsOneSample ==
    \A name \in ToSet(Names) : told[name].iter = IF loop = 0 THEN iter ELSE iter - 1

\* No column of a row is older than its timestamp: it was stored by an iteration
\* that was over when the time was read, or by a later one.  (The columns need
\* not be of one sample.)
RowNotOlderThanStamp ==
    /\ \A k \in 1..Len(row) : row[k].iter >= before
    /\ before <= Over

\* Two rows that follow each other have different timestamps, whatever the clock
\* does, and the first row's is not the time the writer began.  (They need not
\* rise.)
StampsDiffer == previous # now

\* Between rows, old_time is the timestamp of the last one.
LastStampKept == column = 0 => old_time = now

\* A row is filled from the left.
FilledSoFar ==
    /\ column > 0 => Len(row) = column - 1
    /\ column = 0 => Len(row) \in {0, Width}
    /\ loop > 0 => iter > 0

\* Every value is of the input that its place takes it from.
TakenThroughout ==
    /\ \A c \in Channel : lj[c].input = Taken[c]
    /\ \A k \in 1..Width : told[Names[k]].input = Taken[db[k]]
    /\ \A k \in 1..Len(row) : row[k].input = Taken[Row[k]]

\* The inductive invariant.
SamplesInv ==
    /\ TypeOK /\ StoredSoFar /\ MessageIsOneSample /\ RowNotOlderThanStamp
    /\ StampsDiffer /\ LastStampKept /\ FilledSoFar /\ TakenThroughout
-------------------------------------------------------------------------------
\* What the comment over the header (main.cpp:69-88) says of the inputs.
Commented ==
    [p31 |-> Input("SlowJack", 0), p21 |-> Input("SlowJack", 2),
     p32 |-> Input("SlowJack", 3), p10 |-> Input("SlowJack", 4),
     t1  |-> Input("SlowJack", 7), t2  |-> Input("SlowJack", 9),
     p22 |-> Input("SlowJack", 11),
     p20 |-> Input("FastJack", 3), p30 |-> Input("FastJack", 2),
     pINJ |-> Input("FastJack", 4), lc |-> Input("FastJack", 0),
     inj1 |-> Input("FastJack", 10), inj2 |-> Input("FastJack", 8),
     ign |-> Input("FastJack", 6)]

\* Every column of a row was measured at the input that the comment names for
\* its header.
ColumnsAsCommented ==
    \A k \in 1..Len(row) : row[k].input = Commented[Header[k + 1]]

\* ... and at the input that main configured for that sensor before it started
\* the streams, and so was every value of a status message; no column is the
\* negative side of a differential input.
AsConfigured ==
    /\ \A k \in 1..Len(row) : row[k].input = Configured[Row[k]]
    /\ \A k \in 1..Width : told[Names[k]].input = Configured[db[k]]
    /\ \A k \in 1..Len(row) : row[k].input \notin {Negative[c] : c \in DOMAIN Negative}
===============================================================================
