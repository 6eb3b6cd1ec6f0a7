----------------------------- MODULE SamplesProofs -----------------------------
(***************************************************************************)
(* Proofs about Samples, for any number of iterations and timestamps.      *)
(***************************************************************************)
EXTENDS Samples, TLAPS

\* The positions of the channels in Stored and db, and of the names in Names.
StoreOf ==
    [t1val |-> 1, t2val |-> 2, inj1val |-> 3, inj2val |-> 4, ignval |-> 5,
     p31val |-> 6, p21val |-> 7, p22val |-> 8, p32val |-> 9, p10val |-> 10,
     p20val |-> 11, p30val |-> 12, pinjval |-> 13, lcellval |-> 14]

NameOf ==
    [p10val |-> 1, p21val |-> 2, p31val |-> 3, t1val |-> 4, t2val |-> 5,
     p20val |-> 6, p30val |-> 7, p22val |-> 8, p32val |-> 9, pinjval |-> 10,
     lcval |-> 11, inj1val |-> 12, inj2val |-> 13, ignval |-> 14]

LEMMA Widths == Width = 14 /\ DOMAIN Stored = 1..14 /\ DOMAIN Names = 1..14
  BY DEF Width, Stored, Names

LEMMA StoredPosition == \A k \in 1..14 : StoreOf[Stored[k]] = k
  BY DEF StoreOf, Stored

LEMMA NamesPosition == \A k \in 1..14 : NameOf[Names[k]] = k
  BY DEF NameOf, Names

LEMMA RowStored == \A k \in 1..14 : \E j \in 1..14 : Row[k] = Stored[j]
  BY DEF Row, Stored

LEMMA DbStored == \A k \in 1..14 : \E j \in 1..14 : db[k] = Stored[j]
  BY DEF db, Stored

LEMMA Inputs ==
  /\ slowData(0) = Input("SlowJack", 7) /\ slowData(1) = Input("SlowJack", 9)
  /\ slowData(3) = Input("SlowJack", 0) /\ slowData(5) = Input("SlowJack", 2)
  /\ slowData(6) = Input("SlowJack", 3) /\ slowData(7) = Input("SlowJack", 4)
  /\ slowData(9) = Input("SlowJack", 11)
  /\ fastData(0) = Input("FastJack", 0) /\ fastData(1) = Input("FastJack", 2)
  /\ fastData(2) = Input("FastJack", 3) /\ fastData(3) = Input("FastJack", 4)
  /\ fastData(4) = Input("FastJack", 6) /\ fastData(5) = Input("FastJack", 8)
  /\ fastData(6) = Input("FastJack", 10)
  BY DEF slowData, fastData, slowScanList, fastScanList

LEMMA StoredChannel == \A k \in 1..14 : Stored[k] \in Channel
  BY Widths DEF Channel, ToSet

LEMMA ChannelStored == \A c \in Channel : \E k \in 1..14 : c = Stored[k]
  BY Widths DEF Channel, ToSet

LEMMA TakenIs ==
  \A k \in 1..14 : Taken[Stored[k]] = Input(JackOf(Stored[k]), Sensor[Stored[k]])
  BY Inputs DEF Taken, Stored, JackOf, Sensor

LEMMA TakenAsConfigured == \A k \in 1..14 : Configured[Stored[k]] = Taken[Stored[k]]
  BY TakenIs, StoredChannel DEF Configured

LEMMA TakenAsCommented ==
  \A k \in 1..14 : Taken[Row[k]] = Commented[Header[k + 1]]
  BY Inputs DEF Taken, Row, Commented, Header

LEMMA NotNegative ==
  \A k \in 1..14 : Taken[Row[k]] \notin {Negative[c] : c \in DOMAIN Negative}
  BY Inputs DEF Taken, Row, Negative, Input

LEMMA RowChannel == \A k \in 1..14 : Row[k] \in Channel
  BY RowStored, StoredChannel

LEMMA DbChannel == \A k \in 1..14 : db[k] \in Channel
  BY DbStored, StoredChannel

\* toJSON stores under each name the channel that stands beside it.
LEMMA RenderedName ==
  \A k \in 1..14 : Names[k] \in ToSet(Names) /\ toJSON[Names[k]] = lj[db[k]]
  <1> SUFFICES ASSUME NEW k \in 1..14
               PROVE  Names[k] \in ToSet(Names) /\ toJSON[Names[k]] = lj[db[k]]
    OBVIOUS
  <1>1. Names[k] \in ToSet(Names)
    BY Widths DEF ToSet
  <1>2. (CHOOSE j \in 1..Width : Names[j] = Names[k]) = k
    <2>1. \A j \in 1..14 : Names[j] = Names[k] => j = k
      BY NamesPosition
    <2>2. QED BY <2>1, Widths
  <1>3. QED BY <1>1, <1>2 DEF toJSON

LEMMA NamesAll == \A name \in ToSet(Names) : \E k \in 1..14 : name = Names[k]
  BY Widths DEF ToSet

LEMMA Rendered ==
  ASSUME lj \in [Channel -> Cell]
  PROVE  /\ toJSON \in [ToSet(Names) -> Cell]
         /\ \A name \in ToSet(Names) : \E c \in Channel : toJSON[name] = lj[c]
  <1>1. \A name \in ToSet(Names) : \E c \in Channel : toJSON[name] = lj[c]
    BY NamesAll, RenderedName, DbChannel
  <1>2. toJSON = [name \in ToSet(Names) |-> toJSON[name]]
    BY DEF toJSON
  <1>3. \A name \in ToSet(Names) : toJSON[name] \in Cell
    BY <1>1
  <1>4. QED BY <1>1, <1>2, <1>3

LEMMA AppendStays ==
  ASSUME NEW S, NEW s \in Seq(S), NEW e \in S
  PROVE  /\ Append(s, e) \in Seq(S) /\ Len(Append(s, e)) = Len(s) + 1
         /\ \A i \in 1..Len(s) : Append(s, e)[i] = s[i]
         /\ Append(s, e)[Len(s) + 1] = e
  OBVIOUS

\* A stored channel stands for its input.
LEMMA NewCell ==
  ASSUME NEW n \in 0..IterBound, NEW c \in Channel
  PROVE  /\ [input |-> Taken[c], iter |-> n] \in Cell
         /\ [input |-> Taken[c], iter |-> n].input = Taken[c]
         /\ [input |-> Taken[c], iter |-> n].iter = n
  BY DEF Cell

-------------------------------------------------------------------------------
LEMMA InitInv == Init => SamplesInv
  <1> SUFFICES ASSUME Init PROVE SamplesInv
    OBVIOUS
  <1>1. /\ loop = 0 /\ iter = 0 /\ told = toJSON
        /\ lj = [c \in Channel |-> [input |-> Taken[c], iter |-> 0]]
        /\ old_time \in 0..Stamps - 1 /\ now = old_time
        /\ column = 0 /\ row = << >> /\ before = 0 /\ previous = Stamps
    BY DEF Init
  <1>2. 0 \in 0..IterBound
    BY SamplesAssumption
  <1>3. \A c \in Channel : /\ lj[c] \in Cell
                           /\ lj[c].input = Taken[c] /\ lj[c].iter = 0
    BY <1>1, <1>2, NewCell
  <1>4. lj \in [Channel -> Cell]
    BY <1>1, <1>3
  <1>5. told \in [ToSet(Names) -> Cell]
    BY <1>1, <1>4, Rendered
  <1>6. \A name \in ToSet(Names) : \E c \in Channel : told[name] = lj[c]
    BY <1>1, <1>4, Rendered
  <1>7. << >> \in Seq(Cell) /\ Len(<< >>) = 0
    OBVIOUS
  <1>8. TypeOK
    <2>1. previous \in 0..Stamps
      BY <1>1, SamplesAssumption
    <2>2. QED BY <1>1, <1>2, <1>4, <1>5, <1>7, <2>1, Widths DEF TypeOK
  <1>9. StoredSoFar
    BY <1>1, <1>3, Widths, StoredChannel DEF StoredSoFar
  <1>10. MessageIsOneSample
    <2>1. \A name \in ToSet(Names) : told[name].iter = 0
      BY <1>3, <1>6
    <2>2. QED BY <1>1, <2>1 DEF MessageIsOneSample
  <1>11. RowNotOlderThanStamp /\ StampsDiffer /\ LastStampKept /\ FilledSoFar
    BY <1>1, <1>7, SamplesAssumption
    DEF RowNotOlderThanStamp, StampsDiffer, LastStampKept, FilledSoFar, Over
  <1>12. TakenThroughout
    <2>1. \A k \in 1..14 : told[Names[k]].input = Taken[db[k]]
      BY <1>1, <1>3, RenderedName, DbChannel
    <2>2. QED BY <1>1, <1>3, <1>7, <2>1, Widths DEF TakenThroughout
  <1>13. QED
    BY <1>8, <1>9, <1>10, <1>11, <1>12 DEF SamplesInv

\* The invariant, unfolded for the steps below.
LEMMA Unfolded ==
  ASSUME SamplesInv
  PROVE  /\ loop \in 0..15 /\ iter \in 0..IterBound /\ iter \in Nat
         /\ lj \in [Channel -> Cell] /\ told \in [ToSet(Names) -> Cell]
         /\ old_time \in 0..Stamps - 1 /\ now \in 0..Stamps - 1
         /\ column \in 0..14 /\ row \in Seq(Cell) /\ Len(row) \in Nat
         /\ before \in 0..iter /\ before <= Over
         /\ \A k \in 1..14 :
              lj[Stored[k]].iter = IF loop \in 1..k THEN iter - 1 ELSE iter
         /\ \A name \in ToSet(Names) :
              told[name].iter = IF loop = 0 THEN iter ELSE iter - 1
         /\ \A k \in 1..Len(row) : row[k].iter >= before
         /\ previous \in 0..Stamps /\ previous # now
         /\ column = 0 => old_time = now
         /\ column > 0 => Len(row) = column - 1
         /\ column = 0 => Len(row) \in {0, 14}
         /\ loop > 0 => iter > 0
         /\ \A c \in Channel : lj[c].input = Taken[c]
         /\ \A k \in 1..14 : told[Names[k]].input = Taken[db[k]]
         /\ \A k \in 1..Len(row) : row[k].input = Taken[Row[k]]
  <1>1. /\ loop \in 0..15 /\ iter \in 0..IterBound /\ iter \in Nat
        /\ lj \in [Channel -> Cell] /\ told \in [ToSet(Names) -> Cell]
        /\ old_time \in 0..Stamps - 1 /\ now \in 0..Stamps - 1
        /\ column \in 0..14 /\ row \in Seq(Cell)
        /\ before \in 0..iter /\ previous \in 0..Stamps
    BY Widths, SamplesAssumption DEF SamplesInv, TypeOK
  <1>2. Len(row) \in Nat
    BY <1>1
  <1>3. \A k \in 1..14 :
          lj[Stored[k]].iter = IF loop \in 1..k THEN iter - 1 ELSE iter
    BY Widths DEF SamplesInv, StoredSoFar
  <1>4. \A name \in ToSet(Names) :
          told[name].iter = IF loop = 0 THEN iter ELSE iter - 1
    BY DEF SamplesInv, MessageIsOneSample
  <1>5. /\ \A k \in 1..Len(row) : row[k].iter >= before
        /\ before <= Over
    BY DEF SamplesInv, RowNotOlderThanStamp
  <1>6. /\ previous # now /\ (column = 0 => old_time = now)
        /\ column > 0 => Len(row) = column - 1
        /\ column = 0 => Len(row) \in {0, 14}
        /\ loop > 0 => iter > 0
    BY Widths DEF SamplesInv, StampsDiffer, LastStampKept, FilledSoFar
  <1>7. /\ \A c \in Channel : lj[c].input = Taken[c]
        /\ \A k \in 1..14 : told[Names[k]].input = Taken[db[k]]
        /\ \A k \in 1..Len(row) : row[k].input = Taken[Row[k]]
    BY Widths DEF SamplesInv, TakenThroughout
  <1>8. QED BY <1>1, <1>2, <1>3, <1>4, <1>5, <1>6, <1>7

\* A step of the sampling loop leaves the writer's part as it is.
LEMMA WriterRests ==
  ASSUME SamplesInv, UNCHANGED writing, loop' > 0 => iter' > 0
  PROVE  StampsDiffer' /\ LastStampKept' /\ FilledSoFar'
  <1>1. StampsDiffer /\ LastStampKept /\ FilledSoFar
    BY DEF SamplesInv
  <1>2. /\ old_time' = old_time /\ now' = now /\ previous' = previous
        /\ column' = column /\ row' = row
    BY DEF writing
  <1>3. QED BY <1>1, <1>2 DEF StampsDiffer, LastStampKept, FilledSoFar

LEMMA ReadStreamsInv == ASSUME SamplesInv, ReadStreams PROVE SamplesInv'
  <1>1. /\ loop = 0 /\ iter < IterBound /\ iter' = iter + 1 /\ loop' = 1
        /\ lj' = lj /\ told' = told /\ old_time' = old_time /\ now' = now
        /\ column' = column /\ row' = row /\ before' = before
        /\ previous' = previous
    BY DEF ReadStreams, writing
  <1>2. TypeOK'
    <2>1. /\ iter \in 0..IterBound /\ lj \in [Channel -> Cell]
          /\ told \in [ToSet(Names) -> Cell]
          /\ old_time \in 0..Stamps - 1 /\ now \in 0..Stamps - 1
          /\ previous \in 0..Stamps
          /\ column \in 0..14 /\ row \in Seq(Cell) /\ before \in 0..iter
      BY Unfolded
    <2>2. iter' \in 0..IterBound /\ before' \in 0..iter' /\ loop' \in 0..15
      BY <1>1, <2>1, SamplesAssumption
    <2>3. QED BY <1>1, <2>1, <2>2, Widths DEF TypeOK
  <1>3. StoredSoFar'
    <2>1. \A k \in 1..14 : lj[Stored[k]].iter = iter
      <3>1. \A k \in 1..14 :
              lj[Stored[k]].iter = IF loop \in 1..k THEN iter - 1 ELSE iter
        BY Unfolded
      <3>2. \A k \in 1..14 : loop \notin 1..k
        BY <1>1
      <3>3. QED BY <3>1, <3>2
    <2>2. iter \in Nat
      BY Unfolded
    <2>3. \A k \in 1..14 : loop' \in 1..k /\ iter' - 1 = iter
      BY <1>1, <2>2
    <2>4. QED BY <1>1, <2>1, <2>3, Widths DEF StoredSoFar
  <1>4. MessageIsOneSample'
    <2>1. \A name \in ToSet(Names) : told[name].iter = iter
      BY <1>1, Unfolded
    <2>2. loop' # 0 /\ iter' - 1 = iter
      <3>1. iter \in Nat
        BY Unfolded
      <3>2. QED BY <1>1, <3>1
    <2>3. QED BY <1>1, <2>1, <2>2 DEF MessageIsOneSample
  <1>5. RowNotOlderThanStamp'
    <2>1. Over = iter /\ Over' = iter
      BY <1>1, Unfolded, Widths DEF Over
    <2>2. QED BY <1>1, <2>1, Unfolded DEF RowNotOlderThanStamp
  <1>6. StampsDiffer' /\ LastStampKept' /\ FilledSoFar'
    <2>1. UNCHANGED writing
      BY DEF ReadStreams
    <2>2. iter \in Nat /\ (loop > 0 => iter > 0)
      BY Unfolded
    <2>3. loop' > 0 => iter' > 0
      BY <1>1, <2>2
    <2>4. QED BY <2>1, <2>3, WriterRests
  <1>7. TakenThroughout'
    BY <1>1, Unfolded, Widths DEF TakenThroughout
  <1>8. QED BY <1>2, <1>3, <1>4, <1>5, <1>6, <1>7 DEF SamplesInv

LEMMA StoreInv == ASSUME SamplesInv, Store PROVE SamplesInv'
  <1>1. /\ loop \in 1..14 /\ loop' = loop + 1
        /\ lj' = [lj EXCEPT ![Stored[loop]] =
                     [input |-> Taken[Stored[loop]], iter |-> iter]]
        /\ iter' = iter
        /\ told' = told /\ old_time' = old_time /\ now' = now
        /\ column' = column /\ row' = row /\ before' = before
        /\ previous' = previous
    BY Widths DEF Store, writing
  <1>2. /\ Stored[loop] \in Channel
        /\ \A k \in 1..14 : Stored[k] = Stored[loop] => k = loop
    BY <1>1, StoredChannel, StoredPosition
  <1>3. /\ lj' \in [Channel -> Cell]
        /\ lj'[Stored[loop]].iter = iter
        /\ lj'[Stored[loop]].input = Taken[Stored[loop]]
        /\ \A c \in Channel \ {Stored[loop]} : lj'[c] = lj[c]
    <2>1. /\ [input |-> Taken[Stored[loop]], iter |-> iter] \in Cell
          /\ [input |-> Taken[Stored[loop]], iter |-> iter].iter = iter
          /\ [input |-> Taken[Stored[loop]], iter |-> iter].input
               = Taken[Stored[loop]]
      BY <1>2, Unfolded, NewCell
    <2> DEFINE cell == [input |-> Taken[Stored[loop]], iter |-> iter]
    <2>2. lj' = [lj EXCEPT ![Stored[loop]] = cell] /\ cell \in Cell
      BY <1>1, <2>1
    <2>3. cell.iter = iter /\ cell.input = Taken[Stored[loop]]
      BY <2>1
    <2> HIDE DEF cell
    <2>4. lj \in [Channel -> Cell]
      BY Unfolded
    <2>5. /\ lj' \in [Channel -> Cell] /\ lj'[Stored[loop]] = cell
          /\ \A c \in Channel \ {Stored[loop]} : lj'[c] = lj[c]
      BY <1>2, <2>2, <2>4
    <2>6. QED BY <2>3, <2>5
  <1>4. TypeOK'
    <2>1. lj' \in [Channel -> Cell]
      BY <1>3
    <2>2. loop' \in 0..Width + 1 /\ iter' \in 0..IterBound /\ before' \in 0..iter'
      BY <1>1, Unfolded, Widths
    <2>3. /\ told' \in [ToSet(Names) -> Cell]
          /\ {old_time', now'} \subseteq 0..Stamps - 1
          /\ column' \in 0..Width /\ row' \in Seq(Cell)
          /\ previous' \in 0..Stamps
      <3>1. /\ told \in [ToSet(Names) -> Cell]
            /\ {old_time, now} \subseteq 0..Stamps - 1
            /\ column \in 0..Width /\ row \in Seq(Cell)
            /\ previous \in 0..Stamps
        BY DEF SamplesInv, TypeOK
      <3>2. /\ told' = told /\ old_time' = old_time /\ now' = now
            /\ column' = column /\ row' = row /\ previous' = previous
        BY <1>1
      <3>3. QED BY <3>1, <3>2, Zenon
    <2>4. QED BY <2>1, <2>2, <2>3 DEF TypeOK
  <1>5. StoredSoFar'
    <2>1. SUFFICES ASSUME NEW k \in 1..14
                   PROVE  lj'[Stored[k]].iter
                            = IF loop + 1 \in 1..k THEN iter - 1 ELSE iter
      BY <1>1, Widths DEF StoredSoFar
    <2>2. CASE k = loop
      BY <1>1, <1>3, <2>2
    <2>3. CASE k # loop
      <3>1. Stored[k] \in Channel \ {Stored[loop]}
        BY <1>2, <2>3, StoredChannel
      <3>2. lj'[Stored[k]].iter = lj[Stored[k]].iter
        BY <1>3, <3>1
      <3>3. lj[Stored[k]].iter = IF loop \in 1..k THEN iter - 1 ELSE iter
        BY Unfolded
      <3>4. loop \in 1..k <=> loop + 1 \in 1..k
        BY <1>1, <2>3
      <3>5. QED BY <3>2, <3>3, <3>4
    <2>4. QED BY <2>2, <2>3
  <1>6. MessageIsOneSample'
    <2>1. \A name \in ToSet(Names) : told[name].iter = iter - 1
      <3>1. \A name \in ToSet(Names) :
              told[name].iter = IF loop = 0 THEN iter ELSE iter - 1
        BY Unfolded
      <3>2. QED BY <1>1, <3>1
    <2>2. loop' # 0
      BY <1>1
    <2>3. QED BY <1>1, <2>1, <2>2 DEF MessageIsOneSample
  <1>7. RowNotOlderThanStamp'
    <2>1. Over = iter - 1 /\ Over' \in {iter - 1, iter}
      BY <1>1, Widths DEF Over
    <2>2. before <= Over' /\ before' = before
      <3>1. before \in 0..iter /\ iter \in Nat /\ before <= Over
        BY Unfolded
      <3>2. QED BY <1>1, <2>1, <3>1
    <2>3. QED BY <1>1, <2>2, Unfolded DEF RowNotOlderThanStamp
  <1>8. StampsDiffer' /\ LastStampKept' /\ FilledSoFar'
    <2>1. UNCHANGED writing
      BY DEF Store
    <2>2. iter \in Nat /\ (loop > 0 => iter > 0)
      BY Unfolded
    <2>3. loop' > 0 => iter' > 0
      BY <1>1, <2>2
    <2>4. QED BY <2>1, <2>3, WriterRests
  <1>9. TakenThroughout'
    <2>1. \A c \in Channel : lj'[c].input = Taken[c]
      BY <1>3, Unfolded
    <2>2. QED BY <1>1, <2>1, Unfolded, Widths DEF TakenThroughout
  <1>10. QED BY <1>4, <1>5, <1>6, <1>7, <1>8, <1>9 DEF SamplesInv

LEMMA EmitInv == ASSUME SamplesInv, Emit PROVE SamplesInv'
  <1>1. /\ loop = 15 /\ loop' = 0 /\ told' = toJSON /\ iter' = iter /\ lj' = lj
        /\ old_time' = old_time /\ now' = now
        /\ column' = column /\ row' = row /\ before' = before
        /\ previous' = previous
    BY Widths DEF Emit, writing
  <1>2. /\ told' \in [ToSet(Names) -> Cell]
        /\ \A name \in ToSet(Names) : \E c \in Channel : told'[name] = lj[c]
    BY <1>1, Unfolded, Rendered
  <1>3. \A c \in Channel : lj[c].iter = iter
    <2>1. \A k \in 1..14 : lj[Stored[k]].iter = iter
      <3>1. \A k \in 1..14 :
              lj[Stored[k]].iter = IF loop \in 1..k THEN iter - 1 ELSE iter
        BY Unfolded
      <3>2. \A k \in 1..14 : loop \notin 1..k
        BY <1>1
      <3>3. QED BY <3>1, <3>2
    <2>2. QED BY <2>1, ChannelStored
  <1>4. TypeOK'
    <2>1. /\ iter \in 0..IterBound /\ lj \in [Channel -> Cell]
          /\ old_time \in 0..Stamps - 1 /\ now \in 0..Stamps - 1
          /\ previous \in 0..Stamps
          /\ column \in 0..14 /\ row \in Seq(Cell) /\ before \in 0..iter
      BY Unfolded
    <2>2. QED BY <1>1, <1>2, <2>1, Widths DEF TypeOK
  <1>5. StoredSoFar'
    BY <1>1, <1>3, StoredChannel, Widths DEF StoredSoFar
  <1>6. MessageIsOneSample'
    <2>1. \A name \in ToSet(Names) : told'[name].iter = iter
      BY <1>2, <1>3
    <2>2. QED BY <1>1, <2>1 DEF MessageIsOneSample
  <1>7. RowNotOlderThanStamp'
    <2>1. Over = iter /\ Over' = iter
      BY <1>1, Widths DEF Over
    <2>2. QED BY <1>1, <2>1, Unfolded DEF RowNotOlderThanStamp
  <1>8. StampsDiffer' /\ LastStampKept' /\ FilledSoFar'
    <2>1. UNCHANGED writing
      BY DEF Emit
    <2>2. iter \in Nat /\ (loop > 0 => iter > 0)
      BY Unfolded
    <2>3. loop' > 0 => iter' > 0
      BY <1>1, <2>2
    <2>4. QED BY <2>1, <2>3, WriterRests
  <1>9. TakenThroughout'
    <2>1. \A k \in 1..14 : told'[Names[k]].input = Taken[db[k]]
      BY <1>1, Unfolded, RenderedName, DbChannel
    <2>2. QED BY <1>1, <2>1, Unfolded, Widths DEF TakenThroughout
  <1>10. QED BY <1>4, <1>5, <1>6, <1>7, <1>8, <1>9 DEF SamplesInv

LEMMA LaterDiffers ==
  ASSUME NEW t0 \in 0..Stamps - 1, Later(t0, t0) PROVE FALSE
  <1>1. t0 - t0 = 0 /\ Stamps \in Nat /\ Stamps > 0
    BY SamplesAssumption
  <1>2. 0 % Stamps = 0
    BY <1>1
  <1>3. (t0 - t0) % Stamps > 0
    BY Zenon DEF Later
  <1>4. QED BY <1>1, <1>2, <1>3

LEMMA StampInv == ASSUME SamplesInv, Stamp PROVE SamplesInv'
  <1>1. /\ column = 0 /\ column' = 1 /\ row' = << >> /\ before' = Over
        /\ loop' = loop /\ iter' = iter /\ lj' = lj /\ told' = told
        /\ old_time' = old_time /\ previous' = now
    BY Zenon DEF Stamp, sampling
  <1>2. now' \in 0..Stamps - 1 /\ now' # now
    <2>1. PICK t \in 0..Stamps - 1 : Later(t, old_time) /\ now' = t
      BY Zenon DEF Stamp
    <2>2. t # old_time
      BY <2>1, LaterDiffers
    <2>3. now = old_time
      BY <1>1, Unfolded
    <2>4. QED BY <2>1, <2>2, <2>3
  <1>3. Over \in 0..iter /\ Over' = Over
    <2>1. loop > 0 => iter > 0
      BY Unfolded
    <2>2. iter \in Nat /\ loop \in 0..15
      BY Unfolded
    <2>3. Over \in 0..iter
      BY <2>1, <2>2, Widths DEF Over
    <2>4. QED BY <1>1, <2>3 DEF Over
  <1>4. << >> \in Seq(Cell) /\ Len(<< >>) = 0
    OBVIOUS
  <1>5. TypeOK'
    <2>1. /\ loop \in 0..15 /\ iter \in 0..IterBound /\ lj \in [Channel -> Cell]
          /\ told \in [ToSet(Names) -> Cell] /\ old_time \in 0..Stamps - 1
      BY Unfolded
    <2>2. now \in 0..Stamps
      <3>1. now \in 0..Stamps - 1
        BY Unfolded
      <3>2. QED BY <3>1, SamplesAssumption
    <2>3. QED BY <1>1, <1>2, <1>3, <1>4, <2>1, <2>2, Widths DEF TypeOK
  <1>6. StoredSoFar' /\ MessageIsOneSample'
    BY <1>1, Unfolded, Widths DEF StoredSoFar, MessageIsOneSample
  <1>7. RowNotOlderThanStamp'
    <2>1. Over <= Over
      BY <1>3, Unfolded
    <2>2. QED BY <1>1, <1>3, <1>4, <2>1 DEF RowNotOlderThanStamp
  <1>8. StampsDiffer' /\ LastStampKept' /\ FilledSoFar'
    <2>1. loop > 0 => iter > 0
      BY Unfolded
    <2>2. QED
      BY <1>1, <1>2, <1>4, <2>1 DEF StampsDiffer, LastStampKept, FilledSoFar
  <1>9. TakenThroughout'
    <2>1. /\ \A c \in Channel : lj[c].input = Taken[c]
          /\ \A k \in 1..14 : told[Names[k]].input = Taken[db[k]]
      BY Unfolded
    <2>2. QED BY <1>1, <1>4, <2>1, Widths DEF TakenThroughout
  <1>10. QED BY <1>5, <1>6, <1>7, <1>8, <1>9 DEF SamplesInv

\* No channel is older than the last iteration that has stored everything.
LEMMA ChannelsOver == ASSUME SamplesInv PROVE \A c \in Channel : lj[c].iter >= Over
  <1>1. SUFFICES ASSUME NEW k \in 1..14 PROVE lj[Stored[k]].iter >= Over
    BY ChannelStored
  <1>2. lj[Stored[k]].iter = IF loop \in 1..k THEN iter - 1 ELSE iter
    BY Unfolded
  <1>3. loop \in 0..15 /\ iter \in Nat
    BY Unfolded
  <1>4. loop \in 1..k => loop \in 1..Width
    BY <1>3, Widths
  <1>5. QED BY <1>2, <1>3, <1>4 DEF Over

LEMMA ColumnInv == ASSUME SamplesInv, Column PROVE SamplesInv'
  <1>1. /\ column > 0 /\ row' = Append(row, lj[Row[column]])
        /\ IF column < 14 THEN column' = column + 1 /\ old_time' = old_time
                          ELSE column' = 0 /\ old_time' = now
        /\ loop' = loop /\ iter' = iter /\ lj' = lj /\ told' = told
        /\ now' = now /\ before' = before /\ previous' = previous
    BY Widths DEF Column, sampling
  <1>2. /\ column \in 1..14 /\ Len(row) = column - 1 /\ Len(row) \in Nat
        /\ row \in Seq(Cell) /\ previous # now /\ previous \in 0..Stamps
        /\ iter \in Nat /\ before \in 0..iter /\ before <= Over
    <2>1. column \in 0..14 /\ column > 0
      BY <1>1, Unfolded
    <2>2. QED BY <2>1, Unfolded
  <1>3. Row[column] \in Channel
    BY <1>2, RowChannel
  <1>4. lj[Row[column]] \in Cell
    BY <1>3, Unfolded
  <1>5. /\ row' \in Seq(Cell) /\ Len(row') = column
        /\ \A i \in 1..column - 1 : row'[i] = row[i]
        /\ row'[column] = lj[Row[column]]
    <2>1. /\ Append(row, lj[Row[column]]) \in Seq(Cell)
          /\ Len(Append(row, lj[Row[column]])) = Len(row) + 1
          /\ \A i \in 1..Len(row) : Append(row, lj[Row[column]])[i] = row[i]
          /\ Append(row, lj[Row[column]])[Len(row) + 1] = lj[Row[column]]
      BY <1>2, <1>4, AppendStays
    <2>2. Len(row) + 1 = column
      BY <1>2
    <2>3. QED BY <1>1, <1>2, <2>1, <2>2
  <1>6. \A i \in 1..Len(row') : \/ i \in 1..Len(row) /\ row'[i] = row[i]
                               \/ i = column
    BY <1>2, <1>5
  <1>7. TypeOK'
    <2>1. /\ loop \in 0..15 /\ iter \in 0..IterBound /\ lj \in [Channel -> Cell]
          /\ told \in [ToSet(Names) -> Cell]
          /\ old_time \in 0..Stamps - 1 /\ now \in 0..Stamps - 1
      BY Unfolded
    <2>2. column' \in 0..14 /\ old_time' \in 0..Stamps - 1
      <3>1. CASE column < 14
        BY <1>1, <1>2, <2>1, <3>1
      <3>2. CASE ~(column < 14)
        BY <1>1, <1>2, <2>1, <3>2
      <3>3. QED BY <3>1, <3>2
    <2>3. QED BY <1>1, <1>2, <1>5, <2>1, <2>2, Widths DEF TypeOK
  <1>8. StoredSoFar' /\ MessageIsOneSample'
    BY <1>1, Unfolded, Widths DEF StoredSoFar, MessageIsOneSample
  <1>9. RowNotOlderThanStamp'
    <2>1. Over' = Over
      BY <1>1, Zenon DEF Over
    <2>2. lj[Row[column]].iter >= Over
      BY <1>3, ChannelsOver
    <2>3. Over \in Int /\ lj[Row[column]].iter \in Int
      <3>1. Over \in Int
        BY <1>2 DEF Over
      <3>2. lj[Row[column]].iter \in Int
        BY <1>4, SamplesAssumption DEF Cell
      <3>3. QED BY <3>1, <3>2
    <2>4. row'[column].iter >= before
      BY <1>2, <1>5, <2>2, <2>3
    <2>5. \A i \in 1..Len(row) : row[i].iter >= before
      BY Unfolded
    <2>6. \A i \in 1..Len(row') : row'[i].iter >= before
      BY <1>6, <2>4, <2>5
    <2>7. QED BY <1>1, <1>2, <2>1, <2>6 DEF RowNotOlderThanStamp
  <1>10. StampsDiffer' /\ LastStampKept' /\ FilledSoFar'
    <2>1. loop > 0 => iter > 0
      BY Unfolded
    <2>2. column' > 0 => column' = column + 1
      BY <1>1
    <2>3. column' = 0 => column = 14 /\ old_time' = now
      BY <1>1, <1>2
    <2>4. QED
      BY <1>1, <1>2, <1>5, <2>1, <2>2, <2>3, Widths
      DEF StampsDiffer, LastStampKept, FilledSoFar
  <1>11. TakenThroughout'
    <2>1. /\ \A c \in Channel : lj[c].input = Taken[c]
          /\ \A k \in 1..14 : told[Names[k]].input = Taken[db[k]]
          /\ \A k \in 1..Len(row) : row[k].input = Taken[Row[k]]
      BY Unfolded
    <2>2. row'[column].input = Taken[Row[column]]
      BY <1>3, <1>5, <2>1
    <2>3. \A k \in 1..Len(row') : row'[k].input = Taken[Row[k]]
      BY <1>6, <2>1, <2>2
    <2>4. QED BY <1>1, <2>1, <2>3, Widths DEF TakenThroughout
  <1>12. QED BY <1>7, <1>8, <1>9, <1>10, <1>11 DEF SamplesInv

LEMMA NextInv == SamplesInv /\ [Next]_vars => SamplesInv'
  <1> SUFFICES ASSUME SamplesInv, [Next]_vars PROVE SamplesInv'
    OBVIOUS
  <1>1. CASE Next
    BY <1>1, ReadStreamsInv, StoreInv, EmitInv, StampInv, ColumnInv, Zenon DEF Next
  <1>2. CASE UNCHANGED vars
    BY <1>2
    DEF vars, sampling, writing, SamplesInv, TypeOK, StoredSoFar, Over,
        MessageIsOneSample, RowNotOlderThanStamp, StampsDiffer, LastStampKept,
        FilledSoFar, TakenThroughout
  <1>3. QED BY <1>1, <1>2

-------------------------------------------------------------------------------
\* Whatever instants the row writer reads at, the channels are as far as the
\* sampling loop has come, a status message is of one sample, and no column is
\* older than its row's timestamp.
THEOREM Invariant == Spec => []SamplesInv
  <1>1. QED BY InitInv, NextInv, PTL DEF Spec

\* run_signal never writes two rows in a row under one timestamp: between them
\* old_time is brought up to date, and the second is later than that.
THEOREM DifferentStamps == Spec => []StampsDiffer
  <1>1. SamplesInv => StampsDiffer
    BY DEF SamplesInv
  <1>2. QED BY Invariant, <1>1, PTL

\* A row never has more columns than the header names.
LEMMA RowWidth == ASSUME SamplesInv PROVE \A k \in 1..Len(row) : k \in 1..14
  <1> DEFINE n == Len(row)
  <1>1. column \in 0..14 /\ n \in Nat
    BY Unfolded
  <1>2. (column > 0 => n = column - 1) /\ (column = 0 => n \in {0, 14})
    BY Unfolded
  <1> HIDE DEF n
  <1>3. n \in 0..14
    BY <1>1, <1>2
  <1>4. \A k \in 1..n : k \in 1..14
    BY <1>3
  <1>5. QED BY <1>4 DEF n

\* The scan lists, the indices and the order of the row agree with the comment
\* over the header.
THEOREM Commentary == Spec => []ColumnsAsCommented
  <1>1. SamplesInv => ColumnsAsCommented
    <2> SUFFICES ASSUME SamplesInv PROVE ColumnsAsCommented
      OBVIOUS
    <2>1. \A k \in 1..Len(row) : k \in 1..14 /\ row[k].input = Taken[Row[k]]
      <3>1. \A k \in 1..Len(row) : k \in 1..14
        BY RowWidth
      <3>2. \A k \in 1..Len(row) : row[k].input = Taken[Row[k]]
        BY Unfolded
      <3>3. QED BY <3>1, <3>2, Zenon
    <2>2. QED BY <2>1, TakenAsCommented DEF ColumnsAsCommented
  <1>2. QED BY Invariant, <1>1, PTL

\* Every column and every value of a status message comes from the input that
\* main configured for that sensor, and none from a negative side.
THEOREM Configuration == Spec => []AsConfigured
  <1>1. SamplesInv => AsConfigured
    <2> SUFFICES ASSUME SamplesInv PROVE AsConfigured
      OBVIOUS
    <2>1. \A k \in 1..Len(row) : k \in 1..14 /\ row[k].input = Taken[Row[k]]
      <3>1. \A k \in 1..Len(row) : k \in 1..14
        BY RowWidth
      <3>2. \A k \in 1..Len(row) : row[k].input = Taken[Row[k]]
        BY Unfolded
      <3>3. QED BY <3>1, <3>2, Zenon
    <2>2. \A c \in Channel : Configured[c] = Taken[c]
      BY ChannelStored, TakenAsConfigured
    <2>3. \A k \in 1..14 : told[Names[k]].input = Configured[db[k]]
      BY <2>2, DbChannel, Unfolded
    <2>4. \A k \in 1..Len(row) : row[k].input = Configured[Row[k]]
      BY <2>1, <2>2, RowChannel
    <2>5. \A k \in 1..Len(row) :
            row[k].input \notin {Negative[c] : c \in DOMAIN Negative}
      BY <2>1, NotNegative
    <2>6. QED BY <2>3, <2>4, <2>5, Widths DEF AsConfigured
  <1>2. QED BY Invariant, <1>1, PTL
===============================================================================
