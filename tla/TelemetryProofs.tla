---------------------------- MODULE TelemetryProofs ----------------------------
(***************************************************************************)
(* Proofs about Telemetry, for any valves that move, any lines above 15    *)
(* that may be high, any number of moves and any reads that fail.          *)
(***************************************************************************)
EXTENDS Telemetry, TLAPS

\* The two tables of lines agree: each of the 16 positions of vljf holds the
\* valve that vlj gives that line.
LEMMA FieldOfLine == \A k \in 0..15 : vljf[k + 1] \in Valve /\ vlj[vljf[k + 1]] = k
  BY DEF vljf, vlj, Valve, NormallyOpen, NormallyClosed

LEMMA LineOfField == \A v \in Valve : vlj[v] \in 0..15 /\ vljf[vlj[v] + 1] = v
  BY DEF vljf, vlj, Valve, NormallyOpen, NormallyClosed

\* The index the loop finds for a valve is its line.
LEMMA FoundIndex ==
  \A v \in Valve : (CHOOSE k \in 0..15 : vljf[k + 1] = v) = vlj[v]
  <1> SUFFICES ASSUME NEW v \in Valve
               PROVE  (CHOOSE k \in 0..15 : vljf[k + 1] = v) = vlj[v]
    OBVIOUS
  <1>1. vlj[v] \in 0..15 /\ vljf[vlj[v] + 1] = v
    BY LineOfField
  <1>2. \A k \in 0..15 : vljf[k + 1] = v => k = vlj[v]
    BY FieldOfLine
  <1>3. QED BY <1>1, <1>2

\* The lines above 15 do not hide those of the valves, and no line is two
\* valves'.
LEMMA LinesOfValves ==
  ASSUME high \subseteq 16..22, NEW levels \in [Valve -> Level]
  PROVE  /\ Lines(levels) \subseteq 0..22
         /\ \A v \in Valve : vlj[v] \in Lines(levels) <=> levels[v] = 1
  <1>1. \A v \in Valve : vlj[v] \in 0..15
    BY LineOfField
  <1>2. Lines(levels) \subseteq 0..22
    <2>1. ASSUME NEW x \in Lines(levels) PROVE x \in 0..22
      <3>1. x \in high \/ \E v \in Valve : x = vlj[v]
        BY Zenon DEF Lines
      <3>2. CASE x \in high
        BY <3>2
      <3>3. CASE \E v \in Valve : x = vlj[v]
        <4>1. PICK v \in Valve : x = vlj[v]
          BY <3>3
        <4>2. vlj[v] \in 0..15
          BY <1>1
        <4>3. QED BY <4>1, <4>2
      <3>4. QED BY <3>1, <3>2, <3>3
    <2>2. QED BY <2>1
  <1>3. ASSUME NEW v \in Valve PROVE vlj[v] \in Lines(levels) <=> levels[v] = 1
    <2>1. vlj[v] \notin high
      BY <1>1
    <2>2. \A u \in Valve : vlj[u] = vlj[v] => u = v
      BY LineOfField
    <2>3. QED BY <2>1, <2>2 DEF Lines
  <1>4. QED BY <1>2, <1>3

\* With line 22 high the leading one of the double is line 22, and the 16
\* characters the loop cuts out are the first 16 lines.
LEMMA WindowOfLines ==
  ASSUME NEW w \in SUBSET (0..22), 22 \in w, NEW i \in 0..15
  PROVE  Vals(w)[i] = 1 <=> i \in w
  <1>1. \A x \in w : 22 >= x
    OBVIOUS
  <1>2. Max(w) = 22
    <2>1. Max(w) \in w /\ \A y \in w : Max(w) >= y
      BY <1>1 DEF Max
    <2>2. Max(w) \in 0..22 /\ Max(w) >= 22
      BY <2>1
    <2>3. QED BY <2>2
  <1>3. w # {} /\ (30 + i) - 52 + 22 = i /\ i < 22
    OBVIOUS
  <1>4. MantissaBit(w, 30 + i) = IF i \in w THEN 1 ELSE 0
    BY <1>2, <1>3 DEF MantissaBit
  <1>5. Vals(w)[i] = MantissaBit(w, 30 + i)
    BY DEF Vals
  <1>6. QED BY <1>4, <1>5

\* For every word with line 22 high, decoding gives back the levels it was made
\* from, both kinds of valve alike.
LEMMA DecodesTruly ==
  ASSUME high \subseteq 16..22, 22 \in high, NEW levels \in [Valve -> Level]
  PROVE  Decoded(Lines(levels)) = Truth(levels)
  <1>1. Lines(levels) \in SUBSET (0..22) /\ 22 \in Lines(levels)
    <2>1. Lines(levels) \subseteq 0..22
      BY LinesOfValves
    <2>2. QED BY <2>1 DEF Lines
  <1>2. ASSUME NEW v \in Valve
        PROVE  Decoded(Lines(levels))[v] <=> Truth(levels)[v]
    <2>1. vlj[v] \in 0..15
      BY LineOfField
    <2>2. Vals(Lines(levels))[vlj[v]] = 1 <=> levels[v] = 1
      BY <1>1, <2>1, WindowOfLines, LinesOfValves
    <2>3. Vals(Lines(levels))[vlj[v]] \in {0, 1}
      BY <2>1 DEF Vals, MantissaBit
    <2>4. levels[v] \in {0, 1}
      BY DEF Level
    <2>5. Decoded(Lines(levels))[v]
            <=> IF v \in NormallyOpen THEN Vals(Lines(levels))[vlj[v]] = 1
                                      ELSE Vals(Lines(levels))[vlj[v]] = 0
      BY FoundIndex, Zenon DEF Decoded
    <2>6. Truth(levels)[v] <=> levels[v] = IF v \in NormallyOpen THEN 1 ELSE 0
      BY Zenon DEF Truth, OpenLevel
    <2>7. QED BY <2>2, <2>3, <2>4, <2>5, <2>6
  <1>3. \A v \in Valve : Decoded(Lines(levels))[v] = Truth(levels)[v]
    <2>1. \A v \in Valve : /\ Decoded(Lines(levels))[v] \in BOOLEAN
                           /\ Truth(levels)[v] \in BOOLEAN
      BY Zenon DEF Decoded, Truth
    <2>2. QED BY <1>2, <2>1, Zenon
  <1>4. QED BY <1>3, Zenon DEF Decoded, Truth

\* The word of a failed read decodes to every line low.
LEMMA DecodesLow == Decoded({}) = Truth(AllLow)
  <1>1. \A i \in 0..15 : Vals({})[i] = 0
    BY DEF Vals, MantissaBit
  <1>2. ASSUME NEW v \in Valve
        PROVE  Decoded({})[v] <=> Truth(AllLow)[v]
    <2>1. Vals({})[vlj[v]] = 0
      BY <1>1, LineOfField
    <2>2. Decoded({})[v] <=> IF v \in NormallyOpen THEN Vals({})[vlj[v]] = 1
                                                   ELSE Vals({})[vlj[v]] = 0
      BY FoundIndex, Zenon DEF Decoded
    <2>3. AllLow[v] = 0
      BY DEF AllLow
    <2>4. Truth(AllLow)[v] <=> AllLow[v] = IF v \in NormallyOpen THEN 1 ELSE 0
      BY Zenon DEF Truth, OpenLevel
    <2>5. QED BY <2>1, <2>2, <2>3, <2>4
  <1>3. \A v \in Valve : Decoded({})[v] = Truth(AllLow)[v]
    <2>1. \A v \in Valve : /\ Decoded({})[v] \in BOOLEAN
                           /\ Truth(AllLow)[v] \in BOOLEAN
      BY Zenon DEF Decoded, Truth
    <2>2. QED BY <1>2, <2>1, Zenon
  <1>4. QED BY <1>3, Zenon DEF Decoded, Truth

-------------------------------------------------------------------------------
LEMMA InitInv == Init => TelemetryInv
  <1> SUFFICES ASSUME Init PROVE TelemetryInv
    OBVIOUS
  <1>1. /\ reg \in [Valve -> Level] /\ seen = reg
        /\ high \in Spare /\ moves = 0 /\ loop = "read" /\ word = {}
        /\ valves = [v \in Valve |-> v \in NormallyOpen] /\ told = << >>
        /\ failed = FALSE
    BY DEF Init, Level
  <1>2. high \subseteq 16..22 /\ moves \in 0..MoveBound
    BY <1>1, TelemetryAssumption
  <1>3. valves \in [Valve -> BOOLEAN]
    BY <1>1
  <1>4. failed \in BOOLEAN
    BY <1>1
  <1>5. TypeOK
    BY <1>1, <1>2, <1>3, <1>4, Zenon DEF TypeOK
  <1>6. loop # "emit" /\ loop # "store"
    BY <1>1
  <1>7. QED BY <1>5, <1>6, Zenon DEF TelemetryInv, TellsWhatWasRead

LEMMA NextInv == TelemetryInv /\ [Next]_vars => TelemetryInv'
  <1> SUFFICES ASSUME TelemetryInv, [Next]_vars PROVE TelemetryInv'
    OBVIOUS
  <1>1. /\ reg \in [Valve -> Level] /\ high \subseteq 16..22
        /\ moves \in 0..MoveBound /\ loop \in {"read", "store", "emit"}
        /\ word \subseteq 0..22 /\ seen \in [Valve -> Level]
    BY Zenon DEF TelemetryInv, TypeOK
  <1>2. /\ valves \in [Valve -> BOOLEAN]
        /\ told = << >> \/ told \in [Valve -> BOOLEAN]
        /\ failed \in BOOLEAN
        /\ loop = "emit" /\ ~failed /\ 22 \in high => valves = Truth(seen)
        /\ loop = "emit" /\ failed => valves = Truth(AllLow)
        /\ loop = "store" => word = IF failed THEN {} ELSE Lines(seen)
    BY Zenon DEF TelemetryInv, TypeOK, TellsWhatWasRead
  <1>3. ASSUME NEW v \in Moving, Move(v) PROVE TelemetryInv'
    <2>1. /\ moves < MoveBound /\ moves' = moves + 1
          /\ reg' = [reg EXCEPT ![v] = 1 - reg[v]]
          /\ high' = high /\ loop' = loop /\ word' = word /\ seen' = seen
          /\ failed' = failed /\ valves' = valves /\ told' = told
      BY <1>3, Zenon DEF Move, reading
    <2>2. reg' \in [Valve -> Level] /\ moves' \in 0..MoveBound
      <3>1. v \in Valve /\ reg[v] \in {0, 1}
        BY <1>1, TelemetryAssumption DEF Level
      <3>2. 1 - reg[v] \in Level
        BY <3>1 DEF Level
      <3>3. QED BY <1>1, <2>1, <3>1, <3>2, TelemetryAssumption
    <2>3. /\ Lines(seen)' = Lines(seen) /\ Truth(seen)' = Truth(seen)
          /\ Truth(AllLow)' = Truth(AllLow)
      BY <2>1, Zenon DEF Lines, Truth, AllLow
    <2>4. TypeOK'
      BY <1>1, <1>2, <2>1, <2>2, Zenon DEF TypeOK
    <2>5. QED
      BY <1>2, <2>1, <2>3, <2>4, Zenon DEF TelemetryInv, TellsWhatWasRead
  <1>4. CASE ReadDIO
    <2>1. /\ loop' = "store" /\ seen' = reg
          /\ \/ word' = Lines(reg) /\ failed' = FALSE
             \/ word' = {} /\ failed' = TRUE
          /\ reg' = reg /\ high' = high /\ moves' = moves /\ valves' = valves
          /\ told' = told
      BY <1>4, Zenon DEF ReadDIO
    <2>2. Lines(reg) \subseteq 0..22
      BY <1>1, LinesOfValves
    <2>3. Lines(seen)' = Lines(reg)
      BY <2>1, Zenon DEF Lines
    <2>4. /\ loop' \in {"read", "store", "emit"} /\ loop' # "emit"
          /\ word' \subseteq 0..22
      BY <2>1, <2>2
    <2>5. failed' \in BOOLEAN /\ word' = IF failed' THEN {} ELSE Lines(reg)
      BY <2>1
    <2>6. TypeOK'
      BY <1>1, <1>2, <2>1, <2>4, <2>5, Zenon DEF TypeOK
    <2>7. QED
      BY <2>1, <2>3, <2>4, <2>5, <2>6, Zenon DEF TelemetryInv, TellsWhatWasRead
  <1>5. CASE Store
    <2>1. /\ loop = "store" /\ loop' = "emit" /\ valves' = Decoded(word)
          /\ reg' = reg /\ high' = high /\ moves' = moves /\ word' = word
          /\ seen' = seen /\ failed' = failed /\ told' = told
      BY <1>5, Zenon DEF Store, reading
    <2>2. /\ ~failed /\ 22 \in high => valves' = Truth(seen)
          /\ failed => valves' = Truth(AllLow)
      BY <1>1, <1>2, <2>1, DecodesTruly, DecodesLow, Zenon
    <2>3. Truth(seen)' = Truth(seen) /\ Truth(AllLow)' = Truth(AllLow)
      BY <2>1, Zenon DEF Truth, AllLow
    <2>4. Decoded(word) \in [Valve -> BOOLEAN]
      BY Zenon DEF Decoded
    <2>5. loop' \in {"read", "store", "emit"} /\ loop' # "store"
      BY <2>1
    <2>6. TypeOK'
      BY <1>1, <1>2, <2>1, <2>4, <2>5, Zenon DEF TypeOK
    <2>7. QED
      BY <2>1, <2>2, <2>3, <2>5, <2>6, Zenon DEF TelemetryInv, TellsWhatWasRead
  <1>6. CASE Emit
    <2>1. /\ loop' = "read" /\ told' = valves
          /\ reg' = reg /\ high' = high /\ moves' = moves /\ word' = word
          /\ seen' = seen /\ failed' = failed /\ valves' = valves
      BY <1>6, Zenon DEF Emit, reading
    <2>2. loop' \in {"read", "store", "emit"} /\ loop' # "emit" /\ loop' # "store"
      BY <2>1
    <2>3. TypeOK'
      BY <1>1, <1>2, <2>1, <2>2, Zenon DEF TypeOK
    <2>4. QED BY <2>2, <2>3, Zenon DEF TelemetryInv, TellsWhatWasRead
  <1>7. CASE UNCHANGED vars
    <2>1. /\ reg' = reg /\ high' = high /\ moves' = moves /\ loop' = loop
          /\ word' = word /\ seen' = seen /\ valves' = valves /\ told' = told
          /\ failed' = failed
      BY <1>7, Zenon DEF vars, reading
    <2>2. /\ Lines(seen)' = Lines(seen) /\ Truth(seen)' = Truth(seen)
          /\ Truth(AllLow)' = Truth(AllLow)
      BY <2>1, Zenon DEF Lines, Truth, AllLow
    <2>3. TypeOK'
      BY <1>1, <1>2, <2>1, Zenon DEF TypeOK
    <2>4. QED
      BY <1>2, <2>1, <2>2, <2>3, Zenon DEF TelemetryInv, TellsWhatWasRead
  <1>8. QED BY <1>3, <1>4, <1>5, <1>6, <1>7, Zenon DEF Next, Sampling

\* Between ReadDIO and Store the word on hand is that of the levels as read, or 0
\* if the read failed, whatever valves the pool moves meanwhile.
THEOREM Invariant == Spec => []TelemetryInv
  <1>1. QED BY InitInv, NextInv, PTL DEF Spec

\* For every pattern of levels and every set of lines above 15 that holds line
\* 22, the bits the loop cuts out of the double and the names vljf gives them
\* tell each valve as it stood when DIO_STATE was read; those of a failed read
\* tell every line low.
THEOREM Truthful == Spec => []TellsWhatWasRead
  <1>1. TelemetryInv => TellsWhatWasRead
    BY Zenon DEF TelemetryInv
  <1>2. QED BY Invariant, <1>1, PTL
===============================================================================
