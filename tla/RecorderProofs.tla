---------------------------- MODULE RecorderProofs ----------------------------
(***************************************************************************)
(* Proofs about Recorder, for any number of threads that switch it.        *)
(***************************************************************************)
EXTENDS Recorder, TLAPS

LEMMA InitInv == Init => RecorderInv
  <1> SUFFICES ASSUME Init PROVE RecorderInv
    OBVIOUS
  <1>1. TypeOK
    BY DEF Init, TypeOK
  <1>2. late = 0 /\ writer = "loop"
    BY DEF Init
  <1>3. QED BY <1>1, <1>2 DEF RecorderInv, OneLateRow, LateRowIsLast, GapExplained

LEMMA NextInv == RecorderInv /\ [Next]_vars => RecorderInv'
  <1> SUFFICES ASSUME RecorderInv, [Next]_vars PROVE RecorderInv'
    OBVIOUS
  <1> USE DEF RecorderInv, TypeOK, OneLateRow, LateRowIsLast, GapExplained
  <1>1. ASSUME NEW w \in Worker, NEW flag \in BOOLEAN, Switch(w, flag)
        PROVE  RecorderInv'
    BY <1>1 DEF Switch
  <1>2. ASSUME NEW w \in Worker, Notify(w) PROVE RecorderInv'
    <2>1. CASE writer = "unready"
      BY <1>2, <2>1 DEF Notify
    <2>2. CASE writer = "waiting"
      BY <1>2, <2>2 DEF Notify
    <2>3. CASE writer \notin {"unready", "waiting"}
      <3>1. /\ notifying' = notifying \ {w}
            /\ UNCHANGED <<enabled, writer, stop, late, slipped>>
        BY <1>2, <2>3 DEF Notify
      <3>2. TypeOK' /\ OneLateRow' /\ LateRowIsLast' /\ GapExplained'
        BY <3>1, <2>3
      <3> HIDE DEF TypeOK, OneLateRow, LateRowIsLast, GapExplained
      <3>3. QED BY <3>2
    <2>4. QED BY <2>1, <2>2, <2>3
  <1>3. CASE Loop
    BY <1>3 DEF Loop
  <1>4. CASE Check
    <2>1. CASE enabled
      <3>1. /\ writer' = "row" /\ slipped' = FALSE /\ late' = 0
            /\ UNCHANGED <<enabled, notifying, stop>>
        BY <1>4, <2>1 DEF Check
      <3>2. TypeOK'
        BY <3>1
      <3>3. OneLateRow' /\ LateRowIsLast' /\ GapExplained'
        BY <3>1
      <3> HIDE DEF TypeOK, OneLateRow, LateRowIsLast, GapExplained
      <3>4. QED BY <3>2, <3>3
    <2>2. CASE ~enabled
      <3>1. writer' = "unready" /\ slipped' = FALSE /\ late' = late /\ enabled' = FALSE
        BY <1>4, <2>2 DEF Check
      <3>2. TypeOK' /\ OneLateRow' /\ LateRowIsLast' /\ GapExplained'
        BY <1>4, <3>1 DEF Check
      <3> HIDE DEF TypeOK, OneLateRow, LateRowIsLast, GapExplained
      <3>3. QED BY <3>2
    <2>3. QED BY <2>1, <2>2
  <1>5. CASE Wait
    BY <1>5 DEF Wait
  <1>6. CASE Row
    BY <1>6 DEF Row
  <1>7. CASE WakeByItself
    BY <1>7 DEF WakeByItself
  <1>8. CASE RequestStop
    BY <1>8 DEF RequestStop
  <1>9. CASE UNCHANGED vars
    BY <1>9 DEF vars
  <1> HIDE DEF RecorderInv
  <1>10. QED
    BY <1>1, <1>2, <1>3, <1>4, <1>5, <1>6, <1>7, <1>8, <1>9 DEF Next, Write

\* The inductive invariant holds for any set of threads.
THEOREM RecorderInvariant == Spec => []RecorderInv
  <1>1. QED BY InitInv, NextInv, PTL DEF Spec

\* After "wstop" at most one row is written.
THEOREM OneLateRowCorrect == Spec => []OneLateRow
  <1>1. RecorderInv => OneLateRow
    BY DEF RecorderInv
  <1>2. QED BY RecorderInvariant, <1>1, PTL

\* Recording stays off against the client's wish only by the one lost notify.
THEOREM MissedOnlyInGapCorrect == Spec => []MissedOnlyInGap
  <1>1. RecorderInv => MissedOnlyInGap
    BY DEF RecorderInv, GapExplained, MissedOnlyInGap
  <1>2. QED BY RecorderInvariant, <1>1, PTL
===============================================================================
