------------------------------- MODULE Recorder -------------------------------
(***************************************************************************)
(* The CSV writer (run_signal in main.cpp) and the commands "wstart" and   *)
(* "wstop" that switch it, which threads of the pool run.  The writer      *)
(* waits on suspend_write under writem; the commands set the atomic        *)
(* enabled and notify without taking writem.                               *)
(*                                                                         *)
(* What a row holds is left out.  A condition variable may wake a waiting  *)
(* thread without being notified.                                          *)
(***************************************************************************)
EXTENDS Naturals, FiniteSets

CONSTANT Worker      \* the threads of the pool

ASSUME RecorderAssumption == Worker # {} /\ IsFiniteSet(Worker)

VARIABLES
    enabled,
    writer,      \* where run_signal is
    notifying,   \* the threads between their store to enabled and notify_all
    stop,        \* stop was requested
    late,        \* history: rows written since enabled was last cleared
    slipped      \* history: a notify_all fell between the writer's reading of
                 \* enabled and its wait, and none has reached it since

vars == <<enabled, writer, notifying, stop, late, slipped>>

Init ==
    /\ enabled = TRUE /\ writer = "loop" /\ notifying = {}
    /\ stop = FALSE /\ late = 0 /\ slipped = FALSE

\* "wstart" and "wstop": the store to enabled.
Switch(w, flag) ==
    /\ w \notin notifying
    /\ enabled' = flag /\ notifying' = notifying \cup {w}
    /\ late' = IF flag THEN 0 ELSE late
    /\ UNCHANGED <<writer, stop, slipped>>

\* Mutant of Notify: the wait has no predicate, so any notify lets the writer go.
NotifyLetsGo(w) ==
    /\ w \in notifying /\ notifying' = notifying \ {w}
    /\ writer' = IF writer = "waiting" THEN "row" ELSE writer
    /\ slipped' = IF writer = "unready" THEN TRUE
                  ELSE IF writer = "waiting" THEN FALSE ELSE slipped
    /\ UNCHANGED <<enabled, stop, late>>

\* Mutant of Notify: nobody notifies the writer.
NotifyForgotten(w) ==
    /\ w \in notifying /\ notifying' = notifying \ {w}
    /\ UNCHANGED <<enabled, writer, stop, late, slipped>>

\* ... and suspend_write.notify_all().
Notify(w) ==
    /\ w \in notifying /\ notifying' = notifying \ {w}
    /\ writer' = IF writer = "waiting" THEN "check" ELSE writer
    /\ slipped' = IF writer = "unready" THEN TRUE
                  ELSE IF writer = "waiting" THEN FALSE ELSE slipped
    /\ UNCHANGED <<enabled, stop, late>>

\* The head of the loop; the 69 ms of sleep lie between it and the check.
Loop ==
    /\ writer = "loop"
    /\ writer' = IF stop THEN "done" ELSE "check"
    /\ UNCHANGED <<enabled, notifying, stop, late, slipped>>

\* wait's predicate, read with writem held.
Check ==
    /\ writer = "check"
    /\ writer' = IF enabled THEN "row" ELSE "unready"
    /\ slipped' = FALSE
    /\ UNCHANGED <<enabled, notifying, stop, late>>

Wait ==
    /\ writer = "unready" /\ writer' = "waiting"
    /\ UNCHANGED <<enabled, notifying, stop, late, slipped>>

WakeByItself ==
    /\ writer = "waiting" /\ writer' = "check"
    /\ UNCHANGED <<enabled, notifying, stop, late, slipped>>

Row ==
    /\ writer = "row" /\ writer' = "loop"
    /\ late' = IF enabled THEN 0 ELSE late + 1
    /\ UNCHANGED <<enabled, notifying, stop, slipped>>

RequestStop ==
    /\ stop' = TRUE
    /\ UNCHANGED <<enabled, writer, notifying, late, slipped>>

Write == Loop \/ Check \/ Wait \/ Row

Next ==
    \/ \E w \in Worker : (\E flag \in BOOLEAN : Switch(w, flag)) \/ Notify(w)
    \/ Write \/ WakeByItself \/ RequestStop

Spec == Init /\ [][Next]_vars

\* The threads are scheduled; a wait need not wake by itself.
FairSpec == Spec /\ WF_vars(Write) /\ \A w \in Worker : WF_vars(Notify(w))
-------------------------------------------------------------------------------
TypeOK ==
    /\ enabled \in BOOLEAN /\ stop \in BOOLEAN /\ slipped \in BOOLEAN
    /\ writer \in {"loop", "check", "unready", "waiting", "row", "done"}
    /\ notifying \subseteq Worker
    /\ late \in Nat

\* After "wstop" at most one more row is written, the one the writer had
\* already decided on.
OneLateRow == late <= 1

\* A writer that waits although recording is on either has a notify_all coming
\* or lost one in the one gap there is: between its reading of enabled and its
\* wait, which the commands do not exclude because they do not take writem.
MissedOnlyInGap ==
    (writer = "waiting" /\ enabled) => (notifying # {} \/ slipped)

\* Late rows are counted only while enabled is clear, and the first leaves the
\* writer not about to write another.
LateRowIsLast ==
    /\ enabled => late = 0
    /\ late = 1 => writer # "row"

\* The reason for MissedOnlyInGap is there when the writer is still in the gap.
GapExplained ==
    (writer \in {"unready", "waiting"} /\ enabled) => (notifying # {} \/ slipped)

\* The inductive invariant.
RecorderInv == TypeOK /\ OneLateRow /\ LateRowIsLast /\ GapExplained

\* A notify_all that finds the writer waiting gets the recording going again,
\* unless it is switched off meanwhile.
NotifyResumes ==
    (writer = "waiting" /\ enabled /\ notifying # {})
        ~> (writer = "row" \/ ~enabled)
===============================================================================
