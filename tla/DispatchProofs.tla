----------------------------- MODULE DispatchProofs -----------------------------
(***************************************************************************)
(* Proofs about Dispatch, for every set of threads, every set of lines and *)
(* every bound.                                                            *)
(***************************************************************************)
EXTENDS DispatchProps, TLAPS

\* What the proofs need of a program: every write names a register and a
\* level, and every normally closed valve it opens it later shuts.
WellFormed(p) ==
    /\ Len(p) \in Nat
    /\ \A i \in 1..Len(p) :
        p[i].op = "write" => p[i].reg \in Register /\ p[i].level \in Level

Balanced(p) ==
    \A v \in NormallyClosed : \A i \in 1..Len(p) :
        Opens(p[i], v) => \E k \in i + 1..Len(p) : Shuts(p[k], v)

LEMMA IgnProgram == WellFormed(ign) /\ Balanced(ign)
  <1> USE DEF ign, LJM_eWriteName, sleepOrAbort, Step, Igniter, NormallyClosed
  <1>1. WellFormed(ign)
    BY DEF WellFormed, Register, Valve, NormallyOpen, Level
  <1>2. Balanced(ign)
    BY DEF Balanced, Opens, Shuts
  <1>3. QED BY <1>1, <1>2

LEMMA StopProgram == WellFormed(stop) /\ Balanced(stop)
  <1> USE DEF stop, LJM_eWriteName, Step, NormallyClosed
  <1>1. WellFormed(stop)
    BY DEF WellFormed, Register, Valve, NormallyOpen, Level
  <1>2. Balanced(stop)
    BY DEF Balanced, Opens, Shuts
  <1>3. QED BY <1>1, <1>2

LEMMA OxidizerProgram ==
  ASSUME NEW flow \in Nat, NEW vent \in Nat
  PROVE  WellFormed(Oxidizer(flow, vent)) /\ Balanced(Oxidizer(flow, vent))
  <1> USE DEF Oxidizer, LJM_eWriteName, sleepOrAbort, Step, Igniter,
              NormallyClosed
  <1>1. WellFormed(Oxidizer(flow, vent))
    BY DEF WellFormed, Register, Valve, NormallyOpen, Level
  <1>2. Balanced(Oxidizer(flow, vent))
    BY DEF Balanced, Opens, Shuts
  <1>3. QED BY <1>1, <1>2

LEMMA HotFireProgram == WellFormed(s502) /\ Balanced(s502)
  <1> USE DEF s502, HeatLoop, LJM_eWriteName, sleepOrAbort, Step, Igniter,
              NormallyClosed
  <1>1. WellFormed(s502)
    BY DEF WellFormed, Register, Valve, NormallyOpen, Level
  <1>2. Balanced(s502)
    BY DEF Balanced, Opens, Shuts
  <1>3. QED BY <1>1, <1>2

\* The programs of one step or none: the recording switch, the stubs, a word
\* nobody knows.
LEMMA TrivialPrograms ==
  ASSUME NEW p \in {<< >>, <<Throw>>, <<SetEnabled(0)>>, <<SetEnabled(1)>>}
  PROVE  WellFormed(p) /\ Balanced(p)
  BY DEF WellFormed, Balanced, Opens, Throw, SetEnabled, Step

LEMMA ManualProgram ==
  ASSUME NEW l, l.valve \in Valve
  PROVE  /\ WellFormed(Manual(l))
         /\ Len(Manual(l)) = 1
         /\ \A v \in NormallyClosed :
               Opens(Manual(l)[1], v) => l.valve = v /\ l.status = "open"
  BY DEF WellFormed, Manual, Opens, LJM_eWriteName, Step, OpenLevel, ShutLevel,
         Register, Valve, NormallyOpen, NormallyClosed, Level

\* Every line selects one of those programs.
LEMMA ProgramCases ==
  ASSUME NEW l
  PROVE  \/ Program(l) \in {ign, stop, s403, s403a, s502}
         \/ Program(l) \in {<< >>, <<Throw>>, <<SetEnabled(0)>>, <<SetEnabled(1)>>}
         \/ l.valve \in Valve /\ Program(l) = Manual(l)
  <1>1. \/ Program(l) \in {ign, stop, s403, s403a, s502}
        \/ Program(l) \in {<< >>, <<SetEnabled(0)>>, <<SetEnabled(1)>>}
        \/ Program(l) = Manual(l)
    BY DEF Program
  <1>2. l.valve \in Valve \/ Manual(l) = <<Throw>>
    BY DEF Manual
  <1>3. QED BY <1>1, <1>2

LEMMA ProgramWellFormed ==
  ASSUME NEW l
  PROVE  WellFormed(Program(l))
  <1>1. CASE Program(l) \in {ign, stop, s403, s403a, s502}
    BY <1>1, IgnProgram, StopProgram, OxidizerProgram, HotFireProgram
       DEF s403, s403a
  <1>2. CASE Program(l) \in {<< >>, <<Throw>>, <<SetEnabled(0)>>, <<SetEnabled(1)>>}
    BY <1>2, TrivialPrograms
  <1>3. CASE l.valve \in Valve /\ Program(l) = Manual(l)
    BY <1>3, ManualProgram
  <1>4. QED BY <1>1, <1>2, <1>3, ProgramCases

\* A command that opens a valve left to the scripts shuts it in a later step.
LEMMA OpenedIsShut ==
  ASSUME NEW l \in Line \cup {NoTask.line}, NEW v \in LeftToScripts,
         NEW i \in 1..Len(Program(l)), Opens(Program(l)[i], v)
  PROVE  \E k \in i + 1..Len(Program(l)) : Shuts(Program(l)[k], v)
  <1>0. v \in NormallyClosed
    BY DEF LeftToScripts
  <1>1. CASE Program(l) \in {ign, stop, s403, s403a, s502}
    <2>1. Balanced(Program(l))
      BY <1>1, IgnProgram, StopProgram, OxidizerProgram, HotFireProgram
         DEF s403, s403a
    <2>2. QED BY <2>1, <1>0 DEF Balanced
  <1>2. CASE Program(l) \in {<< >>, <<Throw>>, <<SetEnabled(0)>>, <<SetEnabled(1)>>}
    <2>1. Balanced(Program(l))
      BY <1>2, TrivialPrograms
    <2>2. QED BY <2>1, <1>0 DEF Balanced
  <1>3. CASE l.valve \in Valve /\ Program(l) = Manual(l)
    <2>1. Len(Program(l)) = 1 /\ Opens(Program(l)[1], v)
      BY <1>3, ManualProgram
    <2>2. l.valve = v /\ l.status = "open"
      BY <2>1, <1>3, <1>0, ManualProgram
    <2>3. l \in Line
      <3>1. NoTask.line = [valve |-> "none", status |-> "none"]
        BY DEF NoTask, Word
      <3>2. l # NoTask.line
        BY <3>1, <2>2
      <3>3. QED BY <3>2
    <2>4. l = Order(v, "open")
      BY <2>2, <2>3, DispatchAssumption DEF Order
    <2>5. QED BY <2>3, <2>4 DEF LeftToScripts
  <1>4. QED BY <1>1, <1>2, <1>3, ProgramCases
-------------------------------------------------------------------------------
\* What the proofs need of the abort's writes: each drives a valve to its safe
\* level, which shuts a normally closed valve, and no valve is forgotten.
LEMMA AbortWritesFacts ==
  /\ Len(AbortWrites) = 16
  /\ \A k \in 1..16 :
        /\ AbortWrites[k].reg \in Valve
        /\ AbortWrites[k].level = Contract!SafeLevel(AbortWrites[k].reg)
        /\ AbortWrites[k].reg \in NormallyClosed => AbortWrites[k].level = 1
  /\ \A v \in Valve : \E k \in 1..16 : AbortWrites[k].reg = v
  <1> USE DEF AbortWrites, LJM_eWriteName, Step, NormallyClosed
  <1>1. Len(AbortWrites) = 16
    OBVIOUS
  <1>2. \A k \in 1..16 : AbortWrites[k].reg \in Valve
    BY DEF Valve, NormallyOpen
  <1>3. \A k \in 1..16 :
           AbortWrites[k].level = Contract!SafeLevel(AbortWrites[k].reg)
    BY DEF Contract!SafeLevel
  <1>4. \A k \in 1..16 :
           AbortWrites[k].reg \in NormallyClosed => AbortWrites[k].level = 1
    OBVIOUS
  <1>5. \A v \in Valve : \E k \in 1..16 : AbortWrites[k].reg = v
    BY DEF Valve, NormallyOpen
  <1>6. QED BY <1>1, <1>2, <1>3, <1>4, <1>5

LEMMA SafeLevels == \A v \in Valve : Contract!SafeLevel(v) \in Level
  BY DEF Contract!SafeLevel, Level

\* An idle thread's task is a legal one.
LEMMA NoTaskType ==
  /\ NoTask \in Task /\ NoTask.pc = 0
  /\ NoTask.pc <= Len(Program(NoTask.line)) + 1
  <1>1. NoTask \in Task /\ NoTask.pc = 0
    BY DEF NoTask, Task
  <1>2. Len(Program(NoTask.line)) \in Nat
    BY ProgramWellFormed DEF WellFormed
  <1>3. QED BY <1>1, <1>2

\* One device write keeps the types, and changes register r only.
LEMMA PutEffect ==
  ASSUME reg \in [Register -> Level], missed \subseteq Register,
         NEW r \in Register, NEW level \in Level, Put(r, level)
  PROVE  /\ reg' \in [Register -> Level] /\ missed' \subseteq Register
         /\ r \in missed' \/ reg'[r] = level
         /\ \A q \in Register \ {r} : reg'[q] = reg[q] /\ (q \in missed' <=> q \in missed)
  BY DEF Put

\* The threads' steps name registers and levels.
LEMMA NextStepType ==
  ASSUME NEW w \in Worker, At(w, "write")
  PROVE  NextStep(w).reg \in Register /\ NextStep(w).level \in Level
  BY ProgramWellFormed DEF At, NextStep, Steps, WellFormed

LEMMA InitType == Init => TypeOK
  <1> SUFFICES ASSUME Init PROVE TypeOK
    OBVIOUS
  <1>1. task \in [Worker -> Task] /\ \A w \in Worker : task[w].pc <= Len(Steps(w)) + 1
    BY NoTaskType DEF Init, Steps
  <1>2. queue \in Seq(Line)
    BY DEF Init
  <1>3. reg \in [Register -> Level]
    BY DEF Init, Level
  <1>4. secured \in 0..Len(AbortWrites)
    BY AbortWritesFacts DEF Init
  <1>5. QED BY <1>1, <1>2, <1>3, <1>4 DEF Init, TypeOK

\* Advance and Return keep the tasks legal.
LEMMA AdvanceType ==
  ASSUME TypeOK, NEW w \in Worker, task[w].pc \in 1..Len(Steps(w)), Advance(w)
  PROVE  /\ task' \in [Worker -> Task]
         /\ \A u \in Worker : (task[u].pc <= Len(Steps(u)) + 1)'
  <1>1. Len(Steps(w)) \in Nat
    BY ProgramWellFormed DEF Steps, WellFormed
  <1>2. task'[w] = [line |-> task[w].line, pc |-> task[w].pc + 1]
    BY DEF Advance, TypeOK, Task
  <1>3. \A u \in Worker \ {w} : task'[u] = task[u]
    BY DEF Advance, TypeOK
  <1>4. task' \in [Worker -> Task]
    BY <1>1, <1>2, <1>3 DEF Advance, TypeOK, Task
  <1>5. QED BY <1>1, <1>2, <1>3, <1>4 DEF TypeOK, Steps

LEMMA ReturnType ==
  ASSUME TypeOK, NEW w \in Worker, Return(w)
  PROVE  /\ task' \in [Worker -> Task]
         /\ \A u \in Worker : (task[u].pc <= Len(Steps(u)) + 1)'
  <1>1. task'[w] = NoTask /\ \A u \in Worker \ {w} : task'[u] = task[u]
    BY DEF Return, TypeOK
  <1>2. task' \in [Worker -> Task]
    BY <1>1, NoTaskType DEF Return, TypeOK
  <1>3. QED BY <1>1, <1>2, NoTaskType DEF TypeOK, Steps

LEMMA NextType == TypeOK /\ [Next]_vars => TypeOK'
  <1> SUFFICES ASSUME TypeOK, [Next]_vars PROVE TypeOK'
    OBVIOUS
  <1>1. ASSUME NEW l \in Line, Receive(l) PROVE TypeOK'
    BY <1>1 DEF TypeOK, Receive, Steps
  <1>2. CASE AbortStop
    BY <1>2 DEF TypeOK, AbortStop, Steps
  <1>3. CASE AbortRaise
    BY <1>3 DEF TypeOK, AbortRaise, Steps
  <1>4. CASE AbortJoin
    BY <1>4 DEF TypeOK, AbortJoin, Steps
  <1>5. CASE AbortLower
    BY <1>5 DEF TypeOK, AbortLower, Steps
  <1>6. CASE AbortRenew
    <2>1. secured' \in 0..Len(AbortWrites)
      BY <1>6, AbortWritesFacts DEF AbortRenew
    <2>2. QED BY <1>6, <2>1 DEF TypeOK, AbortRenew, Steps
  <1>7. CASE AbortWrite
    <2>1. secured + 1 \in 1..16 /\ secured' \in 0..Len(AbortWrites)
      BY <1>7, AbortWritesFacts DEF TypeOK, AbortWrite
    <2>2. /\ AbortWrites[secured + 1].reg \in Register
          /\ AbortWrites[secured + 1].level \in Level
      BY <2>1, AbortWritesFacts, SafeLevels DEF TypeOK, Register
    <2>3. reg' \in [Register -> Level] /\ missed' \subseteq Register
      BY <1>7, <2>2, PutEffect DEF TypeOK, AbortWrite
    <2>4. QED BY <1>7, <2>1, <2>3 DEF TypeOK, AbortWrite, Steps
  <1>8. CASE AbortDone
    BY <1>8 DEF TypeOK, AbortDone, Steps
  <1>9. ASSUME NEW w \in Worker, Start(w) PROVE TypeOK'
    <2>1. Head(queue) \in Line /\ Tail(queue) \in Seq(Line)
      BY <1>9 DEF TypeOK, Start
    <2>2. Len(Program(Head(queue))) \in Nat
      BY ProgramWellFormed DEF TypeOK, WellFormed
    <2>3. task' \in [Worker -> Task]
      BY <1>9, <2>1 DEF TypeOK, Start, Task
    <2>4. \A u \in Worker : (task[u].pc <= Len(Steps(u)) + 1)'
      BY <1>9, <2>1, <2>2 DEF TypeOK, Start, Steps
    <2>5. QED BY <1>9, <2>1, <2>3, <2>4 DEF TypeOK, Start
  <1>10. ASSUME NEW w \in Worker, Run(w) PROVE TypeOK'
    <2>1. CASE Write(w)
      <3>1. reg' \in [Register -> Level] /\ missed' \subseteq Register
        BY <2>1, NextStepType, PutEffect DEF TypeOK, Write
      <3>2. QED BY <2>1, <3>1, AdvanceType DEF TypeOK, Write, At
    <2>2. CASE Sleep(w)
      BY <2>2, AdvanceType, ReturnType DEF TypeOK, Sleep, At
    <2>3. CASE Heat(w)
      BY <2>3, AdvanceType, ReturnType DEF TypeOK, Heat, At
    <2>4. CASE Enable(w)
      BY <2>4, AdvanceType DEF TypeOK, Enable, At
    <2>5. CASE Terminate(w)
      BY <2>5 DEF TypeOK, Terminate, Steps
    <2>6. CASE Finish(w)
      BY <2>6, ReturnType DEF TypeOK, Finish
    <2>7. QED BY <1>10, <2>1, <2>2, <2>3, <2>4, <2>5, <2>6 DEF TypeOK, Run
  <1>11. CASE Sample
    BY <1>11 DEF TypeOK, Sample, Steps
  <1>12. CASE UNCHANGED vars
    BY <1>12 DEF TypeOK, vars, Steps
  <1>13. QED
    BY <1>1, <1>2, <1>3, <1>4, <1>5, <1>6, <1>7, <1>8, <1>9, <1>10, <1>11, <1>12
       DEF Next, Abort

\* Type correctness, whatever the threads, the lines and the bounds.
THEOREM TypeCorrect == Spec => []TypeOK
  <1>1. QED BY InitType, NextType, PTL DEF Spec
-------------------------------------------------------------------------------
(***************************************************************************)
(* Control: who may run in which phase of the abort.                       *)
(***************************************************************************)
Control == NoSurvivor /\ FlagOnlyForJoin /\ StoppedForAbort

\* A thread that makes a step of its program is not idle, and stays within it.
LEMMA RunIsBusy ==
  ASSUME TypeOK, NEW w \in Worker, Run(w)
  PROVE  ~Idle(w) /\ UNCHANGED <<io, secured, queue, stopped, abort_flag>>
  <1>1. CASE task[w].pc \in 1..Len(Steps(w))
    <2>1. Len(Steps(w)) \in Nat
      BY ProgramWellFormed DEF Steps, WellFormed
    <2>2. ~Idle(w)
      BY <1>1, <2>1 DEF Idle
    <2>3. QED BY <2>2 DEF Run, Write, Sleep, Heat, Enable, Terminate, Finish
  <1>2. CASE Finish(w)
    <2>1. Len(Steps(w)) \in Nat
      BY ProgramWellFormed DEF Steps, WellFormed
    <2>2. ~Idle(w)
      BY <1>2, <2>1 DEF Idle, Finish
    <2>3. QED BY <1>2, <2>2 DEF Finish
  <1>3. QED BY <1>1, <1>2 DEF Run, Write, Sleep, Heat, Enable, Terminate, At

\* The threads other than w are where they were.
LEMMA RunsAlone ==
  ASSUME TypeOK, NEW w \in Worker, Run(w) \/ Start(w), NEW u \in Worker \ {w}
  PROVE  task'[u] = task[u]
  BY DEF TypeOK, Run, Write, Sleep, Heat, Enable, Terminate, Finish, Start,
         Advance, Return

LEMMA InitControl == Init => Control
  BY NoTaskType DEF Init, Control, NoSurvivor, FlagOnlyForJoin, StoppedForAbort

LEMMA NextControl == TypeOK /\ Control /\ [Next]_vars => Control'
  <1> SUFFICES ASSUME TypeOK, Control, [Next]_vars PROVE Control'
    OBVIOUS
  <1> USE DEF Control, NoSurvivor, FlagOnlyForJoin, StoppedForAbort
  <1>1. ASSUME NEW l \in Line, Receive(l) PROVE Control'
    BY <1>1 DEF Receive, Idle
  <1>2. CASE AbortStop
    BY <1>2 DEF AbortStop, Idle
  <1>3. CASE AbortRaise
    BY <1>3 DEF AbortRaise, Idle
  <1>4. CASE AbortJoin
    BY <1>4 DEF AbortJoin, Idle
  <1>5. CASE AbortLower
    BY <1>5 DEF AbortLower, Idle
  <1>6. CASE AbortRenew
    BY <1>6 DEF AbortRenew, Idle
  <1>7. CASE AbortWrite
    BY <1>7 DEF AbortWrite, Idle
  <1>8. CASE AbortDone
    BY <1>8 DEF AbortDone, Idle
  <1>9. ASSUME NEW w \in Worker, Start(w) PROVE Control'
    BY <1>9 DEF Start, TypeOK
  <1>10. ASSUME NEW w \in Worker, Run(w) PROVE Control'
    BY <1>10, RunIsBusy
  <1>11. CASE Sample
    BY <1>11 DEF Sample, Idle
  <1>12. CASE UNCHANGED vars
    BY <1>12 DEF vars, Idle
  <1> HIDE DEF Control
  <1>13. QED
    BY <1>1, <1>2, <1>3, <1>4, <1>5, <1>6, <1>7, <1>8, <1>9, <1>10, <1>11, <1>12
       DEF Next, Abort
-------------------------------------------------------------------------------
(***************************************************************************)
(* Every open valve has somebody who is going to shut it.                  *)
(***************************************************************************)
Inductive == TypeOK /\ Control /\ SecuredStays /\ ShutIsDue

\* For a normally closed valve, shut is level 1.
LEMMA ClosedValves ==
  ASSUME NEW v \in LeftToScripts
  PROVE  v \in NormallyClosed /\ v \in Valve /\ v \in Register /\ ShutLevel(v) = 1
  BY DEF LeftToScripts, Valve, Register, ShutLevel, OpenLevel, NormallyClosed,
         NormallyOpen

LEMMA InitInductive == Init => Inductive
  <1> SUFFICES ASSUME Init PROVE Inductive
    OBVIOUS
  <1>1. TypeOK /\ Control
    BY InitType, InitControl
  <1>2. SecuredStays
    BY DEF Init, SecuredStays
  <1>3. ASSUME NEW v \in LeftToScripts PROVE reg[v] = ShutLevel(v)
    <2>1. v \in Register /\ v \notin FoundOpen /\ ShutLevel(v) = 1
      BY ClosedValves DEF LeftToScripts
    <2>2. QED BY <2>1 DEF Init
  <1>4. QED BY <1>1, <1>2, <1>3 DEF Inductive, ShutIsDue

\* An abort's write is at its level unless refused; the earlier ones stay.
LEMMA SecuredStep ==
  ASSUME Inductive, AbortWrite
  PROVE  SecuredStays'
  <1> DEFINE k0 == secured + 1
  <1>1. k0 \in 1..16 /\ secured' = k0 /\ secured \in 0..16 /\ io = "secure"
    BY AbortWritesFacts DEF AbortWrite, Inductive, TypeOK
  <1>2. /\ AbortWrites[k0].reg \in Register /\ AbortWrites[k0].level \in Level
        /\ Put(AbortWrites[k0].reg, AbortWrites[k0].level)
    BY <1>1, AbortWritesFacts, SafeLevels DEF Register, AbortWrite
  <1>3. /\ AbortWrites[k0].reg \in missed'
             \/ reg'[AbortWrites[k0].reg] = AbortWrites[k0].level
        /\ \A q \in Register \ {AbortWrites[k0].reg} :
               reg'[q] = reg[q] /\ (q \in missed' <=> q \in missed)
    BY <1>2, PutEffect DEF Inductive, TypeOK
  <1>4. ASSUME NEW k \in 1..k0, AbortWrites[k].reg \notin missed'
        PROVE  reg'[AbortWrites[k].reg] = AbortWrites[k].level
    <2>1. k \in 1..16 /\ AbortWrites[k].reg \in Register
      BY <1>1, AbortWritesFacts DEF Register
    <2>2. CASE AbortWrites[k].reg = AbortWrites[k0].reg
      BY <2>1, <2>2, <1>1, <1>3, <1>4, AbortWritesFacts
    <2>3. CASE AbortWrites[k].reg # AbortWrites[k0].reg
      <3>1. k \in 1..secured
        BY <2>3, <1>1
      <3>2. QED BY <3>1, <2>1, <2>3, <1>1, <1>3, <1>4 DEF Inductive, SecuredStays
    <2>4. QED BY <2>2, <2>3
  <1>5. QED BY <1>1, <1>4 DEF SecuredStays

\* A step of a thread during the abort's writes is impossible.
LEMMA NextSecured ==
  ASSUME Inductive, [Next]_vars
  PROVE  SecuredStays'
  <1> USE DEF SecuredStays
  <1>1. ASSUME NEW l \in Line, Receive(l) PROVE SecuredStays'
    BY <1>1 DEF Receive
  <1>2. CASE AbortStop \/ AbortRaise \/ AbortJoin \/ AbortLower \/ AbortDone
    BY <1>2 DEF AbortStop, AbortRaise, AbortJoin, AbortLower, AbortDone
  <1>3. CASE AbortRenew
    BY <1>3 DEF AbortRenew
  <1>4. CASE AbortWrite
    BY <1>4, SecuredStep
  <1>5. ASSUME NEW w \in Worker, Start(w) PROVE SecuredStays'
    BY <1>5 DEF Start, Inductive, Control, NoSurvivor
  <1>6. ASSUME NEW w \in Worker, Run(w) PROVE SecuredStays'
    <2>1. io' # "secure"
      BY <1>6, RunIsBusy DEF Inductive, Control, NoSurvivor
    <2>2. QED BY <2>1
  <1>7. CASE Sample
    BY <1>7 DEF Sample, Inductive
  <1>8. CASE UNCHANGED vars
    BY <1>8 DEF vars, Inductive
  <1> HIDE DEF SecuredStays
  <1>9. QED
    BY <1>1, <1>2, <1>3, <1>4, <1>5, <1>6, <1>7, <1>8 DEF Next, Abort

\* Valve v is refused, shut, or somebody is going to shut it.
Covered(v) ==
    \/ v \in missed
    \/ reg[v] = 1
    \/ \E w \in Worker : Pending(w, v)
    \/ PendingAbort(v)

LEMMA ShutIsDueCovers == ShutIsDue <=> \A v \in LeftToScripts : Covered(v)
  BY ClosedValves DEF ShutIsDue, Covered

\* A thread that wrote to v either shut it or has its shutting write to come;
\* one that wrote elsewhere has as much to come for v as before.
LEMMA WriteCovers ==
  ASSUME Inductive, NEW w \in Worker, Write(w), NEW v \in LeftToScripts, Covered(v)
  PROVE  Covered(v)'
  <1> DEFINE s == NextStep(w)
             pc == task[w].pc
             line == task[w].line
  <1>1. /\ s.reg \in Register /\ s.level \in Level /\ s.op = "write"
        /\ s = Program(line)[pc] /\ pc \in 1..Len(Program(line))
        /\ Len(Program(line)) \in Nat
    BY NextStepType, ProgramWellFormed
       DEF Write, At, NextStep, Steps, WellFormed
  <1>2. /\ s.reg \in missed' \/ reg'[s.reg] = s.level
        /\ \A q \in Register \ {s.reg} :
               reg'[q] = reg[q] /\ (q \in missed' <=> q \in missed)
    BY <1>1, PutEffect DEF Write, Inductive, TypeOK
  <1>3. task'[w] = [line |-> line, pc |-> pc + 1]
        /\ \A u \in Worker \ {w} : task'[u] = task[u]
    BY <1>1 DEF Write, Advance, Inductive, TypeOK, Task
  <1>4. v \in Register /\ v \in NormallyClosed
    BY ClosedValves
  <1>5. CASE s.reg = v
    <2>1. CASE v \in missed' \/ reg'[v] = 1
      BY <2>1 DEF Covered
    <2>2. CASE reg'[v] = 0 /\ v \notin missed'
      <3>1. Opens(Program(line)[pc], v)
        BY <1>1, <1>2, <1>5, <2>2 DEF Opens, Level
      <3>2. line \in Line \cup {NoTask.line}
        BY DEF Inductive, TypeOK, Task
      <3>3. \E k \in pc + 1..Len(Program(line)) : Shuts(Program(line)[k], v)
        BY <3>1, <3>2, <1>1, OpenedIsShut
      <3>4. Pending(w, v)'
        BY <3>3, <1>1, <1>3 DEF Pending, Idle, Steps
      <3>5. QED BY <3>4 DEF Covered
    <2>3. QED BY <2>1, <2>2, <1>1, <1>2, <1>5 DEF Level
  <1>6. CASE s.reg # v
    <2>1. CASE v \in missed \/ reg[v] = 1
      BY <2>1, <1>2, <1>4, <1>6 DEF Covered
    <2>2. CASE PendingAbort(v)
      <3>1. PendingAbort(v)'
        BY <2>2 DEF PendingAbort, Write
      <3>2. QED BY <3>1 DEF Covered
    <2>3. ASSUME NEW u \in Worker \ {w}, Pending(u, v) PROVE Covered(v)'
      <3>1. Pending(u, v)'
        BY <2>3, <1>3 DEF Pending, Idle, Steps
      <3>2. QED BY <3>1 DEF Covered
    <2>4. CASE Pending(w, v)
      <3>1. PICK k \in pc..Len(Program(line)) : Shuts(Program(line)[k], v)
        BY <2>4 DEF Pending, Steps
      <3>2. k # pc
        BY <3>1, <1>1, <1>6 DEF Shuts
      <3>3. k \in pc + 1..Len(Program(line))
        BY <3>1, <3>2, <1>1
      <3>4. Pending(w, v)'
        BY <3>1, <3>3, <1>1, <1>3 DEF Pending, Idle, Steps
      <3>5. QED BY <3>4 DEF Covered
    <2>5. QED BY <2>1, <2>2, <2>3, <2>4 DEF Covered
  <1>7. QED BY <1>5, <1>6

\* A thread that is cut short leaves the shutting to the abort.
LEMMA CutShortCovers ==
  ASSUME Inductive, abort_flag, UNCHANGED io, NEW v
  PROVE  Covered(v)'
  BY DEF Inductive, Control, FlagOnlyForJoin, Covered, PendingAbort

\* A thread that makes a step other than a write keeps what it had to come.
LEMMA AdvanceCovers ==
  ASSUME Inductive, NEW w \in Worker, task[w].pc \in 1..Len(Steps(w)),
         NextStep(w).op # "write", Advance(w), UNCHANGED <<io, secured, reg, missed>>,
         NEW v \in LeftToScripts, Covered(v)
  PROVE  Covered(v)'
  <1>1. Len(Steps(w)) \in Nat
    BY ProgramWellFormed DEF Steps, WellFormed
  <1>2. task'[w] = [line |-> task[w].line, pc |-> task[w].pc + 1]
        /\ \A u \in Worker \ {w} : task'[u] = task[u]
    BY <1>1 DEF Advance, Inductive, TypeOK, Task
  <1>3. CASE v \in missed \/ reg[v] = 1 \/ PendingAbort(v)
    BY <1>3 DEF Covered, PendingAbort
  <1>4. ASSUME NEW u \in Worker \ {w}, Pending(u, v) PROVE Covered(v)'
    <2>1. Pending(u, v)'
      BY <1>4, <1>2 DEF Pending, Idle, Steps
    <2>2. QED BY <2>1 DEF Covered
  <1>5. CASE Pending(w, v)
    <2>1. PICK k \in task[w].pc..Len(Steps(w)) : Shuts(Steps(w)[k], v)
      BY <1>5 DEF Pending
    <2>2. k \in task[w].pc + 1..Len(Steps(w))
      BY <2>1, <1>1 DEF Shuts, NextStep
    <2>3. Pending(w, v)'
      BY <2>1, <2>2, <1>1, <1>2 DEF Pending, Idle, Steps
    <2>4. QED BY <2>3 DEF Covered
  <1>6. QED BY <1>3, <1>4, <1>5 DEF Covered

\* A thread with nothing to come for any valve may change its task freely.
LEMMA OthersCover ==
  ASSUME Inductive, NEW w \in Worker, NEW v, ~Pending(w, v), Covered(v),
         \A u \in Worker \ {w} : task'[u] = task[u],
         UNCHANGED <<io, secured, reg, missed>>
  PROVE  Covered(v)'
  <1>1. CASE v \in missed \/ reg[v] = 1 \/ PendingAbort(v)
    BY <1>1 DEF Covered, PendingAbort
  <1>2. ASSUME NEW u \in Worker \ {w}, Pending(u, v) PROVE Covered(v)'
    <2>1. Pending(u, v)'
      BY <1>2 DEF Pending, Idle, Steps
    <2>2. QED BY <2>1 DEF Covered
  <1>3. QED BY <1>1, <1>2 DEF Covered

LEMMA AbortWriteCovers ==
  ASSUME Inductive, AbortWrite, NEW v \in LeftToScripts, Covered(v)
  PROVE  Covered(v)'
  <1> DEFINE k0 == secured + 1
             r  == AbortWrites[k0].reg
  <1>1. k0 \in 1..16 /\ secured' = k0 /\ io = "secure" /\ io' = "secure"
    BY AbortWritesFacts DEF AbortWrite, Inductive, TypeOK
  <1>2. r \in Register /\ AbortWrites[k0].level \in Level
    BY <1>1, AbortWritesFacts, SafeLevels DEF Register
  <1>3. /\ r \in missed' \/ reg'[r] = AbortWrites[k0].level
        /\ \A q \in Register \ {r} :
               reg'[q] = reg[q] /\ (q \in missed' <=> q \in missed)
    BY <1>2, PutEffect DEF AbortWrite, Inductive, TypeOK
  <1>4. v \in Register /\ v \in NormallyClosed
    BY ClosedValves
  <1>5. CASE r = v
    BY <1>1, <1>3, <1>4, <1>5, AbortWritesFacts DEF Covered
  <1>6. CASE r # v
    <2>1. CASE v \in missed \/ reg[v] = 1
      BY <2>1, <1>3, <1>4, <1>6 DEF Covered
    <2>2. ASSUME NEW w \in Worker PROVE ~Pending(w, v)
      BY <1>1 DEF Pending, Inductive, Control, NoSurvivor
    <2>3. CASE PendingAbort(v)
      <3>1. PICK k \in k0..Len(AbortWrites) : AbortWrites[k].reg = v
        BY <2>3, <1>1 DEF PendingAbort
      <3>2. k \in k0 + 1..Len(AbortWrites)
        BY <3>1, <1>1, <1>6, AbortWritesFacts
      <3>3. PendingAbort(v)'
        BY <3>1, <3>2, <1>1 DEF PendingAbort
      <3>4. QED BY <3>3 DEF Covered
    <2>4. QED BY <2>1, <2>2, <2>3 DEF Covered
  <1>7. QED BY <1>5, <1>6

LEMMA NextCovers ==
  ASSUME Inductive, [Next]_vars, NEW v \in LeftToScripts, Covered(v)
  PROVE  Covered(v)'
  <1> USE DEF Pending, Idle, Steps, PendingAbort
  <1>1. ASSUME NEW l \in Line, Receive(l) PROVE Covered(v)'
    BY <1>1 DEF Covered, Receive
  <1>2. CASE AbortStop \/ AbortRaise \/ AbortJoin \/ AbortLower
    BY <1>2 DEF Covered, AbortStop, AbortRaise, AbortJoin, AbortLower
  <1>3. CASE AbortRenew
    <2>1. io' = "secure" /\ secured' = 0
      BY <1>3 DEF AbortRenew
    <2>2. \E k \in 0 + 1..Len(AbortWrites) : AbortWrites[k].reg = v
      BY ClosedValves, AbortWritesFacts
    <2>3. PendingAbort(v)'
      BY <2>1, <2>2
    <2>4. QED BY <2>3 DEF Covered
  <1>4. CASE AbortWrite
    BY <1>4, AbortWriteCovers
  <1>5. CASE AbortDone
    <2>1. ~PendingAbort(v)
      BY <1>5, AbortWritesFacts DEF AbortDone
    <2>2. QED BY <1>5, <2>1 DEF Covered, AbortDone
  <1> HIDE DEF Pending, PendingAbort
  <1>6. ASSUME NEW w \in Worker, Start(w) PROVE Covered(v)'
    <2>1. ~Pending(w, v) /\ UNCHANGED <<io, secured, reg, missed>>
      BY <1>6 DEF Start, Pending
    <2>2. \A u \in Worker \ {w} : task'[u] = task[u]
      BY <1>6, RunsAlone DEF Inductive
    <2>3. QED BY <2>1, <2>2, OthersCover
  <1>7. ASSUME NEW w \in Worker, Run(w) PROVE Covered(v)'
    <2>1. CASE Write(w)
      BY <2>1, WriteCovers
    <2>2. CASE Sleep(w)
      BY <2>2, AdvanceCovers, CutShortCovers DEF Sleep, At, NextStep
    <2>3. CASE Heat(w)
      BY <2>3, AdvanceCovers, CutShortCovers DEF Heat, At, NextStep
    <2>4. CASE Enable(w)
      BY <2>4, AdvanceCovers DEF Enable, At, NextStep
    <2>5. CASE Terminate(w)
      BY <2>5 DEF Covered, Terminate, Pending, PendingAbort
    <2>6. CASE Finish(w)
      <3>1. Len(Steps(w)) \in Nat
        BY ProgramWellFormed DEF Steps, WellFormed
      <3>2. ~Pending(w, v) /\ UNCHANGED <<io, secured, reg, missed>>
        BY <2>6, <3>1 DEF Finish, Pending
      <3>3. \A u \in Worker \ {w} : task'[u] = task[u]
        BY <1>7, RunsAlone DEF Inductive
      <3>4. QED BY <3>2, <3>3, OthersCover
    <2>7. QED BY <1>7, <2>1, <2>2, <2>3, <2>4, <2>5, <2>6 DEF Run
  <1>8. CASE Sample
    BY <1>8 DEF Covered, Sample, Pending, PendingAbort
  <1>9. CASE UNCHANGED vars
    BY <1>9 DEF Covered, vars, Pending, PendingAbort
  <1> HIDE DEF Covered
  <1>10. QED
    BY <1>1, <1>2, <1>3, <1>4, <1>5, <1>6, <1>7, <1>8, <1>9 DEF Next, Abort

LEMMA NextInductive == Inductive /\ [Next]_vars => Inductive'
  <1> SUFFICES ASSUME Inductive, [Next]_vars PROVE Inductive'
    OBVIOUS
  <1>1. TypeOK' /\ Control'
    BY NextType, NextControl DEF Inductive
  <1>2. SecuredStays'
    BY NextSecured
  <1>3. ShutIsDue'
    <2>1. \A v \in LeftToScripts : Covered(v)
      BY ShutIsDueCovers DEF Inductive
    <2>2. \A v \in LeftToScripts : Covered(v)'
      BY <2>1, NextCovers
    <2>3. (ShutIsDue <=> \A v \in LeftToScripts : Covered(v))'
      BY ShutIsDueCovers, PTL
    <2>4. QED BY <2>2, <2>3 DEF LeftToScripts
  <1>4. QED BY <1>1, <1>2, <1>3 DEF Inductive

\* The inductive invariant holds in every reachable state, for any threads,
\* any lines, any valves found open and any number of failed writes.
THEOREM InvariantCorrect == Spec => []IInv
  <1>1. Inductive => IInv
    BY DEF Inductive, Control, IInv
  <1>2. QED BY InitInductive, NextInductive, <1>1, PTL DEF Spec

\* No command posted before an abort runs or waits once the abort has joined
\* the old pool.
THEOREM NoSurvivorCorrect == Spec => []NoSurvivor
  <1>1. IInv => NoSurvivor
    BY DEF IInv
  <1>2. QED BY InvariantCorrect, <1>1, PTL

\* Once nothing runs, what only sequences open is shut.
THEOREM NothingLeftOpenCorrect == Spec => []NothingLeftOpen
  <1>1. ASSUME IInv, Quiescent, NEW v \in LeftToScripts \ missed
        PROVE  reg[v] = ShutLevel(v)
    BY <1>1 DEF IInv, ShutIsDue, Quiescent, Pending, PendingAbort
  <1>2. IInv => NothingLeftOpen
    BY <1>1 DEF NothingLeftOpen
  <1>3. QED BY InvariantCorrect, <1>2, PTL
-------------------------------------------------------------------------------
\* A command is cut short only by an abort that waits for it.
THEOREM OnlyAbortCutsShortCorrect == Spec => OnlyAbortCutsShort
  <1> DEFINE A == \A w \in Worker :
                    (~Idle(w) /\ task'[w].pc = 0 /\ task[w].pc <= Len(Steps(w)))
                        => io = "join"
  <1>1. ASSUME IInv, [Next]_vars, NEW w \in Worker,
               ~Idle(w), task'[w].pc = 0, task[w].pc <= Len(Steps(w))
        PROVE  io = "join"
    <2>1. task' # task
      BY <1>1 DEF Idle
    <2>2. PICK u \in Worker : Start(u) \/ Run(u)
      BY <1>1, <2>1 DEF Next, vars, Abort, Receive, AbortStop, AbortRaise,
         AbortJoin, AbortLower, AbortRenew, AbortWrite, AbortDone, Sample
    <2>3. u = w
      BY <1>1, <2>2, RunsAlone DEF IInv, Idle
    <2>4. Run(w)
      BY <1>1, <2>2, <2>3 DEF Start
    <2>5. Len(Steps(w)) \in Nat /\ task[w].pc \in Nat
      BY <1>1, ProgramWellFormed DEF Steps, WellFormed, IInv, TypeOK, Task
    <2>6. ~Finish(w)
      BY <1>1, <2>5 DEF Finish
    <2>7. ~Advance(w)
      BY <1>1, <2>5 DEF Advance, IInv, TypeOK, Task
    <2>8. task'[w] # task[w]
      BY <1>1 DEF Idle
    <2>9. abort_flag
      BY <2>4, <2>6, <2>7, <2>8
         DEF Run, Write, Sleep, Heat, Enable, Terminate
    <2>10. QED BY <1>1, <2>9 DEF IInv, FlagOnlyForJoin, NoSurvivor
  <1>2. IInv /\ [Next]_vars => [A]_vars
    BY <1>1
  <1>3. QED BY InvariantCorrect, <1>2, PTL DEF Spec, OnlyAbortCutsShort

\* A waiting command never gets a thread of a pool that an abort has stopped.
THEOREM NothingStartsInAbortCorrect == Spec => NothingStartsInAbort
  <1> DEFINE A == \A w \in Worker : (Idle(w) /\ task'[w].pc # 0) => io = "poll"
  <1>1. ASSUME IInv, [Next]_vars, NEW w \in Worker, Idle(w), task'[w].pc # 0
        PROVE  io = "poll"
    <2>1. task' # task
      BY <1>1 DEF Idle
    <2>2. PICK u \in Worker : Start(u) \/ Run(u)
      BY <1>1, <2>1 DEF Next, vars, Abort, Receive, AbortStop, AbortRaise,
         AbortJoin, AbortLower, AbortRenew, AbortWrite, AbortDone, Sample
    <2>3. u = w
      BY <1>1, <2>2, RunsAlone DEF IInv, Idle
    <2>4. Start(w)
      BY <1>1, <2>2, <2>3, RunIsBusy DEF IInv
    <2>5. ~stopped /\ queue # << >>
      BY <2>4 DEF Start
    <2>6. QED BY <1>1, <2>5 DEF IInv, StoppedForAbort, NoSurvivor, TypeOK
  <1>2. IInv /\ [Next]_vars => [A]_vars
    BY <1>1
  <1>3. QED BY InvariantCorrect, <1>2, PTL DEF Spec, NothingStartsInAbort
-------------------------------------------------------------------------------
(***************************************************************************)
(* The igniter.                                                            *)
(***************************************************************************)
\* Only the hot fire switches the igniter on without switching it off again.
LEMMA LitIsShut ==
  ASSUME NEW l, l # Word("502"), NEW i \in 1..Len(Program(l)),
         Opens(Program(l)[i], Igniter)
  PROVE  \E k \in i + 1..Len(Program(l)) : Shuts(Program(l)[k], Igniter)
  <1>1. \/ Program(l) \in {ign, stop, s403, s403a}
        \/ Program(l) \in {<< >>, <<SetEnabled(0)>>, <<SetEnabled(1)>>}
        \/ Program(l) = Manual(l)
    BY DEF Program
  <1> USE DEF Opens, Shuts, Igniter, LJM_eWriteName, sleepOrAbort, Step
  <1>2. CASE Program(l) = ign
    BY <1>2 DEF ign
  <1>3. CASE Program(l) = stop
    <2>1. \A k \in 1..Len(stop) : stop[k].reg # Igniter
      BY DEF stop
    <2>2. QED BY <1>3, <2>1
  <1>4. CASE Program(l) \in {s403, s403a}
    <2>1. ASSUME NEW flow \in Nat, NEW vent \in Nat,
                 NEW k \in 1..Len(Oxidizer(flow, vent)),
                 Opens(Oxidizer(flow, vent)[k], Igniter)
          PROVE  FALSE
      BY <2>1 DEF Oxidizer
    <2>2. QED BY <1>4, <2>1 DEF s403, s403a
  <1>5. CASE Program(l) \in {<< >>, <<SetEnabled(0)>>, <<SetEnabled(1)>>}
    BY <1>5 DEF SetEnabled
  <1>6. CASE Program(l) = Manual(l)
    BY <1>6 DEF Manual, Throw, Valve, NormallyOpen, NormallyClosed
  <1>7. QED BY <1>1, <1>2, <1>3, <1>4, <1>5, <1>6

\* The abort leaves the igniter as it is.
LEMMA AbortSparesIgniter ==
  ASSUME TypeOK, AbortWrite
  PROVE  reg'[Igniter] = reg[Igniter] /\ (Igniter \in missed' <=> Igniter \in missed)
  <1> DEFINE k0 == secured + 1
             r  == AbortWrites[k0].reg
  <1>1. k0 \in 1..16
    BY AbortWritesFacts DEF AbortWrite, TypeOK
  <1>2. r \in Valve /\ AbortWrites[k0].level \in Level
    BY <1>1, AbortWritesFacts, SafeLevels
  <1>3. r # Igniter /\ r \in Register /\ Igniter \in Register
    BY <1>2 DEF Register, Valve, NormallyOpen, NormallyClosed, Igniter
  <1>4. QED BY <1>2, <1>3, PutEffect DEF AbortWrite, TypeOK

\* What a thread has to come stays to come while it stands, and while it goes
\* on past a step that is no write of the igniter.
LEMMA PendingStays ==
  ASSUME NEW u \in Worker, Pending(u, Igniter), task'[u] = task[u]
  PROVE  Pending(u, Igniter)'
  BY DEF Pending, Idle, Steps

LEMMA PendingAdvances ==
  ASSUME TypeOK, NEW w \in Worker, task[w].pc \in 1..Len(Steps(w)), Advance(w),
         ~(NextStep(w).op = "write" /\ NextStep(w).reg = Igniter),
         Pending(w, Igniter)
  PROVE  Pending(w, Igniter)'
  <1>1. Len(Steps(w)) \in Nat
    BY ProgramWellFormed DEF Steps, WellFormed
  <1>2. task'[w] = [line |-> task[w].line, pc |-> task[w].pc + 1]
    BY DEF Advance, TypeOK, Task
  <1>3. PICK k \in task[w].pc..Len(Steps(w)) : Shuts(Steps(w)[k], Igniter)
    BY DEF Pending
  <1>4. k \in task[w].pc + 1..Len(Steps(w))
    BY <1>1, <1>3 DEF Shuts, NextStep
  <1>5. QED BY <1>1, <1>2, <1>3, <1>4 DEF Pending, Idle, Steps

\* A write to the igniter switches it off or has its switching off to come,
\* but for that of the hot fire.
LEMMA IgniterWritten ==
  ASSUME TypeOK, NEW w \in Worker, Write(w), NextStep(w).reg = Igniter,
         ~(Lights(w) /\ task[w].line = Word("502"))
  PROVE  IgniterDue'
  <1> DEFINE s == NextStep(w)
             pc == task[w].pc
             line == task[w].line
  <1>1. /\ s.reg \in Register /\ s.level \in Level /\ s.op = "write"
        /\ s = Program(line)[pc] /\ pc \in 1..Len(Program(line))
        /\ Len(Program(line)) \in Nat
    BY NextStepType, ProgramWellFormed
       DEF Write, At, NextStep, Steps, WellFormed
  <1>2. Igniter \in missed' \/ reg'[Igniter] = s.level
    BY <1>1, PutEffect DEF Write, TypeOK
  <1>3. task'[w] = [line |-> line, pc |-> pc + 1]
    BY <1>1 DEF Write, Advance, TypeOK, Task
  <1>4. CASE s.level = 1
    BY <1>2, <1>4 DEF IgniterDue
  <1>5. CASE s.level = 0
    <2>1. task'[w] # task[w]
      <3>1. task'[w].pc = pc + 1 /\ pc \in Nat
        BY <1>1, <1>3
      <3>2. QED BY <3>1
    <2>2. Lights(w)
      BY <1>5, <2>1 DEF Lights, Write
    <2>3. Opens(Program(line)[pc], Igniter) /\ line # Word("502")
      BY <1>1, <1>5, <2>2 DEF Opens
    <2>4. \E k \in pc + 1..Len(Program(line)) : Shuts(Program(line)[k], Igniter)
      BY <1>1, <2>3, LitIsShut
    <2>5. Pending(w, Igniter)'
      BY <1>1, <1>3, <2>4 DEF Pending, Idle, Steps
    <2>6. QED BY <2>5 DEF IgniterDue
  <1>6. QED BY <1>1, <1>4, <1>5 DEF Level

\* A step of a thread that is neither of the two exceptions leaves the igniter
\* off, or to somebody.
LEMMA IgniterRun ==
  ASSUME TypeOK, NEW w \in Worker, Run(w), IgniterDue, ~CutShort(w),
         ~(Lights(w) /\ task[w].line = Word("502"))
  PROVE  IgniterDue'
  <1>0. Len(Steps(w)) \in Nat
    BY ProgramWellFormed DEF Steps, WellFormed
  <1>1. \A u \in Worker \ {w} : task'[u] = task[u]
    BY RunsAlone
  <1>2. ASSUME NEW u \in Worker \ {w}, Pending(u, Igniter) PROVE IgniterDue'
    BY <1>1, <1>2, PendingStays DEF IgniterDue
  <1>3. CASE Write(w)
    <2>1. CASE NextStep(w).reg = Igniter
      BY <1>3, <2>1, IgniterWritten
    <2>2. CASE NextStep(w).reg # Igniter
      <3>1. reg'[Igniter] = reg[Igniter] /\ (Igniter \in missed' <=> Igniter \in missed)
        BY <1>3, <2>2, NextStepType, PutEffect DEF Write, TypeOK, Register
      <3>2. Pending(w, Igniter) => Pending(w, Igniter)'
        BY <1>3, <2>2, PendingAdvances DEF Write, At
      <3>3. QED BY <1>2, <3>1, <3>2 DEF IgniterDue
    <2>3. QED BY <2>1, <2>2
  <1>4. ASSUME task[w].pc \in 1..Len(Steps(w)), NextStep(w).op # "write",
               Advance(w) \/ Return(w), UNCHANGED <<reg, missed>>
        PROVE  IgniterDue'
    <2>1. ~Return(w)
      BY <1>0, <1>4 DEF CutShort, Idle, Return, NoTask, TypeOK
    <2>2. Pending(w, Igniter) => Pending(w, Igniter)'
      BY <1>4, <2>1, PendingAdvances
    <2>3. QED BY <1>2, <1>4, <2>2 DEF IgniterDue
  <1>5. CASE Sleep(w) \/ Heat(w) \/ Enable(w)
    BY <1>4, <1>5 DEF Sleep, Heat, Enable, At, NextStep
  <1>6. CASE Terminate(w)
    BY <1>2, <1>6, PendingStays DEF IgniterDue, Terminate
  <1>7. CASE Finish(w)
    <2>1. ~Pending(w, Igniter) /\ UNCHANGED <<reg, missed>>
      BY <1>0, <1>7 DEF Finish, Pending
    <2>2. QED BY <1>2, <2>1 DEF IgniterDue
  <1>8. QED BY <1>3, <1>5, <1>6, <1>7 DEF Run

\* The igniter is left on with nobody to switch it off only by a hot fire that
\* switches it on or by an abort that cuts a command short, however many
\* commands run next to each other.
THEOREM IgniterLeftOnCorrect == Spec => IgniterLeftOn
  <1> DEFINE Excused == \E w \in Worker : \/ CutShort(w)
                                          \/ Lights(w) /\ task[w].line = Word("502")
             A == IgniterDue /\ ~IgniterDue' => Excused
  <1>1. ASSUME TypeOK, [Next]_vars, IgniterDue, ~Excused
        PROVE  IgniterDue'
    <2>1. ASSUME UNCHANGED <<task, reg, missed>> PROVE IgniterDue'
      BY <1>1, <2>1, PendingStays DEF IgniterDue
    <2>2. CASE AbortWrite
      <3>1. UNCHANGED task
        BY <2>2 DEF AbortWrite
      <3>2. QED BY <1>1, <2>2, <3>1, AbortSparesIgniter, PendingStays DEF IgniterDue
    <2>3. ASSUME NEW w \in Worker, Start(w) PROVE IgniterDue'
      <3>1. ~Pending(w, Igniter) /\ UNCHANGED <<reg, missed>>
        BY <2>3 DEF Start, Pending
      <3>2. \A u \in Worker \ {w} : task'[u] = task[u]
        BY <1>1, <2>3, RunsAlone
      <3>3. QED BY <1>1, <3>1, <3>2, PendingStays DEF IgniterDue
    <2>4. ASSUME NEW w \in Worker, Run(w) PROVE IgniterDue'
      BY <1>1, <2>4, IgniterRun
    <2>5. QED
      BY <1>1, <2>1, <2>2, <2>3, <2>4
         DEF Next, Abort, Receive, AbortStop, AbortRaise, AbortJoin, AbortLower,
             AbortRenew, AbortDone, Sample, vars
  <1>2. TypeOK /\ [Next]_vars => [A]_vars
    BY <1>1
  <1>3. QED BY TypeCorrect, <1>2, PTL DEF Spec, IgniterLeftOn
-------------------------------------------------------------------------------
(***************************************************************************)
(* Why the join of an abort returns: the part of AbortCompletes that needs *)
(* no fairness.                                                            *)
(***************************************************************************)
\* Thread w is at a statement that the present state lets it make: it waits for
\* no temperature, no lock and no other thread.
Unhindered(w) ==
    \/ At(w, "write") \/ At(w, "sleep") \/ At(w, "enabled") \/ At(w, "throw")
    \/ At(w, "heat") /\ (hot \/ abort_flag)
    \/ task[w].pc = Len(Steps(w)) + 1

\* While the abort joins the pool, each of its threads has ended or can go on.
JoinHindersNobody == io = "join" => \A w \in Worker : Idle(w) \/ Unhindered(w)

\* ... and whatever it does brings it nearer to its end.
Nearer(w) ==
    \/ task'[w] = task[w]
    \/ task'[w].pc = 0
    \/ /\ task'[w].line = task[w].line /\ task'[w].pc = task[w].pc + 1
       /\ task'[w].pc <= Len(Steps(w)) + 1

JoinShrinks == [][io = "join" => \A w \in Worker : Nearer(w)]_vars

FlagForJoin == io = "join" => abort_flag

LEMMA InitFlag == Init => FlagForJoin
  BY DEF Init, FlagForJoin

LEMMA NextFlag == FlagForJoin /\ [Next]_vars => FlagForJoin'
  <1> SUFFICES ASSUME FlagForJoin, [Next]_vars PROVE FlagForJoin'
    OBVIOUS
  <1> USE DEF FlagForJoin
  <1>1. ASSUME NEW l \in Line, Receive(l) PROVE FlagForJoin'
    BY <1>1 DEF Receive
  <1>2. CASE AbortStop \/ Abort
    BY <1>2 DEF AbortStop, Abort, AbortRaise, AbortJoin, AbortLower, AbortRenew,
                AbortWrite, AbortDone
  <1>3. ASSUME NEW w \in Worker, Start(w) \/ Run(w) PROVE FlagForJoin'
    BY <1>3 DEF Start, Run, Write, Sleep, Heat, Enable, Terminate, Finish
  <1>4. CASE Sample \/ UNCHANGED vars
    BY <1>4 DEF Sample, vars
  <1>5. QED BY <1>1, <1>2, <1>3, <1>4 DEF Next

\* The statements there are.
LEMMA HotFireOps ==
  /\ Len(s502) = 18
  /\ \A k \in 1..18 : s502[k].op \in {"write", "sleep", "heat"}
  <1>1. Len(s502) = 18
    BY DEF s502
  <1>2. \A k \in 1..18 : s502[k].op \in {"write", "sleep", "heat"}
    BY DEF s502, LJM_eWriteName, sleepOrAbort, HeatLoop, Step
  <1>3. QED BY <1>1, <1>2

LEMMA ProgramOps ==
  ASSUME NEW l, NEW i \in 1..Len(Program(l))
  PROVE  Program(l)[i].op \in {"write", "sleep", "heat", "enabled", "throw"}
  <1> DEFINE Known(p) == \A k \in 1..Len(p) :
                p[k].op \in {"write", "sleep", "heat", "enabled", "throw"}
  <1> USE DEF LJM_eWriteName, sleepOrAbort, HeatLoop, Step
  <1>1. Known(ign) /\ Known(stop)
    BY DEF ign, stop
  <1>2. ASSUME NEW flow \in Nat, NEW vent \in Nat PROVE Known(Oxidizer(flow, vent))
    BY DEF Oxidizer
  <1>3. Known(s502)
    BY HotFireOps
  <1>4. ASSUME NEW p \in {<< >>, <<Throw>>, <<SetEnabled(0)>>, <<SetEnabled(1)>>}
        PROVE  Known(p)
    BY <1>4 DEF Throw, SetEnabled
  <1>5. Known(Manual(l))
    BY DEF Manual, Throw
  <1> HIDE DEF Known
  <1>6. Known(Program(l))
    BY <1>1, <1>2, <1>3, <1>4, <1>5, ProgramCases DEF s403, s403a
  <1>7. QED BY <1>6 DEF Known

\* No thread keeps an abort waiting for anything but its own next statement: not
\* the hot fire either, whose loop the flag ends.
THEOREM JoinHindersNobodyCorrect == Spec => []JoinHindersNobody
  <1>1. TypeOK /\ FlagForJoin => JoinHindersNobody
    <2> SUFFICES ASSUME TypeOK, FlagForJoin, io = "join",
                        NEW w \in Worker, ~Idle(w)
                 PROVE  Unhindered(w)
      BY DEF JoinHindersNobody
    <2>1. Len(Steps(w)) \in Nat /\ task[w].pc \in Nat
      BY ProgramWellFormed DEF Steps, WellFormed, TypeOK, Task
    <2>2. task[w].pc \in 1..Len(Steps(w)) \/ task[w].pc = Len(Steps(w)) + 1
      BY <2>1 DEF Idle, TypeOK
    <2>3. CASE task[w].pc \in 1..Len(Steps(w))
      <3>1. Steps(w)[task[w].pc].op
               \in {"write", "sleep", "heat", "enabled", "throw"}
        BY <2>3, ProgramOps DEF Steps
      <3>2. abort_flag
        BY DEF FlagForJoin
      <3>3. QED BY Zenon, <2>3, <3>1, <3>2 DEF Unhindered, At
    <2>4. QED BY <2>2, <2>3 DEF Unhindered
  <1>2. QED BY TypeCorrect, InitFlag, NextFlag, <1>1, PTL DEF Spec

\* During the join nothing starts and no command goes back: the statements the
\* threads have still to make only get fewer.
THEOREM JoinShrinksCorrect == Spec => JoinShrinks
  <1> DEFINE A == io = "join" => \A w \in Worker : Nearer(w)
  <1>1. ASSUME IInv, [Next]_vars, io = "join", NEW w \in Worker
        PROVE  Nearer(w)
    <2>1. CASE UNCHANGED task
      BY <2>1 DEF Nearer
    <2>2. ASSUME NEW u \in Worker, Start(u) PROVE FALSE
      BY <1>1, <2>2 DEF Start, IInv, StoppedForAbort
    <2>3. ASSUME NEW u \in Worker, Run(u) PROVE Nearer(w)
      <3>1. CASE u # w
        BY <1>1, <2>3, <3>1, RunsAlone DEF Nearer, IInv
      <3>2. CASE u = w /\ task[w].pc \in 1..Len(Steps(w)) /\ Advance(w)
        <4>1. task'[w] = [line |-> task[w].line, pc |-> task[w].pc + 1]
          BY <1>1, <3>2 DEF Advance, IInv, TypeOK, Task
        <4>2. Len(Steps(w)) \in Nat
          BY ProgramWellFormed DEF Steps, WellFormed
        <4>3. QED BY <3>2, <4>1, <4>2 DEF Nearer
      <3>3. CASE u = w /\ Return(w)
        <4>1. task'[w] = NoTask
          BY <1>1, <3>3 DEF Return, IInv, TypeOK
        <4>2. QED BY <4>1, NoTaskType DEF Nearer
      <3>4. CASE u = w /\ Terminate(w)
        BY <3>4 DEF Terminate, Nearer
      <3>5. QED BY <2>3, <3>1, <3>2, <3>3, <3>4
                DEF Run, Write, Sleep, Heat, Enable, Finish, At
    <2>4. QED
      BY <1>1, <2>1, <2>2, <2>3
         DEF Next, Abort, Receive, AbortStop, AbortRaise, AbortJoin, AbortLower,
             AbortRenew, AbortWrite, AbortDone, Sample, vars
  <1>2. IInv /\ [Next]_vars => [A]_vars
    BY <1>1
  <1>3. QED BY InvariantCorrect, <1>2, PTL DEF Spec, JoinShrinks
-------------------------------------------------------------------------------
(***************************************************************************)
(* Dispatch implements AbortContract: every step of the I/O thread and of  *)
(* the pool is a step of the contract or leaves it alone.                  *)
(***************************************************************************)
\* The contract names the same valves and levels.
LEMMA SameBoard ==
  Contract!Valve = Valve /\ Contract!Register = Register /\ Contract!Level = Level
  BY DEF Contract!Valve, Contract!NormallyOpen, Contract!NormallyClosed,
         Contract!Register, Contract!Igniter, Contract!Level,
         Valve, NormallyOpen, NormallyClosed, Register, Igniter, Level

LEMMA InitContract == Init => Contract!Init
  <1> SUFFICES ASSUME Init PROVE Contract!Init
    OBVIOUS
  <1>1. Phase = "serving"
    BY DEF Init, Phase
  <1>2. Busy = FALSE
    BY NoTaskType DEF Init, Busy, Idle
  <1>3. reg \in [Register -> Level]
    BY InitType DEF TypeOK
  <1>4. QED BY <1>1, <1>2, <1>3, SameBoard DEF Init, Contract!Init

\* A write of a command, while the contract is busy and not securing.
LEMMA WriteKeepsContract ==
  ASSUME IInv, NEW w \in Worker, Write(w)
  PROVE  Contract!Next \/ UNCHANGED Contract!vars
  <1>1. NextStep(w).reg \in Register /\ NextStep(w).level \in Level
        /\ Put(NextStep(w).reg, NextStep(w).level)
    BY NextStepType DEF Write
  <1>2. \E r \in Register, level \in Level : Contract!Put(r, level)
    BY <1>1 DEF Put, Contract!Put
  <1>3. Run(w)
    BY DEF Run
  <1>4. ~Idle(w) /\ io' = io /\ io \notin {"lower", "renew", "secure"}
    BY <1>3, RunIsBusy DEF IInv, NoSurvivor
  <1>5. Busy /\ Phase # "securing" /\ Phase' = Phase
    BY <1>4 DEF Busy, Phase, IInv, TypeOK
  <1>6. CASE Busy'
    <2>1. Busy' = Busy
      BY <1>5, <1>6 DEF Busy
    <2>2. QED BY <1>2, <1>5, <2>1, SameBoard DEF Contract!CommandWrite, Contract!Next
  <1>7. CASE ~Busy'
    <2>1. task'[w].pc = task[w].pc + 1 /\ task[w].pc \in Nat
      BY DEF Write, Advance, IInv, TypeOK, Task
    <2>2. QED BY <1>7, <2>1 DEF Busy, Idle
  <1>8. QED BY <1>6, <1>7

\* A thread that leaves the board alone: at most the last command has ended.
LEMMA OtherKeepsContract ==
  ASSUME IInv, NEW w \in Worker, Run(w) \/ Start(w), UNCHANGED <<reg, missed>>
  PROVE  Contract!Next \/ UNCHANGED Contract!vars
  <1>1. io' = io /\ Busy
    BY RunIsBusy DEF Start, Busy, IInv
  <1>2. Phase' = Phase
    BY <1>1 DEF Phase
  <1>3. CASE Busy'
    <2>1. Busy' = Busy
      BY <1>1, <1>3 DEF Busy
    <2>2. QED BY <1>2, <2>1 DEF Contract!vars
  <1>4. CASE ~Busy'
    <2>1. Busy' = FALSE
      BY <1>4 DEF Busy
    <2>2. Phase # "securing"
      BY <1>1 DEF Phase, Busy, IInv, TypeOK, NoSurvivor
    <2>3. QED
      BY <1>2, <2>1, <2>2 DEF Contract!LastCommandEnds, Contract!Next
  <1>5. QED BY <1>3, <1>4

LEMMA NextContract == IInv /\ [Next]_vars => [Contract!Next]_Contract!vars
  <1> SUFFICES ASSUME IInv, [Next]_vars
               PROVE  Contract!Next \/ UNCHANGED Contract!vars
    OBVIOUS
  <1>1. ASSUME NEW l \in Line, Receive(l)
        PROVE  Contract!Next \/ UNCHANGED Contract!vars
    <2>1. Busy' = TRUE
      BY <1>1 DEF Receive, Busy, IInv, TypeOK
    <2>2. Phase = "serving" /\ Phase' = Phase
      BY <1>1 DEF Receive, Phase
    <2>3. QED BY <1>1, <2>1, <2>2 DEF Receive, Contract!Accept, Contract!Next
  <1>2. CASE AbortStop
    BY <1>2 DEF AbortStop, Phase, Busy, Idle, Contract!Request, Contract!Next
  <1>3. CASE AbortRaise
    BY <1>3 DEF AbortRaise, Phase, Busy, Idle, Contract!vars
  <1>4. CASE AbortJoin
    <2>1. Phase = "draining" /\ Phase' = "securing"
      BY <1>4 DEF AbortJoin, Phase
    <2>2. Busy' = FALSE
      BY <1>4 DEF AbortJoin, Busy, Idle
    <2>3. QED BY <1>4, <2>1, <2>2 DEF AbortJoin, Contract!Drained, Contract!Next
  <1>5. CASE AbortLower
    BY <1>5 DEF AbortLower, Phase, Busy, Idle, Contract!vars
  <1>6. CASE AbortRenew
    BY <1>6 DEF AbortRenew, Phase, Busy, Idle, Contract!vars
  <1>7. CASE AbortWrite
    <2> DEFINE k0 == secured + 1
    <2>1. k0 \in 1..16
      BY <1>7, AbortWritesFacts DEF AbortWrite, IInv, TypeOK
    <2>2. /\ AbortWrites[k0].reg \in Valve
          /\ AbortWrites[k0].level = Contract!SafeLevel(AbortWrites[k0].reg)
      BY <2>1, AbortWritesFacts
    <2>3. Contract!Put(AbortWrites[k0].reg, Contract!SafeLevel(AbortWrites[k0].reg))
      BY <1>7, <2>2 DEF AbortWrite, Put, Contract!Put
    <2>4. Phase = "securing" /\ Phase' = Phase /\ Busy' = Busy
      BY <1>7 DEF AbortWrite, Phase, Busy, Idle
    <2>5. QED BY <2>2, <2>3, <2>4, SameBoard DEF Contract!SecureWrite, Contract!Next
  <1>8. CASE AbortDone
    <2>1. io = "secure" /\ secured = 16
      BY <1>8, AbortWritesFacts DEF AbortDone
    <2>2. Contract!Secure
      BY <2>1, SameBoard, AbortWritesFacts DEF Contract!Secure, IInv, SecuredStays
    <2>3. Phase = "securing" /\ Phase' = "serving" /\ Busy' = Busy
      BY <1>8 DEF AbortDone, Phase, Busy, Idle
    <2>4. QED BY <1>8, <2>2, <2>3 DEF AbortDone, Contract!Resume, Contract!Next
  <1>9. ASSUME NEW w \in Worker, Start(w)
        PROVE  Contract!Next \/ UNCHANGED Contract!vars
    BY <1>9, OtherKeepsContract DEF Start
  <1>10. ASSUME NEW w \in Worker, Run(w)
         PROVE  Contract!Next \/ UNCHANGED Contract!vars
    <2>1. CASE Write(w)
      BY <2>1, WriteKeepsContract
    <2>2. CASE UNCHANGED <<reg, missed>>
      BY <1>10, <2>2, OtherKeepsContract
    <2>3. QED BY <1>10, <2>1, <2>2 DEF Run, Sleep, Heat, Enable, Terminate, Finish
  <1>11. CASE Sample
    BY <1>11 DEF Sample, Phase, Busy, Idle, Contract!vars
  <1>12. CASE UNCHANGED vars
    BY <1>12 DEF vars, Phase, Busy, Idle, Contract!vars
  <1>13. QED
    BY <1>1, <1>2, <1>3, <1>4, <1>5, <1>6, <1>7, <1>8, <1>9, <1>10, <1>11, <1>12
       DEF Next, Abort

\* The abort of the code keeps the contract, for any threads, lines and bounds:
\* after it no command writes any more, and when the I/O thread serves again
\* every valve is at its safe level unless the device refused its last write.
THEOREM ContractCorrect == Spec => KeepsContract
  <1>1. QED
    BY InvariantCorrect, InitContract, NextContract, PTL
       DEF Spec, KeepsContract, Contract!Spec
===============================================================================
