---------------------------- MODULE TimelineProofs ----------------------------
(***************************************************************************)
(* Proofs about Timeline, for every set of lines, every set of igniter     *)
(* temperatures, any time the heat loop may take, any lines found at level *)
(* 0 and any writes refused.                                               *)
(***************************************************************************)
EXTENDS Timeline, TLAPS

(***************************************************************************)
(* The levels.  Before step k of program p, register r carries the level   *)
(* of the latest write to it, if that was not refused; before the first it *)
(* is de-energised, if it was not found at level 0.                        *)
(***************************************************************************)
WritesTo(p, j, r) == p[j].op = "write" /\ p[j].reg = r

\* No step from i to the one before k writes to r.
Untouched(p, r, i, k) == \A j \in i..k - 1 : ~WritesTo(p, j, r)

Carries(p, k, r, level) ==
    \/ level = 1 /\ Untouched(p, r, 1, k)
    \/ \E j \in 1..k - 1 : /\ WritesTo(p, j, r) /\ level = p[j].level
                           /\ Untouched(p, r, j + 1, k)

AsWritten ==
    \A r \in Register \ (found \cup missed) : Carries(Program1, pc, r, reg[r])

\* Refused or not, what was not found at level 0 is there only if the program has
\* driven it there.
Lowered(p, k, r) == \E j \in 1..k - 1 : WritesTo(p, j, r) /\ p[j].level = 0

LowByScript ==
    \A r \in Register \ found : reg[r] = 0 => Lowered(Program1, pc, r)

(***************************************************************************)
(* The clock.  The time at which a step of the script is due: the sleeps   *)
(* before it, in the hot fire those since the heat loop.                   *)
(***************************************************************************)
OxidizerDue(k) ==
    CASE k <= 2     -> 0
      [] k \in 3..5 -> 100
      [] k \in 6..9 -> 130
      [] OTHER      -> 200

HotFireDue(k) ==
    CASE k <= 8       -> 0
      [] k \in 9..11  -> 45
      [] k \in 12..14 -> 70
      [] OTHER        -> 100

\* The writes of the oxidizer sequence before step k, when they are due.
DueBefore(k) ==
    { Cold(OxidizerDue(j), s403[j].reg, s403[j].level) :
         j \in {i \in 1..k - 1 : s403[i].op = "write"} }

\* The oxidizer sequence is on time.
OxidizerOnTime ==
    line = Word("403") =>
        /\ ignited = 0
        /\ clock = OxidizerDue(pc) + slept
        /\ writes = DueBefore(pc)

\* From t-0 on the hot fire is on time, and has written what the comment says.
BurnOnTime ==
    line = Word("502") =>
        /\ (ignited # 0) <=> (pc > 4)
        /\ pc > 4 => clock = HotFireDue(pc) + slept
        /\ {e \in writes : e.lit} \subseteq CommentHotFire

TypeOK ==
    /\ line \in Script
    /\ pc \in 1..Len(Program1) + 1
    /\ slept \in Nat /\ clock \in Nat /\ ignval \in Nat /\ ignited \in Nat
    /\ ~At("sleep") /\ ~At("heat") => slept = 0
    /\ reg \in [Register -> Level]
    /\ found \subseteq Register /\ missed \subseteq Register
    /\ \A r \in found : reg[r] = 0

TimelineInv ==
    TypeOK /\ AsWritten /\ LowByScript /\ OxidizerOnTime /\ BurnOnTime
-------------------------------------------------------------------------------
(***************************************************************************)
(* The programs.                                                           *)
(***************************************************************************)
LEMMA ProgramOf ==
  /\ Program(Word("ign"))  = ign  /\ Program(Word("stop")) = stop
  /\ Program(Word("403"))  = s403 /\ Program(Word("403a")) = s403a
  /\ Program(Word("502"))  = s502
  <1>1. \A a, b : Word(a) = Word(b) => a = b
    <2>1. \A a : Word(a).valve = a
      BY DEF Word
    <2>2. QED BY <2>1
  <1>2. \A a : Word(a) \in {Word(s) : s \in Stub} => a \in Stub
    BY <1>1
  <1>3. Program(Word("ign")) = ign
    BY <1>1, <1>2 DEF Program, Stub
  <1>4. Program(Word("stop")) = stop
    BY <1>1, <1>2 DEF Program, Stub
  <1>5. Program(Word("403")) = s403
    BY <1>1, <1>2 DEF Program, Stub
  <1>6. Program(Word("403a")) = s403a
    BY <1>1, <1>2 DEF Program, Stub
  <1>7. Program(Word("502")) = s502
    BY <1>1, <1>2 DEF Program, Stub
  <1>8. QED BY <1>3, <1>4, <1>5, <1>6, <1>7

LEMMA ProgramCases ==
  ASSUME NEW l
  PROVE  \/ Program(l) \in {ign, stop, s403, s403a, s502}
         \/ Program(l) \in {<< >>, <<Throw>>, <<SetEnabled(0)>>, <<SetEnabled(1)>>}
         \/ /\ l.valve \in Valve
            /\ \E level \in Level :
                  Program(l) = << LJM_eWriteName(l.valve, level) >>
  <1>1. \/ Program(l) \in {ign, stop, s403, s403a, s502}
        \/ Program(l) \in {<< >>, <<SetEnabled(0)>>, <<SetEnabled(1)>>}
        \/ Program(l) = Manual(l)
    BY DEF Program
  <1>2. CASE l.valve \in Valve
    <2>1. OpenLevel(l.valve) \in Level /\ ShutLevel(l.valve) \in Level
      BY DEF OpenLevel, ShutLevel, Level
    <2>2. \E level \in Level : Manual(l) = << LJM_eWriteName(l.valve, level) >>
      BY <1>2, <2>1 DEF Manual
    <2>3. QED BY <1>1, <1>2, <2>2
  <1>3. CASE l.valve \notin Valve
    BY <1>1, <1>3 DEF Manual
  <1>4. QED BY <1>2, <1>3

\* Every write of a program names a register and a level.
WellFormed(p) ==
    /\ Len(p) \in Nat
    /\ \A i \in 1..Len(p) :
        p[i].op = "write" => p[i].reg \in Register /\ p[i].level \in Level

LEMMA OxidizerWellFormed ==
  ASSUME NEW flow \in Nat, NEW vent \in Nat
  PROVE  WellFormed(Oxidizer(flow, vent))
  BY DEF WellFormed, Oxidizer, LJM_eWriteName, sleepOrAbort, Step, Igniter,
         Register, Valve, NormallyOpen, NormallyClosed, Level

LEMMA ProgramWellFormed ==
  ASSUME NEW l
  PROVE  WellFormed(Program(l))
  <1> USE DEF WellFormed, LJM_eWriteName, Step, Register, Level
  <1>1. WellFormed(s403) /\ WellFormed(s403a)
    BY OxidizerWellFormed DEF s403, s403a
  <1>2. WellFormed(s502)
    BY DEF s502, HeatLoop, sleepOrAbort, Valve, NormallyOpen, NormallyClosed
  <1>3. WellFormed(ign)
    BY DEF ign, sleepOrAbort
  <1>4. WellFormed(stop)
    BY DEF stop, Valve, NormallyOpen, NormallyClosed
  <1>5. ASSUME NEW p \in {<< >>, <<Throw>>, <<SetEnabled(0)>>, <<SetEnabled(1)>>}
        PROVE  WellFormed(p)
    BY <1>5 DEF Throw, SetEnabled
  <1>6. ASSUME NEW v \in Valve, NEW level \in Level
        PROVE  WellFormed(<< LJM_eWriteName(v, level) >>)
    OBVIOUS
  <1> HIDE DEF WellFormed, LJM_eWriteName
  <1>7. QED BY <1>1, <1>2, <1>3, <1>4, <1>5, <1>6, ProgramCases

LEMMA LenProgram1 == Len(Program1) \in Nat
  BY ProgramWellFormed DEF WellFormed, Program1
-------------------------------------------------------------------------------
(***************************************************************************)
(* Types.                                                                  *)
(***************************************************************************)
LEMMA InitType == Init => TypeOK
  <1> SUFFICES ASSUME Init PROVE TypeOK
    OBVIOUS
  <1>1. pc \in 1..Len(Program1) + 1
    BY LenProgram1 DEF Init
  <1>2. reg \in [Register -> Level]
    BY DEF Init, Level
  <1>3. /\ found \subseteq Register /\ missed \subseteq Register
        /\ \A r \in found : reg[r] = 0
    BY TimelineAssumption DEF Init
  <1>4. ignval \in Nat
    BY TimelineAssumption DEF Init
  <1>5. QED BY <1>1, <1>2, <1>3, <1>4 DEF Init, TypeOK

\* What a write, carried out or refused, does to the levels.
LEMMA PutLevels ==
  ASSUME TypeOK, NEW r \in Register, NEW level \in Level, Put(r, level)
  PROVE  /\ reg' \in [Register -> Level]
         /\ found' \subseteq Register /\ missed' \subseteq Register
         /\ \A q \in found' : reg'[q] = 0
         /\ r \in missed' \/ (reg'[r] = level /\ r \notin found')
         /\ \/ reg'[r] = reg[r] /\ (r \in found' <=> r \in found)
            \/ reg'[r] = level
         /\ \A q \in Register \ {r} :
               /\ reg'[q] = reg[q]
               /\ (q \in found' <=> q \in found) /\ (q \in missed' <=> q \in missed)
  <1>0. /\ reg \in [Register -> Level] /\ \A q \in found : reg[q] = 0
        /\ found \subseteq Register /\ missed \subseteq Register
    BY DEF TypeOK
  <1>1. CASE /\ reg' = [reg EXCEPT ![r] = level]
             /\ missed' = missed \ {r} /\ found' = found \ {r}
    BY <1>0, <1>1
  <1>2. CASE missed' = missed \cup {r} /\ reg' = reg /\ found' = found
    BY <1>0, <1>2
  <1>3. QED BY <1>1, <1>2, Zenon DEF Put

\* The step a script makes, and that it stays within its program.
LEMMA Within ==
  ASSUME TypeOK, NEW op, At(op), pc' = pc + 1, line' = line
  PROVE  /\ pc \in 1..Len(Program1) /\ Program1[pc].op = op
         /\ pc' \in 1..Len(Program1) + 1 /\ Program1' = Program1
  <1>1. pc \in 1..Len(Program1) /\ Program1[pc].op = op
    BY LenProgram1 DEF TypeOK, At, Ended
  <1>2. Program1' = Program1
    BY DEF Program1
  <1>3. QED BY <1>1, <1>2, LenProgram1

LEMMA NextType == TypeOK /\ [Next]_vars => TypeOK'
  <1> SUFFICES ASSUME TypeOK, [Next]_vars PROVE TypeOK'
    OBVIOUS
  <1>1. CASE Write
    <2>1. /\ pc \in 1..Len(Program1) /\ Program1[pc].op = "write"
          /\ pc' \in 1..Len(Program1) + 1 /\ Program1' = Program1
      BY <1>1, Within DEF Write
    <2>2. Program1[pc].reg \in Register /\ Program1[pc].level \in Level
      BY <2>1, ProgramWellFormed DEF WellFormed, Program1
    <2>3. /\ reg' \in [Register -> Level]
          /\ found' \subseteq Register /\ missed' \subseteq Register
          /\ \A r \in found' : reg'[r] = 0
      BY <1>1, <2>2, PutLevels DEF Write
    <2>4. slept = 0
      BY <2>1 DEF TypeOK, At
    <2>5. QED BY <1>1, <2>1, <2>3, <2>4 DEF Write, TypeOK
  <1>2. CASE Wake
    <2>1. pc' \in 1..Len(Program1) + 1 /\ Program1' = Program1
      BY <1>2, Within DEF Wake
    <2>2. QED BY <1>2, <2>1 DEF Wake, board, TypeOK
  <1>3. CASE Ignite
    <2>1. pc' \in 1..Len(Program1) + 1 /\ Program1' = Program1
      BY <1>3, Within DEF Ignite
    <2>2. QED BY <1>3, <2>1 DEF Ignite, board, TypeOK
  <1>4. CASE Tick
    <2>1. ignval' \in Nat
      BY <1>4, TimelineAssumption DEF Tick
    <2>2. Program1' = Program1 /\ pc' = pc
      BY <1>4 DEF Tick, Program1
    <2>3. At("sleep")' \/ At("heat")'
      BY <1>4, <2>2 DEF Tick, At, Ended
    <2>4. QED BY <1>4, <2>1, <2>2, <2>3 DEF Tick, board, TypeOK
  <1>5. CASE UNCHANGED vars
    BY <1>5 DEF vars, board, TypeOK, At, Ended, Program1
  <1>6. QED BY <1>1, <1>2, <1>3, <1>4, <1>5 DEF Next
-------------------------------------------------------------------------------
(***************************************************************************)
(* Levels.                                                                 *)
(***************************************************************************)
\* A step that does not write to r leaves it what it carries.
LEMMA StillCarries ==
  ASSUME NEW p, NEW k \in Nat \ {0}, NEW r, NEW level, Carries(p, k, r, level),
         ~WritesTo(p, k, r)
  PROVE  Carries(p, k + 1, r, level)
  <1>1. ASSUME NEW i \in Nat, Untouched(p, r, i, k)
        PROVE  Untouched(p, r, i, k + 1)
    BY <1>1 DEF Untouched
  <1>2. CASE level = 1 /\ Untouched(p, r, 1, k)
    BY <1>1, <1>2 DEF Carries
  <1>3. ASSUME NEW j \in 1..k - 1, WritesTo(p, j, r), level = p[j].level,
               Untouched(p, r, j + 1, k)
        PROVE  Carries(p, k + 1, r, level)
    <2>1. Untouched(p, r, j + 1, k + 1) /\ j \in 1..(k + 1) - 1
      BY <1>1, <1>3
    <2>2. QED BY <1>3, <2>1 DEF Carries
  <1>4. QED BY <1>2, <1>3 DEF Carries

\* A write to r makes it carry its level.
LEMMA CarriesWritten ==
  ASSUME NEW p, NEW k \in Nat \ {0}, NEW r, WritesTo(p, k, r)
  PROVE  Carries(p, k + 1, r, p[k].level)
  <1>1. k \in 1..(k + 1) - 1 /\ Untouched(p, r, k + 1, k + 1)
    BY DEF Untouched
  <1>2. QED BY <1>1 DEF Carries

\* Nor does a step undo that the program has driven r to level 0.
LEMMA StillLowered ==
  ASSUME NEW p, NEW k \in Nat \ {0}, NEW r, Lowered(p, k, r)
  PROVE  Lowered(p, k + 1, r)
  BY DEF Lowered

LEMMA InitLevels == Init => AsWritten /\ LowByScript
  <1> SUFFICES ASSUME Init PROVE AsWritten /\ LowByScript
    OBVIOUS
  <1>1. \A r \in Register \ found : reg[r] = 1
    BY DEF Init
  <1>2. \A r : Untouched(Program1, r, 1, pc)
    BY DEF Init, Untouched
  <1>3. QED BY <1>1, <1>2 DEF AsWritten, LowByScript, Carries

LEMMA NextLevels ==
  ASSUME TypeOK, AsWritten, LowByScript, [Next]_vars
  PROVE  AsWritten' /\ LowByScript'
  <1> SUFFICES ASSUME NEW r \in Register
               PROVE  /\ r \notin found' \cup missed' =>
                            Carries(Program1, pc, r, reg[r])'
                      /\ r \notin found' /\ reg'[r] = 0 =>
                            Lowered(Program1, pc, r)'
    BY DEF AsWritten, LowByScript
  <1>0. /\ pc \in Nat \ {0}
        /\ r \notin found \cup missed => Carries(Program1, pc, r, reg[r])
        /\ r \notin found /\ reg[r] = 0 => Lowered(Program1, pc, r)
    BY LenProgram1 DEF AsWritten, LowByScript, TypeOK
  <1> USE DEF Carries, Lowered, Untouched, WritesTo
  <1>1. CASE Write
    <2> HIDE DEF Carries, Lowered, Untouched
    <2>1. /\ Program1[pc].op = "write" /\ pc \in 1..Len(Program1)
          /\ pc' = pc + 1 /\ Program1' = Program1
      BY <1>1, Within DEF Write
    <2>2. /\ Program1[pc].reg \in Register /\ Program1[pc].level \in Level
          /\ Put(Program1[pc].reg, Program1[pc].level)
      BY <1>1, <2>1, ProgramWellFormed DEF WellFormed, Program1, Write
    <2>3. /\ Carries(Program1, pc, r, reg[r])'
               <=> Carries(Program1, pc + 1, r, reg'[r])
          /\ Lowered(Program1, pc, r)' <=> Lowered(Program1, pc + 1, r)
      BY <2>1 DEF Carries, Lowered, Untouched
    <2>4. CASE Program1[pc].reg = r
      <3>1. /\ r \in missed' \/ reg'[r] = Program1[pc].level
            /\ \/ reg'[r] = reg[r] /\ (r \in found' <=> r \in found)
               \/ reg'[r] = Program1[pc].level
        BY <2>2, <2>4, PutLevels
      <3>2. Carries(Program1, pc + 1, r, Program1[pc].level)
        BY <1>0, <2>1, <2>4, CarriesWritten
      <3>3. r \notin found' \cup missed' => Carries(Program1, pc + 1, r, reg'[r])
        BY <3>1, <3>2
      <3>4. Program1[pc].level = 0 => Lowered(Program1, pc + 1, r)
        BY <1>0, <2>1, <2>4 DEF Lowered
      <3>5. r \notin found' /\ reg'[r] = 0 => Lowered(Program1, pc + 1, r)
        BY <1>0, <3>1, <3>4, StillLowered
      <3>6. QED BY <2>3, <3>3, <3>5
    <2>5. CASE Program1[pc].reg # r
      <3>1. /\ reg'[r] = reg[r]
            /\ (r \in found' <=> r \in found) /\ (r \in missed' <=> r \in missed)
        BY <2>2, <2>5, PutLevels
      <3>2. Carries(Program1, pc, r, reg[r]) => Carries(Program1, pc + 1, r, reg[r])
        BY <1>0, <2>5, StillCarries
      <3>3. QED BY <1>0, <2>3, <3>1, <3>2, StillLowered
    <2>6. QED BY <2>4, <2>5
  <1>2. CASE Wake \/ Ignite
    <2> HIDE DEF Carries, Lowered, Untouched
    <2>1. /\ Program1[pc].op # "write" /\ pc' = pc + 1 /\ Program1' = Program1
          /\ reg' = reg /\ found' = found /\ missed' = missed
      BY <1>2, Within DEF Wake, Ignite, board
    <2>2. /\ Carries(Program1, pc, r, reg[r])'
               <=> Carries(Program1, pc + 1, r, reg[r])
          /\ Lowered(Program1, pc, r)' <=> Lowered(Program1, pc + 1, r)
      BY <2>1 DEF Carries, Lowered, Untouched
    <2>3. Carries(Program1, pc, r, reg[r]) => Carries(Program1, pc + 1, r, reg[r])
      BY <1>0, <2>1, StillCarries
    <2>4. QED BY <1>0, <2>1, <2>2, <2>3, StillLowered
  <1>3. CASE Tick \/ UNCHANGED vars
    BY <1>0, <1>3 DEF Tick, vars, board, Program1
  <1>4. QED BY <1>1, <1>2, <1>3 DEF Next
-------------------------------------------------------------------------------
(***************************************************************************)
(* The clock.                                                              *)
(***************************************************************************)
\* The steps of the oxidizer sequence are due when the sleeps before them end.
LEMMA OxidizerSteps ==
  /\ Len(s403) = 10 /\ OxidizerDue(1) = 0
  /\ \A k \in 1..10 :
        \/ s403[k].op = "write" /\ OxidizerDue(k + 1) = OxidizerDue(k)
        \/ /\ s403[k].op = "sleep" /\ s403[k].tenths \in Nat
           /\ OxidizerDue(k + 1) = OxidizerDue(k) + s403[k].tenths
  BY DEF s403, Oxidizer, OxidizerDue, LJM_eWriteName, sleepOrAbort, Step

LEMMA DueGrows ==
  ASSUME NEW k \in 1..10
  PROVE  DueBefore(k + 1) =
            IF s403[k].op = "write"
            THEN DueBefore(k) \cup
                    {Cold(OxidizerDue(k), s403[k].reg, s403[k].level)}
            ELSE DueBefore(k)
  <1>1. \A j : j \in {i \in 1..(k + 1) - 1 : s403[i].op = "write"}
                  <=> \/ j \in {i \in 1..k - 1 : s403[i].op = "write"}
                      \/ j = k /\ s403[k].op = "write"
    OBVIOUS
  <1>2. CASE s403[k].op = "write"
    BY <1>1, <1>2 DEF DueBefore
  <1>3. CASE s403[k].op # "write"
    BY <1>1, <1>3 DEF DueBefore
  <1>4. QED BY <1>2, <1>3

LEMMA InitOxidizer == Init => OxidizerOnTime
  BY OxidizerSteps DEF Init, OxidizerOnTime, DueBefore

LEMMA NextOxidizer ==
  ASSUME TypeOK, OxidizerOnTime, [Next]_vars
  PROVE  OxidizerOnTime'
  <1>0. line' = line
    BY DEF Next, Write, Wake, Ignite, Tick, vars
  <1> SUFFICES ASSUME line = Word("403")
               PROVE  /\ ignited' = 0
                      /\ clock' = OxidizerDue(pc') + slept'
                      /\ writes' = DueBefore(pc')
    BY <1>0 DEF OxidizerOnTime, DueBefore
  <1>a. Program1 = s403
    BY ProgramOf DEF Program1
  <1>1. Program1 = s403 /\ pc \in 1..11
    BY <1>a, OxidizerSteps DEF TypeOK
  <1>2. ignited = 0 /\ clock = OxidizerDue(pc) + slept /\ writes = DueBefore(pc)
    BY DEF OxidizerOnTime
  <1>3. CASE Write
    <2>1. pc \in 1..10 /\ s403[pc].op = "write" /\ pc' = pc + 1
      BY <1>1, <1>3, OxidizerSteps DEF Write, At, Ended
    <2>2. /\ ignited' = 0 /\ clock' = clock /\ slept' = slept
          /\ writes' = writes \cup {Cold(clock, s403[pc].reg, s403[pc].level)}
      BY <1>1, <1>2, <1>3 DEF Write, Cold
    <2>3. slept = 0
      BY <1>1, <2>1 DEF TypeOK, At
    <2>4. OxidizerDue(pc) \in Nat
      BY DEF OxidizerDue
    <2>5. clock = OxidizerDue(pc)
      BY <1>2, <2>3, <2>4
    <2>6. QED BY <1>2, <2>1, <2>2, <2>3, <2>5, OxidizerSteps, DueGrows
  <1>4. CASE Wake
    <2>1. pc \in 1..10 /\ s403[pc].op = "sleep" /\ pc' = pc + 1
      BY <1>1, <1>4, OxidizerSteps DEF Wake, At, Ended
    <2>2. /\ ignited' = 0 /\ clock' = clock /\ slept' = 0 /\ writes' = writes
          /\ slept = s403[pc].tenths
      BY <1>1, <1>2, <1>4 DEF Wake, board
    <2>3. OxidizerDue(pc + 1) = OxidizerDue(pc) + slept
      BY <2>1, <2>2, OxidizerSteps
    <2>4. OxidizerDue(pc + 1) \in Nat
      BY DEF OxidizerDue
    <2>5. writes' = DueBefore(pc + 1)
      BY <1>2, <2>1, <2>2, DueGrows
    <2>6. QED BY <1>2, <2>1, <2>2, <2>3, <2>4, <2>5
  <1>5. ~Ignite
    BY <1>1, OxidizerSteps DEF Ignite, At, Ended
  <1>6. CASE Tick
    <2>1. OxidizerDue(pc) \in Nat
      BY DEF OxidizerDue
    <2>2. QED BY <1>2, <1>6, <2>1 DEF Tick, board, TypeOK
  <1>7. CASE UNCHANGED vars
    BY <1>2, <1>7 DEF vars, board
  <1>8. QED BY <1>3, <1>4, <1>5, <1>6, <1>7 DEF Next

\* From t-0 on so are those of the hot fire, and its writes are in the comment.
LEMMA HotFireSteps ==
  /\ Len(s502) = 18 /\ HotFireDue(5) = 0
  /\ s502[4].op = "heat" /\ \A k \in 1..18 \ {4} : s502[k].op # "heat"
  /\ \A k \in 5..18 :
        \/ /\ s502[k].op = "write" /\ HotFireDue(k + 1) = HotFireDue(k)
           /\ Lit(HotFireDue(k), s502[k].reg, s502[k].level) \in CommentHotFire
        \/ /\ s502[k].op = "sleep" /\ s502[k].tenths \in Nat
           /\ HotFireDue(k + 1) = HotFireDue(k) + s502[k].tenths
  <1> USE DEF s502, LJM_eWriteName, sleepOrAbort, HeatLoop, Step
  <1>1. Len(s502) = 18 /\ HotFireDue(5) = 0
    BY DEF HotFireDue
  <1>2. s502[4].op = "heat" /\ \A k \in 1..18 \ {4} : s502[k].op # "heat"
    OBVIOUS
  <1>3. \A k \in 5..18 :
           \/ s502[k].op = "write" /\ HotFireDue(k + 1) = HotFireDue(k)
           \/ /\ s502[k].op = "sleep" /\ s502[k].tenths \in Nat
              /\ HotFireDue(k + 1) = HotFireDue(k) + s502[k].tenths
    BY DEF HotFireDue
  <1>4. \A k \in 5..18 : s502[k].op = "write" =>
           Lit(HotFireDue(k), s502[k].reg, s502[k].level) \in CommentHotFire
    BY DEF HotFireDue, CommentHotFire
  <1> HIDE DEF s502
  <1>5. QED BY <1>1, <1>2, <1>3, <1>4

LEMMA InitBurn == Init => BurnOnTime
  BY DEF Init, BurnOnTime

LEMMA NextBurn ==
  ASSUME TypeOK, BurnOnTime, [Next]_vars
  PROVE  BurnOnTime'
  <1> DEFINE Burnt == {e \in writes : e.lit}
  <1>0. line' = line
    BY DEF Next, Write, Wake, Ignite, Tick, vars
  <1> SUFFICES ASSUME line = Word("502")
               PROVE  /\ (ignited' # 0) <=> (pc' > 4)
                      /\ pc' > 4 => clock' = HotFireDue(pc') + slept'
                      /\ Burnt' \subseteq CommentHotFire
    BY <1>0 DEF BurnOnTime
  <1>a. Program1 = s502
    BY ProgramOf DEF Program1
  <1>1. Program1 = s502 /\ pc \in 1..19
    BY <1>a, HotFireSteps DEF TypeOK
  <1>2. /\ (ignited # 0) <=> (pc > 4)
        /\ pc > 4 => clock = HotFireDue(pc) + slept
        /\ Burnt \subseteq CommentHotFire
    BY DEF BurnOnTime
  <1>b. \A k \in Nat : HotFireDue(k) \in Nat
    BY DEF HotFireDue
  <1>3. CASE Write
    <2>1. pc \in 1..18 /\ s502[pc].op = "write" /\ pc' = pc + 1
      BY <1>1, <1>3, HotFireSteps DEF Write, At, Ended
    <2>2. pc # 4
      BY <2>1, HotFireSteps
    <2>3. /\ ignited' = ignited /\ clock' = clock /\ slept' = slept
          /\ writes' = writes \cup
                {Event(ignited # 0, clock, s502[pc].reg, s502[pc].level)}
      BY <1>1, <1>3 DEF Write
    <2>4. slept = 0
      BY <1>1, <2>1 DEF TypeOK, At
    <2>5. CASE pc < 4
      <3>1. (ignited # 0) = FALSE
        BY <1>2, <2>1, <2>5
      <3>2. Event(ignited # 0, clock, s502[pc].reg, s502[pc].level).lit = FALSE
        BY <3>1 DEF Event
      <3>3. Burnt' \subseteq Burnt
        BY <2>3, <3>2
      <3>4. QED BY <1>2, <2>1, <2>3, <2>5, <3>3
    <2>6. CASE pc > 4
      <3>1. clock = HotFireDue(pc)
        BY <1>2, <1>b, <2>1, <2>4, <2>6
      <3>2. (ignited # 0) = TRUE
        BY <1>2, <2>6
      <3>3. Event(ignited # 0, clock, s502[pc].reg, s502[pc].level)
               = Lit(HotFireDue(pc), s502[pc].reg, s502[pc].level)
        BY <3>1, <3>2 DEF Lit
      <3>4. Lit(HotFireDue(pc), s502[pc].reg, s502[pc].level) \in CommentHotFire
            /\ HotFireDue(pc + 1) = HotFireDue(pc)
        BY <2>1, <2>6, HotFireSteps
      <3>5. Burnt' \subseteq CommentHotFire
        BY <1>2, <2>3, <3>3, <3>4
      <3>6. QED BY <1>2, <2>1, <2>3, <2>6, <3>4, <3>5
    <2>7. QED BY <2>1, <2>2, <2>5, <2>6
  <1>4. CASE Wake
    <2>1. pc \in 1..18 /\ s502[pc].op = "sleep" /\ pc' = pc + 1
      BY <1>1, <1>4, HotFireSteps DEF Wake, At, Ended
    <2>2. pc # 4
      BY <2>1, HotFireSteps
    <2>3. /\ ignited' = ignited /\ clock' = clock /\ slept' = 0
          /\ writes' = writes /\ slept = s502[pc].tenths
      BY <1>1, <1>4 DEF Wake, board
    <2>4. pc > 4 => HotFireDue(pc + 1) = HotFireDue(pc) + slept
      BY <2>1, <2>3, HotFireSteps
    <2>5. HotFireDue(pc + 1) \in Nat
      BY <1>b, <2>1
    <2>6. QED BY <1>2, <2>1, <2>2, <2>3, <2>4, <2>5
  <1>5. CASE Ignite
    <2>1. pc = 4 /\ pc' = 5
      BY <1>1, <1>5, HotFireSteps DEF Ignite, At, Ended
    <2>2. slept' = 0 /\ clock' = 0 /\ ignited' # 0 /\ writes' = writes
      BY <1>5 DEF Ignite, board, HotEnough, TypeOK
    <2>3. QED BY <1>2, <2>1, <2>2, HotFireSteps
  <1>6. CASE Tick
    <2>1. /\ pc' = pc /\ ignited' = ignited /\ writes' = writes
          /\ slept' = slept + 1 /\ clock' = clock + 1
      BY <1>6 DEF Tick, board
    <2>2. slept \in Nat /\ HotFireDue(pc) \in Nat
      BY <1>1, <1>b DEF TypeOK
    <2>3. QED BY <1>2, <2>1, <2>2
  <1>7. CASE UNCHANGED vars
    BY <1>2, <1>7 DEF vars, board
  <1>8. QED BY <1>3, <1>4, <1>5, <1>6, <1>7 DEF Next
-------------------------------------------------------------------------------
(***************************************************************************)
(* The invariant, and what follows from it.                                *)
(***************************************************************************)
LEMMA InitInductive == Init => TimelineInv
  BY InitType, InitLevels, InitOxidizer, InitBurn DEF TimelineInv

LEMMA NextInductive == TimelineInv /\ [Next]_vars => TimelineInv'
  BY NextType, NextLevels, NextOxidizer, NextBurn DEF TimelineInv

\* Every level is that of the latest write to its line unless that was refused,
\* a line at level 0 was found or driven there, the oxidizer sequence is on time,
\* and so is the hot fire from t-0 on, whatever the temperatures, however long
\* the igniter takes and whatever is refused.
THEOREM Invariant == Spec => []TimelineInv
  <1>1. QED BY InitInductive, NextInductive, PTL DEF Spec

LEMMA FollowsOxidizer == TimelineInv => OxidizerAsCommented
  <1> SUFFICES ASSUME TimelineInv, line = Word("403")
               PROVE  Follows(CommentOxidizer)
    BY DEF OxidizerAsCommented
  <1>a. Program1 = s403
    BY ProgramOf DEF Program1
  <1>1. pc \in 1..11 /\ writes = DueBefore(pc)
    BY <1>a, OxidizerSteps DEF TimelineInv, TypeOK, OxidizerOnTime
  <1>2. \A j \in 1..10 : s403[j].op = "write" =>
           Cold(OxidizerDue(j), s403[j].reg, s403[j].level) \in CommentOxidizer
    BY DEF s403, Oxidizer, LJM_eWriteName, sleepOrAbort, Step, OxidizerDue,
           CommentOxidizer
  <1>3. writes \subseteq CommentOxidizer
    BY <1>1, <1>2 DEF DueBefore
  <1>4. ASSUME Ended PROVE CommentOxidizer \subseteq writes
    <2>1. pc = 11
      BY <1>a, <1>1, <1>4, OxidizerSteps DEF Ended
    <2>2. ASSUME NEW j \in 1..10, s403[j].op = "write"
          PROVE  Cold(OxidizerDue(j), s403[j].reg, s403[j].level) \in writes
      BY <1>1, <2>1, <2>2 DEF DueBefore
    <2>3. \A e \in CommentOxidizer : \E j \in 1..10 :
             /\ s403[j].op = "write"
             /\ e = Cold(OxidizerDue(j), s403[j].reg, s403[j].level)
      BY DEF s403, Oxidizer, LJM_eWriteName, sleepOrAbort, Step, OxidizerDue,
             CommentOxidizer
    <2>4. QED BY <2>2, <2>3
  <1>5. QED BY <1>3, <1>4 DEF Follows

\* The oxidizer sequence writes what its comment says, when it says.
THEOREM Oxidizes == Spec => []OxidizerAsCommented
  <1>1. QED BY Invariant, FollowsOxidizer, PTL

\* From t-0 on the hot fire makes no write but those of its comment, at their
\* times.
THEOREM Burns == Spec => []BurnAsCommented
  <1>1. TimelineInv => BurnAsCommented
    BY DEF TimelineInv, BurnOnTime, BurnAsCommented
  <1>2. QED BY Invariant, <1>1, PTL
-------------------------------------------------------------------------------
(***************************************************************************)
(* Which valves are open when.                                             *)
(***************************************************************************)
LEMMA OxidizerWindows ==
  ASSUME NEW flow \in Nat, NEW vent \in Nat, NEW k \in 1..11
  PROVE  /\ Carries(Oxidizer(flow, vent), k, "V34", 0) => k \in 2..3
         /\ Carries(Oxidizer(flow, vent), k, "V30", 0) => k \in 5..6
         /\ Carries(Oxidizer(flow, vent), k, "V33", 0) => k \in 9..10
         /\ ~Carries(Oxidizer(flow, vent), k, "V20", 0)
  <1> DEFINE p == Oxidizer(flow, vent)
  <1> USE DEF Carries, Untouched
  <1>1. \A j \in 1..10 : /\ WritesTo(p, j, "V34") <=> j \in {1, 3}
                         /\ WritesTo(p, j, "V30") <=> j \in {4, 6}
                         /\ WritesTo(p, j, "V33") <=> j \in {8, 10}
                         /\ ~WritesTo(p, j, "V20")
    BY DEF WritesTo, Oxidizer, LJM_eWriteName, sleepOrAbort, Step, Igniter
  <1>2. /\ p[3].level = 1 /\ p[6].level = 1 /\ p[10].level = 1
    BY DEF Oxidizer, LJM_eWriteName, sleepOrAbort, Step, Igniter
  <1> HIDE DEF p
  <1>3. Carries(p, k, "V34", 0) => k \in 2..3
    BY <1>1, <1>2
  <1>4. Carries(p, k, "V30", 0) => k \in 5..6
    BY <1>1, <1>2
  <1>5. Carries(p, k, "V33", 0) => k \in 9..10
    BY <1>1, <1>2
  <1>6. ~Carries(p, k, "V20", 0)
    BY <1>1
  <1>7. QED BY <1>3, <1>4, <1>5, <1>6 DEF p

LEMMA HotFireWindows ==
  ASSUME NEW k \in 1..19
  PROVE  /\ Carries(s502, k, "V34", 0) => k \in 2..5
         /\ Carries(s502, k, "V20", 0) => k \in 7..12
         /\ Carries(s502, k, "V30", 0) => k \in 8..9
         /\ Carries(s502, k, "V33", 0) => k \in 11..15
         /\ Carries(s502, k, "V22", 0) => k \in 14..16
  <1> USE DEF Carries, Untouched
  <1>1. \A j \in 1..18 : /\ WritesTo(s502, j, "V34") <=> j \in {1, 5}
                         /\ WritesTo(s502, j, "V20") <=> j \in {6, 12}
                         /\ WritesTo(s502, j, "V30") <=> j \in {7, 9}
                         /\ WritesTo(s502, j, "V33") <=> j \in {10, 15}
                         /\ WritesTo(s502, j, "V22") <=> j \in {13, 16}
    BY DEF WritesTo, s502, LJM_eWriteName, sleepOrAbort, HeatLoop, Step, Igniter
  <1>2. /\ s502[5].level = 1 /\ s502[12].level = 1 /\ s502[9].level = 1
        /\ s502[15].level = 1 /\ s502[16].level = 1
    BY DEF s502, LJM_eWriteName, sleepOrAbort, HeatLoop, Step, Igniter
  <1>3. Carries(s502, k, "V34", 0) => k \in 2..5
    BY <1>1, <1>2
  <1>4. Carries(s502, k, "V20", 0) => k \in 7..12
    BY <1>1, <1>2
  <1>5. Carries(s502, k, "V30", 0) => k \in 8..9
    BY <1>1, <1>2
  <1>6. Carries(s502, k, "V33", 0) => k \in 11..15
    BY <1>1, <1>2
  <1>7. Carries(s502, k, "V22", 0) => k \in 14..16
    BY <1>1, <1>2
  <1>8. QED BY <1>3, <1>4, <1>5, <1>6, <1>7

\* Behind its third step the hot fire keeps the igniter on.
LEMMA HotFireLit ==
  ASSUME NEW k \in 4..19, NEW level, Carries(s502, k, Igniter, level)
  PROVE  level = 0
  <1>1. \A j \in 1..18 : WritesTo(s502, j, Igniter) <=> j = 3
    BY DEF WritesTo, s502, LJM_eWriteName, sleepOrAbort, HeatLoop, Step, Igniter
  <1>2. s502[3].level = 0
    BY DEF s502, LJM_eWriteName, sleepOrAbort, HeatLoop, Step, Igniter
  <1>3. QED BY <1>1, <1>2 DEF Carries, Untouched

LEMMA StopShuts == Len(stop) = 16 /\ \A i \in 1..16 : stop[i].level = 1
  <1>1. Len(stop) = 16
    BY DEF stop
  <1>2. \A i \in 1..16 : stop[i].level = 1
    BY DEF stop, LJM_eWriteName, Step
  <1>3. QED BY <1>1, <1>2

\* The programs other than the three sequences open no valve but the one that an
\* order by hand names.
LEMMA AtMostOneOpen ==
  ASSUME NEW l, Program(l) \notin {s403, s403a, s502},
         NEW k \in 1..Len(Program(l)) + 1,
         NEW v \in NormallyClosed, Carries(Program(l), k, v, 0)
  PROVE  v = l.valve
  <1> USE DEF Carries, WritesTo
  <1>1. PICK j \in 1..Len(Program(l)) : /\ Program(l)[j].op = "write"
                                        /\ Program(l)[j].reg = v
                                        /\ Program(l)[j].level = 0
    BY ProgramWellFormed DEF WellFormed
  <1>2. CASE Program(l) = ign
    BY <1>1, <1>2 DEF ign, LJM_eWriteName, sleepOrAbort, Step, Igniter,
                      NormallyClosed
  <1>3. CASE Program(l) = stop
    BY <1>1, <1>3, StopShuts
  <1>4. CASE Program(l) \in {<< >>, <<Throw>>, <<SetEnabled(0)>>, <<SetEnabled(1)>>}
    BY <1>1, <1>4 DEF Throw, SetEnabled, Step
  <1>5. ASSUME NEW level \in Level, Program(l) = << LJM_eWriteName(l.valve, level) >>
        PROVE  v = l.valve
    BY <1>1, <1>5 DEF LJM_eWriteName, Step
  <1>6. QED BY <1>2, <1>3, <1>4, <1>5, ProgramCases

LEMMA OneShut == TimelineInv => NeverBothOpen
  <1> SUFFICES ASSUME TimelineInv, NEW pair \in Exclusive,
                      \A v \in pair : Open(v),
                      \A v \in pair : v \notin found \cup missed
               PROVE  FALSE
    BY DEF NeverBothOpen
  <1>1. PICK v, w : pair = {v, w} /\ v # w
                    /\ v \in NormallyClosed /\ w \in NormallyClosed
    BY DEF Exclusive, NormallyClosed
  <1>2. reg[v] = 0 /\ reg[w] = 0
    BY <1>1 DEF Open, OpenLevel, NormallyClosed, NormallyOpen
  <1>3. Carries(Program1, pc, v, 0) /\ Carries(Program1, pc, w, 0)
    BY <1>1, <1>2 DEF TimelineInv, AsWritten, Register, Valve
  <1>4. pc \in 1..Len(Program1) + 1
    BY DEF TimelineInv, TypeOK
  <1>5. ASSUME NEW flow \in Nat, NEW vent \in Nat, Program1 = Oxidizer(flow, vent)
        PROVE  FALSE
    <2>1. pc \in 1..11
      BY <1>4, <1>5 DEF Oxidizer
    <2>2. ~(/\ Carries(Program1, pc, "V34", 0) /\ Carries(Program1, pc, "V30", 0))
      BY <1>5, <2>1, OxidizerWindows
    <2>3. ~(/\ Carries(Program1, pc, "V30", 0) /\ Carries(Program1, pc, "V33", 0))
      BY <1>5, <2>1, OxidizerWindows
    <2>4. ~Carries(Program1, pc, "V20", 0)
      BY <1>5, <2>1, OxidizerWindows
    <2>5. QED BY <1>1, <1>3, <2>2, <2>3, <2>4 DEF Exclusive
  <1>6. CASE Program1 = s502
    <2>1. pc \in 1..19
      BY <1>4, <1>6, HotFireSteps
    <2>2. QED BY <1>1, <1>3, <1>6, <2>1, HotFireWindows DEF Exclusive
  <1>7. CASE Program1 \notin {s403, s403a, s502}
    <2>1. v = line.valve /\ w = line.valve
      BY <1>1, <1>3, <1>4, <1>7, AtMostOneOpen DEF Program1
    <2>2. QED BY <1>1, <2>1
  <1>8. QED BY <1>5, <1>6, <1>7 DEF s403, s403a

\* No program by itself has both valves of an exclusive pair open, but for one
\* that stands as it was found or whose latest write was refused.
THEOREM Exclusion == Spec => []NeverBothOpen
  <1>1. QED BY Invariant, OneShut, PTL

\* The hot fire opens the mains behind its third step.
LEMMA HotFireOpens ==
  ASSUME NEW k \in 1..19, Lowered(s502, k, "V20") \/ Lowered(s502, k, "V30")
  PROVE  k \in 4..19
  <1>1. \A j \in 1..18 : /\ WritesTo(s502, j, "V20") <=> j \in {6, 12}
                         /\ WritesTo(s502, j, "V30") <=> j \in {7, 9}
    BY DEF WritesTo, s502, LJM_eWriteName, sleepOrAbort, HeatLoop, Step, Igniter
  <1>2. QED BY <1>1 DEF Lowered

LEMMA LitWhileOpen == TimelineInv => FireOnlyIgnited
  <1> SUFFICES ASSUME TimelineInv, line = Word("502"),
                      NEW v \in {"V20", "V30"} \ found, Open(v),
                      Igniter \notin missed
               PROVE  reg[Igniter] = 0
    BY DEF FireOnlyIgnited
  <1>1. Program1 = s502
    BY ProgramOf DEF Program1
  <1>2. pc \in 1..19
    BY <1>1, HotFireSteps DEF TimelineInv, TypeOK
  <1>3. reg[v] = 0
    BY DEF Open, OpenLevel, NormallyOpen
  <1>4. v \in Register /\ Igniter \in Register
    BY DEF Register, Valve, NormallyClosed
  <1>5. Lowered(s502, pc, v)
    BY <1>1, <1>3, <1>4 DEF TimelineInv, LowByScript
  <1>6. pc \in 4..19
    BY <1>2, <1>5, HotFireOpens
  <1>7. CASE Igniter \in found
    BY <1>7 DEF TimelineInv, TypeOK
  <1>8. CASE Igniter \notin found
    BY <1>1, <1>4, <1>6, <1>8, HotFireLit DEF TimelineInv, AsWritten
  <1>9. QED BY <1>7, <1>8

\* In the hot fire, the mains it has opened are open with the igniter energised
\* only, but for a refused write of the igniter.
THEOREM Ignited == Spec => []FireOnlyIgnited
  <1>1. QED BY Invariant, LitWhileOpen, PTL
===============================================================================
