------------------------------- MODULE Scripts -------------------------------
(***************************************************************************)
(* What dispatchValve (helpers.cpp) does for each line a client can send:  *)
(* the straight-line program of register writes and sleeps the line        *)
(* selects.  A program is a sequence of steps; Dispatch runs it next to    *)
(* other programs, Timeline runs it alone against the clock.               *)
(*                                                                         *)
(* A line is modelled by the two halves name.rfind('_') cuts it into.  A   *)
(* line without '_' is its own first and second half.                      *)
(***************************************************************************)
EXTENDS Valves, Sequences

Word(name)         == [valve |-> name, status |-> name]
Order(valve, stat) == [valve |-> valve, status |-> stat]

(***************************************************************************)
(* Steps.  reg and level matter to "write" only, tenths to "sleep" only    *)
(* (tenths of a second handed to sleepOrAbort).  "heat" is the loop of the *)
(* hot fire that polls the igniter thermocouple, "throw" the               *)
(* std::out_of_range of vlj.at.                                            *)
(***************************************************************************)
Step(op, reg, level, tenths) ==
    [op |-> op, reg |-> reg, level |-> level, tenths |-> tenths]

LJM_eWriteName(reg, level) == Step("write", reg, level, 0)

\* Mutant of sleepOrAbort: the duration is cut down to whole seconds.
sleepWholeSeconds(tenths)  == Step("sleep", Igniter, 0, (tenths \div 10) * 10)

sleepOrAbort(tenths)       == Step("sleep", Igniter, 0, tenths)
HeatLoop                   == Step("heat", Igniter, 0, 0)
Throw                      == Step("throw", Igniter, 0, 0)
SetEnabled(flag)           == Step("enabled", Igniter, flag, 0)
-------------------------------------------------------------------------------
\* Mutant of ign: the igniter stays on until it is hot.
ignUntilHot == << LJM_eWriteName(Igniter, 0), HeatLoop,
                  LJM_eWriteName(Igniter, 1) >>

\* Mutant of ign: the two levels are exchanged.
ignReversed == << LJM_eWriteName(Igniter, 1), sleepOrAbort(50),
                  LJM_eWriteName(Igniter, 0) >>

\* "ign": energise the igniter for five seconds.
ign == << LJM_eWriteName(Igniter, 0), sleepOrAbort(50),
          LJM_eWriteName(Igniter, 1) >>

\* "stop": every line de-energised, one write at a time.
stop == << LJM_eWriteName("V10", 1),    LJM_eWriteName("V21", 1),
           LJM_eWriteName("V20", 1),    LJM_eWriteName("V30", 1),
           LJM_eWriteName("V31", 1),    LJM_eWriteName("V32", 1),
           LJM_eWriteName("V34", 1),    LJM_eWriteName("V36", 1),
           LJM_eWriteName("V37", 1),    LJM_eWriteName("V11_NO", 1),
           LJM_eWriteName("V12_NO", 1), LJM_eWriteName("V22", 1),
           LJM_eWriteName("V23_NO", 1), LJM_eWriteName("V33", 1),
           LJM_eWriteName("V35_NO", 1), LJM_eWriteName("V38_NO", 1) >>

\* Mutant of Oxidizer: nobody shuts V33 after the vent.
OxidizerLeavesVent(flow, vent) ==
    << LJM_eWriteName("V34", 0), sleepOrAbort(100),
       LJM_eWriteName("V34", 1), LJM_eWriteName("V30", 0), sleepOrAbort(flow),
       LJM_eWriteName("V30", 1), LJM_eWriteName("V31", 1),
       LJM_eWriteName("V33", 0), sleepOrAbort(vent) >>

\* Mutant of Oxidizer: the main opens before the press valve shuts.
OxidizerOverlaps(flow, vent) ==
    << LJM_eWriteName("V34", 0), sleepOrAbort(100),
       LJM_eWriteName("V30", 0), LJM_eWriteName("V34", 1), sleepOrAbort(flow),
       LJM_eWriteName("V30", 1), LJM_eWriteName("V31", 1),
       LJM_eWriteName("V33", 0), sleepOrAbort(vent),
       LJM_eWriteName("V33", 1) >>

\* "403" and "403a": the oxidizer sequence; they differ in two durations.
Oxidizer(flow, vent) ==
    << LJM_eWriteName("V34", 0), sleepOrAbort(100),
       LJM_eWriteName("V34", 1), LJM_eWriteName("V30", 0), sleepOrAbort(flow),
       LJM_eWriteName("V30", 1), LJM_eWriteName("V31", 1),
       LJM_eWriteName("V33", 0), sleepOrAbort(vent),
       LJM_eWriteName("V33", 1) >>

\* Mutant of s403: the durations of the variant.
s403Long == Oxidizer(70, 30)

s403  == Oxidizer(30, 70)
s403a == Oxidizer(70, 30)

\* Mutant of s502: the igniter is switched off as soon as it is hot.
HotFireUnlit == << LJM_eWriteName("V34", 0), sleepOrAbort(50),
           LJM_eWriteName(Igniter, 0), HeatLoop, LJM_eWriteName(Igniter, 1),
           LJM_eWriteName("V34", 1), LJM_eWriteName("V20", 0),
           LJM_eWriteName("V30", 0), sleepOrAbort(45),
           LJM_eWriteName("V30", 1), LJM_eWriteName("V33", 0), sleepOrAbort(25),
           LJM_eWriteName("V20", 1), LJM_eWriteName("V22", 0), sleepOrAbort(30),
           LJM_eWriteName("V33", 1), LJM_eWriteName("V22", 1),
           LJM_eWriteName("V31", 1), LJM_eWriteName("V10", 1) >>

\* "502": the hot fire.
s502 == << LJM_eWriteName("V34", 0), sleepOrAbort(50),
           LJM_eWriteName(Igniter, 0), HeatLoop,
           LJM_eWriteName("V34", 1), LJM_eWriteName("V20", 0),
           LJM_eWriteName("V30", 0), sleepOrAbort(45),
           LJM_eWriteName("V30", 1), LJM_eWriteName("V33", 0), sleepOrAbort(25),
           LJM_eWriteName("V20", 1), LJM_eWriteName("V22", 0), sleepOrAbort(30),
           LJM_eWriteName("V33", 1), LJM_eWriteName("V22", 1),
           LJM_eWriteName("V31", 1), LJM_eWriteName("V10", 1) >>

\* "<valve>_<status>": one write.  The line has two '_' exactly when the valve
\* is a normally open one, whose levels are the other way round.  Any other
\* word makes vlj.at throw.
Manual(l) ==
    IF l.valve \in Valve
    THEN << LJM_eWriteName(l.valve,
                IF l.status = "open" THEN OpenLevel(l.valve)
                                     ELSE ShutLevel(l.valve)) >>
    ELSE << Throw >>

\* The lines that dispatchValve accepts and that do nothing.
Stub == {"361", "362", "351", "411", "cavv", "oavv"}

Program(l) ==
    CASE l = Word("ign")    -> ign
      [] l = Word("wstart") -> << SetEnabled(1) >>
      [] l = Word("wstop")  -> << SetEnabled(0) >>
      [] l = Word("stop")   -> stop
      [] l = Word("403")    -> s403
      [] l = Word("403a")   -> s403a
      [] l = Word("502")    -> s502
      [] l \in {Word(s) : s \in Stub} -> << >>
      [] OTHER              -> Manual(l)
-------------------------------------------------------------------------------
\* Mutant of AbortWrites: the writes of "stop", which open the vents.
AbortLikeStop == stop

\* What the "abort" branch of SocketConn::input writes, in its order: every
\* line de-energised except the two vents V11_NO and V38_NO, which are shut.
AbortWrites ==
    << LJM_eWriteName("V10", 1),    LJM_eWriteName("V21", 1),
       LJM_eWriteName("V20", 1),    LJM_eWriteName("V30", 1),
       LJM_eWriteName("V31", 1),    LJM_eWriteName("V32", 1),
       LJM_eWriteName("V34", 1),    LJM_eWriteName("V36", 1),
       LJM_eWriteName("V37", 1),    LJM_eWriteName("V11_NO", 0),
       LJM_eWriteName("V12_NO", 1), LJM_eWriteName("V22", 1),
       LJM_eWriteName("V23_NO", 1), LJM_eWriteName("V33", 1),
       LJM_eWriteName("V35_NO", 1), LJM_eWriteName("V38_NO", 0) >>
===============================================================================
