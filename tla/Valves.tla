-------------------------------- MODULE Valves --------------------------------
(***************************************************************************)
(* The valve board: which digital line of the LabJack "SlowJack" drives    *)
(* which valve, and what a level on that line means.  The tables are       *)
(* those of helpers.h; every other module takes the names from here.       *)
(*                                                                         *)
(* A relay is energised by driving its line low.  A normally closed valve  *)
(* is therefore open at level 0 and a normally open one ("_NO" in its      *)
(* name) is open at level 1.                                               *)
(***************************************************************************)
EXTENDS Naturals

\* vlj: the name of a valve to its DIO line (helpers.h).
vlj == [ V11_NO |-> 0,  V30    |-> 1,  V12_NO |-> 2,  V31    |-> 3,
         V20    |-> 4,  V32    |-> 5,  V21    |-> 6,  V33    |-> 7,
         V35_NO |-> 8,  V36    |-> 9,  V34    |-> 10, V38_NO |-> 11,
         V37    |-> 12, V23_NO |-> 13, V10    |-> 14, V22    |-> 15 ]

\* vljf: the table kept by hand in the other direction (DIOi is vljf[i + 1]).
vljf == << "V11_NO", "V30", "V12_NO", "V31", "V20",    "V32", "V21", "V33",
           "V35_NO", "V36", "V34", "V38_NO", "V37", "V23_NO", "V10", "V22" >>

\* The valves whose name holds a '_': de-energised they are open.
NormallyOpen == {"V11_NO", "V12_NO", "V23_NO", "V35_NO", "V38_NO"}

NormallyClosed == {"V10", "V20", "V21", "V22", "V30", "V31", "V32", "V33",
                   "V34", "V36", "V37"}

Valve == NormallyClosed \cup NormallyOpen

Level == {0, 1}

\* The level that opens valve v, and the level that shuts it.
OpenLevel(v) == IF v \in NormallyOpen THEN 1 ELSE 0
ShutLevel(v) == 1 - OpenLevel(v)

\* The igniter relay: line DIO6 of the other LabJack, "FastJack".
Igniter == "FastJack_DIO6"

\* Everything a command can write to a LabJack.
Register == Valve \cup {Igniter}
===============================================================================
