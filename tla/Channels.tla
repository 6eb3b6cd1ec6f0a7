------------------------------- MODULE Channels -------------------------------
(***************************************************************************)
(* The tables, each kept by hand, that take an analog input to a column of *)
(* the CSV file and to a name in the status message: the inputs the setup  *)
(* configures (helpers.h, main.cpp), the two scan lists, the index and the *)
(* stream each channel is taken from, the header, the order of a row and   *)
(* the names of toJSON.                                                    *)
(***************************************************************************)
EXTENDS Naturals, Sequences, SequencesExt

Input(jack, ain) == [jack |-> jack, ain |-> ain]

\* The channels, by the names of the members of LJSensors, in the order the
\* sampling loop stores them.
Stored == << "t1val", "t2val", "inj1val", "inj2val", "ignval", "p31val", "p21val",
             "p22val", "p32val", "p10val", "p20val", "p30val", "pinjval", "lcellval" >>

Channel == ToSet(Stored)

\* Modbus addresses; input n is at 2n.
slowScanList == << 14, 18, 28, 0, 2, 4, 6, 8, 10, 22 >>

\* Mutant of fastScanList: the list marked "(OLD)".
fastScanListOld == << 2, 14, 0, 4, 10, 12, 16, 28 >>

fastScanList == << 0, 4, 6, 8, 12, 16, 20, 28 >>

\* slowData[i] and fastData[i].
slowData(i) == Input("SlowJack", slowScanList[i + 1] \div 2)
fastData(i) == Input("FastJack", fastScanList[i + 1] \div 2)

\* Mutant of Taken: the two differential pressures are exchanged.
TakenExchanged ==
    [t1val  |-> slowData(0), t2val  |-> slowData(1), p31val   |-> slowData(3),
     p21val |-> slowData(5), p32val |-> slowData(6), p10val   |-> slowData(7),
     p22val |-> slowData(9),
     lcellval |-> fastData(0), p30val  |-> fastData(1), p20val  |-> fastData(2),
     pinjval  |-> fastData(3), ignval  |-> fastData(4), inj2val |-> fastData(6),
     inj1val  |-> fastData(5)]

\* Where the sampling loop takes each channel from.
Taken ==
    [t1val  |-> slowData(0), t2val  |-> slowData(1), p31val   |-> slowData(3),
     p21val |-> slowData(5), p32val |-> slowData(6), p10val   |-> slowData(7),
     p22val |-> slowData(9),
     lcellval |-> fastData(0), p30val  |-> fastData(1), p20val  |-> fastData(2),
     pinjval  |-> fastData(3), ignval  |-> fastData(4), inj2val |-> fastData(5),
     inj1val  |-> fastData(6)]

\* The input of each Sensor.
Sensor == [p31val |-> 0, p21val |-> 2, p10val |-> 4, p22val |-> 11, p32val |-> 3,
           t1val |-> 7, t2val |-> 9, pinjval |-> 4, lcellval |-> 0, inj1val |-> 10,
           inj2val |-> 8, ignval |-> 6, p20val |-> 3, p30val |-> 2]

\* The LabJack main writes its settings to (those of t1 and t2 by name, behind
\* the others).
JackOf(c) == IF c \in {"p10val", "p21val", "p31val", "p22val", "p32val", "t1val", "t2val"}
             THEN "SlowJack" ELSE "FastJack"

Configured == [c \in Channel |-> Input(JackOf(c), Sensor[c])]

\* The differential inputs: the negative side each is measured against.
Negative ==
    [lcellval |-> Input("FastJack", 1), inj1val |-> Input("FastJack", 11),
     inj2val |-> Input("FastJack", 9), ignval |-> Input("FastJack", 7)]

Header == << "elapsed", "p10", "p21", "p31", "p22", "p32", "t1", "t2", "p20", "p30",
             "pINJ", "inj1", "inj2", "ign", "lc" >>

\* The channels of a row, behind its timestamp.
Row == << "p10val", "p21val", "p31val", "p22val", "p32val", "t1val", "t2val",
          "p20val", "p30val", "pinjval", "inj1val", "inj2val", "ignval", "lcellval" >>

\* db in toJSON, and the names it is stored under.
db == << "p10val", "p21val", "p31val", "t1val", "t2val", "p20val", "p30val",
         "p22val", "p32val", "pinjval", "lcellval", "inj1val", "inj2val", "ignval" >>

Names == << "p10val", "p21val", "p31val", "t1val", "t2val", "p20val", "p30val",
            "p22val", "p32val", "pinjval", "lcval", "inj1val", "inj2val", "ignval" >>
===============================================================================
