---------------------------- MODULE ShutdownProofs ----------------------------
(***************************************************************************)
(* Proofs about Shutdown, for any choice of the threads that can take      *)
(* SIGINT and any number of clients.  The parts of the invariant are kept  *)
(* apart: numbers, flags, positions, and the order of the joins.           *)
(***************************************************************************)
EXTENDS Shutdown, TLAPS

OrderOK == InOrder /\ StreamsStopLast /\ MainNeverTerminates

LEMMA InitInv == Init => ShutdownInv
  <1>1. Init => ClientsOK
    BY ShutdownAssumption DEF Init, ClientsOK
  <1>2. Init => FlagsOK
    BY DEF Init, FlagsOK
  <1>3. Init => PlacesOK /\ InOrder /\ StreamsStopLast /\ MainNeverTerminates
    BY DEF Init, PlacesOK, InOrder, StreamsStopLast, MainNeverTerminates, Lives, State
  <1>4. QED BY <1>1, <1>2, <1>3 DEF ShutdownInv, TypeOK

LEMMA ClientsNext == ASSUME ShutdownInv, Next PROVE ClientsOK'
  <1> USE ShutdownAssumption DEF ClientsOK
  <1>1. ClientsOK
    BY DEF ShutdownInv, TypeOK
  <1>2. CASE ClientComes
    <2>1. clients < ClientBound /\ clients' = clients + 1
      BY <1>2, Zenon DEF ClientComes
    <2>2. QED BY <2>1, <1>1
  <1>3. CASE ClientGoes
    <2>1. clients > 0 /\ clients' = clients - 1
      BY <1>3, Zenon DEF ClientGoes
    <2>2. QED BY <2>1, <1>1
  <1>4. ASSUME ~ClientComes, ~ClientGoes PROVE UNCHANGED clients
    BY <1>4, Zenon DEF Next, Main, Ending, Setup, StartThread, StartStreams,
       StopServer, HandlerJoins, MainJoins, Exit, CloseAcceptor, IoEnds,
       AcceptFails, Command, FireEnds, CommandEnds, Writer, Interrupt, server
  <1>5. QED BY <1>1, <1>2, <1>3, <1>4

LEMMA FlagsNext == ASSUME ShutdownInv, Next PROVE FlagsOK'
  <1>1. QED
    BY DEF ShutdownInv, TypeOK, FlagsOK, signal, threads, work, server, MainGoes,
       ErrorCheck, Next, Main, Ending, Setup, StartThread, StartStreams,
       StopServer, HandlerJoins, MainJoins, Exit, CloseAcceptor, IoEnds,
       ClientComes, ClientGoes, AcceptFails, Command, FireEnds, CommandEnds,
       Writer, Interrupt

\* Who is where: a thread is joined only when it has ended, and an ended one does
\* not run again.
LEMMA PlacesNext == ASSUME ShutdownInv, Next PROVE PlacesOK'
  <1> USE DEF ShutdownInv, TypeOK, PlacesOK, State, Free, signal, threads, work,
              server
  <1>1. CASE Setup
    BY <1>1 DEF Setup, MainGoes, ErrorCheck
  <1>2. CASE StartThread
    <2>1. CASE main = "start io"
      BY <1>2, <2>1 DEF StartThread, MainGoes, InOrder
    <2>2. CASE main # "start io"
      BY <1>2, <2>2 DEF StartThread, MainGoes, InOrder
    <2>3. QED BY <2>1, <2>2
  <1>3. CASE StartStreams
    BY <1>3 DEF StartStreams, MainGoes, ErrorCheck
  <1>4. CASE StopServer
    BY <1>4 DEF StopServer, MainGoes
  <1>5. CASE HandlerJoins
    BY <1>5 DEF HandlerJoins, Join, Joins, After
  <1>6. CASE MainJoins
    BY <1>6 DEF MainJoins, Join, Joins, After
  <1>7. CASE Exit
    BY <1>7 DEF Exit, Exiting
  <1>8. CASE CloseAcceptor
    BY <1>8 DEF CloseAcceptor
  <1>9. CASE IoEnds
    BY <1>9 DEF IoEnds, Serving
  <1>10. CASE ClientComes
    BY <1>10 DEF ClientComes
  <1>11. CASE ClientGoes
    BY <1>11 DEF ClientGoes
  <1>12. CASE AcceptFails
    BY <1>12 DEF AcceptFails
  <1>13. CASE Command
    BY <1>13 DEF Command, Serving, Exiting
  <1>14. CASE FireEnds
    BY <1>14 DEF FireEnds
  <1>15. CASE CommandEnds
    BY <1>15 DEF CommandEnds
  <1>16. CASE Writer
    BY <1>16 DEF Writer
  <1>17. ASSUME NEW t \in Interrupted, Interrupt(t) PROVE PlacesOK'
    BY <1>17, ShutdownAssumption DEF Interrupt
  <1>18. QED
    BY <1>1, <1>2, <1>3, <1>4, <1>5, <1>6, <1>7, <1>8,
       <1>9, <1>10, <1>11, <1>12, <1>13, <1>14, <1>15, <1>16, <1>17
    DEF Next, Main, Ending

\* While main runs the handler nobody else joins, and what the handler has joined
\* has ended; no thread begins any more.
LEMMA OrderNext == ASSUME ShutdownInv, Next PROVE OrderOK'
  <1>0. over = "no"
    BY DEF Next
  <1> USE <1>0 DEF ShutdownInv, TypeOK, PlacesOK, OrderOK, InOrder, StreamsStopLast,
              MainNeverTerminates, Lives, State, Free, signal, threads, work, server
  <1>1. CASE Setup
    BY <1>1 DEF Setup, MainGoes, ErrorCheck
  <1>2. CASE StartThread
    <2>1. CASE main = "start io"
      BY <1>2, <2>1 DEF StartThread, MainGoes
    <2>2. CASE main # "start io"
      BY <1>2, <2>2 DEF StartThread, MainGoes
    <2>3. QED BY <2>1, <2>2
  <1>3. CASE StartStreams
    BY <1>3 DEF StartStreams, MainGoes, ErrorCheck
  <1>4. CASE StopServer
    BY <1>4 DEF StopServer, MainGoes
  <1>5. CASE HandlerJoins
    BY <1>5 DEF HandlerJoins, Join, Joins, After
  <1>6. CASE MainJoins
    BY <1>6 DEF MainJoins, Join, Joins, After
  <1>7. CASE Exit
    BY <1>7 DEF Exit, Exiting
  <1>8. CASE CloseAcceptor
    BY <1>8 DEF CloseAcceptor
  <1>9. CASE IoEnds
    BY <1>9 DEF IoEnds, Serving
  <1>10. CASE ClientComes
    BY <1>10 DEF ClientComes
  <1>11. CASE ClientGoes
    BY <1>11 DEF ClientGoes
  <1>12. CASE AcceptFails
    BY <1>12 DEF AcceptFails
  <1>13. CASE Command
    BY <1>13 DEF Command, Serving, Exiting
  <1>14. CASE FireEnds
    BY <1>14 DEF FireEnds
  <1>15. CASE CommandEnds
    BY <1>15 DEF CommandEnds
  <1>16. CASE Writer
    BY <1>16 DEF Writer
  <1>17. ASSUME NEW t \in Interrupted, Interrupt(t) PROVE OrderOK'
    BY <1>17, ShutdownAssumption DEF Interrupt
  <1>18. QED
    BY <1>1, <1>2, <1>3, <1>4, <1>5, <1>6, <1>7, <1>8,
       <1>9, <1>10, <1>11, <1>12, <1>13, <1>14, <1>15, <1>16, <1>17
    DEF Next, Main, Ending

LEMMA NextInv == ShutdownInv /\ [Next]_vars => ShutdownInv'
  <1>1. ASSUME ShutdownInv, Next PROVE ShutdownInv'
    BY <1>1, ClientsNext, FlagsNext, PlacesNext, OrderNext
    DEF ShutdownInv, TypeOK, OrderOK
  <1>2. ASSUME ShutdownInv, UNCHANGED vars PROVE ShutdownInv'
    <2> USE DEF vars, signal, threads, server, work
    <2>1. ClientsOK'
      BY <1>2 DEF ShutdownInv, TypeOK, ClientsOK
    <2>2. FlagsOK'
      BY <1>2 DEF ShutdownInv, TypeOK, FlagsOK
    <2>3. PlacesOK'
      BY <1>2 DEF ShutdownInv, TypeOK, PlacesOK, State
    <2>4. InOrder' /\ StreamsStopLast' /\ MainNeverTerminates'
      BY <1>2 DEF ShutdownInv, InOrder, StreamsStopLast, MainNeverTerminates,
                  Lives, State
    <2>5. QED BY <2>1, <2>2, <2>3, <2>4 DEF ShutdownInv, TypeOK
  <1>3. QED BY <1>1, <1>2

\* The inductive invariant of setup, SIGINT and the joins holds whichever threads
\* can take SIGINT and however many clients there are.
THEOREM ShutdownInvariant == Spec => []ShutdownInv
  <1>1. QED BY InitInv, NextInv, PTL DEF Spec

\* When SIGINT is taken by main, the streams are stopped after the I/O thread and
\* the writer have ended.
THEOREM StreamsStopLastCorrect == Spec => []StreamsStopLast
  <1>1. ShutdownInv => StreamsStopLast
    BY DEF ShutdownInv
  <1>2. QED BY ShutdownInvariant, <1>1, PTL

\* When SIGINT is taken by main, no exception ends the process.
THEOREM MainNeverTerminatesCorrect == Spec => []MainNeverTerminates
  <1>1. ShutdownInv => MainNeverTerminates
    BY DEF ShutdownInv
  <1>2. QED BY ShutdownInvariant, <1>1, PTL
===============================================================================
