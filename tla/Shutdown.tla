------------------------------- MODULE Shutdown -------------------------------
(***************************************************************************)
(* How the process starts and ends (main.cpp).  main configures the        *)
(* LabJacks, makes the server, creates the I/O thread and the CSV writer,  *)
(* starts the streams and samples.  SIGINT runs handlesigint on one of the *)
(* threads, which joins the two and exits; a failed ErrorCheck exits       *)
(* without joining.  The other threads go on meanwhile.                    *)
(*                                                                         *)
(* exit() is external: it destroys poolptr, which waits for the commands   *)
(* under way, and threads, which joins what is not joined yet.  Clients    *)
(* are cut down to whether they are there and what they start.             *)
(***************************************************************************)
EXTENDS Naturals

CONSTANTS
    Interrupted, \* the threads that can be the one to take SIGINT
    ClientBound  \* bound: clients connected at once

ASSUME ShutdownAssumption ==
    /\ Interrupted \subseteq {"main", "io", "writer", "pool"}
    /\ ClientBound \in Nat

VARIABLES
    main,        \* where main is
    handler,     \* where handlesigint is, "none" before
    on,          \* the thread it runs on
    stop,        \* test.request_stop() was called
    failed,      \* an ErrorCheck found an error
    io, writer,  \* the two threads: "none", "runs", "waits" (writer) or "ended"
    joined,      \* those of them that were joined
    accepting,   \* an async_accept is pending
    closing,     \* Server::stop's function is posted
    clients,     \* connected clients, each with a read pending
    pool,        \* what the pool runs: "nothing", "brief", or a hot fire, "cold"
    recording,   \* enabled
    over         \* "no", "exited" or "terminated"

signal  == <<handler, on, stop>>
threads == <<io, writer, joined>>
server  == <<accepting, closing, clients>>
work    == <<pool, recording>>
vars    == <<main, signal, failed, threads, server, work, over>>

Init ==
    /\ main = "setup" /\ handler = "none" /\ on = "none" /\ stop = FALSE
    /\ failed = FALSE
    /\ io = "none" /\ writer = "none" /\ joined = {}
    /\ accepting = FALSE /\ closing = FALSE /\ clients = 0
    /\ pool = "nothing" /\ recording = TRUE /\ over = "no"

Free(t)  == on # t
State(t) == IF t = "io" THEN io ELSE writer
Lives(t) == State(t) \in {"runs", "waits"}
-------------------------------------------------------------------------------
(***************************************************************************)
(* main.                                                                   *)
(***************************************************************************)
MainGoes(from, to) == Free("main") /\ main = from /\ main' = to

\* An ErrorCheck that finds an error calls exit().
ErrorCheck(at) == MainGoes(at, "exit") /\ failed' = TRUE

\* The device calls, each with its ErrorCheck, and the server, which begins to
\* accept, or throws out of main if it cannot bind the port.
Setup ==
    /\ \/ /\ MainGoes("setup", "start io") /\ accepting' = TRUE
          /\ UNCHANGED <<failed, over>>
       \/ ErrorCheck("setup") /\ UNCHANGED <<accepting, over>>
       \/ MainGoes("setup", "setup") /\ over' = "terminated"
          /\ UNCHANGED <<accepting, failed>>
    /\ UNCHANGED <<signal, threads, closing, clients, work>>

\* The writer ends at once if it cannot open its file.
StartThread ==
    /\ \/ MainGoes("start io", "start writer") /\ io' = "runs" /\ UNCHANGED writer
       \/ /\ MainGoes("start writer", "streams")
          /\ writer' \in {"runs", "ended"} /\ UNCHANGED io
    /\ UNCHANGED <<signal, failed, joined, server, work, over>>

StartStreams ==
    /\ \/ MainGoes("streams", "loop") /\ UNCHANGED failed
       \/ ErrorCheck("streams")
    /\ UNCHANGED <<signal, threads, server, work, over>>

\* The sampling loop is left, s.stop() posts.
StopServer ==
    /\ stop /\ MainGoes("loop", "join io") /\ closing' = TRUE
    /\ UNCHANGED <<signal, failed, threads, accepting, clients, work, over>>

Main == Setup \/ StartThread \/ StartStreams \/ StopServer
-------------------------------------------------------------------------------
(***************************************************************************)
(* SIGINT, the joins and exit().                                           *)
(***************************************************************************)
\* The handler does not return: a command of the pool it interrupts is lost.
Interrupt(t) ==
    /\ handler = "none"
    /\ t = "main" => main # "exit"
    /\ t \in {"io", "writer"} => Lives(t)
    /\ on' = t /\ handler' = "join io" /\ stop' = TRUE
    /\ pool' = IF t = "pool" THEN "nothing" ELSE pool
    /\ UNCHANGED <<main, failed, threads, server, recording, over>>

\* The loop over threads, for whoever is in it.
Joins(pc) == CASE pc = "join io" -> "io" [] pc = "join writer" -> "writer"

\* Mutant of After: the loop ends after its first thread.
AfterFirst(pc) == "exit"

\* Mutant of After: the first thread is joined again.
AfterAgain(pc) == IF pc = "join io" /\ "io" \notin joined THEN pc ELSE "exit"

After(pc) == IF pc = "join io" THEN "join writer" ELSE "exit"

\* One thread.join().  A thread that joins itself, and one that joins what is
\* joined, gets an exception nobody catches; so may the second to wait for the
\* same thread.
Join(self, pc, pcNext, other) ==
    /\ pc \in {"join io", "join writer"}
    /\ LET t == Joins(pc) IN
         \/ State(t) = "none" /\ pcNext = "exit" /\ UNCHANGED <<joined, over>>
         \/ /\ State(t) = "ended" /\ t \notin joined
            /\ joined' = joined \cup {t} /\ pcNext = After(pc) /\ UNCHANGED over
         \/ /\ State(t) # "none" /\ (t = self \/ t \in joined \/ other = pc)
            /\ over' = "terminated" /\ pcNext = pc /\ UNCHANGED joined

HandlerJoins ==
    /\ Join(on, handler, handler', IF Free("main") THEN main ELSE "none")
    /\ UNCHANGED <<main, on, stop, failed, io, writer, server, work>>

MainJoins ==
    /\ Free("main") /\ Join("main", main, main', handler)
    /\ UNCHANGED <<signal, failed, io, writer, server, work>>

Exiting == handler = "exit" \/ (main = "exit" /\ Free("main"))

\* The handler's exit comes after it has stopped the streams, main's after its
\* loop or from ErrorCheck.
Exit ==
    /\ Exiting /\ pool = "nothing" /\ ~Lives("io") /\ ~Lives("writer")
    /\ over' = "exited"
    /\ UNCHANGED <<main, signal, failed, threads, server, work>>

Ending == HandlerJoins \/ MainJoins \/ Exit
-------------------------------------------------------------------------------
(***************************************************************************)
(* The I/O thread and its clients.                                         *)
(***************************************************************************)
Serving == io = "runs" /\ Free("io")

ClientComes ==
    /\ Serving /\ accepting /\ clients < ClientBound /\ clients' = clients + 1
    /\ UNCHANGED <<main, signal, failed, threads, accepting, closing, work, over>>

ClientGoes ==
    /\ Serving /\ clients > 0 /\ clients' = clients - 1
    /\ UNCHANGED <<main, signal, failed, threads, accepting, closing, work, over>>

AcceptFails ==
    /\ Serving /\ accepting /\ accepting' = FALSE
    /\ UNCHANGED <<main, signal, failed, threads, closing, clients, work, over>>

\* The function of Server::stop, and the accept handler it aborts.
CloseAcceptor ==
    /\ Serving /\ closing /\ closing' = FALSE /\ accepting' = FALSE
    /\ UNCHANGED <<main, signal, failed, threads, clients, work, over>>

\* ioContext.run() returns when there is nothing left to wait for.
IoEnds ==
    /\ Serving /\ ~accepting /\ ~closing /\ clients = 0 /\ io' = "ended"
    /\ UNCHANGED <<main, signal, failed, writer, joined, server, work, over>>

\* A command; posting to a pool that exit() has destroyed is undefined.
Command ==
    /\ Serving /\ clients > 0 /\ pool = "nothing"
    /\ pool' \in {"brief", "cold"}
    /\ over' \in IF Exiting THEN {"no", "terminated"} ELSE {"no"}
    /\ UNCHANGED <<main, signal, failed, threads, server, recording>>

\* A hot fire gets its temperature from the sampling loop, or is aborted.
FireEnds ==
    /\ pool = "cold" /\ pool' = "nothing"
    /\ (main = "loop" /\ Free("main")) \/ (Serving /\ clients > 0)
    /\ UNCHANGED <<main, signal, failed, threads, server, recording, over>>
-------------------------------------------------------------------------------
(***************************************************************************)
(* Brief commands and the writer.                                          *)
(***************************************************************************)
\* A brief command may switch the recording, which notifies the writer; the
\* notify may be lost (Recorder).
CommandEnds ==
    /\ pool = "brief" /\ pool' = "nothing" /\ recording' \in BOOLEAN
    /\ writer' \in IF writer = "waits" /\ recording' THEN {"waits", "runs"} ELSE {writer}
    /\ UNCHANGED <<main, signal, failed, io, joined, server, over>>

\* Mutant of Writer: the loop does not ask for token.
WriterGoesOn ==
    /\ Free("writer") /\ writer = "runs" /\ ~recording /\ writer' = "waits"
    /\ UNCHANGED <<main, signal, failed, io, joined, server, work, over>>

\* The loop of run_signal: it ends at its head, or waits for recording.
Writer ==
    /\ Free("writer") /\ writer = "runs"
    /\ \/ stop /\ writer' = "ended"
       \/ ~recording /\ writer' = "waits"
    /\ UNCHANGED <<main, signal, failed, io, joined, server, work, over>>

Next ==
    /\ over = "no"
    /\ \/ Main \/ Ending \/ CloseAcceptor \/ IoEnds
       \/ ClientComes \/ ClientGoes \/ AcceptFails \/ Command \/ FireEnds
       \/ CommandEnds \/ Writer
       \/ \E t \in Interrupted : Interrupt(t)

Spec == Init /\ [][Next]_vars

\* Threads are scheduled and brief commands end; no client need come, go, abort
\* or send anything, and no igniter need get hot.
FairSpec ==
    /\ Spec
    /\ WF_vars(over = "no" /\ Main) /\ WF_vars(over = "no" /\ HandlerJoins)
    /\ WF_vars(over = "no" /\ (MainJoins \/ Exit))
    /\ WF_vars(over = "no" /\ (CloseAcceptor \/ IoEnds))
    /\ WF_vars(over = "no" /\ CommandEnds) /\ WF_vars(over = "no" /\ Writer)
-------------------------------------------------------------------------------
ClientsOK == clients \in 0..ClientBound

FlagsOK == {stop, failed, accepting, closing, recording} \subseteq BOOLEAN

PlacesOK ==
    /\ main \in {"setup", "start io", "start writer", "streams", "loop",
                 "join io", "join writer", "exit"}
    /\ handler \in {"none", "join io", "join writer", "exit"}
    /\ on \in Interrupted \cup {"none"} /\ (on = "none" <=> handler = "none")
    /\ stop <=> handler # "none"
    /\ io \in {"none", "runs", "ended"} /\ writer \in {"none", "runs", "waits", "ended"}
    /\ joined \subseteq {t \in {"io", "writer"} : State(t) = "ended"}
    /\ pool \in {"nothing", "brief", "cold"}
    /\ over \in {"no", "exited", "terminated"}

TypeOK == ClientsOK /\ FlagsOK /\ PlacesOK

\* The threads are made and joined in their order, by one loop unless the handler
\* runs on another thread than main.
InOrder ==
    /\ io = "none" => writer = "none"
    /\ main \in {"setup", "start io"} => io = "none"
    /\ main = "start writer" => io # "none"
    /\ main \in {"setup", "start io", "start writer"} => writer = "none"
    /\ main \in {"join io", "join writer"} => on \notin {"main", "none"}
    /\ handler = "none" => joined = {}
    /\ on = "main" /\ handler = "join io" => joined = {}
    /\ on = "main" /\ handler = "join writer" => joined = {"io"}

\* When SIGINT is taken by main, the streams are stopped and exit() is called
\* only after the I/O thread and the writer have ended: nobody reads a sample,
\* serves a client or writes a row after that.
StreamsStopLast ==
    on = "main" /\ handler = "exit" => ~Lives("io") /\ ~Lives("writer")

\* ... and the process does not end by an exception: two loops join the same
\* threads only when the handler runs on another thread than main.
MainNeverTerminates == ~(on = "main" /\ over = "terminated")

\* The inductive invariant.
ShutdownInv == TypeOK /\ InOrder /\ StreamsStopLast /\ MainNeverTerminates

\* A process that outlives SIGINT for ever is kept by something that lasts for
\* ever: at every moment a pending accept, a client, a writer that waits, or a
\* hot fire.
KeptOnlyByThese ==
    on # "none" ~>
        \/ over # "no"
        \/ [](accepting \/ clients > 0 \/ writer = "waits" \/ pool = "cold")

\* A failed configuration, and SIGINT taken by main, end the process: the one
\* "displays the error and exits the program", the other kills the threads,
\* disconnects the LabJacks and exits.
EndsWhenTold == failed \/ on = "main" ~> over # "no"
===============================================================================
