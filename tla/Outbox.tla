-------------------------------- MODULE Outbox --------------------------------
(***************************************************************************)
(* The status messages on their way to one client (helpers.cpp): the main  *)
(* thread emits one per sample, SocketConn::send posts it to the I/O       *)
(* thread, nq puts it into _mlist and _write starts asynchronous writes of *)
(* the front of that list.  Messages are numbered in the order emitted.    *)
(*                                                                         *)
(* async_write and the network are external: a write completes at some     *)
(* time, with or without an error.                                         *)
(***************************************************************************)
EXTENDS Naturals, Sequences, FiniteSets

CONSTANT EmitBound   \* bound: status messages emitted

ASSUME OutboxAssumption == EmitBound \in Nat

VARIABLES
    emitted,     \* messages emitted so far
    posted,      \* send's functions waiting for the I/O thread
    mlist,       \* _mlist
    writing,     \* the buffers of the async_writes under way
    wire,        \* what the client has received, in order
    failed       \* a write has completed with an error

vars == <<emitted, posted, mlist, writing, wire, failed>>

Init ==
    /\ emitted = 0 /\ posted = << >> /\ mlist = << >>
    /\ writing = << >> /\ wire = << >> /\ failed = FALSE

\* _emit_event(s): the slot of the session calls send(msg, true), the only call
\* of send.
Emit ==
    /\ emitted < EmitBound
    /\ emitted' = emitted + 1 /\ posted' = Append(posted, emitted + 1)
    /\ UNCHANGED <<mlist, writing, wire, failed>>

\* Mutant of Enlisted: an immediate message goes before the front.
EnlistedFirst(list, msg, immediate) ==
    IF immediate THEN << msg >> \o list ELSE Append(list, msg)

\* Mutant of Enlisted: immediate is not heeded.
EnlistedLast(list, msg, immediate) == Append(list, msg)

\* The list nq leaves: an immediate message goes behind the front, if there is
\* one, any other to the end.
Enlisted(list, msg, immediate) ==
    IF immediate /\ list # << >> THEN << list[1], msg >> \o Tail(list)
                                 ELSE Append(list, msg)

\* Mutant of Starts: every new message starts a write.
AlwaysStarts(list) == TRUE

\* What nq returns: only the first message of the list starts a write.
Starts(list) == Len(list) = 1

\* The function posted by send: nq, and _write of the front if it says so.
Enqueue ==
    /\ posted # << >>
    /\ posted' = Tail(posted)
    /\ mlist' = Enlisted(mlist, posted[1], TRUE)
    /\ writing' = IF Starts(mlist') THEN Append(writing, mlist'[1]) ELSE writing
    /\ UNCHANGED <<emitted, wire, failed>>

\* Mutant of Written: the next write waits for the next message.
WrittenOnce ==
    /\ writing # << >>
    /\ wire' = Append(wire, writing[1])
    /\ mlist' = Tail(mlist) /\ writing' = Tail(writing)
    /\ UNCHANGED <<emitted, posted, failed>>

\* The handler of async_write without an error: dq, and _write of the new front
\* if there is one.
Written ==
    /\ writing # << >>
    /\ wire' = Append(wire, writing[1])
    /\ mlist' = Tail(mlist)
    /\ writing' = IF mlist' = << >> THEN Tail(writing)
                                    ELSE Append(Tail(writing), mlist'[1])
    /\ UNCHANGED <<emitted, posted, failed>>

\* Mutant of WriteFailed: the handler is "if (dq() && !ec)".
WriteFailedAfterDq ==
    /\ writing # << >>
    /\ failed' = TRUE /\ writing' = Tail(writing) /\ mlist' = Tail(mlist)
    /\ UNCHANGED <<emitted, posted, wire>>

\* The handler with an error: !ec && dq() does not call dq.
WriteFailed ==
    /\ writing # << >>
    /\ failed' = TRUE /\ writing' = Tail(writing)
    /\ UNCHANGED <<emitted, posted, mlist, wire>>

Next == Emit \/ Enqueue \/ Written \/ WriteFailed

Spec == Init /\ [][Next]_vars

\* The I/O thread is scheduled, and a connection that does not fail completes
\* its writes.
FairSpec == Spec /\ WF_vars(Enqueue) /\ WF_vars(Written)
-------------------------------------------------------------------------------
Elements(s) == {s[i] : i \in 1..Len(s)}

TypeOK ==
    /\ emitted \in 0..EmitBound
    /\ posted \in Seq(1..EmitBound) /\ mlist \in Seq(1..EmitBound)
    /\ writing \in Seq(1..EmitBound) /\ wire \in Seq(1..EmitBound)
    /\ failed \in BOOLEAN

\* At most one asynchronous write is under way, so messages never mix on the
\* wire, and its buffer is the front of the list: nothing inserted meanwhile
\* moves or replaces what is being written.
OneStableWrite ==
    \/ writing = << >>
    \/ mlist # << >> /\ writing = << mlist[1] >>

\* A write is under way as long as anything waits, until a write fails; after
\* that none is ever started again, because the list never gets empty.
WritesUnlessFailed ==
    /\ writing = << >> <=> (failed \/ mlist = << >>)
    /\ failed => mlist # << >>

\* A message that was emitted is posted, listed or received, and only once.
EachOnce ==
    /\ \A m \in 1..emitted :
         m \in Elements(posted) \cup Elements(mlist) \cup Elements(wire)
    /\ Len(posted) + Len(mlist) + Len(wire) = emitted

\* Nothing is on its way that was not emitted.
OnlyEmitted ==
    /\ \A i \in 1..Len(posted) : posted[i] <= emitted
    /\ \A i \in 1..Len(mlist) : mlist[i] <= emitted
    /\ \A i \in 1..Len(wire) : wire[i] <= emitted

\* The messages behind the front stand newest first, and what is still posted
\* is newer than all of them.
NewestFirst ==
    /\ \A i, j \in 2..Len(mlist) : i < j => mlist[i] > mlist[j]
    /\ \A i \in 2..Len(mlist) : mlist[1] # mlist[i]
    /\ \A i, j \in 1..Len(posted) : i < j => posted[i] < posted[j]
    /\ \A i \in 1..Len(posted), j \in 1..Len(mlist) : mlist[j] < posted[i]
    /\ \A i \in 1..Len(posted), j \in 1..Len(wire) : wire[j] < posted[i]
    /\ \A i \in 1..Len(mlist), j \in 1..Len(wire) : mlist[i] # wire[j]

OutboxInv ==
    /\ TypeOK /\ OneStableWrite /\ WritesUnlessFailed /\ EachOnce /\ OnlyEmitted
    /\ NewestFirst

\* The list, the posted functions and the handlers together are a Mailbox.
Travelling == IF writing = << >> THEN 0 ELSE writing[1]

Behind(s) == {s[i] : i \in 2..Len(s)}

Waiting == IF failed THEN Elements(mlist) ELSE Behind(mlist)

Client == INSTANCE Mailbox WITH
    Message <- 1..EmitBound, travelling <- Travelling, waiting <- Waiting,
    arrived <- Elements(wire), broken <- failed

ServesClient == Client!Spec

\* Once no new status is emitted, every one gets to the client, the old ones
\* last, unless the connection fails.
EverythingArrives == emitted = EmitBound ~> (failed \/ Len(wire) = EmitBound)
===============================================================================
