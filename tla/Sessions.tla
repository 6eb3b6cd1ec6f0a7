------------------------------- MODULE Sessions -------------------------------
(***************************************************************************)
(* Connections and the life of their sessions (Server, SocketConn in       *)
(* helpers.cpp).  A SocketConn lives as long as a pending read, a pending  *)
(* write or a posted send holds a shared_ptr to it.  A posted command does *)
(* not: it keeps the raw this.                                             *)
(*                                                                         *)
(* A client is one connection.  What it types is a stream of lines; when   *)
(* it hangs up the stream may end in a piece without its newline.  What    *)
(* the lines do is left to Dispatch; here they occupy a thread and look at *)
(* the session, and the sixteen writes of an abort are its last step.      *)
(* TCP and the pool are external.                                          *)
(***************************************************************************)
EXTENDS Scripts, FiniteSets

CONSTANTS
    Client, Worker,
    Line,        \* the lines clients type
    Piece,       \* what can be left of a line cut off before its newline
    LineBound,   \* bound: lines a client types
    EmitBound    \* bound: status messages emitted to a client

ASSUME SessionsAssumption ==
    /\ Line \cup Piece \subseteq [valve : STRING, status : STRING]
    /\ LineBound \in Nat /\ EmitBound \in Nat

VARIABLES
    up,          \* the process has not been terminated
    accepting,   \* an async_accept is pending
    conn,        \* conn[c]: "away", "open", "eof" (c sends no more) or "reset"
    typed,       \* typed[c]: how many lines c has typed
    stream,      \* stream[c]: what c has typed and no handler has taken
    accepted,    \* the clients whose session was registered and started
    reading,     \* the sessions with a read pending
    writing,     \* the sessions with a write pending
    sends,       \* sends[c]: posted functions of send that have not run
    mlist,       \* mlist[c]: the length of _mlist
    emits,       \* emits[c]: messages emitted to c
    aborting,    \* the client whose read handler runs an abort, if any
    queue,       \* posted commands, each with the session it points to
    running      \* running[w]: the command thread w runs

client == <<conn, typed, stream>>
outbox == <<writing, sends, mlist, emits>>
pool   == <<queue, running>>
vars   == <<up, accepting, client, accepted, reading, outbox, aborting, pool>>

abort   == Word("abort")
Idle    == [from |-> "nobody", line |-> Word("none")]
Polling == aborting = {}

\* Mutant of Held: the slot of the signal captures a shared_ptr, and the signal
\* keeps its slots.
HeldBySlot(c) == c \in accepted

\* Mutant of Held: the read handler captures this alone.
HeldByWrites(c) == c \in accepted /\ (c \in writing \cup aborting \/ sends[c] > 0)

\* Somebody holds a shared_ptr to the session of c.
Held(c) == c \in accepted /\ (c \in reading \cup writing \cup aborting \/ sends[c] > 0)

Init ==
    /\ up = TRUE /\ accepting = TRUE
    /\ conn = [c \in Client |-> "away"] /\ typed = [c \in Client |-> 0]
    /\ stream = [c \in Client |-> << >>]
    /\ accepted = {} /\ reading = {} /\ writing = {} /\ aborting = {}
    /\ sends = [c \in Client |-> 0] /\ mlist = sends /\ emits = sends
    /\ queue = << >> /\ running = [w \in Worker |-> Idle]
-------------------------------------------------------------------------------
(***************************************************************************)
(* The clients.                                                            *)
(***************************************************************************)
Typed(line, whole) == [line |-> line, whole |-> whole]

Connect(c) ==
    /\ conn[c] = "away" /\ conn' = [conn EXCEPT ![c] = "open"]
    /\ UNCHANGED <<up, accepting, typed, stream, accepted, reading, outbox,
                   aborting, pool>>

Type(c) ==
    /\ conn[c] = "open" /\ typed[c] < LineBound
    /\ typed' = [typed EXCEPT ![c] = @ + 1]
    /\ \E l \in Line : stream' = [stream EXCEPT ![c] = Append(@, Typed(l, TRUE))]
    /\ UNCHANGED <<up, accepting, conn, accepted, reading, outbox, aborting, pool>>

\* A stream that goes no further, with or without a piece at its end.
Ends(s) == {s} \cup {Append(s, Typed(p, FALSE)) : p \in Piece}

HangUp(c) ==
    /\ conn[c] = "open" /\ conn' = [conn EXCEPT ![c] = "eof"]
    /\ \E s \in Ends(stream[c]) : stream' = [stream EXCEPT ![c] = s]
    /\ UNCHANGED <<up, accepting, typed, accepted, reading, outbox, aborting, pool>>

\* The connection breaks: what was not read yet may be lost.
Reset(c) ==
    /\ conn[c] \in {"open", "eof"} /\ conn' = [conn EXCEPT ![c] = "reset"]
    /\ \/ UNCHANGED stream
       \/ \E k \in 0..Len(stream[c]) - 1 : \E s \in Ends(SubSeq(stream[c], 1, k)) :
              stream' = [stream EXCEPT ![c] = s]
    /\ UNCHANGED <<up, accepting, typed, accepted, reading, outbox, aborting, pool>>
-------------------------------------------------------------------------------
(***************************************************************************)
(* The I/O thread: one handler at a time.                                  *)
(***************************************************************************)
\* Mutant of Accept: a client that has hung up already is turned away.
AcceptOpen(c) ==
    /\ Polling /\ accepting /\ conn[c] = "open" /\ c \notin accepted
    /\ accepted' = accepted \cup {c} /\ reading' = reading \cup {c}
    /\ UNCHANGED <<up, accepting, client, outbox, aborting, pool>>

\* The accept handler without an error.  remote_endpoint() throws out of the
\* event loop if the peer is gone already.
Accept(c) ==
    /\ Polling /\ accepting /\ conn[c] # "away" /\ c \notin accepted
    /\ IF conn[c] = "reset"
       THEN up' = FALSE /\ UNCHANGED <<accepted, reading>>
       ELSE /\ accepted' = accepted \cup {c} /\ reading' = reading \cup {c}
            /\ UNCHANGED up
    /\ UNCHANGED <<accepting, client, outbox, aborting, pool>>

\* ... and with one: accept() is not called again.
AcceptFails ==
    /\ Polling /\ accepting /\ accepting' = FALSE
    /\ UNCHANGED <<up, client, accepted, reading, outbox, aborting, pool>>

\* input(): an abort occupies the handler, any other line is posted.
Input(c, line) ==
    IF line = abort
    THEN aborting' = {c} /\ UNCHANGED queue
    ELSE /\ queue' = Append(queue, [from |-> c, line |-> line])
         /\ UNCHANGED aborting

\* Mutant of ReadLine: after an abort the handler does not read on.
ReadLineOnce(c) ==
    /\ Polling /\ c \in reading /\ stream[c] # << >> /\ Head(stream[c]).whole
    /\ Input(c, Head(stream[c]).line)
    /\ reading' = IF Head(stream[c]).line = abort THEN reading \ {c} ELSE reading
    /\ stream' = [stream EXCEPT ![c] = Tail(@)]
    /\ UNCHANGED <<up, accepting, conn, typed, accepted, outbox, running>>

\* The read handler without an error: a line, and the next read.
ReadLine(c) ==
    /\ Polling /\ c \in reading /\ stream[c] # << >> /\ Head(stream[c]).whole
    /\ Input(c, Head(stream[c]).line)
    /\ stream' = [stream EXCEPT ![c] = Tail(@)]
    /\ UNCHANGED <<up, accepting, conn, typed, accepted, reading, outbox, running>>

\* ... and with one: input() takes what is left in the buffer for a line.
ReadEnd(c) ==
    /\ Polling /\ c \in reading /\ conn[c] \in {"eof", "reset"}
    /\ \/ stream[c] = << >> /\ UNCHANGED <<stream, aborting, queue>>
       \/ /\ stream[c] # << >> /\ ~Head(stream[c]).whole
          /\ Input(c, Head(stream[c]).line)
          /\ stream' = [stream EXCEPT ![c] = << >>]
    /\ reading' = reading \ {c}
    /\ UNCHANGED <<up, accepting, conn, typed, accepted, outbox, running>>

\* The abort is over when the old pool is joined; the queue goes with the pool.
AbortEnd ==
    /\ aborting # {} /\ \A w \in Worker : running[w] = Idle
    /\ aborting' = {} /\ queue' = << >>
    /\ UNCHANGED <<up, accepting, client, accepted, reading, outbox, running>>

\* send's function: nq, and _write if it says so.
RunSend(c) ==
    /\ Polling /\ sends[c] > 0
    /\ sends' = [sends EXCEPT ![c] = @ - 1] /\ mlist' = [mlist EXCEPT ![c] = @ + 1]
    /\ writing' = IF mlist[c] = 0 THEN writing \cup {c} ELSE writing
    /\ UNCHANGED <<up, accepting, client, accepted, reading, emits, aborting, pool>>

Written(c) ==
    /\ Polling /\ c \in writing /\ conn[c] # "reset"
    /\ mlist' = [mlist EXCEPT ![c] = @ - 1]
    /\ writing' = IF mlist[c] = 1 THEN writing \ {c} ELSE writing
    /\ UNCHANGED <<up, accepting, client, accepted, reading, sends, emits,
                   aborting, pool>>

\* The write handler with an error starts nothing.
WriteFails(c) ==
    /\ Polling /\ c \in writing /\ conn[c] = "reset" /\ writing' = writing \ {c}
    /\ UNCHANGED <<up, accepting, client, accepted, reading, sends, mlist, emits,
                   aborting, pool>>

IoThread(c) == \/ Accept(c) \/ ReadLine(c) \/ ReadEnd(c) \/ RunSend(c)
               \/ WriteFails(c) \/ AbortEnd
-------------------------------------------------------------------------------
\* Mutant of Emit: the slot captures the raw session.
EmitUnlocked(c) ==
    /\ c \in accepted /\ emits[c] < EmitBound
    /\ emits' = [emits EXCEPT ![c] = @ + 1] /\ sends' = [sends EXCEPT ![c] = @ + 1]
    /\ UNCHANGED <<up, accepting, client, accepted, reading, writing, mlist,
                   aborting, pool>>

\* The main thread, in the slot of c: the weak_ptr can be locked, send posts.
Emit(c) ==
    /\ Held(c) /\ emits[c] < EmitBound
    /\ emits' = [emits EXCEPT ![c] = @ + 1] /\ sends' = [sends EXCEPT ![c] = @ + 1]
    /\ UNCHANGED <<up, accepting, client, accepted, reading, writing, mlist,
                   aborting, pool>>

\* A thread of the pool, which an abort stops first of all, takes a command.
\* It reads labjack through this.
Start(w) ==
    /\ Polling /\ running[w] = Idle /\ queue # << >>
    /\ running' = [running EXCEPT ![w] = Head(queue)] /\ queue' = Tail(queue)
    /\ UNCHANGED <<up, accepting, client, accepted, reading, outbox, aborting>>

Throws(line) == Program(line) # << >> /\ Program(line)[1] = Throw

\* The thread is about to follow state, a reference to _st of the session; only
\* the hot fire does so.
Follows(w, c) == running[w].from = c /\ running[w].line = Word("502")

\* An unknown word throws.  What a hot fire finds where its session was may
\* be anything, a pointer that cannot be followed included.
Finish(w) ==
    /\ running[w] # Idle /\ running' = [running EXCEPT ![w] = Idle]
    /\ up' \in IF Throws(running[w].line) THEN {FALSE}
               ELSE IF \E c \in Client : Follows(w, c) /\ ~Held(c) THEN BOOLEAN
               ELSE {TRUE}
    /\ UNCHANGED <<accepting, client, accepted, reading, outbox, aborting, queue>>

Next ==
    /\ up
    /\ \/ \E c \in Client : \/ Connect(c) \/ Type(c) \/ HangUp(c) \/ Reset(c)
                            \/ IoThread(c) \/ Written(c) \/ Emit(c)
       \/ AcceptFails
       \/ \E w \in Worker : Start(w) \/ Finish(w)

Spec == Init /\ [][Next]_vars

\* The I/O thread runs every handler that is due and the pool its commands.  A
\* client need not read, so a write to it need not complete; a write to a
\* connection that is reset fails.
FairSpec ==
    /\ Spec
    /\ \A c \in Client :
         /\ WF_vars(up /\ Accept(c)) /\ WF_vars(up /\ (ReadLine(c) \/ ReadEnd(c)))
         /\ WF_vars(up /\ RunSend(c)) /\ WF_vars(up /\ WriteFails(c))
    /\ WF_vars(up /\ AbortEnd)
    /\ \A w \in Worker : WF_vars(up /\ Start(w)) /\ WF_vars(up /\ Finish(w))
-------------------------------------------------------------------------------
FlagsOK == {up, accepting} \subseteq BOOLEAN

Element == [line : Line \cup Piece, whole : BOOLEAN]

ClientsOK ==
    /\ conn \in [Client -> {"away", "open", "eof", "reset"}]
    /\ typed \in [Client -> 0..LineBound]
    /\ stream \in [Client -> Seq(Element)]

HoldersOK == reading \cup writing \cup aborting \subseteq accepted /\ accepted \subseteq Client

CountsOK ==
    /\ sends \in [Client -> Nat] /\ mlist \in [Client -> Nat]
    /\ emits \in [Client -> 0..EmitBound]

Posted == [from : Client, line : Line \cup Piece]

PoolOK == queue \in Seq(Posted) /\ running \in [Worker -> Posted \cup {Idle}]

TypeOK == FlagsOK /\ ClientsOK /\ HoldersOK /\ CountsOK /\ PoolOK

\* A started session waits for the next line until its client has hung up and
\* everything the client typed is taken.
ReadsOn ==
    \A c \in accepted :
        c \in reading \/ (conn[c] \in {"eof", "reset"} /\ stream[c] = << >>)

\* Nobody waits behind a write that is not under way: a message in the list of a
\* session is behind a pending write, unless the connection was lost.  Nothing is
\* sent before the session starts.
NothingStuck ==
    /\ \A c \in Client \ accepted : sends[c] = 0 /\ mlist[c] = 0
    /\ \A c \in writing : mlist[c] > 0
    /\ \A c \in accepted : mlist[c] > 0 => c \in writing \/ conn[c] = "reset"

\* The inductive invariant.
SessionsInv == TypeOK /\ ReadsOn /\ NothingStuck

\* A session goes only after its client has hung up or lost the connection, and
\* after everything the client typed was taken: until then the chain of reads
\* holds it, whatever the writes and the status messages do.  A command can
\* find its session gone only if its client hung up first.
GoneOnlyAfterHangUp ==
    \A c \in accepted : Held(c) \/ (conn[c] \in {"eof", "reset"} /\ stream[c] = << >>)

\* A session that is gone never comes back: no status message is posted to it,
\* no read or write is started on it, though the signal may still call its slot
\* and commands may still point to it.
GoneForGood ==
    [][\A c \in accepted : ~Held(c) => ~Held(c)']_vars

\* Every line a client typed is taken, also those it typed just before it hung
\* up, and also those behind an abort.
EverythingTaken ==
    \A c \in Client : (c \in accepted /\ stream[c] # << >>) ~> (stream[c] = << >> \/ ~up)

\* Every client is accepted, however many came before it and even if it has
\* hung up by then, unless an accept fails: one is enough to end accepting.
EverybodyAccepted ==
    \A c \in Client : conn[c] = "open" ~> (c \in accepted \/ ~accepting \/ ~up)

\* The session of a lost connection is freed in the end.
SessionsEnd ==
    \A c \in Client : (c \in accepted /\ conn[c] = "reset") ~> (~Held(c) \/ ~up)
===============================================================================
