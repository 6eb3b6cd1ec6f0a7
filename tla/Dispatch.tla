------------------------------- MODULE Dispatch -------------------------------
(***************************************************************************)
(* Command dispatch and abort (helpers.cpp).                               *)
(*                                                                         *)
(* The single I/O thread takes one line at a time from the clients.  A     *)
(* command line is posted to poolptr, a boost::asio::thread_pool, whose    *)
(* threads run its program (Scripts) next to each other.  "abort" runs on  *)
(* the I/O thread itself: it stops the pool, raises abort_flag to cut the  *)
(* sleeps short, joins the threads, drops what was queued, makes a new     *)
(* pool and drives every valve to its safe level.                          *)
(*                                                                         *)
(* The LabJack is external.  A write can fail, and no caller looks at the  *)
(* error LJM_eWriteName returns.                                           *)
(***************************************************************************)
EXTENDS Scripts, FiniteSets

CONSTANTS
    Worker,      \* the threads of poolptr
    Line,        \* the lines the clients send, "abort" apart
    FoundOpen,   \* the normally closed valves found open when the program starts
    QueueBound,  \* bound: posted commands waiting for a thread
    MissBound    \* bound: registers with a failed latest write, at any time

ASSUME DispatchAssumption ==
    /\ Worker # {} /\ IsFiniteSet(Worker)
    /\ Line \subseteq [valve : STRING, status : STRING]
    /\ FoundOpen \subseteq NormallyClosed
    /\ QueueBound \in Nat \ {0}
    /\ MissBound \in Nat

VARIABLES
    io,          \* what the I/O thread does next; "poll" is its event loop
    secured,     \* how many of AbortWrites the running abort has made
    queue,       \* commands posted to the pool that no thread has taken
    stopped,     \* poolptr->stop() was called on the current pool
    abort_flag,
    task,        \* task[w]: the line thread w runs and its next step; pc 0 is idle
    reg,         \* the levels on the lines of the two LabJacks
    missed,      \* history: the registers whose latest write failed
    enabled,     \* whether the CSV writer should write
    hot,         \* state->lj.ignval >= 365, as the sampling loop last stored it
    up           \* the process has not called std::terminate

vars == <<io, secured, queue, stopped, abort_flag, task, reg, missed,
          enabled, hot, up>>

NoTask   == [line |-> Word("none"), pc |-> 0]
Idle(w)  == task[w].pc = 0
Steps(w) == Program(task[w].line)

\* Thread w is about to make a step of this kind.
At(w, op) == LET steps == Steps(w)
             IN  task[w].pc \in 1..Len(steps) /\ steps[task[w].pc].op = op

NextStep(w) == Steps(w)[task[w].pc]

\* Mutant of Advance: the statement after this one is skipped.
AdvanceByTwo(w) == task' = [task EXCEPT ![w].pc = @ + 2]

Advance(w) == task' = [task EXCEPT ![w].pc = @ + 1]
Return(w)  == task' = [task EXCEPT ![w] = NoTask]

Init ==
    /\ io = "poll" /\ secured = 0
    /\ queue = << >> /\ stopped = FALSE /\ abort_flag = FALSE
    /\ task = [w \in Worker |-> NoTask]
    /\ reg = [r \in Register |-> IF r \in FoundOpen THEN 0 ELSE 1]
    /\ missed = {}
    /\ enabled = TRUE /\ hot = FALSE /\ up = TRUE

\* One LJM_eWriteName call: the device takes the level, or the call fails and
\* its error is dropped.
Put(r, level) ==
    \/ /\ reg' = [reg EXCEPT ![r] = level]
       /\ missed' = missed \ {r}
    \/ /\ Cardinality(missed \cup {r}) <= MissBound
       /\ missed' = missed \cup {r}
       /\ UNCHANGED reg
-------------------------------------------------------------------------------
(***************************************************************************)
(* The I/O thread.                                                         *)
(***************************************************************************)
Receive(l) ==
    /\ io = "poll" /\ Len(queue) < QueueBound
    /\ queue' = Append(queue, l)
    /\ UNCHANGED <<io, secured, stopped, abort_flag, task, reg, missed,
                   enabled, hot, up>>

\* Mutant of AbortStop: poolptr->stop() is forgotten.
AbortWithoutStop ==
    /\ io = "poll" /\ io' = "raise"
    /\ UNCHANGED <<secured, queue, stopped, abort_flag, task, reg, missed,
                   enabled, hot, up>>

AbortStop ==
    /\ io = "poll"
    /\ io' = "raise" /\ stopped' = TRUE
    /\ UNCHANGED <<secured, queue, abort_flag, task, reg, missed, enabled,
                   hot, up>>

AbortRaise ==
    /\ io = "raise"
    /\ io' = "join" /\ abort_flag' = TRUE
    /\ UNCHANGED <<secured, queue, stopped, task, reg, missed, enabled, hot, up>>

\* Mutant of AbortJoin: the pool is reset without waiting for its threads.
ResetWithoutJoin ==
    /\ io = "join"
    /\ io' = "lower" /\ queue' = << >>
    /\ UNCHANGED <<secured, stopped, abort_flag, task, reg, missed, enabled,
                   hot, up>>

\* Mutant of AbortJoin: the pool is kept, and so is its queue.
JoinWithoutReset ==
    /\ io = "join" /\ \A w \in Worker : Idle(w)
    /\ io' = "lower"
    /\ UNCHANGED <<secured, queue, stopped, abort_flag, task, reg, missed,
                   enabled, hot, up>>

\* join() returns once no thread of the pool runs; reset() destroys the pool
\* together with the commands still queued in it.
AbortJoin ==
    /\ io = "join" /\ \A w \in Worker : Idle(w)
    /\ io' = "lower" /\ queue' = << >>
    /\ UNCHANGED <<secured, stopped, abort_flag, task, reg, missed, enabled,
                   hot, up>>

\* Mutant of AbortLower: the flag stays up.
AbortWithoutLower ==
    /\ io = "lower" /\ io' = "renew"
    /\ UNCHANGED <<secured, queue, stopped, abort_flag, task, reg, missed,
                   enabled, hot, up>>

AbortLower ==
    /\ io = "lower"
    /\ io' = "renew" /\ abort_flag' = FALSE
    /\ UNCHANGED <<secured, queue, stopped, task, reg, missed, enabled, hot, up>>

AbortRenew ==
    /\ io = "renew"
    /\ io' = "secure" /\ stopped' = FALSE /\ secured' = 0
    /\ UNCHANGED <<queue, abort_flag, task, reg, missed, enabled, hot, up>>

AbortWrite ==
    /\ io = "secure" /\ secured < Len(AbortWrites)
    /\ secured' = secured + 1
    /\ Put(AbortWrites[secured + 1].reg, AbortWrites[secured + 1].level)
    /\ UNCHANGED <<io, queue, stopped, abort_flag, task, enabled, hot, up>>

AbortDone ==
    /\ io = "secure" /\ secured = Len(AbortWrites)
    /\ io' = "poll"
    /\ UNCHANGED <<secured, queue, stopped, abort_flag, task, reg, missed,
                   enabled, hot, up>>

Abort == AbortRaise \/ AbortJoin \/ AbortLower \/ AbortRenew \/ AbortWrite
            \/ AbortDone
-------------------------------------------------------------------------------
(***************************************************************************)
(* The threads of the pool.                                                *)
(***************************************************************************)
Start(w) ==
    /\ ~stopped /\ Idle(w) /\ queue # << >>
    /\ task' = [task EXCEPT ![w] = [line |-> Head(queue), pc |-> 1]]
    /\ queue' = Tail(queue)
    /\ UNCHANGED <<io, secured, stopped, abort_flag, reg, missed, enabled,
                   hot, up>>

Write(w) ==
    /\ At(w, "write")
    /\ Put(NextStep(w).reg, NextStep(w).level)
    /\ Advance(w)
    /\ UNCHANGED <<io, secured, queue, stopped, abort_flag, enabled, hot, up>>

\* sleepOrAbort returns because the flag is up, or because the time has passed.
Sleep(w) ==
    /\ At(w, "sleep")
    /\ IF abort_flag THEN Return(w) ELSE Advance(w)
    /\ UNCHANGED <<io, secured, queue, stopped, abort_flag, reg, missed,
                   enabled, hot, up>>

\* Mutant of Heat: the loop sleeps without asking for the flag.
HeatWithoutAbort(w) ==
    /\ At(w, "heat") /\ hot /\ Advance(w)
    /\ UNCHANGED <<io, secured, queue, stopped, abort_flag, reg, missed,
                   enabled, hot, up>>

\* while (ignval < 365) if (sleepOrAbort(1us)) return;  A cold round with the
\* flag down changes nothing.
Heat(w) ==
    /\ At(w, "heat")
    /\ \/ hot /\ Advance(w)
       \/ ~hot /\ abort_flag /\ Return(w)
    /\ UNCHANGED <<io, secured, queue, stopped, abort_flag, reg, missed,
                   enabled, hot, up>>

Enable(w) ==
    /\ At(w, "enabled")
    /\ enabled' = (NextStep(w).level = 1)
    /\ Advance(w)
    /\ UNCHANGED <<io, secured, queue, stopped, abort_flag, reg, missed, hot, up>>

\* An exception that leaves a handler of a thread_pool terminates the process.
Terminate(w) ==
    /\ At(w, "throw")
    /\ up' = FALSE
    /\ UNCHANGED <<io, secured, queue, stopped, abort_flag, task, reg, missed,
                   enabled, hot>>

Finish(w) ==
    /\ task[w].pc = Len(Steps(w)) + 1
    /\ Return(w)
    /\ UNCHANGED <<io, secured, queue, stopped, abort_flag, reg, missed,
                   enabled, hot, up>>

Run(w) == Write(w) \/ Sleep(w) \/ Heat(w) \/ Enable(w) \/ Terminate(w)
            \/ Finish(w)
-------------------------------------------------------------------------------
\* The sampling loop stores a new igniter temperature.
Sample ==
    /\ hot' \in BOOLEAN
    /\ UNCHANGED <<io, secured, queue, stopped, abort_flag, task, reg, missed,
                   enabled, up>>

Next ==
    /\ up
    /\ \/ \E l \in Line : Receive(l)
       \/ AbortStop \/ Abort
       \/ \E w \in Worker : Start(w) \/ Run(w)
       \/ Sample

Spec == Init /\ [][Next]_vars

\* The operating system schedules the I/O thread and the threads of the pool,
\* and a sleep ends.  Nothing obliges a client to send a line or the igniter
\* to get hot.
Fairness ==
    /\ WF_vars(up /\ Abort)
    /\ \A w \in Worker : WF_vars(up /\ (Start(w) \/ Run(w)))

FairSpec == Spec /\ Fairness
===============================================================================
