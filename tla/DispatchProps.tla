----------------------------- MODULE DispatchProps -----------------------------
(***************************************************************************)
(* The correctness properties of Dispatch.                                 *)
(***************************************************************************)
EXTENDS Dispatch

Task == [line : Line \cup {NoTask.line}, pc : Nat]

\* The state is made of the values the C++ types allow, the pc of a thread
\* stays within its program and the missed registers are registers.
TypeOK ==
    /\ io \in {"poll", "raise", "join", "lower", "renew", "secure"}
    /\ secured \in 0..Len(AbortWrites)
    /\ queue \in Seq(Line)
    /\ stopped \in BOOLEAN /\ abort_flag \in BOOLEAN
    /\ task \in [Worker -> Task]
    /\ \A w \in Worker : task[w].pc <= Len(Steps(w)) + 1
    /\ reg \in [Register -> Level]
    /\ missed \subseteq Register
    /\ enabled \in BOOLEAN /\ hot \in BOOLEAN /\ up \in BOOLEAN
-------------------------------------------------------------------------------
\* From the moment input() has joined the old pool until it is back in the
\* event loop, no command posted before the abort is running or waiting: none
\* can write to a valve between or after the abort's own writes.
NoSurvivor ==
    io \in {"lower", "renew", "secure"} =>
        queue = << >> /\ \A w \in Worker : Idle(w)

\* The flag is up only while the abort joins the old pool (or has just done
\* so): a command posted after the abort never finds it up.
FlagOnlyForJoin == abort_flag => io \in {"join", "lower"}

\* The pool is stopped from the abort's first step until the new pool is there.
StoppedForAbort == stopped <=> io \in {"raise", "join", "lower", "renew"}

\* Once input() has called poolptr->stop(), a command still waiting never gets
\* a thread: commands start only while the I/O thread is in its event loop.
NothingStartsInAbort ==
    [][\A w \in Worker : (Idle(w) /\ task'[w].pc # 0) => io = "poll"]_vars

\* A command that ends before its last step was cut short by an abort that
\* was waiting for it; the flag of an earlier abort never cuts a later command.
OnlyAbortCutsShort ==
    [][\A w \in Worker :
         (~Idle(w) /\ task'[w].pc = 0 /\ task[w].pc <= Len(Steps(w)))
             => io = "join"]_vars

\* What the abort has already written stays as the abort wrote it until the
\* abort is done, unless the device refused the write.
SecuredStays ==
    io = "secure" =>
        \A k \in 1..secured :
            AbortWrites[k].reg \notin missed
                => reg[AbortWrites[k].reg] = AbortWrites[k].level
-------------------------------------------------------------------------------
\* The normally closed valves that only the sequences open: no client sends
\* "<valve>_open", and the valve was not found open at the start.
LeftToScripts ==
    {v \in NormallyClosed \ FoundOpen : Order(v, "open") \notin Line}

Quiescent == io = "poll" /\ queue = << >> /\ \A w \in Worker : Idle(w)

\* However the sequences interleave, fail or are aborted, once nothing runs
\* every valve that only sequences open is shut again (unless the device
\* refused the latest write to it).
NothingLeftOpen ==
    Quiescent => \A v \in LeftToScripts \ missed : reg[v] = ShutLevel(v)
-------------------------------------------------------------------------------
Opens(s, v) == s.op = "write" /\ s.reg = v /\ s.level = 0
Shuts(s, v) == s.op = "write" /\ s.reg = v /\ s.level = 1

\* Thread w will still shut the normally closed valve v, if it is not cut short.
Pending(w, v) ==
    /\ ~Idle(w)
    /\ \E k \in task[w].pc..Len(Steps(w)) : Shuts(Steps(w)[k], v)

\* An abort is under way and has not come to valve v yet.
PendingAbort(v) ==
    \/ io \in {"raise", "join", "lower", "renew"}
    \/ /\ io = "secure"
       /\ \E k \in secured + 1..Len(AbortWrites) : AbortWrites[k].reg = v

\* Every open valve has somebody who is going to shut it.
ShutIsDue ==
    \A v \in LeftToScripts \ missed :
        \/ reg[v] = ShutLevel(v)
        \/ \E w \in Worker : Pending(w, v)
        \/ PendingAbort(v)

\* The inductive invariant: what each state must remember of the past for the
\* safety properties to follow.  NothingLeftOpen is ShutIsDue in a state where
\* nothing is pending.
IInv ==
    /\ TypeOK
    /\ NoSurvivor
    /\ FlagOnlyForJoin
    /\ StoppedForAbort
    /\ SecuredStays
    /\ ShutIsDue
-------------------------------------------------------------------------------
\* The igniter is off, or somebody is going to switch it off.
IgniterDue ==
    reg[Igniter] = 1 \/ Igniter \in missed \/ \E w \in Worker : Pending(w, Igniter)

CutShort(w) == ~Idle(w) /\ task'[w].pc = 0 /\ task[w].pc <= Len(Steps(w))

Lights(w) ==
    /\ At(w, "write") /\ task'[w] # task[w]
    /\ NextStep(w).reg = Igniter /\ NextStep(w).level = 0

\* The igniter is left on with nobody to switch it off only by the hot fire,
\* which never does, or by an abort that cuts an "ign" short: never by an "ign"
\* that ends, nor by two of them whose writes interleave.
IgniterLeftOn ==
    [][IgniterDue /\ ~IgniterDue' =>
         \E w \in Worker : \/ CutShort(w)
                           \/ Lights(w) /\ task[w].line = Word("502")]_vars
-------------------------------------------------------------------------------
\* The abort of the code keeps the promise of AbortContract: the phases are
\* those of the I/O thread, and the board is busy while a command is queued or
\* runs.
Phase == IF io = "poll" THEN "serving"
         ELSE IF io \in {"raise", "join"} THEN "draining" ELSE "securing"

Busy == queue # << >> \/ \E w \in Worker : ~Idle(w)

Contract == INSTANCE AbortContract WITH phase <- Phase, busy <- Busy

KeepsContract == Contract!Spec
-------------------------------------------------------------------------------
\* An abort gets through: every thread sees the flag or ends by itself, so the
\* join returns (unless the process terminates first).
AbortCompletes == io # "poll" ~> io = "poll" \/ ~up

\* A command that got a thread gives it back, whatever the igniter does; only
\* the hot fire, whose heat loop may last for ever, may keep its thread.
CommandsFinish ==
    \A w \in Worker :
        (~Idle(w) /\ task[w].line # Word("502")) ~> (Idle(w) \/ ~up)
===============================================================================
