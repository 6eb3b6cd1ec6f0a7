---------------------------- MODULE SessionsProofs ----------------------------
(***************************************************************************)
(* Proofs about Sessions, for any clients, threads, lines and bounds.      *)
(***************************************************************************)
EXTENDS Sessions, TLAPS

LEMMA InitInv == Init => SessionsInv
  <1> SUFFICES ASSUME Init PROVE SessionsInv
    OBVIOUS
  <1> USE SessionsAssumption DEF Init
  <1>1. FlagsOK
    BY DEF FlagsOK
  <1>2. ClientsOK
    BY DEF ClientsOK
  <1>3. HoldersOK /\ PoolOK
    BY DEF HoldersOK, PoolOK
  <1>4. CountsOK
    BY DEF CountsOK
  <1>5. ReadsOn /\ NothingStuck
    BY DEF ReadsOn, NothingStuck
  <1>6. QED BY <1>1, <1>2, <1>3, <1>4, <1>5 DEF SessionsInv, TypeOK

LEMMA FlagsNext == ASSUME FlagsOK, Next PROVE FlagsOK'
  <1>1. QED
    BY Zenon
    DEF FlagsOK, Next, Connect, Type, HangUp, Reset, IoThread, Accept, ReadLine,
        ReadEnd, RunSend, WriteFails, AbortEnd, Written, Emit, AcceptFails, Start,
        Finish

LEMMA AppendStays ==
    ASSUME NEW S, NEW s \in Seq(S), NEW e \in S PROVE Append(s, e) \in Seq(S)
  OBVIOUS

\* What a stream may become stays a stream.
LEMMA HeadAndTail ==
    ASSUME ClientsOK, NEW c \in Client, stream[c] # << >>
    PROVE  Head(stream[c]) \in Element /\ Tail(stream[c]) \in Seq(Element)
  <1>1. stream[c] \in Seq(Element)
    BY DEF ClientsOK
  <1>2. QED BY <1>1

LEMMA TypedElement ==
    \A l \in Line \cup Piece : Typed(l, TRUE) \in Element /\ Typed(l, FALSE) \in
       Element
  BY DEF Typed, Element

LEMMA EndsStream ==
    ASSUME NEW s0 \in Seq(Element), NEW s \in Ends(s0) PROVE s \in Seq(Element)
  <1>1. CASE s = s0
    BY <1>1
  <1>2. ASSUME NEW p \in Piece, s = Append(s0, Typed(p, FALSE)) PROVE s \in
     Seq(Element)
    <2>1. Typed(p, FALSE) \in Element
      BY TypedElement
    <2>2. Append(s0, Typed(p, FALSE)) \in Seq(Element)
      BY <2>1, AppendStays
    <2>3. QED BY <1>2, <2>2
  <1>3. QED BY <1>1, <1>2 DEF Ends

LEMMA ClientsNext == ASSUME SessionsInv, Next PROVE ClientsOK'
  <1>1. ClientsOK
    BY DEF SessionsInv, TypeOK
  <1>2. ASSUME NEW c \in Client, Connect(c) PROVE ClientsOK'
    <2>1. conn' = [conn EXCEPT ![c] = "open"] /\ UNCHANGED <<typed, stream>>
      BY <1>2, Zenon DEF Connect
    <2>2. QED BY <1>1, <2>1 DEF ClientsOK
  <1>3. ASSUME NEW c \in Client, Type(c) PROVE ClientsOK'
    <2>1. /\ typed[c] < LineBound /\ typed' = [typed EXCEPT ![c] = @ + 1]
          /\ UNCHANGED conn
          /\ \E l \in Line : stream' = [stream EXCEPT ![c] = Append(@, Typed(l,
             TRUE))]
      BY <1>3, Zenon DEF Type
    <2>2. typed' \in [Client -> 0..LineBound]
      BY <1>1, <2>1, SessionsAssumption DEF ClientsOK
    <2>3. stream' \in [Client -> Seq(Element)]
      <3>1. PICK l \in Line : stream' = [stream EXCEPT ![c] = Append(@, Typed(l,
         TRUE))]
        BY <2>1
      <3>2. Typed(l, TRUE) \in Element /\ stream[c] \in Seq(Element)
        BY <1>1, TypedElement DEF ClientsOK
      <3>3. Append(stream[c], Typed(l, TRUE)) \in Seq(Element)
        BY <3>2, AppendStays
      <3>4. QED BY <1>1, <3>1, <3>3 DEF ClientsOK
    <2>4. QED BY <1>1, <2>1, <2>2, <2>3 DEF ClientsOK
  <1>4. ASSUME NEW c \in Client, HangUp(c) PROVE ClientsOK'
    <2>1. /\ conn' = [conn EXCEPT ![c] = "eof"] /\ UNCHANGED typed
          /\ \E s \in Ends(stream[c]) : stream' = [stream EXCEPT ![c] = s]
      BY <1>4, Zenon DEF HangUp
    <2>2. \A s \in Ends(stream[c]) : s \in Seq(Element)
      BY <1>1, EndsStream DEF ClientsOK
    <2>3. QED BY <1>1, <2>1, <2>2 DEF ClientsOK
  <1>5. ASSUME NEW c \in Client, Reset(c) PROVE ClientsOK'
    <2>1. /\ conn' = [conn EXCEPT ![c] = "reset"] /\ UNCHANGED typed
          /\ \/ UNCHANGED stream
             \/ \E k \in 0..Len(stream[c]) - 1 :
                \E s \in Ends(SubSeq(stream[c], 1, k)) :
                    stream' = [stream EXCEPT ![c] = s]
      BY <1>5, Zenon DEF Reset
    <2>2. \A k \in 0..Len(stream[c]) - 1 : SubSeq(stream[c], 1, k) \in Seq(Element)
      BY <1>1 DEF ClientsOK
    <2>3. \A k \in 0..Len(stream[c]) - 1 : \A s \in Ends(SubSeq(stream[c], 1, k)) :
              s \in Seq(Element)
      BY <2>2, EndsStream
    <2>4. QED BY <1>1, <2>1, <2>3 DEF ClientsOK
  <1>6. ASSUME NEW c \in Client, ReadLine(c) PROVE ClientsOK'
    <2>1. /\ stream[c] # << >> /\ stream' = [stream EXCEPT ![c] = Tail(@)]
          /\ UNCHANGED <<conn, typed>>
      BY <1>6, Zenon DEF ReadLine
    <2>2. QED BY <1>1, <2>1, HeadAndTail DEF ClientsOK
  <1>7. ASSUME NEW c \in Client, ReadEnd(c) PROVE ClientsOK'
    <2>1. /\ UNCHANGED <<conn, typed>>
          /\ UNCHANGED stream \/ stream' = [stream EXCEPT ![c] = << >>]
      BY <1>7, Zenon DEF ReadEnd
    <2>2. << >> \in Seq(Element)
      OBVIOUS
    <2>3. QED BY <1>1, <2>1, <2>2 DEF ClientsOK
  <1>8. CASE
        \/ \E c \in Client : \/ Accept(c) \/ RunSend(c) \/ WriteFails(c)
                             \/ Written(c) \/ Emit(c)
        \/ AbortEnd
        \/ AcceptFails
        \/ \E w \in Worker : Start(w) \/ Finish(w)
    <2>1. UNCHANGED <<conn, typed, stream>>
      BY <1>8, Zenon DEF Accept, RunSend, WriteFails, Written, Emit, AbortEnd,
         AcceptFails, Start, Finish, client
    <2>2. QED BY <1>1, <2>1 DEF ClientsOK
  <1>9. QED BY <1>2, <1>3, <1>4, <1>5, <1>6, <1>7, <1>8 DEF Next, IoThread

LEMMA HoldersNext == ASSUME SessionsInv, Next PROVE HoldersOK'
  <1> USE DEF SessionsInv, TypeOK, HoldersOK, CountsOK, NothingStuck, client,
     outbox, pool
  <1>1. ASSUME NEW c \in Client, Accept(c) PROVE HoldersOK'
    BY <1>1 DEF Accept
  <1>2. ASSUME NEW c \in Client, ReadLine(c) PROVE HoldersOK'
    BY <1>2 DEF ReadLine, Input
  <1>3. ASSUME NEW c \in Client, ReadEnd(c) PROVE HoldersOK'
    BY <1>3 DEF ReadEnd, Input
  <1>4. ASSUME AbortEnd PROVE HoldersOK'
    BY <1>4 DEF AbortEnd
  <1>5. ASSUME NEW c \in Client, RunSend(c) PROVE HoldersOK'
    BY <1>5 DEF RunSend
  <1>6. ASSUME NEW c \in Client, Written(c) PROVE HoldersOK'
    BY <1>6 DEF Written
  <1>7. ASSUME NEW c \in Client, WriteFails(c) PROVE HoldersOK'
    BY <1>7 DEF WriteFails
  <1>8. CASE
        \/ \E c \in Client : \/ Connect(c) \/ Type(c) \/ HangUp(c) \/ Reset(c)
                             \/ Emit(c)
        \/ AcceptFails
        \/ \E w \in Worker : Start(w) \/ Finish(w)
    <2>1. UNCHANGED <<accepted, reading, writing, aborting>>
      BY <1>8, Zenon DEF Connect, Type, HangUp, Reset, Emit, AcceptFails, Start,
         Finish, Held, client, outbox, pool
    <2>2. QED BY <2>1
  <1>9. QED BY <1>1, <1>2, <1>3, <1>4, <1>5, <1>6, <1>7, <1>8 DEF Next, IoThread

LEMMA CountsNext == ASSUME SessionsInv, Next PROVE CountsOK'
  <1> USE SessionsAssumption DEF SessionsInv, TypeOK, CountsOK, HoldersOK,
     NothingStuck
  <1>1. ASSUME NEW c \in Client, RunSend(c) PROVE CountsOK'
    BY <1>1 DEF RunSend
  <1>2. ASSUME NEW c \in Client, Written(c) PROVE CountsOK'
    BY <1>2 DEF Written
  <1>3. ASSUME NEW c \in Client, Emit(c) PROVE CountsOK'
    BY <1>3 DEF Emit, Held
  <1>4. CASE
        \/ \E c \in Client : \/ Connect(c) \/ Type(c) \/ HangUp(c) \/ Reset(c)
                             \/ Accept(c) \/ ReadLine(c) \/ ReadEnd(c)
                             \/ WriteFails(c)
        \/ AbortEnd
        \/ AcceptFails
        \/ \E w \in Worker : Start(w) \/ Finish(w)
    <2>1. UNCHANGED <<sends, mlist, emits>>
      BY <1>4, Zenon DEF Connect, Type, HangUp, Reset, Accept, ReadLine, ReadEnd,
         WriteFails, AbortEnd, AcceptFails, Start, Finish, Input, client, outbox,
         pool
    <2>2. QED BY <2>1
  <1>5. QED BY <1>1, <1>2, <1>3, <1>4 DEF Next, IoThread

LEMMA InputPool ==
    ASSUME PoolOK, NEW c \in Client, NEW l \in Line \cup Piece, Input(c, l)
    PROVE  queue' \in Seq(Posted)
  <1>1. queue' = queue \/ queue' = Append(queue, [from |-> c, line |-> l])
    BY Zenon DEF Input
  <1>2. [from |-> c, line |-> l] \in Posted
    BY DEF Posted
  <1>3. Append(queue, [from |-> c, line |-> l]) \in Seq(Posted)
    BY <1>2 DEF PoolOK
  <1>4. QED BY <1>1, <1>3 DEF PoolOK

LEMMA PoolNext == ASSUME SessionsInv, Next PROVE PoolOK'
  <1>1. PoolOK /\ ClientsOK
    BY DEF SessionsInv, TypeOK
  <1>2. ASSUME NEW c \in Client, stream[c] # << >>, Input(c, Head(stream[c]).line)
        PROVE  queue' \in Seq(Posted)
    <2>1. Head(stream[c]).line \in Line \cup Piece
      BY <1>1, <1>2, HeadAndTail DEF Element
    <2>2. QED BY <1>1, <1>2, <2>1, InputPool
  <1>3. ASSUME NEW c \in Client, ReadLine(c) \/ ReadEnd(c) PROVE PoolOK'
    <2>1. UNCHANGED running
      BY <1>3, Zenon DEF ReadLine, ReadEnd
    <2>2. \/ UNCHANGED queue
          \/ stream[c] # << >> /\ Input(c, Head(stream[c]).line)
      BY <1>3, Zenon DEF ReadLine, ReadEnd
    <2>3. QED BY <1>1, <1>2, <2>1, <2>2 DEF PoolOK
  <1>4. CASE AbortEnd
    <2>1. queue' = << >> /\ UNCHANGED running
      BY <1>4 DEF AbortEnd
    <2>2. QED BY <1>1, <2>1 DEF PoolOK
  <1>5. ASSUME NEW w \in Worker, Start(w) PROVE PoolOK'
    <2>1. /\ queue # << >> /\ queue' = Tail(queue)
          /\ running' = [running EXCEPT ![w] = Head(queue)]
      BY <1>5, Zenon DEF Start
    <2>2. Head(queue) \in Posted /\ Tail(queue) \in Seq(Posted)
      BY <1>1, <2>1 DEF PoolOK
    <2>3. QED BY <1>1, <2>1, <2>2 DEF PoolOK
  <1>6. ASSUME NEW w \in Worker, Finish(w) PROVE PoolOK'
    <2>1. UNCHANGED queue /\ running' = [running EXCEPT ![w] = Idle]
      BY <1>6, Zenon DEF Finish
    <2>2. QED BY <1>1, <2>1 DEF PoolOK
  <1>7. CASE
        \/ \E c \in Client : \/ Connect(c) \/ Type(c) \/ HangUp(c) \/ Reset(c)
                             \/ Accept(c) \/ RunSend(c) \/ WriteFails(c)
                             \/ Written(c) \/ Emit(c)
        \/ AcceptFails
    <2>1. UNCHANGED <<queue, running>>
      BY <1>7, Zenon DEF Connect, Type, HangUp, Reset, Accept, RunSend, WriteFails,
         Written, Emit, AcceptFails, pool
    <2>2. QED BY <1>1, <2>1 DEF PoolOK
  <1>8. QED BY <1>3, <1>4, <1>5, <1>6, <1>7 DEF Next, IoThread

\* The chain of reads goes on until the stream is at its end.
LEMMA ReadsOnNext == ASSUME SessionsInv, Next PROVE ReadsOn'
  <1> USE DEF SessionsInv, TypeOK, ReadsOn, HoldersOK, ClientsOK, client
  <1>1. ASSUME NEW c \in Client, Connect(c) PROVE ReadsOn'
    BY <1>1 DEF Connect
  <1>2. ASSUME NEW c \in Client, Type(c) PROVE ReadsOn'
    BY <1>2 DEF Type
  <1>3. ASSUME NEW c \in Client, HangUp(c) PROVE ReadsOn'
    BY <1>3 DEF HangUp
  <1>4. ASSUME NEW c \in Client, Reset(c) PROVE ReadsOn'
    BY <1>4 DEF Reset
  <1>5. ASSUME NEW c \in Client, Accept(c) PROVE ReadsOn'
    BY <1>5 DEF Accept
  <1>6. ASSUME NEW c \in Client, ReadLine(c) PROVE ReadsOn'
    BY <1>6 DEF ReadLine, Input
  <1>7. ASSUME NEW c \in Client, ReadEnd(c) PROVE ReadsOn'
    BY <1>7 DEF ReadEnd, Input
  <1>8. CASE
        \/ \E c \in Client : RunSend(c) \/ WriteFails(c) \/ Written(c) \/ Emit(c)
        \/ AbortEnd
        \/ AcceptFails
        \/ \E w \in Worker : Start(w) \/ Finish(w)
    <2>1. UNCHANGED <<conn, stream, accepted, reading>>
      BY <1>8, Zenon DEF RunSend, WriteFails, Written, Emit, AbortEnd,
         AcceptFails, Start, Finish, Held, client, outbox, pool
    <2>2. QED BY <2>1
  <1>9. QED BY <1>1, <1>2, <1>3, <1>4, <1>5, <1>6, <1>7, <1>8 DEF Next, IoThread

\* A message in the list is behind a write, or the connection is lost.
LEMMA StuckNext == ASSUME SessionsInv, Next PROVE NothingStuck'
  <1> USE DEF SessionsInv, TypeOK, NothingStuck, HoldersOK, ClientsOK, CountsOK,
     client, outbox
  <1>1. ASSUME NEW c \in Client, Connect(c) PROVE NothingStuck'
    BY <1>1 DEF Connect
  <1>2. ASSUME NEW c \in Client, HangUp(c) PROVE NothingStuck'
    BY <1>2 DEF HangUp
  <1>3. ASSUME NEW c \in Client, Reset(c) PROVE NothingStuck'
    BY <1>3 DEF Reset
  <1>4. ASSUME NEW c \in Client, Accept(c) PROVE NothingStuck'
    BY <1>4 DEF Accept
  <1>5. ASSUME NEW c \in Client, RunSend(c) PROVE NothingStuck'
    BY <1>5 DEF RunSend
  <1>6. ASSUME NEW c \in Client, Written(c) PROVE NothingStuck'
    BY <1>6 DEF Written
  <1>7. ASSUME NEW c \in Client, WriteFails(c) PROVE NothingStuck'
    BY <1>7 DEF WriteFails
  <1>8. ASSUME NEW c \in Client, Emit(c) PROVE NothingStuck'
    BY <1>8 DEF Emit, Held
  <1>9. CASE
        \/ \E c \in Client : Type(c) \/ ReadLine(c) \/ ReadEnd(c)
        \/ AbortEnd
        \/ AcceptFails
        \/ \E w \in Worker : Start(w) \/ Finish(w)
    <2>1. UNCHANGED <<conn, accepted, writing, sends, mlist>>
      BY <1>9, Zenon DEF Type, ReadLine, ReadEnd, AbortEnd, AcceptFails, Start,
         Finish, Input, client, outbox, pool
    <2>2. QED BY <2>1
  <1>10. QED BY <1>1, <1>2, <1>3, <1>4, <1>5, <1>6, <1>7, <1>8, <1>9 DEF Next,
     IoThread

LEMMA NextInv == SessionsInv /\ [Next]_vars => SessionsInv'
  <1>1. ASSUME SessionsInv, Next PROVE SessionsInv'
    BY <1>1, FlagsNext, ClientsNext, HoldersNext, CountsNext, PoolNext, ReadsOnNext,
       StuckNext
    DEF SessionsInv, TypeOK
  <1>2. ASSUME SessionsInv, UNCHANGED vars PROVE SessionsInv'
    BY <1>2, Zenon
    DEF vars, client, outbox, pool, SessionsInv, TypeOK, FlagsOK, ClientsOK,
        HoldersOK, CountsOK, PoolOK, Posted, ReadsOn, NothingStuck
  <1>3. QED BY <1>1, <1>2

\* The inductive invariant of the sessions holds for any clients, threads, lines
\* and bounds.
THEOREM SessionsInvariant == Spec => []SessionsInv
  <1>1. QED BY InitInv, NextInv, PTL DEF Spec

\* A session goes only after its client has hung up and everything the client
\* typed was taken.
THEOREM GoneOnlyAfterHangUpCorrect == Spec => []GoneOnlyAfterHangUp
  <1>1. SessionsInv => GoneOnlyAfterHangUp
    BY DEF SessionsInv, ReadsOn, GoneOnlyAfterHangUp, Held
  <1>2. QED BY SessionsInvariant, <1>1, PTL

\* Only what holds a session can make others hold it.
LEMMA GoneStep ==
    ASSUME SessionsInv, [Next]_vars, NEW c \in accepted, ~Held(c) PROVE ~Held(c)'
  <1>1. /\ c \in Client /\ c \notin reading /\ c \notin writing /\ c \notin aborting
        /\ sends[c] = 0 /\ sends \in [Client -> Nat]
    BY DEF SessionsInv, TypeOK, HoldersOK, CountsOK, Held
  <1>2. SUFFICES /\ c \notin reading' /\ c \notin writing' /\ c \notin aborting'
                 /\ sends'[c] = 0
    BY <1>2 DEF Held
  <1> USE <1>1 DEF client, outbox, pool
  <1>3. ASSUME NEW d \in Client, Accept(d) \/ WriteFails(d) PROVE
               /\ c \notin reading' /\ c \notin writing' /\ c \notin aborting'
               /\ sends'[c] = 0
    BY <1>3, Zenon DEF Accept, WriteFails
  <1>4. ASSUME NEW d \in Client, ReadLine(d) \/ ReadEnd(d) PROVE
               /\ c \notin reading' /\ c \notin writing' /\ c \notin aborting'
               /\ sends'[c] = 0
    BY <1>4, Zenon DEF ReadLine, ReadEnd, Input
  <1>5. ASSUME NEW d \in Client, RunSend(d) \/ Emit(d) \/ Written(d) PROVE
               /\ c \notin reading' /\ c \notin writing' /\ c \notin aborting'
               /\ sends'[c] = 0
    BY <1>5 DEF RunSend, Emit, Held, Written
  <1>6. CASE
        \/ \E d \in Client : Connect(d) \/ Type(d) \/ HangUp(d) \/ Reset(d)
        \/ AbortEnd
        \/ AcceptFails
        \/ \E w \in Worker : Start(w) \/ Finish(w)
        \/ UNCHANGED vars
    <2>1. UNCHANGED <<reading, writing, sends>> /\ (UNCHANGED aborting \/
       aborting' = {})
      BY <1>6, Zenon DEF Connect, Type, HangUp, Reset, AbortEnd, AcceptFails, Start,
         Finish, vars
    <2>2. QED BY <2>1
  <1>7. QED BY <1>3, <1>4, <1>5, <1>6 DEF Next, IoThread

\* A session that is gone never comes back.
THEOREM GoneForGoodCorrect == Spec => GoneForGood
  <1>1. SessionsInv /\ [Next]_vars => [\A c \in accepted : ~Held(c) =>
     ~Held(c)']_vars
    BY GoneStep
  <1>2. QED BY SessionsInvariant, <1>1, PTL DEF Spec, GoneForGood
===============================================================================
