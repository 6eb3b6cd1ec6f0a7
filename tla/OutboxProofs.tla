----------------------------- MODULE OutboxProofs -----------------------------
(***************************************************************************)
(* Proofs about Outbox, for any number of messages: its inductive          *)
(* invariant, and that it implements Mailbox.                              *)
(***************************************************************************)
EXTENDS Outbox, SequenceTheorems, TLAPS

\* What the list operations do to the set of elements.
LEMMA AppendElements ==
  ASSUME NEW S, NEW s \in Seq(S), NEW m \in S
  PROVE  /\ Append(s, m) \in Seq(S) /\ Len(Append(s, m)) = Len(s) + 1
         /\ \A i \in 1..Len(s) : Append(s, m)[i] = s[i]
         /\ Append(s, m)[Len(s) + 1] = m
         /\ Elements(Append(s, m)) = Elements(s) \cup {m}
  <1>1. /\ Append(s, m) \in Seq(S) /\ Len(Append(s, m)) = Len(s) + 1
        /\ \A i \in 1..Len(s) : Append(s, m)[i] = s[i]
        /\ Append(s, m)[Len(s) + 1] = m
    OBVIOUS
  <1>2. Elements(Append(s, m)) = Elements(s) \cup {m}
    BY <1>1 DEF Elements, Behind
  <1>3. QED BY <1>1, <1>2

LEMMA FrontAndRest ==
  ASSUME NEW S, NEW s \in Seq(S), Len(s) # 0
  PROVE  Elements(s) = {s[1]} \cup Behind(s)
  <1>1. ASSUME NEW i \in 1..Len(s) PROVE s[i] = s[1] \/ i \in 2..Len(s)
    OBVIOUS
  <1>2. 1 \in 1..Len(s) /\ \A i \in 2..Len(s) : i \in 1..Len(s)
    OBVIOUS
  <1>3. QED BY <1>1, <1>2, Zenon DEF Elements, Behind

LEMMA TailElements ==
  ASSUME NEW S, NEW s \in Seq(S), s # << >>
  PROVE  /\ s[1] \in S /\ Len(s) \in Nat \ {0}
         /\ Tail(s) \in Seq(S) /\ Len(Tail(s)) = Len(s) - 1
         /\ \A i \in 1..Len(s) - 1 : Tail(s)[i] = s[i + 1]
         /\ Elements(s) = {s[1]} \cup Elements(Tail(s))
         /\ Elements(Tail(s)) = Behind(s)
  <1>1. /\ s[1] \in S /\ Len(s) \in Nat \ {0}
        /\ Tail(s) \in Seq(S) /\ Len(Tail(s)) = Len(s) - 1
        /\ \A i \in 1..Len(s) - 1 : Tail(s)[i] = s[i + 1]
    OBVIOUS
  <1>2. Elements(Tail(s)) = Behind(s)
    <2>1. ASSUME NEW i \in 1..Len(Tail(s))
          PROVE  i + 1 \in 2..Len(s) /\ Tail(s)[i] = s[i + 1]
      BY <1>1
    <2>2. ASSUME NEW i \in 2..Len(s)
          PROVE  \E j \in 1..Len(Tail(s)) : Tail(s)[j] = s[i]
      <3>1. /\ i - 1 \in 1..Len(Tail(s)) /\ (i - 1) + 1 = i
            /\ Tail(s)[i - 1] = s[(i - 1) + 1]
        BY <1>1
      <3>2. QED BY <3>1
    <2>3. ASSUME NEW x \in Elements(Tail(s)) PROVE x \in Behind(s)
      BY <2>1 DEF Elements, Behind
    <2>4. ASSUME NEW x \in Behind(s) PROVE x \in Elements(Tail(s))
      BY <2>2 DEF Elements, Behind
    <2>5. QED BY <2>3, <2>4
  <1>3. Elements(s) = {s[1]} \cup Behind(s)
    BY FrontAndRest
  <1>4. QED BY <1>1, <1>2, <1>3

\* The list nq leaves when the message is immediate, as send's always are.
Inserted(s, m) == IF s # << >> THEN << s[1], m >> \o Tail(s) ELSE Append(s, m)

\* What nq makes of the list: the front stays, the new message is next.
LEMMA InsertedBehind ==
  ASSUME NEW S, NEW s \in Seq(S), NEW m \in S, Len(s) # 0
  PROVE  /\ Inserted(s, m) \in Seq(S) /\ Len(Inserted(s, m)) = Len(s) + 1
         /\ Inserted(s, m)[1] = s[1] /\ Inserted(s, m)[2] = m
         /\ \A i \in 3..Len(s) + 1 : Inserted(s, m)[i] = s[i - 1]
  <1> DEFINE e == Inserted(s, m)
  <1>0. e = Inserted(s, m)
    OBVIOUS
  <1> HIDE DEF e
  <1>1. s # << >>
    OBVIOUS
  <1>12. e = << s[1], m >> \o Tail(s)
    BY <1>0, <1>1 DEF Inserted
  <1>2. /\ s[1] \in S /\ Tail(s) \in Seq(S) /\ Len(Tail(s)) = Len(s) - 1
        /\ Len(s) \in Nat \ {0}
        /\ \A i \in 1..Len(s) - 1 : Tail(s)[i] = s[i + 1]
    BY <1>1
  <1> DEFINE two == << s[1], m >>
  <1>3. two \in Seq(S) /\ Len(two) = 2 /\ two[1] = s[1] /\ two[2] = m
    BY <1>2
  <1> HIDE DEF two
  <1>4. /\ e \in Seq(S) /\ Len(e) = Len(two) + Len(Tail(s))
        /\ \A i \in 1..Len(two) + Len(Tail(s)) :
              e[i] = IF i <= Len(two) THEN two[i] ELSE Tail(s)[i - Len(two)]
    BY <1>12, <1>2, <1>3, ConcatProperties DEF two
  <1>5. /\ Len(e) = Len(s) + 1 /\ e[1] = s[1] /\ e[2] = m
        /\ \A i \in 3..Len(e) : e[i] = Tail(s)[i - 2]
    BY <1>2, <1>3, <1>4
  <1>6. \A i \in 3..Len(e) : e[i] = s[i - 1]
    BY <1>2, <1>5
  <1>7. QED BY <1>0, <1>2, <1>4, <1>5, <1>6

LEMMA InsertedElements ==
  ASSUME NEW S, NEW s \in Seq(S), NEW m \in S, Len(s) # 0
  PROVE  /\ Elements(Inserted(s, m)) = Elements(s) \cup {m}
         /\ Behind(Inserted(s, m)) = Behind(s) \cup {m}
  <1> DEFINE e == Inserted(s, m)
  <1>2. /\ Len(s) \in Nat \ {0} /\ e \in Seq(S) /\ Len(e) = Len(s) + 1
    BY InsertedBehind
  <1>5. e[1] = s[1] /\ e[2] = m
    BY InsertedBehind
  <1>6. \A i \in 3..Len(s) + 1 : e[i] = s[i - 1]
    BY InsertedBehind
  <1> HIDE DEF e
  <1>7. Behind(e) = Behind(s) \cup {m}
    <2>1. ASSUME NEW i \in 2..Len(e)
          PROVE  e[i] = m \/ \E j \in 2..Len(s) : e[i] = s[j]
      <3>1. CASE i = 2
        BY <3>1, <1>5
      <3>2. CASE i # 2
        <4>1. i \in 3..Len(e) /\ i - 1 \in 2..Len(s)
          BY <3>2, <1>2, <1>5
        <4>2. QED BY <4>1, <1>6
      <3>3. QED BY <3>1, <3>2
    <2>2. ASSUME NEW j \in 2..Len(s) PROVE j + 1 \in 2..Len(e) /\ e[j + 1] = s[j]
      <3>1. j + 1 \in 3..Len(e) /\ (j + 1) - 1 = j
        BY <1>2, <1>5
      <3>2. QED BY <3>1, <1>6
    <2>3. 2 \in 2..Len(e)
      BY <1>2, <1>5
    <2>4. ASSUME NEW x \in Behind(s) \cup {m}
          PROVE  x \in Behind(e)
      BY <1>5, <2>2, <2>3 DEF Behind
    <2>5. ASSUME NEW x \in Behind(e)
          PROVE  x \in Behind(s) \cup {m}
      BY <2>1 DEF Behind
    <2>6. QED BY <2>4, <2>5
  <1>8. Elements(e) = {e[1]} \cup Behind(e)
    BY FrontAndRest, <1>2
  <1>9. Elements(s) = {s[1]} \cup Behind(s)
    BY FrontAndRest, <1>2
  <1>10. Elements(e) = Elements(s) \cup {m}
    BY <1>5, <1>7, <1>8, <1>9
  <1>11. QED BY <1>7, <1>10 DEF e

LEMMA InitInv == Init => OutboxInv
  <1> SUFFICES ASSUME Init PROVE OutboxInv
    OBVIOUS
  <1>1. /\ posted = << >> /\ mlist = << >> /\ writing = << >> /\ wire = << >>
        /\ emitted = 0 /\ failed = FALSE
    BY Zenon DEF Init
  <1>2. TypeOK
    <2>1. << >> \in Seq(1..EmitBound) /\ 0 \in 0..EmitBound
      BY OutboxAssumption
    <2>2. QED BY <1>1, <2>1, Zenon DEF TypeOK
  <1>3. OneStableWrite /\ WritesUnlessFailed
    BY <1>1, Zenon DEF OneStableWrite, WritesUnlessFailed
  <1>4. EachOnce /\ OnlyEmitted /\ NewestFirst
    BY <1>1 DEF EachOnce, OnlyEmitted, NewestFirst
  <1>5. QED BY <1>2, <1>3, <1>4 DEF OutboxInv

-------------------------------------------------------------------------------
\* The steps, in terms of elements and positions.

LEMMA EmitFacts ==
  ASSUME TypeOK, Emit
  PROVE  /\ emitted < EmitBound /\ emitted' = emitted + 1
         /\ posted' \in Seq(1..EmitBound) /\ Len(posted') = Len(posted) + 1
         /\ \A i \in 1..Len(posted) : posted'[i] = posted[i]
         /\ posted'[Len(posted) + 1] = emitted + 1
         /\ Elements(posted') = Elements(posted) \cup {emitted + 1}
         /\ mlist' = mlist /\ writing' = writing /\ wire' = wire
         /\ failed' = failed
  <1>1. /\ emitted < EmitBound /\ emitted' = emitted + 1
        /\ posted' = Append(posted, emitted + 1)
        /\ mlist' = mlist /\ writing' = writing /\ wire' = wire
        /\ failed' = failed
    BY Zenon DEF Emit
  <1>2. emitted \in 0..EmitBound /\ posted \in Seq(1..EmitBound)
    BY DEF TypeOK
  <1>3. emitted + 1 \in 1..EmitBound
    BY <1>1, <1>2, OutboxAssumption
  <1>4. /\ posted' \in Seq(1..EmitBound) /\ Len(posted') = Len(posted) + 1
        /\ \A i \in 1..Len(posted) : posted'[i] = posted[i]
        /\ posted'[Len(posted) + 1] = emitted + 1
        /\ Elements(posted') = Elements(posted) \cup {emitted + 1}
    <2> DEFINE M == 1..EmitBound
    <2>1. posted \in Seq(M) /\ emitted + 1 \in M
      BY <1>2, <1>3
    <2> HIDE DEF M
    <2>2. /\ posted' \in Seq(M) /\ Len(posted') = Len(posted) + 1
          /\ \A i \in 1..Len(posted) : posted'[i] = posted[i]
          /\ posted'[Len(posted) + 1] = emitted + 1
          /\ Elements(posted') = Elements(posted) \cup {emitted + 1}
      BY <1>1, <2>1, AppendElements
    <2>3. QED BY <2>2 DEF M
  <1>5. QED BY <1>1, <1>4

LEMMA EnqueueFacts ==
  ASSUME TypeOK, WritesUnlessFailed, Enqueue
  PROVE  /\ posted # << >> /\ posted[1] \in 1..EmitBound
         /\ posted' \in Seq(1..EmitBound) /\ Len(posted') = Len(posted) - 1
         /\ \A i \in 1..Len(posted') : posted'[i] = posted[i + 1]
         /\ Elements(posted) = {posted[1]} \cup Elements(posted')
         /\ mlist' \in Seq(1..EmitBound) /\ Len(mlist') = Len(mlist) + 1
         /\ mlist = << >> => mlist' = << posted[1] >>
         /\ mlist # << >> => /\ mlist'[1] = mlist[1] /\ mlist'[2] = posted[1]
                             /\ \A i \in 3..Len(mlist') : mlist'[i] = mlist[i - 1]
         /\ Elements(mlist') = Elements(mlist) \cup {posted[1]}
         /\ mlist # << >> => Behind(mlist') = Behind(mlist) \cup {posted[1]}
         /\ mlist = << >> => writing' = << posted[1] >>
         /\ mlist # << >> => writing' = writing
         /\ emitted' = emitted /\ wire' = wire /\ failed' = failed
  <1>1. /\ posted # << >> /\ posted' = Tail(posted)
        /\ mlist' = Enlisted(mlist, posted[1], TRUE)
        /\ writing' = IF Starts(mlist') THEN Append(writing, mlist'[1]) ELSE writing
        /\ emitted' = emitted /\ wire' = wire /\ failed' = failed
    BY Zenon DEF Enqueue
  <1>2. /\ posted \in Seq(1..EmitBound) /\ mlist \in Seq(1..EmitBound)
        /\ writing \in Seq(1..EmitBound)
    BY DEF TypeOK
  <1>3. mlist' = Inserted(mlist, posted[1])
    BY <1>1, Zenon DEF Enlisted, Inserted
  <1>4. /\ posted[1] \in 1..EmitBound
        /\ posted' \in Seq(1..EmitBound) /\ Len(posted') = Len(posted) - 1
        /\ Len(posted) \in Nat
        /\ \A i \in 1..Len(posted) - 1 : posted'[i] = posted[i + 1]
        /\ Elements(posted) = {posted[1]} \cup Elements(posted')
    <2>1. posted # << >> /\ posted' = Tail(posted)
      BY <1>1
    <2>2. QED BY <1>2, <2>1, TailElements
  <1>5. /\ mlist' \in Seq(1..EmitBound) /\ Len(mlist') = Len(mlist) + 1
        /\ mlist = << >> => mlist' = << posted[1] >>
        /\ mlist # << >> => /\ mlist'[1] = mlist[1] /\ mlist'[2] = posted[1]
                            /\ \A i \in 3..Len(mlist') : mlist'[i] = mlist[i - 1]
        /\ Elements(mlist') = Elements(mlist) \cup {posted[1]}
        /\ mlist # << >> => Behind(mlist') = Behind(mlist) \cup {posted[1]}
    <2> DEFINE M == 1..EmitBound
               u == mlist
               p == posted[1]
    <2>0. mlist' = Inserted(u, p)
      BY <1>3
    <2>1. u \in Seq(M) /\ p \in M
      BY <1>2, <1>4
    <2> HIDE DEF M, u, p
    <2>2. CASE Len(u) = 0
      <3>1. u = << >>
        BY <2>1, <2>2
      <3>2. Inserted(u, p) = << p >>
        BY <3>1 DEF Inserted
      <3>3. << p >> \in Seq(M) /\ Len(<< p >>) = 1
        BY <2>1
      <3>4. Elements(<< p >>) = {p} /\ Elements(u) = {}
        BY <3>1 DEF Elements
      <3>5. Elements(Inserted(u, p)) = Elements(u) \cup {p}
        BY <3>2, <3>4
      <3>6. /\ mlist = << >> /\ mlist' = << posted[1] >>
            /\ mlist' \in Seq(1..EmitBound)
            /\ Len(mlist) = 0 /\ Len(mlist') = 1
            /\ Elements(mlist') = Elements(mlist) \cup {posted[1]}
        BY <2>0, <2>2, <3>1, <3>2, <3>3, <3>5 DEF M, u, p
      <3>7. QED BY <3>6
    <2>3. CASE Len(u) # 0
      <3>1. u # << >>
        BY <2>3
      <3>2. Inserted(u, p) \in Seq(M) /\ Len(Inserted(u, p)) = Len(u) + 1
        BY <2>1, <2>3, InsertedBehind
      <3>3. Inserted(u, p)[1] = u[1] /\ Inserted(u, p)[2] = p
        BY <2>1, <2>3, InsertedBehind
      <3>4. \A i \in 3..Len(u) + 1 : Inserted(u, p)[i] = u[i - 1]
        BY <2>1, <2>3, InsertedBehind
      <3>5. Elements(Inserted(u, p)) = Elements(u) \cup {p}
        BY <2>1, <2>3, InsertedElements
      <3>6. Behind(Inserted(u, p)) = Behind(u) \cup {p}
        BY <2>1, <2>3, InsertedElements
      <3>7. QED BY <2>0, <2>1, <2>3, <3>1, <3>2, <3>3, <3>4, <3>5, <3>6 DEF M, u, p
    <2>4. QED BY <2>2, <2>3
  <1>6. mlist = << >> => writing' = << posted[1] >>
    <2>1. SUFFICES ASSUME mlist = << >> PROVE writing' = << posted[1] >>
      OBVIOUS
    <2>2. writing = << >>
      BY <2>1, Zenon DEF WritesUnlessFailed
    <2>3. mlist' = << posted[1] >>
      BY <2>1, <1>5
    <2>4. writing' = IF Len(mlist') = 1 THEN Append(writing, mlist'[1]) ELSE writing
      BY <1>1, Zenon DEF Starts
    <2>5. QED BY <2>2, <2>3, <2>4
  <1>7. mlist # << >> => writing' = writing
    <2>1. writing' = IF Len(mlist') = 1 THEN Append(writing, mlist'[1]) ELSE writing
      BY <1>1, Zenon DEF Starts
    <2>2. mlist # << >> => Len(mlist') # 1
      BY <1>2, <1>5
    <2>3. QED BY <2>1, <2>2
  <1>8. \A i \in 1..Len(posted') : posted'[i] = posted[i + 1]
    BY <1>4
  <1>9. QED BY <1>1, <1>4, <1>5, <1>6, <1>7, <1>8

LEMMA WrittenFacts ==
  ASSUME TypeOK, OneStableWrite, Written
  PROVE  /\ mlist # << >> /\ writing = << mlist[1] >> /\ mlist[1] \in 1..EmitBound
         /\ wire' \in Seq(1..EmitBound) /\ Len(wire') = Len(wire) + 1
         /\ \A i \in 1..Len(wire) : wire'[i] = wire[i]
         /\ wire'[Len(wire) + 1] = mlist[1]
         /\ Elements(wire') = Elements(wire) \cup {mlist[1]}
         /\ mlist' \in Seq(1..EmitBound) /\ Len(mlist') = Len(mlist) - 1
         /\ \A i \in 1..Len(mlist') : mlist'[i] = mlist[i + 1]
         /\ Elements(mlist) = {mlist[1]} \cup Elements(mlist')
         /\ Elements(mlist') = Behind(mlist)
         /\ mlist' = << >> => writing' = << >>
         /\ mlist' # << >> => writing' = << mlist'[1] >>
         /\ emitted' = emitted /\ posted' = posted /\ failed' = failed
  <1>1. /\ writing # << >> /\ wire' = Append(wire, writing[1])
        /\ mlist' = Tail(mlist)
        /\ writing' = IF mlist' = << >> THEN Tail(writing)
                                        ELSE Append(Tail(writing), mlist'[1])
        /\ emitted' = emitted /\ posted' = posted /\ failed' = failed
    BY Zenon DEF Written
  <1>2. mlist # << >> /\ writing = << mlist[1] >>
    BY <1>1, Zenon DEF OneStableWrite
  <1>3. mlist \in Seq(1..EmitBound) /\ wire \in Seq(1..EmitBound)
    BY DEF TypeOK
  <1>4. /\ mlist[1] \in 1..EmitBound
        /\ mlist' \in Seq(1..EmitBound) /\ Len(mlist') = Len(mlist) - 1
        /\ Len(mlist) \in Nat
        /\ \A i \in 1..Len(mlist) - 1 : mlist'[i] = mlist[i + 1]
        /\ Elements(mlist) = {mlist[1]} \cup Elements(mlist')
        /\ Elements(mlist') = Behind(mlist)
    <2> DEFINE M == 1..EmitBound
    <2>1. mlist # << >> /\ mlist' = Tail(mlist) /\ mlist \in Seq(M)
      BY <1>1, <1>2, <1>3
    <2> HIDE DEF M
    <2>2. /\ mlist[1] \in M /\ Len(mlist) \in Nat \ {0}
          /\ mlist' \in Seq(M) /\ Len(mlist') = Len(mlist) - 1
          /\ \A i \in 1..Len(mlist) - 1 : mlist'[i] = mlist[i + 1]
          /\ Elements(mlist) = {mlist[1]} \cup Elements(mlist')
          /\ Elements(mlist') = Behind(mlist)
      BY <2>1, TailElements
    <2>3. QED BY <2>2 DEF M
  <1>5. writing[1] = mlist[1] /\ Tail(writing) = << >>
    BY <1>2
  <1>6. /\ wire' \in Seq(1..EmitBound) /\ Len(wire') = Len(wire) + 1
        /\ \A i \in 1..Len(wire) : wire'[i] = wire[i]
        /\ wire'[Len(wire) + 1] = mlist[1]
        /\ Elements(wire') = Elements(wire) \cup {mlist[1]}
    <2>1. wire' = Append(wire, mlist[1])
      BY <1>1, <1>5
    <2>2. QED BY <1>3, <1>4, <2>1, AppendElements
  <1>7. /\ mlist' = << >> => writing' = << >>
        /\ mlist' # << >> => writing' = << mlist'[1] >>
    <2>1. writing' = IF mlist' = << >> THEN << >> ELSE Append(<< >>, mlist'[1])
      BY <1>1, <1>5
    <2>2. Append(<< >>, mlist'[1]) = << mlist'[1] >>
      OBVIOUS
    <2>3. QED BY <2>1, <2>2
  <1>8. \A i \in 1..Len(mlist') : mlist'[i] = mlist[i + 1]
    BY <1>4
  <1>9. QED BY <1>1, <1>2, <1>4, <1>6, <1>7, <1>8

LEMMA WriteFailedFacts ==
  ASSUME OneStableWrite, WriteFailed
  PROVE  /\ mlist # << >> /\ writing = << mlist[1] >> /\ writing' = << >>
         /\ failed' = TRUE /\ emitted' = emitted /\ posted' = posted
         /\ mlist' = mlist /\ wire' = wire
  <1>1. /\ writing # << >> /\ writing' = Tail(writing)
        /\ failed' = TRUE /\ emitted' = emitted /\ posted' = posted
        /\ mlist' = mlist /\ wire' = wire
    BY Zenon DEF WriteFailed
  <1>2. mlist # << >> /\ writing = << mlist[1] >>
    BY <1>1, Zenon DEF OneStableWrite
  <1>3. Tail(writing) = << >>
    BY <1>2
  <1>4. QED BY <1>1, <1>2, <1>3

-------------------------------------------------------------------------------
LEMMA TypeNext == ASSUME OutboxInv, Next PROVE TypeOK'
  <1>1. /\ emitted \in 0..EmitBound /\ emitted \in Nat
        /\ posted \in Seq(1..EmitBound) /\ mlist \in Seq(1..EmitBound)
        /\ writing \in Seq(1..EmitBound) /\ wire \in Seq(1..EmitBound)
    BY DEF OutboxInv, TypeOK
  <1>2. failed \in BOOLEAN /\ TypeOK /\ OneStableWrite /\ WritesUnlessFailed
    BY Zenon DEF OutboxInv, TypeOK
  <1>3. failed' \in BOOLEAN
    BY <1>2, Zenon DEF Next, Emit, Enqueue, Written, WriteFailed
  <1>4. \A m \in 1..EmitBound : << m >> \in Seq(1..EmitBound)
    OBVIOUS
  <1>5. CASE Emit
    <2>1. /\ emitted < EmitBound /\ emitted' = emitted + 1
          /\ posted' \in Seq(1..EmitBound)
          /\ mlist' = mlist /\ writing' = writing /\ wire' = wire
      BY <1>2, <1>5, EmitFacts
    <2>2. emitted' \in 0..EmitBound
      BY <1>1, <2>1, OutboxAssumption
    <2>3. QED BY <1>1, <1>3, <2>1, <2>2, Zenon DEF TypeOK
  <1>6. CASE Enqueue
    <2>1. /\ posted[1] \in 1..EmitBound /\ posted' \in Seq(1..EmitBound)
          /\ mlist' \in Seq(1..EmitBound)
          /\ mlist = << >> => writing' = << posted[1] >>
          /\ mlist # << >> => writing' = writing
          /\ emitted' = emitted /\ wire' = wire
      BY <1>2, <1>6, EnqueueFacts, Zenon
    <2>2. writing' \in Seq(1..EmitBound)
      BY <1>1, <1>4, <2>1
    <2>3. QED BY <1>1, <1>3, <2>1, <2>2, Zenon DEF TypeOK
  <1>7. CASE Written
    <2>1. /\ wire' \in Seq(1..EmitBound) /\ mlist' \in Seq(1..EmitBound)
          /\ mlist' = << >> => writing' = << >>
          /\ mlist' # << >> => writing' = << mlist'[1] >>
          /\ emitted' = emitted /\ posted' = posted
      BY <1>2, <1>7, WrittenFacts, Zenon
    <2>2. writing' \in Seq(1..EmitBound)
      <3>1. CASE mlist' = << >>
        BY <2>1, <3>1
      <3>2. CASE mlist' # << >>
        <4> DEFINE q == mlist'
                   M == 1..EmitBound
        <4> HIDE DEF q, M
        <4>1. q \in Seq(M) /\ q # << >>
          BY <2>1, <3>2 DEF q, M
        <4>2. q[1] \in M
          BY <4>1
        <4>3. QED BY <1>4, <2>1, <3>2, <4>2 DEF q, M
      <3>3. QED BY <3>1, <3>2
    <2>3. QED BY <1>1, <1>3, <2>1, <2>2, Zenon DEF TypeOK
  <1>8. CASE WriteFailed
    <2>1. /\ writing' = << >> /\ emitted' = emitted /\ posted' = posted
          /\ mlist' = mlist /\ wire' = wire
      BY <1>2, <1>8, WriteFailedFacts, Zenon
    <2>2. << >> \in Seq(1..EmitBound)
      OBVIOUS
    <2>3. QED BY <1>1, <1>3, <2>1, <2>2, Zenon DEF TypeOK
  <1>9. QED BY <1>5, <1>6, <1>7, <1>8, Zenon DEF Next

\* Only the list and the write under way decide these two.
LEMMA StableNext ==
  ASSUME OutboxInv, Next PROVE OneStableWrite' /\ WritesUnlessFailed'
  <1>1. TypeOK /\ OneStableWrite /\ WritesUnlessFailed
    BY Zenon DEF OutboxInv
  <1>2. CASE Emit
    <2>1. mlist' = mlist /\ writing' = writing /\ failed' = failed
      BY <1>2, Zenon DEF Emit
    <2>2. QED BY <1>1, <2>1, Zenon DEF OneStableWrite, WritesUnlessFailed
  <1>3. CASE Enqueue
    <2>1. /\ mlist = << >> => mlist' = << posted[1] >> /\ writing' = << posted[1] >>
          /\ mlist # << >> => /\ writing' = writing /\ mlist'[1] = mlist[1]
                              /\ Len(mlist') = Len(mlist) + 1
          /\ failed' = failed
      BY <1>1, <1>3, EnqueueFacts, Zenon
    <2>2. << posted[1] >> # << >> /\ << posted[1] >>[1] = posted[1]
      OBVIOUS
    <2>3. mlist # << >> => mlist' # << >>
      <3>1. mlist \in Seq(1..EmitBound)
        BY <1>1 DEF TypeOK
      <3>2. QED BY <2>1, <3>1
    <2>4. CASE mlist = << >>
      <3>1. writing = << >> /\ ~failed
        BY <1>1, <2>4, Zenon DEF WritesUnlessFailed
      <3>2. mlist' # << >> /\ writing' # << >> /\ writing' = << mlist'[1] >>
        BY <2>1, <2>2, <2>4
      <3>3. QED BY <2>1, <3>1, <3>2, Zenon DEF OneStableWrite, WritesUnlessFailed
    <2>5. CASE mlist # << >>
      <3>1. mlist' # << >> /\ mlist'[1] = mlist[1] /\ writing' = writing
        BY <2>1, <2>3, <2>5
      <3>2. OneStableWrite'
        BY <1>1, <3>1 DEF OneStableWrite
      <3>3. writing = << >> <=> failed
        BY <1>1, <2>5, Zenon DEF WritesUnlessFailed
      <3>4. WritesUnlessFailed'
        BY <2>1, <3>1, <3>3, Zenon DEF WritesUnlessFailed
      <3>5. QED BY <3>2, <3>4
    <2>6. QED BY <2>4, <2>5
  <1>4. CASE Written
    <2>1. /\ writing = << mlist[1] >>
          /\ mlist' = << >> => writing' = << >>
          /\ mlist' # << >> => writing' = << mlist'[1] >>
          /\ failed' = failed
      BY <1>1, <1>4, WrittenFacts, Zenon
    <2>2. << mlist[1] >> # << >> /\ << mlist'[1] >> # << >>
      OBVIOUS
    <2>3. ~failed
      BY <1>1, <2>1, <2>2, Zenon DEF WritesUnlessFailed
    <2>4. QED BY <2>1, <2>2, <2>3, Zenon DEF OneStableWrite, WritesUnlessFailed
  <1>5. CASE WriteFailed
    <2>1. mlist # << >> /\ writing' = << >> /\ failed' = TRUE /\ mlist' = mlist
      BY <1>1, <1>5, WriteFailedFacts, Zenon
    <2>2. QED BY <2>1, Zenon DEF OneStableWrite, WritesUnlessFailed
  <1>6. QED BY <1>2, <1>3, <1>4, <1>5, Zenon DEF Next

LEMMA Lengths == ASSUME TypeOK PROVE /\ emitted \in Nat
                                     /\ Len(posted) \in Nat /\ Len(mlist) \in Nat
                                     /\ Len(wire) \in Nat
  <1>1. /\ emitted \in 0..EmitBound
        /\ posted \in Seq(1..EmitBound) /\ mlist \in Seq(1..EmitBound)
        /\ wire \in Seq(1..EmitBound)
    BY DEF TypeOK
  <1>2. QED BY <1>1

\* A message moves from posted to the list and from there to the wire, and the
\* lengths say that it does so once.
LEMMA EachOnceNext == ASSUME OutboxInv, Next PROVE EachOnce'
  <1>1. /\ TypeOK /\ OneStableWrite /\ WritesUnlessFailed
        /\ \A m \in 1..emitted :
             m \in Elements(posted) \cup Elements(mlist) \cup Elements(wire)
        /\ Len(posted) + Len(mlist) + Len(wire) = emitted
    BY Zenon DEF OutboxInv, EachOnce
  <1>2. /\ emitted \in Nat /\ Len(posted) \in Nat /\ Len(mlist) \in Nat
        /\ Len(wire) \in Nat
    BY <1>1, Lengths
  <1>3. CASE Emit
    <2>1. /\ emitted' = emitted + 1 /\ Len(posted') = Len(posted) + 1
          /\ Elements(posted') = Elements(posted) \cup {emitted + 1}
          /\ mlist' = mlist /\ wire' = wire
      BY <1>1, <1>3, EmitFacts, Zenon
    <2>2. QED BY <1>1, <1>2, <2>1 DEF EachOnce
  <1>4. CASE Enqueue
    <2>1. /\ Len(posted') = Len(posted) - 1 /\ Len(mlist') = Len(mlist) + 1
          /\ Elements(posted) = {posted[1]} \cup Elements(posted')
          /\ Elements(mlist') = Elements(mlist) \cup {posted[1]}
          /\ emitted' = emitted /\ wire' = wire
      BY <1>1, <1>4, EnqueueFacts, Zenon
    <2>2. QED BY <1>1, <1>2, <2>1 DEF EachOnce
  <1>5. CASE Written
    <2>1. /\ Len(wire') = Len(wire) + 1 /\ Len(mlist') = Len(mlist) - 1
          /\ Elements(wire') = Elements(wire) \cup {mlist[1]}
          /\ Elements(mlist) = {mlist[1]} \cup Elements(mlist')
          /\ emitted' = emitted /\ posted' = posted
      BY <1>1, <1>5, WrittenFacts, Zenon
    <2>2. QED BY <1>1, <1>2, <2>1 DEF EachOnce
  <1>6. CASE WriteFailed
    <2>1. /\ emitted' = emitted /\ posted' = posted
          /\ mlist' = mlist /\ wire' = wire
      BY <1>6, Zenon DEF WriteFailed
    <2>2. QED BY <1>1, <2>1 DEF EachOnce
  <1>7. QED BY <1>3, <1>4, <1>5, <1>6, Zenon DEF Next

\* Where the elements of the three sequences come from in one step.
LEMMA Values ==
  ASSUME TypeOK
  PROVE  /\ \A i \in 1..Len(posted) : posted[i] \in Nat
         /\ \A i \in 1..Len(mlist) : mlist[i] \in Nat
         /\ \A i \in 1..Len(wire) : wire[i] \in Nat
  <1>1. /\ posted \in Seq(1..EmitBound) /\ mlist \in Seq(1..EmitBound)
        /\ wire \in Seq(1..EmitBound)
    BY DEF TypeOK
  <1>2. QED BY <1>1, OutboxAssumption

LEMMA OrderNext == ASSUME OutboxInv, Next PROVE OnlyEmitted' /\ NewestFirst'
  <1>1. TypeOK /\ OneStableWrite /\ WritesUnlessFailed
    BY Zenon DEF OutboxInv
  <1>2. /\ emitted \in Nat /\ Len(posted) \in Nat /\ Len(mlist) \in Nat
        /\ Len(wire) \in Nat
        /\ \A i \in 1..Len(posted) : posted[i] \in Nat
        /\ \A i \in 1..Len(mlist) : mlist[i] \in Nat
        /\ \A i \in 1..Len(wire) : wire[i] \in Nat
    BY <1>1, Lengths, Values
  <1>3. /\ \A i \in 1..Len(posted) : posted[i] <= emitted
        /\ \A i \in 1..Len(mlist) : mlist[i] <= emitted
        /\ \A i \in 1..Len(wire) : wire[i] <= emitted
    BY DEF OutboxInv, OnlyEmitted
  <1>4. /\ \A i, j \in 2..Len(mlist) : i < j => mlist[i] > mlist[j]
        /\ \A i \in 2..Len(mlist) : mlist[1] # mlist[i]
        /\ \A i, j \in 1..Len(posted) : i < j => posted[i] < posted[j]
        /\ \A i \in 1..Len(posted), j \in 1..Len(mlist) : mlist[j] < posted[i]
        /\ \A i \in 1..Len(posted), j \in 1..Len(wire) : wire[j] < posted[i]
        /\ \A i \in 1..Len(mlist), j \in 1..Len(wire) : mlist[i] # wire[j]
    BY DEF OutboxInv, NewestFirst
  <1>5. CASE Emit
    <2>1. /\ emitted' = emitted + 1 /\ Len(posted') = Len(posted) + 1
          /\ \A i \in 1..Len(posted) : posted'[i] = posted[i]
          /\ posted'[Len(posted) + 1] = emitted + 1
          /\ mlist' = mlist /\ wire' = wire
      BY <1>1, <1>5, EmitFacts, Zenon
    <2>2. \A i \in 1..Len(posted') :
            \/ i \in 1..Len(posted) /\ posted'[i] = posted[i]
            \/ i = Len(posted) + 1 /\ posted'[i] = emitted + 1
      BY <1>2, <2>1
    <2>3. OnlyEmitted'
      BY <1>2, <1>3, <2>1, <2>2 DEF OnlyEmitted
    <2>4. \A i, j \in 1..Len(posted') : i < j => posted'[i] < posted'[j]
      <3>1. SUFFICES ASSUME NEW i \in 1..Len(posted'), NEW j \in 1..Len(posted'),
                            i < j
                     PROVE  posted'[i] < posted'[j]
        OBVIOUS
      <3>2. i \in 1..Len(posted) /\ posted'[i] = posted[i]
        BY <1>2, <2>1, <2>2, <3>1
      <3>3. CASE j \in 1..Len(posted) /\ posted'[j] = posted[j]
        BY <1>4, <3>1, <3>2, <3>3
      <3>4. CASE posted'[j] = emitted + 1
        <4>1. posted[i] <= emitted /\ posted[i] \in Nat
          BY <1>2, <1>3, <3>2
        <4>2. QED BY <1>2, <3>2, <3>4, <4>1
      <3>5. QED BY <2>2, <3>3, <3>4
    <2>5. /\ \A i \in 1..Len(posted'), j \in 1..Len(mlist) : mlist[j] < posted'[i]
          /\ \A i \in 1..Len(posted'), j \in 1..Len(wire) : wire[j] < posted'[i]
      <3>1. /\ \A j \in 1..Len(mlist) : mlist[j] < emitted + 1
            /\ \A j \in 1..Len(wire) : wire[j] < emitted + 1
        BY <1>2, <1>3
      <3>2. QED BY <1>4, <2>2, <3>1
    <2>6. NewestFirst'
      BY <1>4, <2>1, <2>4, <2>5 DEF NewestFirst
    <2>7. QED BY <2>3, <2>6
  <1>6. CASE Enqueue
    <2>1. /\ posted # << >> /\ Len(posted') = Len(posted) - 1
          /\ \A i \in 1..Len(posted') : posted'[i] = posted[i + 1]
          /\ Len(mlist') = Len(mlist) + 1
          /\ mlist = << >> => mlist' = << posted[1] >>
          /\ mlist # << >> => /\ mlist'[1] = mlist[1] /\ mlist'[2] = posted[1]
                              /\ \A i \in 3..Len(mlist') : mlist'[i] = mlist[i - 1]
          /\ emitted' = emitted /\ wire' = wire
      BY <1>1, <1>6, EnqueueFacts, Zenon
    <2>2. 1 \in 1..Len(posted)
      <3>1. posted \in Seq(1..EmitBound) /\ posted # << >>
        BY <1>1, <2>1 DEF TypeOK
      <3>2. QED BY <3>1
    <2>3. \A i \in 1..Len(posted') :
            i + 1 \in 1..Len(posted) /\ posted'[i] = posted[i + 1]
      BY <1>2, <2>1
    <2>4. mlist = << >> => Len(mlist) = 0 /\ mlist'[1] = posted[1]
      BY <2>1
    <2>5. \A i \in 1..Len(mlist') :
            \/ /\ i = 1 /\ Len(mlist) = 0 /\ mlist'[i] = posted[1]
            \/ /\ i = 1 /\ 1 \in 1..Len(mlist) /\ mlist'[i] = mlist[1]
            \/ /\ i = 2 /\ 1 \in 1..Len(mlist) /\ mlist'[i] = posted[1]
            \/ /\ i \in 3..Len(mlist') /\ i - 1 \in 2..Len(mlist)
               /\ mlist'[i] = mlist[i - 1]
      <3>1. CASE mlist = << >>
        BY <1>2, <2>1, <2>4, <3>1
      <3>2. CASE mlist # << >>
        <4>1. 1 \in 1..Len(mlist)
          <5>1. mlist \in Seq(1..EmitBound)
            BY <1>1 DEF TypeOK
          <5>2. QED BY <3>2, <5>1
        <4>2. QED BY <1>2, <2>1, <3>2, <4>1
      <3>3. QED BY <3>1, <3>2
    <2>6. OnlyEmitted'
      <3>1. \A i \in 1..Len(posted') : posted'[i] <= emitted
        BY <1>3, <2>3
      <3>2. \A i \in 1..Len(mlist') :
              mlist'[i] = posted[1] \/ \E k \in 1..Len(mlist) : mlist'[i] = mlist[k]
        BY <1>2, <2>5
      <3>3. \A i \in 1..Len(mlist') : mlist'[i] <= emitted
        BY <1>3, <2>2, <3>2
      <3>4. QED BY <1>3, <2>1, <3>1, <3>3 DEF OnlyEmitted
    <2>7. \A i, j \in 2..Len(mlist') : i < j => mlist'[i] > mlist'[j]
      <3>1. SUFFICES ASSUME NEW i \in 2..Len(mlist'), NEW j \in 2..Len(mlist'),
                            i < j
                     PROVE  mlist'[i] > mlist'[j]
        OBVIOUS
      <3>2. i \in 1..Len(mlist') /\ j \in 3..Len(mlist')
        BY <1>2, <2>1, <3>1
      <3>3. j - 1 \in 2..Len(mlist) /\ j - 1 \in 1..Len(mlist)
            /\ mlist'[j] = mlist[j - 1]
        BY <1>2, <2>1, <2>5, <3>2
      <3>4. CASE i = 2
        <4>1. mlist'[i] = posted[1]
          BY <2>5, <3>2, <3>4
        <4>2. mlist[j - 1] < posted[1] /\ mlist[j - 1] \in Nat /\ posted[1] \in Nat
          BY <1>2, <1>4, <2>2, <3>3
        <4>3. QED BY <3>3, <4>1, <4>2
      <3>5. CASE i # 2
        <4>1. /\ i - 1 \in 2..Len(mlist) /\ mlist'[i] = mlist[i - 1]
              /\ i - 1 < j - 1
          BY <1>2, <2>5, <3>1, <3>2, <3>5
        <4>2. QED BY <1>4, <3>3, <4>1
      <3>6. QED BY <3>4, <3>5
    <2>8. \A i \in 2..Len(mlist') : mlist'[1] # mlist'[i]
      BY <1>2, <1>4, <2>1, <2>2, <2>5
    <2>9. /\ \A i, j \in 1..Len(posted') : i < j => posted'[i] < posted'[j]
          /\ \A i \in 1..Len(posted'), j \in 1..Len(wire) : wire[j] < posted'[i]
      BY <1>2, <1>4, <2>3
    <2>10. \A i \in 1..Len(posted'), j \in 1..Len(mlist') : mlist'[j] < posted'[i]
      <3>1. SUFFICES ASSUME NEW i \in 1..Len(posted'), NEW j \in 1..Len(mlist')
                     PROVE  mlist'[j] < posted'[i]
        OBVIOUS
      <3>2. posted[1] < posted[i + 1] /\ posted'[i] = posted[i + 1]
        BY <1>2, <1>4, <2>2, <2>3
      <3>3. mlist'[j] = posted[1] \/ \E k \in 1..Len(mlist) : mlist'[j] = mlist[k]
        BY <1>2, <2>5
      <3>4. \A k \in 1..Len(mlist) : mlist[k] < posted[i + 1]
        BY <1>4, <2>3
      <3>5. QED BY <3>2, <3>3, <3>4
    <2>11. \A i \in 1..Len(mlist'), j \in 1..Len(wire) : mlist'[i] # wire[j]
      <3>1. \A i \in 1..Len(mlist') :
              mlist'[i] = posted[1] \/ \E k \in 1..Len(mlist) : mlist'[i] = mlist[k]
        BY <1>2, <2>5
      <3>2. \A j \in 1..Len(wire) : wire[j] < posted[1] /\ wire[j] # posted[1]
        BY <1>2, <1>4, <2>2
      <3>3. QED BY <1>4, <3>1, <3>2
    <2>12. NewestFirst'
      BY <2>1, <2>7, <2>8, <2>9, <2>10, <2>11 DEF NewestFirst
    <2>13. QED BY <2>6, <2>12
  <1>7. CASE Written
    <2>1. /\ mlist # << >> /\ Len(wire') = Len(wire) + 1
          /\ \A i \in 1..Len(wire) : wire'[i] = wire[i]
          /\ wire'[Len(wire) + 1] = mlist[1]
          /\ Len(mlist') = Len(mlist) - 1
          /\ \A i \in 1..Len(mlist') : mlist'[i] = mlist[i + 1]
          /\ emitted' = emitted /\ posted' = posted
      BY <1>1, <1>7, WrittenFacts, Zenon
    <2>2. 1 \in 1..Len(mlist)
      <3>1. mlist \in Seq(1..EmitBound)
        BY <1>1 DEF TypeOK
      <3>2. QED BY <2>1, <3>1
    <2>3. \A i \in 1..Len(mlist') :
            /\ i + 1 \in 1..Len(mlist) /\ i + 1 \in 2..Len(mlist)
            /\ mlist'[i] = mlist[i + 1]
      BY <1>2, <2>1
    <2>4. \A i \in 1..Len(wire') :
            \/ i \in 1..Len(wire) /\ wire'[i] = wire[i]
            \/ wire'[i] = mlist[1]
      BY <1>2, <2>1
    <2>5. OnlyEmitted'
      BY <1>2, <1>3, <2>1, <2>2, <2>3, <2>4 DEF OnlyEmitted
    <2>6. \A i, j \in 2..Len(mlist') : i < j => mlist'[i] > mlist'[j]
      <3>1. SUFFICES ASSUME NEW i \in 2..Len(mlist'), NEW j \in 2..Len(mlist'),
                            i < j
                     PROVE  mlist'[i] > mlist'[j]
        OBVIOUS
      <3>2. /\ i + 1 \in 2..Len(mlist) /\ mlist'[i] = mlist[i + 1]
            /\ j + 1 \in 2..Len(mlist) /\ mlist'[j] = mlist[j + 1]
            /\ i + 1 < j + 1
        BY <1>2, <2>1, <3>1
      <3>3. QED BY <1>4, <3>2
    <2>7. \A i \in 2..Len(mlist') : mlist'[1] # mlist'[i]
      <3>1. SUFFICES ASSUME NEW i \in 2..Len(mlist') PROVE mlist'[1] # mlist'[i]
        OBVIOUS
      <3>2. /\ i + 1 \in 2..Len(mlist) /\ mlist'[i] = mlist[i + 1]
            /\ 2 \in 2..Len(mlist) /\ mlist'[1] = mlist[2] /\ 2 < i + 1
        BY <1>2, <2>1
      <3>3. mlist[2] > mlist[i + 1] /\ mlist[2] \in Nat /\ mlist[i + 1] \in Nat
        BY <1>2, <1>4, <3>2
      <3>4. QED BY <3>2, <3>3
    <2>8. /\ \A i, j \in 1..Len(posted) : i < j => posted[i] < posted[j]
          /\ \A i \in 1..Len(posted), j \in 1..Len(mlist') : mlist'[j] < posted[i]
          /\ \A i \in 1..Len(posted), j \in 1..Len(wire') : wire'[j] < posted[i]
      BY <1>4, <2>2, <2>3, <2>4
    <2>9. \A i \in 1..Len(mlist'), j \in 1..Len(wire') : mlist'[i] # wire'[j]
      BY <1>4, <2>2, <2>3, <2>4
    <2>10. NewestFirst'
      BY <2>1, <2>6, <2>7, <2>8, <2>9 DEF NewestFirst
    <2>11. QED BY <2>5, <2>10
  <1>8. CASE WriteFailed
    <2>1. /\ emitted' = emitted /\ posted' = posted
          /\ mlist' = mlist /\ wire' = wire
      BY <1>8, Zenon DEF WriteFailed
    <2>2. QED BY <1>3, <1>4, <2>1 DEF OnlyEmitted, NewestFirst
  <1>9. QED BY <1>5, <1>6, <1>7, <1>8, Zenon DEF Next

-------------------------------------------------------------------------------
LEMMA NextInv == OutboxInv /\ [Next]_vars => OutboxInv'
  <1>1. ASSUME OutboxInv, Next PROVE OutboxInv'
    BY <1>1, TypeNext, StableNext, EachOnceNext, OrderNext, Zenon DEF OutboxInv
  <1>2. ASSUME OutboxInv, UNCHANGED vars PROVE OutboxInv'
    <2>1. /\ emitted' = emitted /\ posted' = posted /\ mlist' = mlist
          /\ writing' = writing /\ wire' = wire /\ failed' = failed
      BY <1>2, Zenon DEF vars
    <2>2. TypeOK'
      BY <1>2, <2>1, Zenon DEF OutboxInv, TypeOK
    <2>3. OneStableWrite' /\ WritesUnlessFailed'
      BY <1>2, <2>1, Zenon DEF OutboxInv, OneStableWrite, WritesUnlessFailed
    <2>4. EachOnce' /\ OnlyEmitted' /\ NewestFirst'
      BY <1>2, <2>1 DEF OutboxInv, EachOnce, Elements, OnlyEmitted, NewestFirst
    <2>5. QED BY <2>2, <2>3, <2>4, Zenon DEF OutboxInv
  <1>3. QED BY <1>1, <1>2, Zenon

\* The lists, the posted functions and the handlers stay in the order that nq,
\* dq and _write keep: what is written is the front of _mlist, what waits behind
\* it stands newest first, and nothing is in two places.
THEOREM Invariant == Spec => []OutboxInv
  <1>1. QED BY InitInv, NextInv, PTL DEF Spec

\* At most one async_write of a session is under way, and the buffer it was
\* given is the front of _mlist until its handler runs.
THEOREM StableWrite == Spec => []OneStableWrite
  <1>1. OutboxInv => OneStableWrite
    BY Zenon DEF OutboxInv
  <1>2. QED BY Invariant, <1>1, PTL

\* No message is lost between _emit_event and the client or sent twice.
THEOREM OnceEach == Spec => []EachOnce
  <1>1. OutboxInv => EachOnce
    BY Zenon DEF OutboxInv
  <1>2. QED BY Invariant, <1>1, PTL

-------------------------------------------------------------------------------
\* The refinement: every step is a step of Mailbox or changes none of it.

LEMMA InitClient == Init => Client!Init
  <1> SUFFICES ASSUME Init PROVE Client!Init
    OBVIOUS
  <1>1. /\ mlist = << >> /\ writing = << >> /\ wire = << >> /\ failed = FALSE
    BY Zenon DEF Init
  <1>2. Elements(wire) = {} /\ Behind(mlist) = {}
    BY <1>1 DEF Elements, Behind
  <1>3. QED BY <1>1, <1>2, Zenon DEF Client!Init, Travelling, Waiting

\* What the mapping makes of a state: while a write is under way, its message
\* travels and the rest of the list waits; otherwise all of the list waits.
MappedTo ==
    /\ writing # << >> => /\ mlist # << >> /\ ~failed
                          /\ Travelling = mlist[1] /\ Waiting = Behind(mlist)
                          /\ mlist[1] # 0
    /\ writing = << >> => Travelling = 0 /\ Waiting = Elements(mlist)

LEMMA Mapped == OutboxInv => MappedTo
  <1> SUFFICES ASSUME OutboxInv PROVE MappedTo
    OBVIOUS
  <1>1. TypeOK /\ OneStableWrite /\ WritesUnlessFailed
    BY Zenon DEF OutboxInv
  <1>2. CASE writing # << >>
    <2>1. mlist # << >> /\ writing = << mlist[1] >> /\ ~failed
      BY <1>1, <1>2, Zenon DEF OneStableWrite, WritesUnlessFailed
    <2>2. writing[1] = mlist[1]
      BY <2>1
    <2>3. Travelling = mlist[1] /\ Waiting = Behind(mlist)
      BY <1>2, <2>1, <2>2, Zenon DEF Travelling, Waiting
    <2>4. mlist[1] # 0
      <3>1. mlist \in Seq(1..EmitBound)
        BY <1>1 DEF TypeOK
      <3>2. mlist[1] \in 1..EmitBound
        BY <2>1, <3>1, TailElements
      <3>3. QED BY <3>2
    <2>5. QED BY <1>2, <2>1, <2>3, <2>4, Zenon DEF MappedTo
  <1>3. CASE writing = << >>
    <2>1. Travelling = 0
      BY <1>3, Zenon DEF Travelling
    <2>2. CASE failed
      BY <1>3, <2>1, <2>2, Zenon DEF Waiting, MappedTo
    <2>3. CASE ~failed
      <3>1. mlist = << >>
        BY <1>1, <1>3, <2>3, Zenon DEF WritesUnlessFailed
      <3>2. Elements(mlist) = {} /\ Behind(mlist) = {}
        BY <3>1 DEF Elements, Behind
      <3>3. QED BY <1>3, <2>1, <2>3, <3>2, Zenon DEF Waiting, MappedTo
    <2>4. QED BY <2>2, <2>3
  <1>4. QED BY <1>2, <1>3 DEF MappedTo

LEMMA EnqueueSubmits ==
  ASSUME OutboxInv, Enqueue, MappedTo, MappedTo' PROVE Client!Submit
  <1>1. TypeOK /\ OneStableWrite /\ WritesUnlessFailed
    BY Zenon DEF OutboxInv
  <1>2. /\ posted # << >> /\ posted[1] \in 1..EmitBound
        /\ mlist = << >> => mlist' = << posted[1] >> /\ writing' = << posted[1] >>
        /\ mlist # << >> => /\ writing' = writing /\ mlist'[1] = mlist[1]
                            /\ Behind(mlist') = Behind(mlist) \cup {posted[1]}
        /\ Elements(mlist') = Elements(mlist) \cup {posted[1]}
        /\ wire' = wire /\ failed' = failed
    BY <1>1, EnqueueFacts, Zenon
  <1>3. /\ posted[1] # Travelling
        /\ posted[1] \notin Elements(mlist) /\ posted[1] \notin Elements(wire)
        /\ posted[1] \notin Behind(mlist)
    <2>1. posted \in Seq(1..EmitBound) /\ mlist \in Seq(1..EmitBound)
      BY <1>1 DEF TypeOK
    <2>2. 1 \in 1..Len(posted) /\ posted[1] \in Nat /\ posted[1] # 0
      BY <1>2, <2>1
    <2>3. /\ \A j \in 1..Len(mlist) : mlist[j] < posted[1]
          /\ \A j \in 1..Len(wire) : wire[j] < posted[1]
      BY <2>2 DEF OutboxInv, NewestFirst
    <2>4. posted[1] \notin Elements(mlist) /\ posted[1] \notin Elements(wire)
      BY <2>2, <2>3 DEF Elements
    <2>5. posted[1] \notin Behind(mlist)
      BY <2>2, <2>3 DEF Behind
    <2>6. posted[1] # Travelling
      <3>1. CASE writing = << >>
        BY <2>2, <3>1, Zenon DEF MappedTo
      <3>2. CASE writing # << >>
        <4>1. mlist # << >> /\ Travelling = mlist[1]
          BY <3>2, Zenon DEF MappedTo
        <4>2. 1 \in 1..Len(mlist)
          BY <2>1, <4>1
        <4>3. QED BY <2>2, <2>3, <4>1, <4>2
      <3>3. QED BY <3>1, <3>2
    <2>7. QED BY <2>4, <2>5, <2>6
  <1>4. posted[1] \notin Waiting
    BY <1>3, Zenon DEF MappedTo
  <1>5. << posted[1] >> # << >>
    OBVIOUS
  <1>6. CASE mlist = << >>
    <2>1. writing = << >> /\ ~failed
      BY <1>1, <1>6, Zenon DEF WritesUnlessFailed
    <2>2. Elements(mlist) = {} /\ Travelling = 0 /\ Waiting = {}
      <3>1. Elements(mlist) = {}
        BY <1>6 DEF Elements
      <3>2. QED BY <2>1, <3>1, Zenon DEF MappedTo
    <2>3. mlist' = << posted[1] >> /\ writing' # << >>
      BY <1>2, <1>5, <1>6
    <2>4. mlist'[1] = posted[1] /\ Behind(mlist') = {}
      BY <2>3 DEF Behind
    <2>5. Travelling' = posted[1] /\ Waiting' = Waiting
      BY <2>2, <2>3, <2>4, Zenon DEF MappedTo
    <2>6. QED BY <1>2, <1>3, <1>4, <2>1, <2>2, <2>5, Zenon DEF Client!Submit
  <1>7. CASE mlist # << >> /\ writing # << >>
    <2>1. Travelling # 0 /\ Travelling = mlist[1] /\ Waiting = Behind(mlist)
      BY <1>7, Zenon DEF MappedTo
    <2>2. Travelling' = mlist[1] /\ Waiting' = Behind(mlist')
      BY <1>2, <1>7, Zenon DEF MappedTo
    <2>3. Travelling' = Travelling /\ Waiting' = Waiting \cup {posted[1]}
      BY <1>2, <1>7, <2>1, <2>2, Zenon
    <2>4. QED BY <1>2, <1>3, <1>4, <2>1, <2>3, Zenon DEF Client!Submit
  <1>8. CASE mlist # << >> /\ writing = << >>
    <2>1. failed
      BY <1>1, <1>8, Zenon DEF WritesUnlessFailed
    <2>2. /\ Travelling = 0 /\ Travelling' = 0
          /\ Waiting = Elements(mlist) /\ Waiting' = Elements(mlist')
      BY <1>2, <1>8, Zenon DEF MappedTo
    <2>3. Travelling' = Travelling /\ Waiting' = Waiting \cup {posted[1]}
      BY <1>2, <2>2, Zenon
    <2>4. QED BY <1>2, <1>3, <1>4, <2>1, <2>3, Zenon DEF Client!Submit
  <1>9. QED BY <1>6, <1>7, <1>8

LEMMA WrittenArrives ==
  ASSUME OutboxInv, OutboxInv', Written, MappedTo, MappedTo' PROVE Client!Arrive
  <1>1. TypeOK /\ OneStableWrite
    BY Zenon DEF OutboxInv
  <1>2. /\ mlist # << >> /\ writing = << mlist[1] >>
        /\ Elements(wire') = Elements(wire) \cup {mlist[1]}
        /\ mlist' \in Seq(1..EmitBound)
        /\ Elements(mlist') = Behind(mlist)
        /\ mlist' = << >> => writing' = << >>
        /\ mlist' # << >> => writing' = << mlist'[1] >>
        /\ failed' = failed
    BY <1>1, WrittenFacts, Zenon
  <1>3. writing # << >> /\ << mlist'[1] >> # << >>
    BY <1>2
  <1>4. Travelling = mlist[1] /\ Travelling # 0 /\ Waiting = Elements(mlist')
    BY <1>2, <1>3, Zenon DEF MappedTo
  <1>5. CASE mlist' = << >>
    <2>1. Elements(mlist') = {}
      BY <1>5 DEF Elements
    <2>2. Travelling' = 0 /\ Waiting' = {}
      BY <1>2, <1>5, <2>1, Zenon DEF MappedTo
    <2>3. QED BY <1>2, <1>4, <2>1, <2>2, Zenon DEF Client!Arrive
  <1>6. CASE mlist' # << >>
    <2>1. Travelling' = mlist'[1] /\ Waiting' = Behind(mlist')
      BY <1>2, <1>3, <1>6, Zenon DEF MappedTo
    <2>2. /\ Len(mlist') \in Nat \ {0} /\ 1 \in 1..Len(mlist')
          /\ \A i \in 1..Len(mlist') : mlist'[i] \in Nat
      <3> DEFINE q == mlist'
                 M == 1..EmitBound
      <3> HIDE DEF q, M
      <3>1. q \in Seq(M) /\ q # << >>
        BY <1>2, <1>6 DEF q, M
      <3>2. Len(q) \in Nat \ {0} /\ \A i \in 1..Len(q) : q[i] \in M
        BY <3>1
      <3>3. QED BY <3>2 DEF q, M
    <2>3. Elements(mlist') = {mlist'[1]} \cup Behind(mlist')
      BY <1>2, <2>2, FrontAndRest
    <2>4. mlist'[1] \notin Behind(mlist')
      BY DEF OutboxInv, NewestFirst, Behind
    <2>5. \A i \in 2..Len(mlist') : mlist'[i] <= mlist'[1]
      <3>1. SUFFICES ASSUME NEW i \in 2..Len(mlist') PROVE mlist'[i] <= mlist'[1]
        OBVIOUS
      <3>2. mlist \in Seq(1..EmitBound) /\ mlist # << >> /\ mlist' = Tail(mlist)
        BY <1>1, <1>2, Zenon DEF TypeOK, Written
      <3>3. /\ Len(mlist) \in Nat /\ Len(mlist') = Len(mlist) - 1
            /\ \A j \in 1..Len(mlist) - 1 : mlist'[j] = mlist[j + 1]
        BY <3>2
      <3>4. /\ 2 \in 2..Len(mlist) /\ i + 1 \in 2..Len(mlist) /\ 2 < i + 1
            /\ mlist'[1] = mlist[2] /\ mlist'[i] = mlist[i + 1]
        BY <3>3
      <3>5. mlist[2] > mlist[i + 1]
        BY <3>4 DEF OutboxInv, NewestFirst
      <3>6. mlist'[1] \in Nat /\ mlist'[i] \in Nat
        BY <2>2
      <3>7. QED BY <3>4, <3>5, <3>6
    <2>6. \A k \in Waiting : k <= mlist'[1]
      <3>1. \A k \in Behind(mlist') : k <= mlist'[1]
        BY <2>5 DEF Behind
      <3>2. mlist'[1] <= mlist'[1]
        BY <2>2
      <3>3. QED BY <1>4, <2>3, <3>1, <3>2
    <2>7. Waiting # {} /\ mlist'[1] \in Waiting /\ Waiting' = Waiting \ {mlist'[1]}
      BY <1>4, <2>1, <2>3, <2>4
    <2>8. QED BY <1>2, <1>4, <2>1, <2>6, <2>7, Zenon DEF Client!Arrive
  <1>7. QED BY <1>5, <1>6

LEMMA WriteFailedBreaks ==
  ASSUME OutboxInv, WriteFailed, MappedTo, MappedTo' PROVE Client!Break
  <1>1. TypeOK /\ OneStableWrite
    BY Zenon DEF OutboxInv
  <1>2. /\ mlist # << >> /\ writing = << mlist[1] >> /\ writing' = << >>
        /\ failed' = TRUE /\ mlist' = mlist /\ wire' = wire
    BY <1>1, WriteFailedFacts, Zenon
  <1>3. writing # << >>
    BY <1>2
  <1>4. /\ Travelling = mlist[1] /\ Travelling # 0 /\ Waiting = Behind(mlist)
        /\ Travelling' = 0 /\ Waiting' = Elements(mlist)
    BY <1>2, <1>3, Zenon DEF MappedTo
  <1>5. Elements(mlist) = Behind(mlist) \cup {mlist[1]}
    <2>1. mlist \in Seq(1..EmitBound)
      BY <1>1 DEF TypeOK
    <2>2. Len(mlist) # 0
      BY <1>2, <2>1
    <2>3. QED BY <2>1, <2>2, FrontAndRest
  <1>6. QED BY <1>2, <1>4, <1>5, Zenon DEF Client!Break

LEMMA NextClient ==
  OutboxInv /\ OutboxInv' /\ [Next]_vars => [Client!Next]_(Client!vars)
  <1>1. MappedTo' \/ ~OutboxInv'
    BY Mapped, PTL
  <1>2. SUFFICES ASSUME OutboxInv, OutboxInv', [Next]_vars
                 PROVE  [Client!Next]_(Client!vars)
    OBVIOUS
  <1>3. MappedTo /\ MappedTo'
    BY <1>1, <1>2, Mapped, Zenon
  <1>4. CASE Emit \/ UNCHANGED vars
    <2>1. /\ mlist' = mlist /\ writing' = writing /\ wire' = wire
          /\ failed' = failed
      BY <1>4, Zenon DEF Emit, vars
    <2>2. /\ Travelling' = Travelling /\ Waiting' = Waiting
          /\ Elements(wire)' = Elements(wire)
      BY <2>1, Zenon DEF Travelling, Waiting, Elements, Behind
    <2>3. QED BY <2>1, <2>2, Zenon DEF Client!vars
  <1>5. CASE Enqueue
    BY <1>2, <1>3, <1>5, EnqueueSubmits, Zenon DEF Client!Next
  <1>6. CASE Written
    BY <1>2, <1>3, <1>6, WrittenArrives, Zenon DEF Client!Next
  <1>7. CASE WriteFailed
    BY <1>2, <1>3, <1>7, WriteFailedBreaks, Zenon DEF Client!Next
  <1>8. QED BY <1>2, <1>4, <1>5, <1>6, <1>7, Zenon DEF Next

\* The list, the posted functions and the handlers are a Mailbox: send, the
\* completion of a write and its failure are the mailbox's three steps.
THEOREM Serves == Spec => ServesClient
  <1>1. QED
    BY InitClient, NextClient, Invariant, PTL DEF Spec, ServesClient, Client!Spec
===============================================================================
