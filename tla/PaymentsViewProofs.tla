------------------------- MODULE PaymentsViewProofs -------------------------
(***************************************************************************)
(* The debounce of PaymentsView loses no change, for every number of       *)
(* writers, readers and writes and every bound of the queues.              *)
(***************************************************************************)
EXTENDS PaymentsView, SequenceTheorems, TLAPS

Unique(q, x) == \A i, j \in 1..Len(q) : q[i] = x /\ q[j] = x => i = j

\* What a queue holds after a message is appended.
LEMMA AppendHolds ==
    ASSUME NEW S, NEW q \in Seq(S), NEW e \in S, NEW x
    PROVE  /\ Append(q, e) \in Seq(S)
           /\ Holds(Append(q, e), x) <=> Holds(q, x) \/ e = x
           /\ Unique(q, x) /\ (e = x => ~Holds(q, x)) => Unique(Append(q, e), x)
  <1>1. /\ Append(q, e) \in Seq(S)
        /\ Len(Append(q, e)) = Len(q) + 1
        /\ \A i \in 1..Len(q) : Append(q, e)[i] = q[i]
        /\ Append(q, e)[Len(q) + 1] = e
        /\ Len(q) \in Nat
    BY AppendProperties, LenProperties
  <1>2. Holds(Append(q, e), x) => Holds(q, x) \/ e = x
    BY <1>1 DEF Holds
  <1>3. Holds(q, x) => Holds(Append(q, e), x)
    BY <1>1 DEF Holds
  <1>4. e = x => Holds(Append(q, e), x)
    BY <1>1 DEF Holds
  <1>5. ASSUME Unique(q, x), e = x => ~Holds(q, x)
        PROVE  Unique(Append(q, e), x)
    <2>1. ASSUME NEW i \in 1..(Len(q) + 1), NEW j \in 1..(Len(q) + 1),
                 Append(q, e)[i] = x, Append(q, e)[j] = x
          PROVE  i = j
      <3>1. CASE i \in 1..Len(q) /\ j \in 1..Len(q)
        BY <1>1, <1>5, <2>1, <3>1 DEF Unique
      <3>2. CASE i = Len(q) + 1 /\ j = Len(q) + 1
        BY <3>2
      <3>3. CASE i = Len(q) + 1 /\ j \in 1..Len(q)
        BY <1>1, <1>5, <2>1, <3>3 DEF Holds
      <3>4. CASE i \in 1..Len(q) /\ j = Len(q) + 1
        BY <1>1, <1>5, <2>1, <3>4 DEF Holds
      <3> QED
        BY <1>1, <3>1, <3>2, <3>3, <3>4
    <2> QED
      BY <1>1, <2>1 DEF Unique
  <1> QED
    BY <1>1, <1>2, <1>3, <1>4, <1>5

\* What a queue holds after its first message is removed.
LEMMA TailHolds ==
    ASSUME NEW S, NEW q \in Seq(S), q # <<>>, NEW x
    PROVE  /\ Tail(q) \in Seq(S)
           /\ Head(q) \in S
           /\ Holds(Tail(q), x) => Holds(q, x)
           /\ Holds(q, x) => Head(q) = x \/ Holds(Tail(q), x)
           /\ Unique(q, x) => Unique(Tail(q), x)
           /\ Unique(q, x) /\ Head(q) = x => ~Holds(Tail(q), x)
  <1>1. /\ Tail(q) \in Seq(S)
        /\ Head(q) \in S
        /\ Len(Tail(q)) = Len(q) - 1
        /\ \A i \in 1..Len(Tail(q)) : Tail(q)[i] = q[i + 1]
        /\ Head(q) = q[1]
    BY HeadTailProperties
  <1>2. Len(q) \in Nat /\ Len(q) > 0
    BY EmptySeq, LenProperties
  <1>3. ASSUME NEW i \in 1..Len(Tail(q))
        PROVE  i + 1 \in 1..Len(q) /\ i + 1 # 1
    BY <1>1, <1>2
  <1>4. Holds(Tail(q), x) => Holds(q, x)
    BY <1>1, <1>3 DEF Holds
  <1>5. ASSUME NEW i \in 1..Len(q), q[i] = x, Head(q) # x
        PROVE  Holds(Tail(q), x)
    <2>1. i # 1
      BY <1>1, <1>5
    <2>2. i - 1 \in 1..Len(Tail(q)) /\ (i - 1) + 1 = i
      BY <1>1, <1>2, <2>1
    <2>3. Tail(q)[i - 1] = x
      BY <1>1, <1>5, <2>2
    <2> QED
      BY <2>2, <2>3 DEF Holds
  <1>6. Unique(q, x) => Unique(Tail(q), x)
    <2>1. ASSUME Unique(q, x), NEW i \in 1..Len(Tail(q)), NEW j \in 1..Len(Tail(q)),
                 Tail(q)[i] = x, Tail(q)[j] = x
          PROVE  i = j
      <3>1. q[i + 1] = x /\ q[j + 1] = x
        BY <1>1, <2>1
      <3>2. i + 1 = j + 1
        BY <1>3, <2>1, <3>1 DEF Unique
      <3> QED
        BY <3>2
    <2> QED
      BY <2>1 DEF Unique
  <1>7. ASSUME Unique(q, x), Head(q) = x
        PROVE  ~Holds(Tail(q), x)
    <2>1. ASSUME NEW i \in 1..Len(Tail(q)), Tail(q)[i] = x
          PROVE  FALSE
      <3>1. q[i + 1] = x /\ q[1] = x /\ 1 \in 1..Len(q)
        BY <1>1, <1>2, <1>7, <2>1
      <3> QED
        BY <1>3, <1>7, <3>1 DEF Unique
    <2> QED
      BY <2>1 DEF Holds
  <1> QED
    BY <1>1, <1>4, <1>5, <1>6, <1>7 DEF Holds

-----------------------------------------------------------------------------

\* No screen, nothing to read.
LEMMA InitIInv == Init => IInv
  <1> SUFFICES ASSUME Init
               PROVE  IInv
    OBVIOUS
  <1>1. TypeOK
    <2>1. 1 \in 1..(MaxWrites + 1) /\ Nothing \in Versions
      BY ViewAssumption DEF Versions, Nothing
    <2>2. reader \in [Readers -> Versions \cup {Idle, Started}]
      BY DEF Init
    <2>3. inbox \in Seq({"REFRESH", "WAKE_UP"}) /\ looper \in Seq(Versions \cup {PaymentEvent})
      BY DEF Init
    <2>4. asleep = FALSE /\ timer = FALSE
      BY DEF Init
    <2> QED
      BY <2>1, <2>2, <2>3, <2>4 DEF Init, TypeOK
  <1>2. ~asleep /\ ~timer /\ Len(inbox) = 0
    BY DEF Init
  <1>3. WakesUpOnce
    BY <1>2 DEF WakesUpOnce, Holds
  <1>4. ChangesAreRead
    BY DEF Init, ChangesAreRead
  <1> QED
    BY <1>1, <1>3, <1>4 DEF IInv

\* Every variable keeps its type.
LEMMA TypeStep == TypeOK /\ [Next]_vars => TypeOK'
  <1> SUFFICES ASSUME TypeOK, [Next]_vars
               PROVE  TypeOK'
    OBVIOUS
  <1> USE ViewAssumption DEF TypeOK
  <1>1. ASSUME NEW w \in Writers, Write(w)
        PROVE  TypeOK'
    BY <1>1 DEF Write, Versions, Nothing
  <1>2. ASSUME NEW w \in Writers, Tell(w)
        PROVE  TypeOK'
    BY <1>2 DEF Tell
  <1>3. CASE Refresh
    BY <1>3, TailHolds DEF Refresh, Receive
  <1>4. CASE WakeUp
    <2>1. /\ inbox' \in Seq({"REFRESH", "WAKE_UP"})
          /\ asleep' = FALSE
          /\ UNCHANGED <<version, telling, timer, home, reader, shown, latest>>
      BY <1>4, TailHolds DEF WakeUp, Receive
    <2>2. looper' = looper \/ looper' = Append(looper, PaymentEvent)
      BY <1>4 DEF WakeUp, PostPaymentEvent
    <2>3. looper' \in Seq(Versions \cup {PaymentEvent})
      BY <2>2, AppendProperties
    <2> QED
      BY <2>1, <2>3
  <1>5. CASE Timer
    <2>1. inbox' \in Seq({"REFRESH", "WAKE_UP"})
      BY <1>5, AppendProperties DEF Timer
    <2>2. timer' = FALSE
      BY <1>5 DEF Timer
    <2>3. UNCHANGED <<version, telling, asleep, home, looper, reader, shown, latest>>
      BY <1>5 DEF Timer
    <2> QED
      BY <2>1, <2>2, <2>3
  <1>6. CASE Open \/ Pause \/ Resume
    BY <1>6 DEF Open, Pause, Resume, updateList
  <1>7. CASE Destroy
    BY <1>7 DEF Destroy, Versions, Nothing
  <1>8. CASE HandlePaymentEvent
    BY <1>8, TailHolds DEF HandlePaymentEvent, updateList
  <1>9. CASE Display
    BY <1>9, TailHolds DEF Display
  <1>10. ASSUME NEW r \in Readers, Read(r)
         PROVE  TypeOK'
    BY <1>10 DEF Read, Versions, Nothing
  <1>11. ASSUME NEW r \in Readers, Publish(r)
         PROVE  TypeOK'
    BY <1>11 DEF Publish
  <1>12. CASE UNCHANGED vars
    BY <1>12 DEF vars
  <1> QED
    BY <1>1, <1>2, <1>3, <1>4, <1>5, <1>6, <1>7, <1>8, <1>9, <1>10, <1>11, <1>12
       DEF Next, Scheduler, Looper

\* A sleeping scheduler has exactly one WAKE_UP to come, an awake one has none.
LEMMA WakeStep == TypeOK /\ WakesUpOnce /\ [Next]_vars => WakesUpOnce'
  <1> SUFFICES ASSUME TypeOK, WakesUpOnce, [Next]_vars
               PROVE  WakesUpOnce'
    OBVIOUS
  <1> DEFINE S == {"REFRESH", "WAKE_UP"}
  <1>1. /\ inbox \in Seq(S)
        /\ asleep \in BOOLEAN
        /\ timer \in BOOLEAN
    BY DEF TypeOK
  <1>2. /\ asleep <=> timer \/ Holds(inbox, "WAKE_UP")
        /\ timer => ~Holds(inbox, "WAKE_UP")
        /\ Unique(inbox, "WAKE_UP")
    BY DEF WakesUpOnce, Unique
  <1>3. ASSUME inbox' \in Seq(S),
               asleep' <=> timer' \/ Holds(inbox', "WAKE_UP"),
               timer' => ~Holds(inbox', "WAKE_UP"),
               Unique(inbox', "WAKE_UP")
        PROVE  WakesUpOnce'
    BY <1>3 DEF WakesUpOnce, Unique, Holds
  <1>4. ASSUME NEW w \in Writers, Tell(w)
        PROVE  WakesUpOnce'
    <2>1. /\ inbox' = Append(inbox, "REFRESH")
          /\ asleep' = asleep
          /\ timer' = timer
      BY <1>4 DEF Tell
    <2>2. /\ inbox' \in Seq(S)
          /\ Holds(inbox', "WAKE_UP") <=> Holds(inbox, "WAKE_UP")
          /\ Unique(inbox', "WAKE_UP")
      BY <1>1, <1>2, <2>1, AppendHolds
    <2> QED
      BY <1>2, <1>3, <2>1, <2>2
  <1>5. CASE Refresh
    <2>1. /\ inbox # <<>>
          /\ Head(inbox) = "REFRESH"
          /\ inbox' = Tail(inbox)
          /\ asleep' = TRUE
          /\ timer' = (timer \/ ~asleep)
      BY <1>5 DEF Refresh, Receive
    <2>2. /\ inbox' \in Seq(S)
          /\ Holds(inbox', "WAKE_UP") <=> Holds(inbox, "WAKE_UP")
          /\ Unique(inbox', "WAKE_UP")
      BY <1>1, <1>2, <2>1, TailHolds
    <2>3. timer' \/ Holds(inbox', "WAKE_UP")
      BY <1>2, <2>1, <2>2
    <2>4. timer' => ~Holds(inbox', "WAKE_UP")
      BY <1>2, <2>1, <2>2
    <2> QED
      BY <1>3, <2>1, <2>2, <2>3, <2>4
  <1>6. CASE WakeUp
    <2>1. /\ inbox # <<>>
          /\ Head(inbox) = "WAKE_UP"
          /\ inbox' = Tail(inbox)
          /\ asleep' = FALSE
          /\ timer' = timer
      BY <1>6 DEF WakeUp, Receive
    <2>2. Holds(inbox, "WAKE_UP")
      <3>1. inbox[1] = "WAKE_UP" /\ 1 \in 1..Len(inbox)
        BY <1>1, <2>1, HeadTailProperties, EmptySeq, LenProperties
      <3> QED
        BY <3>1 DEF Holds
    <2>3. /\ inbox' \in Seq(S)
          /\ ~Holds(inbox', "WAKE_UP")
          /\ Unique(inbox', "WAKE_UP")
      BY <1>1, <1>2, <2>1, TailHolds
    <2>4. ~timer'
      BY <1>2, <2>1, <2>2
    <2> QED
      BY <1>3, <2>1, <2>3, <2>4
  <1>7. CASE Timer
    <2>1. /\ timer
          /\ inbox' = Append(inbox, "WAKE_UP")
          /\ asleep' = asleep
          /\ timer' = FALSE
      BY <1>7 DEF Timer
    <2>2. /\ inbox' \in Seq(S)
          /\ Holds(inbox', "WAKE_UP")
          /\ Unique(inbox', "WAKE_UP")
      BY <1>1, <1>2, <2>1, AppendHolds
    <2>3. asleep'
      BY <1>2, <2>1
    <2>4. ~timer'
      BY <2>1
    <2> QED
      BY <1>3, <2>2, <2>3, <2>4
  <1>8. ASSUME UNCHANGED <<inbox, asleep, timer>>
        PROVE  WakesUpOnce'
    BY <1>8 DEF WakesUpOnce, Holds
  <1>9. ASSUME \/ \E w \in Writers : Write(w)
               \/ Open \/ Pause \/ Resume \/ Destroy
               \/ HandlePaymentEvent \/ Display
               \/ \E r \in Readers : Read(r) \/ Publish(r)
               \/ UNCHANGED vars
        PROVE  UNCHANGED <<inbox, asleep, timer>>
    BY <1>9 DEF Write, Open, Pause, Resume, Destroy, HandlePaymentEvent, Display, Read,
                Publish, vars
  <1> QED
    BY <1>4, <1>5, <1>6, <1>7, <1>8, <1>9 DEF Next, Scheduler, Looper

\* A step leaves a read to come, unless it is the read.
LEMMA ReadStep == IInv /\ [Next]_vars => ChangesAreRead'
  <1> SUFFICES ASSUME IInv, [Next]_vars, home' # "absent"
               PROVE  latest' = version' \/ ReadComing'
    BY DEF ChangesAreRead
  <1> DEFINE S == {"REFRESH", "WAKE_UP"}
  <1>1. /\ TypeOK
        /\ WakesUpOnce
        /\ home # "absent" => latest = version \/ ReadComing
    BY DEF IInv, ChangesAreRead
  <1>2. inbox \in Seq(S) /\ looper \in Seq(Versions \cup {PaymentEvent})
    BY <1>1 DEF TypeOK
  <1>3. ASSUME NEW w \in Writers, Write(w)
        PROVE  telling' # {}
    BY <1>3 DEF Write
  <1>4. ASSUME NEW w \in Writers, Tell(w)
        PROVE  Holds(inbox', "REFRESH")
    BY <1>2, <1>4, AppendHolds DEF Tell
  <1>5. ASSUME Refresh
        PROVE  timer' \/ (asleep' /\ Holds(inbox', "WAKE_UP"))
    <2>1. asleep' <=> timer' \/ Holds(inbox', "WAKE_UP")
      BY <1>1, WakeStep DEF WakesUpOnce
    <2>2. asleep'
      BY <1>5 DEF Refresh
    <2> QED
      BY <2>1, <2>2
  <1>6. ASSUME WakeUp
        PROVE  Holds(looper', PaymentEvent)
    <2>1. home # "absent"
      BY <1>6 DEF WakeUp
    <2>2. looper' = Append(looper, PaymentEvent)
      BY <1>6, <2>1 DEF WakeUp, PostPaymentEvent
    <2> QED
      BY <1>2, <2>2, AppendHolds
  <1>7. ASSUME Timer
        PROVE  asleep' /\ Holds(inbox', "WAKE_UP")
    <2>1. inbox' = Append(inbox, "WAKE_UP") /\ timer /\ asleep' = asleep
      BY <1>7 DEF Timer
    <2>2. Holds(inbox', "WAKE_UP")
      BY <1>2, <2>1, AppendHolds
    <2>3. asleep
      BY <1>1, <2>1 DEF WakesUpOnce
    <2> QED
      BY <2>1, <2>2, <2>3
  <1>8. ASSUME Open \/ Resume \/ HandlePaymentEvent
        PROVE  \E r \in Readers : reader'[r] = Started
    BY <1>1, <1>8 DEF Open, Resume, HandlePaymentEvent, updateList, TypeOK
  <1>9. ASSUME NEW r \in Readers, Read(r)
        PROVE  latest' = version'
    BY <1>9 DEF Read
  <1>10. ASSUME NEW r \in Readers, Publish(r)
         PROVE  latest' = version' \/ ReadComing'
    <2>1. /\ looper' = Append(looper, reader[r])
          /\ reader' = [reader EXCEPT ![r] = Idle]
          /\ reader[r] \in Versions
          /\ UNCHANGED <<version, telling, inbox, asleep, timer, home, shown, latest>>
      BY <1>10 DEF Publish
    <2>2. Holds(looper, PaymentEvent) => Holds(looper', PaymentEvent)
      BY <1>2, <2>1, AppendHolds
    <2>3. \A t \in Readers : reader[t] = Started => reader'[t] = Started
      BY <1>1, <2>1 DEF TypeOK, Versions, Nothing, Started
    <2> QED
      BY <1>1, <2>1, <2>2, <2>3 DEF ReadComing, Holds
  <1>11. ASSUME Display
         PROVE  latest' = version' \/ ReadComing'
    <2>1. /\ looper # <<>>
          /\ Head(looper) # PaymentEvent
          /\ looper' = Tail(looper)
          /\ UNCHANGED <<version, telling, inbox, asleep, timer, home, reader, latest>>
      BY <1>11 DEF Display
    <2>2. Holds(looper, PaymentEvent) => Holds(looper', PaymentEvent)
      BY <1>2, <2>1, TailHolds
    <2> QED
      BY <1>1, <2>1, <2>2 DEF ReadComing, Holds
  <1>12. ASSUME Pause \/ UNCHANGED vars
         PROVE  latest' = version' \/ ReadComing'
    <2>1. /\ home # "absent"
          /\ UNCHANGED <<version, telling, inbox, asleep, timer, looper, reader, latest>>
      BY <1>12 DEF Pause, vars
    <2> QED
      BY <1>1, <2>1 DEF ReadComing, Holds
  <1>13. ~Destroy
    BY DEF Destroy
  <1>14. ASSUME \/ \E w \in Writers : Write(w) \/ Tell(w)
                \/ Refresh \/ WakeUp \/ Timer \/ Open \/ Resume \/ HandlePaymentEvent
         PROVE  ReadComing'
    BY <1>3, <1>4, <1>5, <1>6, <1>7, <1>8, <1>14 DEF ReadComing, Holds
  <1> QED
    BY <1>9, <1>10, <1>11, <1>12, <1>13, <1>14 DEF Next, Scheduler, Looper

\* IInv holds in every state of every behaviour.
THEOREM InductiveInvariant == Spec => []IInv
  <1>1. IInv /\ [Next]_vars => IInv'
    BY TypeStep, WakeStep, ReadStep DEF IInv
  <1> QED
    BY <1>1, InitIInv, PTL DEF Spec

\* The debounce loses no change of the payments table.
THEOREM NoChangeIsLost == Spec => []ChangesAreRead
  <1>1. IInv => ChangesAreRead
    BY DEF IInv
  <1> QED
    BY <1>1, InductiveInvariant, PTL

\* A sleeping scheduler is woken up exactly once.
THEOREM SleepEnds == Spec => []WakesUpOnce
  <1>1. IInv => WakesUpOnce
    BY DEF IInv
  <1> QED
    BY <1>1, InductiveInvariant, PTL
=============================================================================
