----------------------------- MODULE PingProofs -----------------------------
(***************************************************************************)
(* The two promises of the ping service, for all intervals and delays: a   *)
(* silent client is closed in time, and a responsive one is kept under a   *)
(* condition that the intervals of service_ping.h meet for a full battery  *)
(* and miss for a low one.                                                 *)
(***************************************************************************)
EXTENDS Ping, SequenceTheorems, TLAPS

\* At a poll, the request is younger than the interval, or has just gone out.
\* Before the first poll of the client it may have any age.
Polled ==
  \/ request_age < LongestInterval + poll_age
  \/ response_age <= poll_age

\* The poll found the answer young enough compared to the request.
Compared == connected => response_age - request_age < PING_MAX_RESPONSE_TIME

\* The inductive invariant.
IInv == TypeOK /\ Polled /\ Compared

\* The invariant holds when the client attaches.
LEMMA InvInit == Init => IInv
<1> SUFFICES ASSUME Init PROVE IInv
  OBVIOUS
<1>1. unanswered \in Seq(Nat)
  BY DEF Init
<1>2. connected \in BOOLEAN /\ low_battery_level \in BOOLEAN /\ responsive \in BOOLEAN
  BY Zenon DEF Init
<1>3. request_age \in Nat /\ response_age \in 0 .. MaxAge /\ poll_age \in 0 .. MaxPoll
  BY DelayAssumption DEF Init
<1>4. Polled /\ Compared
  BY IntervalAssumption, DelayAssumption DEF Init, Polled, Compared
<1> QED
  BY <1>1, <1>2, <1>3, <1>4 DEF IInv, TypeOK

\* What a poll does to the ages and to the connection.
LEMMA Poll ==
  ASSUME TypeOK, ping_client
  PROVE  /\ unanswered' \in Seq(Nat)
         /\ poll_age' = 0 /\ UNCHANGED response_age
         /\ \/ request_age >= expected_interval /\ request_age' = 0
            \/ request_age < expected_interval /\ request_age' = request_age
         /\ connected' \in BOOLEAN
         /\ connected' <=> response_age - request_age' < PING_MAX_RESPONSE_TIME
<1>1. unanswered' \in Seq(Nat)
  BY DEF TypeOK, ping_client, Request
<1>2. \/ request_age >= expected_interval /\ request_age' = 0
      \/ request_age < expected_interval /\ request_age' = request_age
  BY IntervalAssumption DEF TypeOK, ping_client, Request, expected_interval
<1>3. /\ connected' \in BOOLEAN
      /\ connected' <=> response_age - request_age' < PING_MAX_RESPONSE_TIME
  <2> DEFINE young == response_age - request_age' < PING_MAX_RESPONSE_TIME
  <2>1. connected' = young
    BY DEF ping_client
  <2>2. young \in BOOLEAN
    OBVIOUS
  <2> HIDE DEF young
  <2>3. connected' \in BOOLEAN /\ (connected' <=> young)
    BY <2>1, <2>2
  <2> QED
    BY <2>3 DEF young
<1> QED
  BY <1>1, <1>2, <1>3 DEF ping_client

\* Each step keeps the invariant.
LEMMA InvStep == IInv /\ [Next]_vars => IInv'
<1> SUFFICES ASSUME IInv, [Next]_vars PROVE IInv'
  OBVIOUS
<1> USE IntervalAssumption, DelayAssumption
    DEF IInv, TypeOK, Polled, Compared, LongestInterval
<1>1. CASE Tick
  BY <1>1 DEF Tick
<1>2. CASE ping_client
  <2>1. UNCHANGED <<low_battery_level, responsive>>
    BY <1>2 DEF ping_client
  <2> QED
    BY <1>2, <2>1, Poll DEF expected_interval
<1>3. CASE ping_response
  BY <1>3 DEF ping_response
<1>4. CASE battery_critcal
  BY <1>4 DEF battery_critcal
<1>5. CASE FallSilent
  <2>1. unanswered' \in Seq(Nat)
    BY <1>5 DEF FallSilent
  <2> QED
    BY <1>5, <2>1 DEF FallSilent
<1>6. CASE UNCHANGED vars
  BY <1>6 DEF vars
<1> QED
  BY <1>1, <1>2, <1>3, <1>4, <1>5, <1>6 DEF Next

\* Every reachable state satisfies the inductive invariant.
THEOREM Invariance == Spec => []IInv
  BY InvInit, InvStep, PTL DEF Spec

\* The variables have their types; no time stamp lies in the future.
THEOREM TypeCorrect == Spec => []TypeOK
  BY Invariance, PTL DEF IInv

\* A client that stopped answering is closed within the time that
\* PING_MAX_RESPONSE_TIME, the longer interval and one poll add up to.
THEOREM SilentClosed == Spec => []ClosedInTime
<1>1. IInv => ClosedInTime
  BY IntervalAssumption, DelayAssumption
     DEF IInv, TypeOK, Polled, Compared, ClosedInTime, LongestInterval
<1> QED
  BY Invariance, <1>1, PTL

----------------------------------------------------------------------------
(* Responsive clients. *)

\* What the argument needs: answers arrive before the next request is due, and
\* an interval and a poll fit into PING_MAX_RESPONSE_TIME.
Margin(interval) ==
  MaxAnswer < interval /\ interval + MaxPoll <= PING_MAX_RESPONSE_TIME

\* A responsive client with a full battery: it has answered every request but
\* perhaps the last, which it still has time to answer.
InTouch ==
  responsive /\ ~low_battery_level =>
    /\ connected
    /\ \/ request_age < PING_INTERVAL_HIGH_BATTERY + poll_age
       \/ response_age <= poll_age /\ unanswered = <<>>
    /\ \/ unanswered = <<>> /\ response_age <= request_age
       \/ /\ unanswered = <<request_age>> /\ request_age <= MaxAnswer
          /\ response_age < request_age + PING_INTERVAL_HIGH_BATTERY + MaxPoll

\* A client that answers in time stays in touch.
LEMMA InTouchStep ==
  ASSUME Margin(PING_INTERVAL_HIGH_BATTERY), TypeOK, InTouch, [Next]_vars
  PROVE  InTouch'
<1> USE IntervalAssumption, DelayAssumption DEF Margin, TypeOK, InTouch
<1>1. CASE Tick
  <2>1. CASE unanswered = <<>>
    BY <1>1, <2>1 DEF Tick
  <2>2. CASE unanswered = <<request_age>>
    <3>1. unanswered' = <<request_age'>> /\ request_age < MaxAnswer
      BY <1>1, <2>2 DEF Tick
    <3> QED
      BY <1>1, <2>2, <3>1 DEF Tick
  <2>3. CASE ~(responsive /\ ~low_battery_level)
    BY <1>1, <2>3 DEF Tick
  <2> QED
    BY <2>1, <2>2, <2>3
<1>2. CASE ping_client
  <2> SUFFICES ASSUME responsive', ~low_battery_level' PROVE InTouch'
    BY DEF InTouch
  <2>1. /\ responsive /\ ~low_battery_level
        /\ expected_interval = PING_INTERVAL_HIGH_BATTERY
    BY <1>2 DEF ping_client, expected_interval
  <2>2. CASE request_age >= expected_interval
    <3>1. unanswered = <<>> /\ response_age <= request_age
      BY <2>1, <2>2
    <3>2. request_age' = 0 /\ unanswered' = <<0>>
      BY <1>2, <2>1, <2>2, <3>1 DEF ping_client, Request
    <3>3. response_age < PING_INTERVAL_HIGH_BATTERY + MaxPoll
      BY <2>1, <3>1
    <3> QED
      BY <1>2, <2>1, <3>2, <3>3, Poll
  <2>3. CASE request_age < expected_interval
    <3>1. UNCHANGED <<request_age, unanswered>>
      BY <1>2, <2>1, <2>3 DEF ping_client, Request
    <3>2. response_age - request_age < PING_MAX_RESPONSE_TIME
      BY <2>1
    <3> QED
      BY <1>2, <2>1, <2>3, <3>1, <3>2, Poll
  <2> QED
    BY <2>1, <2>2, <2>3
<1>3. CASE ping_response
  BY <1>3 DEF ping_response
<1>4. CASE battery_critcal
  BY <1>4 DEF battery_critcal
<1>5. CASE FallSilent
  BY <1>5 DEF FallSilent
<1>6. CASE UNCHANGED vars
  BY <1>6 DEF vars
<1> QED
  BY <1>1, <1>2, <1>3, <1>4, <1>5, <1>6 DEF Next

\* With that margin, a client that answers in time is kept while its battery is
\* full: 5 s, 10 s and a poll of a second leave 5 s for an answer.
THEOREM ResponsiveClientKept ==
  ASSUME Margin(PING_INTERVAL_HIGH_BATTERY)
  PROVE  Spec => []HighBatteryKept
<1>1. Init => InTouch
  BY DEF Init, InTouch
<1>2. TypeOK /\ InTouch /\ [Next]_vars => InTouch'
  BY InTouchStep
<1>3. InTouch => HighBatteryKept
  BY DEF InTouch, HighBatteryKept
<1> QED
  BY <1>1, <1>2, <1>3, TypeCorrect, PTL DEF Spec
============================================================================
