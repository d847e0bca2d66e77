-------------------------------- MODULE Ping --------------------------------
(***************************************************************************)
(* One client and the ping service: the services thread pings it, and      *)
(* closes it when the last request is much later than the last answer.     *)
(*                                                                         *)
(* Time passes in ticks, and a time stamp is modelled by its age, the      *)
(* current time minus the stamp. clock() measures the processor time of    *)
(* the process, which the busy event loop makes run like the wall clock.   *)
(***************************************************************************)
EXTENDS Integers, Sequences

CONSTANTS
  PING_INTERVAL_HIGH_BATTERY,
  PING_INTERVAL_LOW_BATTERY,
  PING_MAX_RESPONSE_TIME,
  MaxPoll,    \* ticks between two polls of the services thread, at most:
              \* SERVICES_SLEEP_TIME and what the thread does between sleeps
  MaxAnswer,  \* ticks after which the main thread has recorded the answer of a
              \* client that responds, at most
  MaxAge      \* bound on the ages

ASSUME IntervalAssumption ==
  /\ PING_INTERVAL_HIGH_BATTERY \in Nat \ {0}
  /\ PING_INTERVAL_LOW_BATTERY \in Nat \ {0}
  /\ PING_MAX_RESPONSE_TIME \in Nat \ {0}
ASSUME DelayAssumption == MaxPoll \in Nat \ {0} /\ MaxAnswer \in Nat /\ MaxAge \in Nat

VARIABLES
  connected,          \* the services thread has not closed the client
  low_battery_level,
  request_age,        \* of ping.last_request_time
  response_age,       \* of ping.last_response_time
  poll_age,           \* since the services thread last polled the client
  unanswered,         \* ages of the requests still to be answered, oldest first
  responsive          \* does the client still answer?

vars == <<connected, low_battery_level, request_age, response_age, poll_age,
          unanswered, responsive>>

\* Seeded fault: a client handed over keeps the last_request_time of the server
\* it comes from, whose clock may be ahead.
Init_with_old_stamp ==
  /\ connected = TRUE
  /\ low_battery_level = FALSE
  /\ request_age \in {-MaxAge} \cup 0 .. MaxAge
  /\ response_age = 0
  /\ poll_age \in 0 .. MaxPoll
  /\ unanswered = <<>>
  /\ responsive = TRUE

\* add_connected_client and add_reconnected_client: last_request_time is 0, so
\* its age is that of the server.
Init ==
  /\ connected = TRUE
  /\ low_battery_level = FALSE
  /\ request_age \in 0 .. MaxAge
  /\ response_age = 0
  /\ poll_age \in 0 .. MaxPoll
  /\ unanswered = <<>>
  /\ responsive = TRUE

\* Time passes, but not beyond what the thread and a responsive client allow.
Tick ==
  /\ connected
  /\ response_age < MaxAge
  /\ poll_age < MaxPoll
  /\ unanswered # <<>> => Head(unanswered) < MaxAnswer
  /\ request_age' = request_age + 1
  /\ response_age' = response_age + 1
  /\ poll_age' = poll_age + 1
  /\ unanswered' = [i \in DOMAIN unanswered |-> unanswered[i] + 1]
  /\ UNCHANGED <<connected, low_battery_level, responsive>>

\* Seeded fault: the intervals of the two battery levels are swapped.
interval_swapped == IF low_battery_level THEN PING_INTERVAL_HIGH_BATTERY
                                         ELSE PING_INTERVAL_LOW_BATTERY

expected_interval == IF low_battery_level THEN PING_INTERVAL_LOW_BATTERY
                                          ELSE PING_INTERVAL_HIGH_BATTERY

\* Seeded fault: last_request_time is not updated.
Request_unstamped ==
  /\ UNCHANGED request_age
  /\ unanswered' = IF request_age >= expected_interval /\ responsive
                   THEN Append(unanswered, 0) ELSE unanswered

\* A request goes out when the last one is old enough.
Request ==
  IF request_age >= expected_interval
  THEN /\ request_age' = 0
       /\ unanswered' = IF responsive THEN Append(unanswered, 0) ELSE unanswered
  ELSE UNCHANGED <<request_age, unanswered>>

\* The services thread polls the client; the two time stamps are compared
\* whether or not a request has just gone out.
ping_client ==
  /\ connected
  /\ poll_age > 0
  /\ Request
  /\ poll_age' = 0
  /\ connected' = (response_age - request_age' < PING_MAX_RESPONSE_TIME)
  /\ UNCHANGED <<low_battery_level, response_age, responsive>>

\* The main thread handles msg_ping_response and msg_battery_critcal.
ping_response ==
  /\ connected
  /\ unanswered # <<>>
  /\ response_age' = 0
  /\ unanswered' = Tail(unanswered)
  /\ UNCHANGED <<connected, low_battery_level, request_age, poll_age, responsive>>

battery_critcal ==
  /\ connected
  /\ low_battery_level' = TRUE
  /\ UNCHANGED <<connected, request_age, response_age, poll_age, unanswered,
                 responsive>>

\* The client stops answering, without closing its socket.
FallSilent ==
  /\ responsive
  /\ responsive' = FALSE
  /\ unanswered' = <<>>
  /\ UNCHANGED <<connected, low_battery_level, request_age, response_age, poll_age>>

Next == Tick \/ ping_client \/ ping_response \/ battery_critcal \/ FallSilent

Spec == Init /\ [][Next]_vars

----------------------------------------------------------------------------
TypeOK ==
  /\ connected \in BOOLEAN
  /\ low_battery_level \in BOOLEAN
  /\ request_age \in Nat
  /\ response_age \in 0 .. MaxAge
  /\ poll_age \in 0 .. MaxPoll
  /\ unanswered \in Seq(Nat)
  /\ responsive \in BOOLEAN

LongestInterval ==
  IF PING_INTERVAL_LOW_BATTERY > PING_INTERVAL_HIGH_BATTERY
  THEN PING_INTERVAL_LOW_BATTERY ELSE PING_INTERVAL_HIGH_BATTERY

\* A client that falls silent is closed: it is never kept much longer than
\* PING_MAX_RESPONSE_TIME, one interval and one poll after its last answer, even
\* if the interval grows on the way.
ClosedInTime ==
  connected => response_age < PING_MAX_RESPONSE_TIME + LongestInterval + MaxPoll

\* Of what service_ping.h says of ping_client, "returns true if client is not
\* responding to pings": a client that answers each request in time is kept
\* while its battery is not low. (With a low battery the interval equals the
\* limit, and an old request may be compared with the attach.)
HighBatteryKept == responsive /\ ~low_battery_level => connected
============================================================================
