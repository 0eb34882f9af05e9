---------------------------- MODULE KillSwitch ----------------------------
(***************************************************************************)
(* killswitch-fn and what surrounds it: the alarm on the invocations of    *)
(* the public MCP endpoint, the topic the alarm notifies, the function     *)
(* that sets the endpoint's reserved concurrency to zero and publishes an  *)
(* alert, and the operator who undoes it.  One topic carries everything:   *)
(* it is the function's trigger, where its own alert goes, and where the   *)
(* alarm on the estimated charges goes too.                                *)
(*                                                                         *)
(* An alarm acts when it goes off, not while it lasts, and throttled calls *)
(* are not invocations: both are the service's, as are the retries of an   *)
(* asynchronous invocation and the end of a loop of invocations.           *)
(***************************************************************************)
EXTENDS Naturals, Bags, BagsExt

CONSTANTS
  Runs,          \* the invocations that may be under way at a time
  MaxAttempts,   \* an asynchronous invocation is tried so often
  MaxHops,       \* a chain of self-invocations is cut after so many
  MaxPending,    \* bound: reports of the flood alarm not yet delivered
  MaxCharges,    \* bound: times the charges alarm goes off
  MaxRestores,   \* bound: times the operator restores the endpoint
  MaxDeaths      \* bound: times the function dies or throws

ASSUME AttemptsAssumption == MaxAttempts \in Nat \ {0}
ASSUME KillSwitchBounds ==
  /\ {MaxHops, MaxPending, MaxCharges, MaxRestores, MaxDeaths} \subseteq Nat
  /\ MaxPending # 0

VARIABLES
  endpoint,  \* "open", or "shut": its reserved concurrency is zero
  flood,     \* is somebody calling it beyond the threshold?
  alarm,     \* the state of the alarm on that
  topic,     \* the bag of notifications not yet delivered
  pc,        \* where each invocation is
  msg,       \* the notification it handles
  attempt,   \* how often it has been tried
  told,      \* has an alert gone out since the endpoint was shut?
  spent      \* of what is bounded: charges, restores, deaths

vars == <<endpoint, flood, alarm, topic, pc, msg, attempt, told, spent>>

FloodReport == [reason |-> "flood", hop |-> 0]

Init ==
  /\ endpoint = "open"
  /\ flood = FALSE
  /\ alarm = "OK"
  /\ topic = EmptyBag
  /\ pc = [i \in Runs |-> "idle"]
  /\ msg = [i \in Runs |-> FloodReport]
  /\ attempt = [i \in Runs |-> 0]
  /\ told = FALSE
  /\ spent = [charges |-> 0, restores |-> 0, deaths |-> 0]

Spend(what, bound) ==
  /\ spent[what] < bound
  /\ spent' = [spent EXCEPT ![what] = @ + 1]

-----------------------------------------------------------------------------
(* The world, the alarms and the operator. *)

Callers ==
  /\ flood' = ~flood
  /\ UNCHANGED <<endpoint, alarm, topic, pc, msg, attempt, told, spent>>

Breaching == flood /\ endpoint = "open"

AlarmGoesOff ==
  /\ alarm = "OK"
  /\ Breaching
  /\ BagIn(FloodReport, topic) => topic[FloodReport] < MaxPending
  /\ alarm' = "ALARM"
  /\ topic' = BagAdd(topic, FloodReport)
  /\ UNCHANGED <<endpoint, flood, pc, msg, attempt, told, spent>>

(* Missing data is not breaching, and returning to OK notifies nobody. *)
AlarmClears ==
  /\ alarm = "ALARM"
  /\ ~Breaching
  /\ alarm' = "OK"
  /\ UNCHANGED <<endpoint, flood, topic, pc, msg, attempt, told, spent>>

ChargesRise ==
  /\ Spend("charges", MaxCharges)
  /\ topic' = BagAdd(topic, [reason |-> "charges", hop |-> 0])
  /\ UNCHANGED <<endpoint, flood, alarm, pc, msg, attempt, told>>

(* delete-function-concurrency, as the alert says. *)
Restore ==
  /\ endpoint = "shut"
  /\ Spend("restores", MaxRestores)
  /\ endpoint' = "open"
  /\ told' = FALSE
  /\ UNCHANGED <<flood, alarm, topic, pc, msg, attempt>>

-----------------------------------------------------------------------------
(* The handler. *)

(* The topic invokes the function with a notification, whichever it is. *)
Invoke(i) ==
  /\ pc[i] = "idle"
  /\ \E m \in BagToSet(topic) :
       /\ msg' = [msg EXCEPT ![i] = m]
       /\ topic' = BagRemove(topic, m)
  /\ pc' = [pc EXCEPT ![i] = "read"]
  /\ attempt' = [attempt EXCEPT ![i] = 1]
  /\ UNCHANGED <<endpoint, flood, alarm, told, spent>>

(* mutant: an unset concurrency is taken for zero *)
Read_Falsy(i) ==
  /\ pc[i] = "read"
  /\ pc' = [pc EXCEPT ![i] = "alert"]
  /\ UNCHANGED <<endpoint, flood, alarm, topic, msg, attempt, told, spent>>

(* mutant: nothing left to do when it is shut already *)
Read_ReturnsEarly(i) ==
  /\ pc[i] = "read"
  /\ pc' = [pc EXCEPT ![i] = IF endpoint = "shut" THEN "idle" ELSE "put"]
  /\ UNCHANGED <<endpoint, flood, alarm, topic, msg, attempt, told, spent>>

(* GetFunctionConcurrency, and "already". *)
Read(i) ==
  /\ pc[i] = "read"
  /\ pc' = [pc EXCEPT ![i] = IF endpoint = "shut" THEN "alert" ELSE "put"]
  /\ UNCHANGED <<endpoint, flood, alarm, topic, msg, attempt, told, spent>>

(* PutFunctionConcurrency(0). *)
Throttle(i) ==
  /\ pc[i] = "put"
  /\ endpoint' = "shut"
  /\ told' = (told /\ endpoint = "shut")
  /\ pc' = [pc EXCEPT ![i] = "alert"]
  /\ UNCHANGED <<flood, alarm, topic, msg, attempt, spent>>

(* The alert: it reaches the operator, and the function's own trigger.  It *)
(* is published whether or not the endpoint was shut by this invocation.   *)
Published(m) ==
  IF m.hop < MaxHops THEN BagAdd(topic, [reason |-> "alert", hop |-> m.hop + 1]) ELSE topic

Alert(i) ==
  /\ pc[i] = "alert"
  /\ topic' = Published(msg[i])
  /\ told' = TRUE
  /\ pc' = [pc EXCEPT ![i] = "idle"]
  /\ UNCHANGED <<endpoint, flood, alarm, msg, attempt, spent>>

(* A call that throws, or the timeout: the notification is handled again   *)
(* from the start, MaxAttempts times in all.                               *)
Dies(i) ==
  /\ pc[i] # "idle"
  /\ Spend("deaths", MaxDeaths)
  /\ pc' = [pc EXCEPT ![i] = IF attempt[i] < MaxAttempts THEN "read" ELSE "idle"]
  /\ attempt' = [attempt EXCEPT ![i] = IF @ < MaxAttempts THEN @ + 1 ELSE @]
  /\ UNCHANGED <<endpoint, flood, alarm, topic, msg, told>>

Step(i) == Read(i) \/ Throttle(i) \/ Alert(i)

Next ==
  \/ Callers \/ AlarmGoesOff \/ AlarmClears \/ ChargesRise \/ Restore
  \/ \E i \in Runs : Invoke(i) \/ Step(i) \/ Dies(i)

Spec == Init /\ [][Next]_vars

(* The alarm is evaluated every period, the topic delivers, an invocation  *)
(* runs on.  Neither the callers nor the operator owe anybody a step.      *)
FairSpec ==
  /\ Spec
  /\ WF_vars(AlarmGoesOff) /\ WF_vars(AlarmClears)
  /\ WF_vars(\E i \in Runs : Invoke(i))
  /\ \A i \in Runs : WF_vars(Step(i))

-----------------------------------------------------------------------------
(* Properties. *)

(* A flood that the alarm has reported finds the endpoint shut, though     *)
(* invocations race, die half-way and are tried again, as long as one of   *)
(* its attempts is left to live.                                           *)
FloodShutsEndpoint ==
  BagIn(FloodReport, topic) ~> endpoint = "shut"

(* The endpoint is never shut behind the operator's back: an alert goes    *)
(* out, or the operator has it open again, even if the invocation that     *)
(* shut it died before it could say so.                                    *)
OperatorIsTold == endpoint = "shut" ~> told \/ endpoint = "open"

(* The switch is fired by a flood and by nothing else.                     *)
FiredByFlood ==
  [][endpoint = "open" /\ endpoint' = "shut" =>
       \E i \in Runs : pc[i] = "put" /\ pc'[i] = "alert" /\ msg[i].reason = "flood"]_vars
=============================================================================
