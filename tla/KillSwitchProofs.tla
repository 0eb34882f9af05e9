--------------------------- MODULE KillSwitchProofs ---------------------------
(***************************************************************************)
(* That the switch does not fire silently, for any number of invocations,  *)
(* reports, charges and restores.                                          *)
(***************************************************************************)
EXTENDS KillSwitch, TLAPS

(* A report whose invocations die is handled again, and is not given up as *)
(* long as fewer have died than a report is given attempts.                *)
AttemptsLast ==
  /\ pc \in [Runs -> {"idle", "read", "put", "alert"}]
  /\ attempt \in [Runs -> Nat]
  /\ spent \in [{"charges", "restores", "deaths"} -> Nat]
  /\ \A i \in Runs : attempt[i] =< spent.deaths + 1

(* While the endpoint is shut and nobody has been told so, somebody is on  *)
(* the way to tell: whoever shut it, or another one who found it shut.     *)
SomebodyWillTell ==
  endpoint = "shut" /\ ~ told => \E i \in Runs : pc[i] # "idle"

LEMMA AttemptsAlwaysLast == Spec => []AttemptsLast
<1>1. Init => AttemptsLast
  BY DEF Init, AttemptsLast
<1>2. AttemptsLast /\ [Next]_vars => AttemptsLast'
  <2> SUFFICES ASSUME AttemptsLast, [Next]_vars PROVE AttemptsLast'
    OBVIOUS
  <2> USE DEF AttemptsLast
  <2>1. CASE Callers \/ AlarmGoesOff \/ AlarmClears
    BY <2>1 DEF Callers, AlarmGoesOff, AlarmClears
  <2>2. CASE ChargesRise \/ Restore
    BY <2>2 DEF ChargesRise, Restore, Spend
  <2>3. ASSUME NEW i \in Runs, Invoke(i) PROVE AttemptsLast'
    BY <2>3 DEF Invoke
  <2>4. ASSUME NEW i \in Runs, Step(i) PROVE AttemptsLast'
    BY <2>4 DEF Step, Read, Throttle, Alert
  <2>5. ASSUME NEW i \in Runs, Dies(i) PROVE AttemptsLast'
    BY <2>5, AttemptsAssumption DEF Dies, Spend
  <2>6. CASE UNCHANGED vars
    BY <2>6 DEF vars
  <2> QED
    BY <2>1, <2>2, <2>3, <2>4, <2>5, <2>6 DEF Next
<1> QED
  BY <1>1, <1>2, PTL DEF Spec

(* With fewer deaths than a report is given attempts, the endpoint is not  *)
(* left shut with nobody under way who will say so, whoever races, dies    *)
(* half-way or finds it shut already, and however often it is restored.    *)
THEOREM NeverShutSilently ==
  ASSUME MaxDeaths < MaxAttempts
  PROVE  Spec => []SomebodyWillTell
<1>1. Init => SomebodyWillTell
  BY DEF Init, SomebodyWillTell
<1>2. AttemptsLast /\ SomebodyWillTell /\ [Next]_vars => SomebodyWillTell'
  <2> SUFFICES ASSUME AttemptsLast, SomebodyWillTell, [Next]_vars,
                      endpoint' = "shut", ~ told'
               PROVE  \E i \in Runs : pc'[i] # "idle"
    BY DEF SomebodyWillTell
  <2>1. pc \in [Runs -> {"idle", "read", "put", "alert"}]
    BY DEF AttemptsLast
  <2>2. CASE UNCHANGED <<endpoint, told, pc>>
    BY <2>2 DEF SomebodyWillTell
  <2>3. CASE Restore
    BY <2>3 DEF Restore
  <2>4. ASSUME NEW i \in Runs, Invoke(i) PROVE pc'[i] # "idle"
    BY <2>1, <2>4 DEF Invoke
  <2>5. ASSUME NEW i \in Runs, Read(i) PROVE pc'[i] # "idle"
    BY <2>1, <2>5 DEF Read
  <2>6. ASSUME NEW i \in Runs, Throttle(i) PROVE pc'[i] # "idle"
    BY <2>1, <2>6 DEF Throttle
  <2>7. ASSUME NEW i \in Runs, Alert(i) PROVE FALSE
    BY <2>7 DEF Alert
  <2>8. ASSUME NEW i \in Runs, Dies(i) PROVE pc'[i] # "idle"
    <3>1. attempt[i] < MaxAttempts
      BY <2>8, AttemptsAssumption, KillSwitchBounds DEF Dies, Spend, AttemptsLast
    <3> QED
      BY <2>1, <2>8, <3>1 DEF Dies
  <2> QED
    BY <2>2, <2>3, <2>4, <2>5, <2>6, <2>7, <2>8
    DEF Next, Step, Callers, AlarmGoesOff, AlarmClears, ChargesRise, vars
<1> QED
  BY <1>1, <1>2, AttemptsAlwaysLast, PTL DEF Spec

(* Whoever says that the endpoint is shut is right, unless the operator    *)
(* has had it open again: it is never opened by the function itself.       *)
AlertsAreTrue ==
  spent.restores = 0 =>
    /\ \A i \in Runs : pc[i] = "alert" => endpoint = "shut"
    /\ told => endpoint = "shut"

(* An alert goes out only for an endpoint that the function has found shut *)
(* or has shut, and as long as nobody has restored it that is what it is.  *)
THEOREM AlertsTellTheTruth == Spec => []AlertsAreTrue
<1>1. Init => AlertsAreTrue
  BY DEF Init, AlertsAreTrue
<1>2. AttemptsLast /\ AlertsAreTrue /\ [Next]_vars => AlertsAreTrue'
  <2> SUFFICES ASSUME AttemptsLast, AlertsAreTrue, [Next]_vars PROVE AlertsAreTrue'
    OBVIOUS
  <2>1. pc \in [Runs -> {"idle", "read", "put", "alert"}]
    BY DEF AttemptsLast
  <2>2. CASE UNCHANGED <<endpoint, told, pc, spent>>
    BY <2>2 DEF AlertsAreTrue
  <2>3. CASE ChargesRise
    BY <2>3 DEF ChargesRise, Spend, AlertsAreTrue, AttemptsLast
  <2>4. CASE Restore
    BY <2>4 DEF Restore, Spend, AlertsAreTrue, AttemptsLast
  <2>5. ASSUME NEW i \in Runs, Invoke(i) \/ Read(i) \/ Throttle(i) \/ Alert(i)
        PROVE  AlertsAreTrue'
    BY <2>1, <2>5 DEF Invoke, Read, Throttle, Alert, AlertsAreTrue
  <2>6. ASSUME NEW i \in Runs, Dies(i) PROVE AlertsAreTrue'
    BY <2>1, <2>6 DEF Dies, Spend, AlertsAreTrue, AttemptsLast
  <2> QED
    BY <2>2, <2>3, <2>4, <2>5, <2>6
    DEF Next, Step, Callers, AlarmGoesOff, AlarmClears, vars
<1> QED
  BY <1>1, <1>2, AttemptsAlwaysLast, PTL DEF Spec
=============================================================================
