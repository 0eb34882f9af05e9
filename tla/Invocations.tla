----------------------------- MODULE Invocations -----------------------------
(***************************************************************************)
(* Functions that invoke functions and wait for them.  A function holds    *)
(* its place among the Ceiling that the account may run at once until it   *)
(* returns, its waiting included.                                          *)
(*                                                                         *)
(* An invocation is named by its path: <<p>> is what the endpoint starts   *)
(* for the POST p, and Append(n, i) the i-th invocation that n asks for.   *)
(* What n waits for is its group, the children first..born, which is a     *)
(* Promise.all: it settles when all of them have returned and throws with  *)
(* the first that throws, while the others go on.  A group that has        *)
(* settled, with all it asked for, is forgotten when n goes on.            *)
(*                                                                         *)
(* Faults: "lost_reply", the reply to an invocation is lost and the SDK    *)
(* invokes again; "kill", a function is killed, by its timeout for         *)
(* instance, or throws outside of every try.  A table that throws in a     *)
(* function (Mcp) is counted with them.                                    *)
(***************************************************************************)
EXTENDS Naturals, Sequences, FiniteSets, SequencesExt

CONSTANTS
  Ceiling,      \* how many functions the account runs at once
  MaxAttempts,  \* how often the SDK asks for one invocation
  MaxFaults,    \* bound: faults that happen
  Faults        \* per fault, the functions it may meet

ASSUME CeilingAssumption == Ceiling \in Nat /\ MaxAttempts \in Nat \ {0} /\ MaxFaults \in Nat
ASSUME InvocationFaultsAssumption ==
  /\ DOMAIN Faults = {"lost_reply", "kill"}
  /\ \A fault \in DOMAIN Faults : Faults[fault] \in SUBSET STRING

VARIABLES
  inv,    \* per invocation, its record
  faults  \* how many faults have happened

Nodes   == DOMAIN inv
Running == {n \in Nodes : inv[n].st = "running"}
Room    == Cardinality(Running) < Ceiling

(* fn: the function; pin, form: what a call asks for; st: "asked" until it *)
(* has a place, then "running", and in the end "ended", "killed" or, when  *)
(* the SDK has given up, "refused"; ver: the version it found; left: the   *)
(* sandboxes it has still to invoke; ok, bad: the events it has recorded.  *)
(* History: late, it began with the key suspended.                         *)
Job(fn, pin, form) ==
  [fn |-> fn, pin |-> pin, form |-> form, st |-> "asked", phase |-> "begin",
   tries |-> 0, first |-> 1, born |-> 0, ver |-> 0, left |-> 0, status |-> 0,
   ok |-> 0, bad |-> 0, late |-> FALSE]

Group(n) == {Append(n, i) : i \in inv[n].first..inv[n].born}

(* How the group of n stands. *)
Settled(n)  == \A m \in Group(n) : inv[m].st \in {"ended", "killed"}
GivenUp(n)  == \E m \in Group(n) : inv[m].st = "refused"
Casualty(n) == \E m \in Group(n) : inv[m].st = "killed"
Statuses(n) == {inv[m].status : m \in Group(n)}

Set(n, record) == inv' = [inv EXCEPT ![n] = record] /\ UNCHANGED faults

Below(n) == {m \in Nodes : IsStrictPrefix(n, m)}

(* n has seen what its group brought, and nothing is left of it. *)
Past(n) == IF Settled(n) /\ Below(n) = Group(n) THEN Group(n) ELSE {}

Moved(n, record) ==
  LET base == IF Past(n) = Group(n) THEN inv[n].first - 1 ELSE inv[n].born
  IN  [record EXCEPT !.first = base + 1, !.born = base]

(* n goes on with this record and asks for the jobs, all at once. *)
Spawn(n, record, jobs) ==
  LET moved    == Moved(n, record)
      children == {Append(n, moved.born + i) : i \in 1..Len(jobs)}
  IN  /\ inv' = [m \in (Nodes \ Past(n)) \cup children |->
                   CASE m = n          -> [moved EXCEPT !.born = @ + Len(jobs)]
                     [] m \in children -> jobs[Last(m) - moved.born]
                     [] OTHER          -> inv[m]]
      /\ UNCHANGED faults

(* Nothing of the tree of this root runs or may yet run. *)
Over(root) == \A m \in Nodes : m[1] = root => inv[m].st \notin {"running", "asked"}

(* What the endpoint starts; of what is over, nothing is kept. *)
Start(root, record, jobs) ==
  LET children == {<<root, i>> : i \in 1..Len(jobs)}
  IN  /\ inv' = [m \in {<<root>>} \cup children \cup {n \in Nodes : ~Over(n[1])} |->
                   CASE m = <<root>>  -> [record EXCEPT !.born = Len(jobs)]
                     [] m \in children -> jobs[m[2]]
                     [] OTHER         -> inv[m]]
      /\ UNCHANGED faults

(* Asked for again, or given up: in either case the place is free. *)
Again(record) ==
  IF record.tries + 1 < MaxAttempts
  THEN [record EXCEPT !.st = "asked", !.phase = "begin", !.tries = @ + 1]
  ELSE [record EXCEPT !.st = "refused"]

Returned(n, record, status) ==
  LET ended == [Moved(n, record) EXCEPT !.st = "ended", !.status = status, !.phase = "begin"]
  IN  inv' = [m \in Nodes \ Past(n) |-> IF m = n THEN ended ELSE inv[m]]

(* n returns. *)
Return(n, record, status) == Returned(n, record, status) /\ UNCHANGED faults

-----------------------------------------------------------------------------
(* The invoker is running and waits for it. *)
Awaited(n) ==
  /\ Front(n) \in Nodes
  /\ inv[Front(n)].st = "running"
  /\ n \in Group(Front(n))

(* The invoker has returned and left it behind: its environment is frozen, *)
(* until an invocation of the same function wakes it up.                   *)
Thawed(n) ==
  /\ Front(n) \in Nodes
  /\ ~Awaited(n)
  /\ inv[Front(n)].st # "killed"
  /\ \E m \in Running : inv[m].fn = inv[Front(n)].fn

(* There is a place for it. *)
Admit(n, late) ==
  /\ inv[n].st = "asked"
  /\ Room
  /\ Set(n, [inv[n] EXCEPT !.st = "running", !.late = late])

(* mutant: the SDK never gives up *)
Throttle_Forever(n) ==
  /\ inv[n].st = "asked"
  /\ ~Room
  /\ UNCHANGED <<inv, faults>>

(* TooManyRequestsException: there is none. *)
Throttle(n) ==
  /\ inv[n].st = "asked"
  /\ ~Room
  /\ Set(n, Again(inv[n]))

(* Whoever waits for n does not hear of its end. *)
Lose(n) ==
  /\ inv[n].fn \in Faults["lost_reply"] /\ faults < MaxFaults
  /\ inv[n].st = "ended"
  /\ Awaited(n)
  /\ inv' = [inv EXCEPT ![n] = Again(inv[n])]
  /\ faults' = faults + 1

Kill(n) ==
  /\ inv[n].fn \in Faults["kill"] /\ faults < MaxFaults
  /\ inv[n].st = "running"
  /\ inv' = [inv EXCEPT ![n].st = "killed"]
  /\ faults' = faults + 1
=============================================================================
