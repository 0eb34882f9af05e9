------------------------------ MODULE Registry ------------------------------
(***************************************************************************)
(* registry-fn: publishing a version of a tool.  Every POST /tools is one  *)
(* execution of register(), and executions of different Lambda containers  *)
(* interleave at their DynamoDB calls: the read of the caller row, the     *)
(* query for the latest version, the conditional debit, the conditional    *)
(* PutItem and, when that throws, the refund.                              *)
(*                                                                         *)
(* What may go wrong around a call is chosen by the constant Faults:       *)
(*   "stale_read"  a read answers from a replica that lags (the code asks  *)
(*                 for no consistent one);                                 *)
(*   "error"       a call is not applied and throws;                       *)
(*   "lost_reply"  a write is applied and its reply lost; the SDK sends it *)
(*                 again, MaxAttempts times in all, then throws;           *)
(*   "crash"       the function is killed, by its timeout for instance.    *)
(***************************************************************************)
EXTENDS VersionKeys, Integers, FiniteSets

CONSTANTS
  Requests,        \* the POST /tools requests that are ever made
  Callers,         \* the caller ids whose key verifies
  Suspended,       \* the callers whose row is not active
  Tools,           \* the tool_id values
  Cost,            \* PUBLISH_COST_CREDITS
  InitialCredits,  \* the balance a caller starts with
  MaxAttempts,     \* how often the SDK sends one call
  Faults

FaultKinds == {"stale_read", "error", "lost_reply", "crash"}

ASSUME RequestsAssumption == IsFiniteSet(Requests)
ASSUME CallersAssumption  == Suspended \subseteq Callers
ASSUME CostAssumption     == Cost \in Nat
ASSUME CreditsAssumption  == InitialCredits \in Nat
ASSUME AttemptsAssumption == MaxAttempts \in Nat \ {0}
ASSUME FaultsAssumption   == Faults \subseteq FaultKinds

VARIABLES
  credits,       \* callers table: the balance of each caller
  publications,  \* callers table: the counter beside it
  rows,          \* tools table: a set of rows, one per key
  answers,       \* per tool, every answer the latest-version query has had
  pc,            \* where each request is
  who, what,     \* its caller and its tool_id
  version,       \* the number it is about to publish, 0 before that
  attempts,      \* how often its current write has been sent in vain
  reply,         \* the status it answers with, 0 before that
  net            \* history: debits minus refunds applied on its behalf

table == <<credits, publications, rows, answers>>
vars  == <<credits, publications, rows, answers,
           pc, who, what, version, attempts, reply, net>>

Row == [tool : Tools, version : Nat, by : Requests]

VersionsIn(R, t) == {row.version : row \in {x \in R : x.tool = t}}

(* The version latestRow() finds; 0 stands for "no row". *)
LatestRow(R, t) ==
  IF VersionsIn(R, t) = {} THEN {0} ELSE Latest(VersionsIn(R, t))

Published(r) == \E row \in rows : row.by = r

Init ==
  /\ credits = [c \in Callers |-> InitialCredits]
  /\ publications = [c \in Callers |-> 0]
  /\ rows = {}
  /\ answers = [t \in Tools |-> {0}]
  /\ pc = [r \in Requests |-> "idle"]
  /\ who \in [Requests -> Callers]
  /\ what \in [Requests -> Tools]
  /\ version = [r \in Requests |-> 0]
  /\ attempts = [r \in Requests |-> 0]
  /\ reply = [r \in Requests |-> 0]
  /\ net = [r \in Requests |-> 0]

-----------------------------------------------------------------------------
(* Where a request goes next. *)

Goto(r, label) ==
  /\ pc' = [pc EXCEPT ![r] = label]
  /\ attempts' = [attempts EXCEPT ![r] = 0]

Answer(r, status) ==
  /\ Goto(r, "done")
  /\ reply' = [reply EXCEPT ![r] = status]

(* mutant: nothing counts the attempts *)
Resend_Endless(r) ==
  /\ attempts' = [attempts EXCEPT ![r] = @ + 1]
  /\ UNCHANGED <<pc, reply>>

(* A write whose reply is lost is sent again, or throws for good. *)
Resend(r) ==
  /\ attempts[r] + 1 < MaxAttempts
  /\ attempts' = [attempts EXCEPT ![r] = @ + 1]
  /\ UNCHANGED <<pc, reply>>

OutOfAttempts(r) == attempts[r] + 1 >= MaxAttempts

-----------------------------------------------------------------------------
(* handler() and authorise(): the balance is looked at before any money is *)
(* spent on the request, and nothing is written.                           *)

Affords(c) == credits[c] >= Cost

Admit(r) ==
  /\ pc[r] = "idle"
  /\ who[r] \notin Suspended
  /\ Affords(who[r]) \/ "stale_read" \in Faults
  /\ Goto(r, "read")
  /\ UNCHANGED <<credits, publications, rows, answers,
                 who, what, version, reply, net>>

(* 403 for a suspended caller, 402 for a short balance, 400 for a missing  *)
(* field, 403 for an owner that is not the caller's, 500 for a body that   *)
(* is no JSON or a lookup that throws.                                     *)
Refusals(c) ==
  (IF c \in Suspended THEN {403} ELSE
     {status \in {402} : ~Affords(c) \/ "stale_read" \in Faults} \cup
     {status \in {400, 403, 500} : Affords(c) \/ "stale_read" \in Faults})
  \cup {status \in {500} : "error" \in Faults}

Refuse(r) ==
  /\ pc[r] = "idle"
  /\ \E status \in Refusals(who[r]) : Answer(r, status)
  /\ UNCHANGED <<credits, publications, rows, answers,
                 who, what, version, net>>

-----------------------------------------------------------------------------
(* register(), up to the debit: the embedding, the latest version, the     *)
(* checks on the package.  All of it throws or refuses without a trace.    *)

ReadLatest(r) ==
  /\ pc[r] = "read"
  /\ \E latest \in LatestRow(rows, what[r])
                     \cup (IF "stale_read" \in Faults THEN answers[what[r]] ELSE {}) :
       version' = [version EXCEPT ![r] = latest + 1]
  /\ Goto(r, "debit")
  /\ UNCHANGED <<credits, publications, rows, answers, who, what, reply, net>>

RejectPackage(r) ==
  /\ pc[r] = "read"
  /\ Answer(r, 400)
  /\ UNCHANGED <<credits, publications, rows, answers,
                 who, what, version, net>>

(* mutant: the catch that refunds encloses the debit as well *)
ThrowUnpaid_Refunds(r) ==
  /\ "error" \in Faults
  /\ pc[r] \in {"read", "debit"}
  /\ Goto(r, "refund")
  /\ reply' = [reply EXCEPT ![r] = 500]
  /\ UNCHANGED <<credits, publications, rows, answers,
                 who, what, version, net>>

ThrowUnpaid(r) ==
  /\ "error" \in Faults
  /\ pc[r] \in {"read", "debit"}
  /\ Answer(r, 500)
  /\ UNCHANGED <<credits, publications, rows, answers,
                 who, what, version, net>>

-----------------------------------------------------------------------------
(* debit(): one conditional UpdateItem moves the balance and the counter.  *)
(* A cost of zero sends nothing.                                           *)

Charge(r) ==
  IF Cost = 0
  THEN UNCHANGED <<credits, publications, net>>
  ELSE /\ credits' = [credits EXCEPT ![who[r]] = @ - Cost]
       /\ publications' = [publications EXCEPT ![who[r]] = @ + 1]
       /\ net' = [net EXCEPT ![r] = @ + 1]

(* mutant: the debit relies on the balance authorise() has seen *)
Debit_Unconditional(r) ==
  /\ pc[r] = "debit"
  /\ Charge(r)
  /\ Goto(r, "put")
  /\ UNCHANGED <<rows, answers, who, what, version, reply>>

Debit(r) ==
  /\ pc[r] = "debit"
  /\ Affords(who[r])
  /\ Charge(r)
  /\ Goto(r, "put")
  /\ UNCHANGED <<rows, answers, who, what, version, reply>>

DebitReplyLost(r) ==
  /\ "lost_reply" \in Faults
  /\ Cost > 0
  /\ pc[r] = "debit"
  /\ Affords(who[r])
  /\ Charge(r)
  /\ Resend(r) \/ (OutOfAttempts(r) /\ Answer(r, 500))
  /\ UNCHANGED <<rows, answers, who, what, version>>

(* mutant: debit()'s ok: false is not looked at *)
DebitRefused_Ignored(r) ==
  /\ pc[r] = "debit"
  /\ ~Affords(who[r])
  /\ Goto(r, "put")
  /\ UNCHANGED <<credits, publications, rows, answers,
                 who, what, version, reply, net>>

(* ConditionalCheckFailedException: the balance is short by now. *)
DebitRefused(r) ==
  /\ pc[r] = "debit"
  /\ ~Affords(who[r])
  /\ Answer(r, 402)
  /\ UNCHANGED <<credits, publications, rows, answers,
                 who, what, version, net>>

-----------------------------------------------------------------------------
(* PutItem under attribute_not_exists: no row has the key yet.  What it    *)
(* writes replaces whatever row has its key.                               *)

(* mutant: PutItem without its condition *)
KeyFree_Unchecked(r) == TRUE

KeyFree(r) == version[r] \notin VersionsIn(rows, what[r])

Store(r) ==
  LET taken == {row \in rows : row.tool = what[r] /\ row.version = version[r]}
  IN  /\ rows' = (rows \ taken)
                   \cup {[tool |-> what[r], version |-> version[r], by |-> r]}
      /\ answers' = [answers EXCEPT ![what[r]] = @ \cup LatestRow(rows', what[r])]

(* The refund is pending and what the request will answer is decided. *)
RefundThen(r, status) ==
  /\ Goto(r, "refund")
  /\ reply' = [reply EXCEPT ![r] = status]

Put(r) ==
  /\ pc[r] = "put"
  /\ KeyFree(r)
  /\ Store(r)
  /\ Answer(r, 201)
  /\ UNCHANGED <<credits, publications, who, what, version, net>>

PutReplyLost(r) ==
  /\ "lost_reply" \in Faults
  /\ pc[r] = "put"
  /\ KeyFree(r)
  /\ Store(r)
  /\ Resend(r) \/ (OutOfAttempts(r) /\ RefundThen(r, 500))
  /\ UNCHANGED <<credits, publications, who, what, version, net>>

(* mutant: 409 is answered without the refund *)
PutRefused_NoRefund(r) ==
  /\ pc[r] = "put"
  /\ ~KeyFree(r)
  /\ Answer(r, 409)
  /\ UNCHANGED <<credits, publications, rows, answers,
                 who, what, version, net>>

PutRefused(r) ==
  /\ pc[r] = "put"
  /\ ~KeyFree(r)
  /\ RefundThen(r, 409)
  /\ UNCHANGED <<credits, publications, rows, answers,
                 who, what, version, net>>

PutThrows(r) ==
  /\ "error" \in Faults
  /\ pc[r] = "put"
  /\ RefundThen(r, 500)
  /\ UNCHANGED <<credits, publications, rows, answers,
                 who, what, version, net>>

-----------------------------------------------------------------------------
(* refund(): an unconditional UpdateItem.  A failure is logged and the     *)
(* answer goes out all the same.                                           *)

GiveBack(r) ==
  IF Cost = 0
  THEN UNCHANGED <<credits, publications, net>>
  ELSE /\ credits' = [credits EXCEPT ![who[r]] = @ + Cost]
       /\ publications' = [publications EXCEPT ![who[r]] = @ - 1]
       /\ net' = [net EXCEPT ![r] = @ - 1]

Refund(r) ==
  /\ pc[r] = "refund"
  /\ GiveBack(r)
  /\ Answer(r, reply[r])
  /\ UNCHANGED <<rows, answers, who, what, version>>

RefundReplyLost(r) ==
  /\ "lost_reply" \in Faults
  /\ Cost > 0
  /\ pc[r] = "refund"
  /\ GiveBack(r)
  /\ Resend(r) \/ (OutOfAttempts(r) /\ Answer(r, reply[r]))
  /\ UNCHANGED <<rows, answers, who, what, version>>

RefundFails(r) ==
  /\ "error" \in Faults
  /\ Cost > 0
  /\ pc[r] = "refund"
  /\ Answer(r, reply[r])
  /\ UNCHANGED <<credits, publications, rows, answers,
                 who, what, version, net>>

-----------------------------------------------------------------------------
Working == {"read", "debit", "put", "refund"}

(* The container goes away.  Nothing in the repository picks the request   *)
(* up again.                                                               *)
Crash(r) ==
  /\ "crash" \in Faults
  /\ pc[r] \in Working
  /\ Goto(r, "dead")
  /\ UNCHANGED <<credits, publications, rows, answers,
                 who, what, version, reply, net>>

Step(r) ==
  \/ ReadLatest(r)
  \/ RejectPackage(r)
  \/ Debit(r)
  \/ DebitRefused(r)
  \/ Put(r)
  \/ PutRefused(r)
  \/ Refund(r)

Fault(r) ==
  \/ ThrowUnpaid(r)
  \/ DebitReplyLost(r)
  \/ PutReplyLost(r)
  \/ PutThrows(r)
  \/ RefundReplyLost(r)
  \/ RefundFails(r)
  \/ Crash(r)

Next == \E r \in Requests : Admit(r) \/ Refuse(r) \/ Step(r) \/ Fault(r)

Spec == Init /\ [][Next]_vars

(* A request that has begun runs on: Node has nothing else to do in that   *)
(* container.  Nobody has to make a request, and no fault is ever due.     *)
FairSpec == Spec /\ \A r \in Requests : WF_vars(Step(r))

-----------------------------------------------------------------------------
(* Properties.                                                             *)

(* The types of the variables. *)
TypeOK ==
  /\ credits \in [Callers -> Int]
  /\ publications \in [Callers -> Int]
  /\ rows \subseteq Row
  /\ answers \in [Tools -> SUBSET Nat]
  /\ pc \in [Requests -> {"idle", "done", "dead"} \cup Working]
  /\ who \in [Requests -> Callers]
  /\ what \in [Requests -> Tools]
  /\ version \in [Requests -> Nat]
  /\ attempts \in [Requests -> 0..(MaxAttempts - 1)]
  /\ reply \in [Requests -> {0, 201, 400, 402, 403, 409, 500}]
  /\ net \in [Requests -> Int]

(* No balance is ever overdrawn, however many publications of one caller   *)
(* race for it and however often the SDK repeats a debit.                  *)
NeverOverdrawn == \A c \in Callers : credits[c] >= 0

(* A published row is never edited, replaced or deleted (Invariant #5).    *)
VersionsImmutable == [][rows \subseteq rows']_vars

(* Two rows never share a key, and one request never publishes twice, not  *)
(* even when its PutItem is sent again.                                    *)
OneRowPerRequest ==
  \A a, b \in rows :
    a.by = b.by \/ (a.tool = b.tool /\ a.version = b.version) => a = b

(* The versions of a tool are numbered from one without a gap, although    *)
(* each is numbered from a read that others overtake.                      *)
NoGaps ==
  \A t \in Tools : \A v \in VersionsIn(rows, t) :
    v = 1 \/ (v > 1 /\ v - 1 \in VersionsIn(rows, t))

(* A 201 is only sent for the row that is in the table under that version. *)
CreatedMeansStored ==
  \A r \in Requests :
    reply[r] = 201 =>
      [tool |-> what[r], version |-> version[r], by |-> r] \in rows

(* What the table and the replies promise, under every fault. *)
TableSound == OneRowPerRequest /\ NoGaps /\ CreatedMeansStored

(* "Debit first": no row is in the table that its caller has not paid.     *)
(* It holds as long as no reply to a write is lost.                        *)
NothingFree ==
  \A r \in Requests : Cost > 0 /\ Published(r) => net[r] = 1

(* Nobody is charged twice for a request, or refunded more than was taken. *)
ChargedAtMostOnce == \A r \in Requests : net[r] \in {0, 1}

(* A tool can be registered again, because the number after the one that   *)
(* the query answers is free, until its numbers have used up the padding.  *)
(* The first that does not fit, 10000, sorts before those that the query   *)
(* answers, so that from then on it is the number which every publication  *)
(* tries and finds taken: the tool never has another version, nor loses    *)
(* the one it has.                                                         *)
NumbersRunOut ==
  \A t \in Tools :
    LET taken == VersionsIn(rows, t)
    IN  /\ \A latest \in LatestRow(rows, t) :
             latest + 1 \in taken <=> power[Width] \in taken
        /\ \A v \in taken : v =< power[Width]

(* A caller is out of pocket only briefly: a fee that was taken ends in a  *)
(* row or is given back.  A container that is gone leaves it where it was, *)
(* and so does a refund that fails; no other step answers for a fee that   *)
(* bought nothing.                                                         *)
OutOfPocket(r) == net[r] > 0 /\ ~Published(r)
BrieflyOutOfPocket ==
  /\ \A r \in Requests : OutOfPocket(r) ~> (~OutOfPocket(r) \/ pc[r] \in {"done", "dead"})
  /\ [][\A r \in Requests :
          OutOfPocket(r)' /\ pc'[r] = "done" /\ pc[r] # "done" => pc[r] = "refund"]_vars
=============================================================================
