--------------------------- MODULE RegistryProofs ---------------------------
(***************************************************************************)
(* What Registry keeps true for any number of requests, callers and tools, *)
(* any price and any combination of faults, and that it implements         *)
(* PaidPublication (only the fees, and with them the refinement, need that *)
(* no reply to a write is lost).                                           *)
(***************************************************************************)
EXTENDS RegistryRefinement, FiniteSetTheorems, WellFoundedInduction, TLAPS

USE DEF Goto, Answer, Resend, OutOfAttempts, RefundThen, Affords,
        Charge, GiveBack, Working, Fault, Step

NewRow(r) == [tool |-> what[r], version |-> version[r], by |-> r]

(* latestRow() answers with a version the tool has, or with "no row". *)
LEMMA LatestIsAVersion ==
  ASSUME NEW R, NEW t
  PROVE  LatestRow(R, t) \subseteq {0} \cup VersionsIn(R, t)
BY DEF LatestRow, Latest

(* Under the condition of the PutItem, a store adds one row and touches no *)
(* other.                                                                  *)
LEMMA StoreAddsARow ==
  ASSUME NEW r \in Requests, KeyFree(r), Store(r)
  PROVE  /\ rows' = rows \cup {NewRow(r)}
         /\ \A t : VersionsIn(rows, t) \subseteq VersionsIn(rows', t)
         /\ version[r] \in VersionsIn(rows', what[r])
         /\ \A t : \A v \in VersionsIn(rows', t) :
              v \in VersionsIn(rows, t) \/ (t = what[r] /\ v = version[r])
<1>1. {row \in rows : row.tool = what[r] /\ row.version = version[r]} = {}
  BY DEF KeyFree, VersionsIn
<1>2. rows' = rows \cup {NewRow(r)}
  BY <1>1 DEF Store, NewRow
<1>3. NewRow(r).tool = what[r] /\ NewRow(r).version = version[r]
  BY DEF NewRow
<1> QED
  BY <1>2, <1>3 DEF VersionsIn

LEMMA VersionsAreNumbers ==
  ASSUME TypeOK, NEW t
  PROVE  VersionsIn(rows, t) \subseteq Nat
BY DEF TypeOK, VersionsIn, Row

LEMMA StoreTypes ==
  ASSUME TypeOK, NEW r \in Requests, KeyFree(r), Store(r)
  PROVE  rows' \subseteq Row /\ answers' \in [Tools -> SUBSET Nat]
<1>1. NewRow(r) \in Row /\ what[r] \in Tools /\ version[r] \in Nat
  BY DEF TypeOK, NewRow, Row
<1>2. rows' \subseteq Row
  BY <1>1, StoreAddsARow DEF TypeOK
<1>3. LatestRow(rows', what[r]) \subseteq Nat
  BY <1>1, StoreAddsARow, VersionsAreNumbers, LatestIsAVersion
<1>4. answers' = [answers EXCEPT ![what[r]] = @ \cup LatestRow(rows', what[r])]
  BY DEF Store
<1> QED
  BY <1>1, <1>2, <1>3, <1>4 DEF TypeOK

(* The range of every variable, for every value of the constants. *)
THEOREM TypeCorrect == Spec => []TypeOK
<1>1. Init => TypeOK
  BY CreditsAssumption, AttemptsAssumption DEF Init, TypeOK
<1>2. TypeOK /\ [Next]_vars => TypeOK'
  <2> SUFFICES ASSUME TypeOK, [Next]_vars PROVE TypeOK'
    OBVIOUS
  <2> USE CostAssumption, AttemptsAssumption DEF TypeOK
  <2>1. ASSUME NEW r \in Requests, Admit(r) PROVE TypeOK'
    BY <2>1 DEF Admit
  <2>2. ASSUME NEW r \in Requests, Refuse(r) PROVE TypeOK'
    BY <2>2 DEF Refuse, Refusals
  <2>3. ASSUME NEW r \in Requests, ReadLatest(r) PROVE TypeOK'
    <3>1. PICK latest \in LatestRow(rows, what[r]) \cup answers[what[r]] :
            version' = [version EXCEPT ![r] = latest + 1]
      BY <2>3 DEF ReadLatest
    <3>2. latest \in Nat
      BY <3>1, LatestIsAVersion, VersionsAreNumbers
    <3> QED
      BY <2>3, <3>1, <3>2 DEF ReadLatest
  <2>4. ASSUME NEW r \in Requests, RejectPackage(r) PROVE TypeOK'
    BY <2>4 DEF RejectPackage
  <2>5. ASSUME NEW r \in Requests, Debit(r) PROVE TypeOK'
    BY <2>5 DEF Debit
  <2>6. ASSUME NEW r \in Requests, DebitRefused(r) PROVE TypeOK'
    BY <2>6 DEF DebitRefused
  <2>7. ASSUME NEW r \in Requests, Put(r) PROVE TypeOK'
    BY <2>7, StoreTypes DEF Put
  <2>8. ASSUME NEW r \in Requests, PutRefused(r) PROVE TypeOK'
    BY <2>8 DEF PutRefused
  <2>9. ASSUME NEW r \in Requests, Refund(r) PROVE TypeOK'
    BY <2>9 DEF Refund
  <2>10. ASSUME NEW r \in Requests, ThrowUnpaid(r) PROVE TypeOK'
    BY <2>10 DEF ThrowUnpaid
  <2>11. ASSUME NEW r \in Requests, DebitReplyLost(r) PROVE TypeOK'
    <3>1. CASE Resend(r)
      BY <2>11, <3>1 DEF DebitReplyLost
    <3>2. CASE OutOfAttempts(r) /\ Answer(r, 500)
      BY <2>11, <3>2 DEF DebitReplyLost
    <3> QED
      BY <2>11, <3>1, <3>2 DEF DebitReplyLost
  <2>12. ASSUME NEW r \in Requests, PutReplyLost(r) PROVE TypeOK'
    BY <2>12, StoreTypes DEF PutReplyLost
  <2>13. ASSUME NEW r \in Requests, PutThrows(r) PROVE TypeOK'
    BY <2>13 DEF PutThrows
  <2>14. ASSUME NEW r \in Requests, RefundReplyLost(r) PROVE TypeOK'
    BY <2>14 DEF RefundReplyLost
  <2>15. ASSUME NEW r \in Requests, RefundFails(r) PROVE TypeOK'
    BY <2>15 DEF RefundFails
  <2>16. ASSUME NEW r \in Requests, Crash(r) PROVE TypeOK'
    BY <2>16 DEF Crash
  <2>17. CASE UNCHANGED vars
    BY <2>17 DEF vars
  <2> QED
    BY <2>1, <2>2, <2>3, <2>4, <2>5, <2>6, <2>7, <2>8, <2>9, <2>10, <2>11,
       <2>12, <2>13, <2>14, <2>15, <2>16, <2>17 DEF Next
<1> QED
  BY <1>1, <1>2, PTL DEF Spec

-----------------------------------------------------------------------------
(* The condition of the debit is evaluated where the balance is kept, so   *)
(* no interleaving, retry or crash overdraws an account.                   *)
THEOREM BalancesStayPositive == Spec => []NeverOverdrawn
<1>1. Init => NeverOverdrawn
  BY CreditsAssumption DEF Init, NeverOverdrawn
<1>2. TypeOK /\ NeverOverdrawn /\ [Next]_vars => NeverOverdrawn'
  <2> SUFFICES ASSUME TypeOK, NeverOverdrawn, [Next]_vars PROVE NeverOverdrawn'
    OBVIOUS
  <2> USE CostAssumption DEF TypeOK, NeverOverdrawn
  <2>1. CASE UNCHANGED credits
    BY <2>1
  <2>2. ASSUME NEW r \in Requests, Debit(r) \/ DebitReplyLost(r)
        PROVE  NeverOverdrawn'
    BY <2>2 DEF Debit, DebitReplyLost
  <2>3. ASSUME NEW r \in Requests, Refund(r) \/ RefundReplyLost(r)
        PROVE  NeverOverdrawn'
    BY <2>3 DEF Refund, RefundReplyLost
  <2> QED
    BY <2>1, <2>2, <2>3
    DEF Next, vars, Admit, Refuse, ReadLatest, RejectPackage, DebitRefused,
        Put, PutRefused, ThrowUnpaid, PutReplyLost, PutThrows, RefundFails, Crash
<1> QED
  BY <1>1, <1>2, TypeCorrect, PTL DEF Spec

-----------------------------------------------------------------------------
(* Rows are only ever added: PutItem can replace a row, its condition      *)
(* never lets it.                                                          *)
LEMMA RowsStep ==
  ASSUME [Next]_vars
  PROVE  \/ UNCHANGED <<rows, answers>>
         \/ \E r \in Requests :
              /\ pc[r] = "put" /\ KeyFree(r) /\ Store(r)
              /\ Put(r) \/ PutReplyLost(r)
BY DEF Next, vars, Admit, Refuse, ReadLatest, RejectPackage, Debit, DebitRefused,
       Put, PutRefused, Refund, ThrowUnpaid, DebitReplyLost, PutReplyLost,
       PutThrows, RefundReplyLost, RefundFails, Crash

THEOREM PublishedForGood == Spec => VersionsImmutable
<1>1. [Next]_vars => [rows \subseteq rows']_vars
  BY RowsStep, StoreAddsARow
<1> QED
  BY <1>1, PTL DEF Spec, VersionsImmutable

-----------------------------------------------------------------------------
(* The inductive invariant.  A request has at most the row of the key it   *)
(* chose, which it keeps; its reply is decided after its row; and a number *)
(* comes from a row that is there, because rows stay.                      *)
ReplyInv ==
  \A r \in Requests :
    /\ pc[r] \in {"idle", "read", "debit", "put"} => reply[r] = 0
    /\ pc[r] \in {"refund", "dead"} => reply[r] # 201

RowsInv ==
  \A row \in rows :
    /\ pc[row.by] \in {"put", "refund", "done", "dead"}
    /\ row = NewRow(row.by)

KeysInv ==
  \A a, b \in rows : a.tool = b.tool /\ a.version = b.version => a = b

Grounded(n, t) == n = 1 \/ n - 1 \in VersionsIn(rows, t)

NumbersInv ==
  /\ \A t \in Tools : answers[t] \subseteq {0} \cup VersionsIn(rows, t)
  /\ \A r \in Requests : pc[r] \in {"debit", "put"} =>
       version[r] >= 1 /\ Grounded(version[r], what[r])
  /\ \A t \in Tools : \A v \in VersionsIn(rows, t) : v >= 1 /\ Grounded(v, t)

(* How a step moves one request and leaves the others. *)
LEMMA RequestStep ==
  ASSUME TypeOK, ReplyInv, [Next]_vars, NEW r \in Requests
  PROVE  /\ who'[r] = who[r] /\ what'[r] = what[r]
         /\ pc[r] \in {"put", "refund", "done", "dead"} =>
              /\ pc'[r] \in {"put", "refund", "done", "dead"}
              /\ version'[r] = version[r]
         /\ version'[r] # version[r] => pc[r] = "read"
         /\ pc'[r] = "put" => pc[r] \in {"debit", "put"}
         /\ pc'[r] = "debit" => pc[r] \in {"read", "debit"}
         /\ pc'[r] \in {"idle", "read", "debit", "put"} => reply'[r] = 0
         /\ pc'[r] \in {"refund", "dead"} => reply'[r] # 201
         /\ reply'[r] = 201 => reply[r] = 201 \/ (Put(r) /\ KeyFree(r))
<1> USE DEF TypeOK, ReplyInv
<1>1. CASE UNCHANGED vars
  BY <1>1 DEF vars
<1>2. ASSUME NEW s \in Requests, Admit(s) \/ Refuse(s) \/ Step(s) \/ Fault(s)
      PROVE  /\ who' = who /\ what' = what
             /\ s # r => /\ pc'[r] = pc[r] /\ version'[r] = version[r]
                         /\ reply'[r] = reply[r]
  BY <1>2 DEF Admit, Refuse, ReadLatest, RejectPackage, Debit, DebitRefused,
       Put, PutRefused, Refund, ThrowUnpaid, DebitReplyLost, PutReplyLost,
       PutThrows, RefundReplyLost, RefundFails, Crash
<1>3. CASE Admit(r) \/ Refuse(r)
  BY <1>3 DEF Admit, Refuse, Refusals
<1>4. CASE ReadLatest(r) \/ RejectPackage(r) \/ Debit(r) \/ DebitRefused(r)
  BY <1>4 DEF ReadLatest, RejectPackage, Debit, DebitRefused
<1>5. CASE Put(r) \/ PutRefused(r) \/ Refund(r)
  BY <1>5 DEF Put, PutRefused, Refund
<1>6. CASE ThrowUnpaid(r) \/ DebitReplyLost(r) \/ PutReplyLost(r) \/ PutThrows(r)
  BY <1>6 DEF ThrowUnpaid, DebitReplyLost, PutReplyLost, PutThrows
<1>7. CASE RefundReplyLost(r) \/ RefundFails(r) \/ Crash(r)
  BY <1>7 DEF RefundReplyLost, RefundFails, Crash
<1>8. CASE \E s \in Requests \ {r} : Admit(s) \/ Refuse(s) \/ Step(s) \/ Fault(s)
  BY <1>2, <1>8
<1> QED
  BY <1>1, <1>3, <1>4, <1>5, <1>6, <1>7, <1>8 DEF Next

(* A number is taken from an answer of the query, and nothing else. *)
LEMMA NumberComesFromARead ==
  ASSUME TypeOK, [Next]_vars, NEW r \in Requests, pc[r] = "read", pc'[r] = "debit"
  PROVE  /\ UNCHANGED rows
         /\ \E latest \in LatestRow(rows, what[r]) \cup answers[what[r]] :
              version'[r] = latest + 1
<1>1. ReadLatest(r)
  BY DEF TypeOK, Next, vars, Admit, Refuse, ReadLatest, RejectPackage, Debit,
       DebitRefused, Put, PutRefused, Refund, ThrowUnpaid, DebitReplyLost,
       PutReplyLost, PutThrows, RefundReplyLost, RefundFails, Crash
<1> QED
  BY <1>1 DEF ReadLatest, TypeOK

IInv == TypeOK /\ ReplyInv /\ RowsInv /\ KeysInv /\ NumbersInv /\ CreatedMeansStored

LEMMA IInvInit == Init => IInv
<1> SUFFICES ASSUME Init PROVE IInv
  OBVIOUS
<1>1. TypeOK
  BY CreditsAssumption, AttemptsAssumption DEF Init, TypeOK
<1>2. \A t : VersionsIn(rows, t) = {}
  BY DEF Init, VersionsIn
<1> QED
  BY <1>1, <1>2
  DEF Init, IInv, ReplyInv, RowsInv, KeysInv, NumbersInv, CreatedMeansStored

LEMMA IInvStep == IInv /\ TypeOK' /\ [Next]_vars => IInv'
<1> SUFFICES ASSUME IInv, TypeOK', [Next]_vars PROVE IInv'
  OBVIOUS
<1> USE DEF IInv
<1>1. ReplyInv'
  BY RequestStep DEF ReplyInv
<1>2. /\ rows \subseteq rows'
      /\ \A t : VersionsIn(rows, t) \subseteq VersionsIn(rows', t)
  BY RowsStep, StoreAddsARow
<1>3. \A row \in rows : row.by \in Requests
  BY DEF TypeOK, Row
<1>4. \A row \in rows : pc'[row.by] \in {"put", "refund", "done", "dead"}
                          /\ row = NewRow(row.by)'
  BY <1>3, RequestStep DEF RowsInv, NewRow
<1>5. RowsInv' /\ KeysInv'
  <2>1. CASE UNCHANGED <<rows, answers>>
    BY <1>4, <2>1 DEF RowsInv, KeysInv
  <2>2. ASSUME NEW r \in Requests, pc[r] = "put", KeyFree(r), Store(r)
        PROVE  RowsInv' /\ KeysInv'
    <3>1. rows' = rows \cup {NewRow(r)}
      BY <2>2, StoreAddsARow
    <3>2. NewRow(r).by = r /\ NewRow(r) = NewRow(r)'
      BY <2>2, RequestStep DEF NewRow
    <3>3. pc'[r] \in {"put", "refund", "done", "dead"}
      BY <2>2, RequestStep
    <3>4. \A row \in rows : ~(row.tool = what[r] /\ row.version = version[r])
      BY <2>2 DEF KeyFree, VersionsIn
    <3>5. NewRow(r).tool = what[r] /\ NewRow(r).version = version[r]
      BY DEF NewRow
    <3>6. RowsInv'
      BY <1>4, <3>1, <3>2, <3>3 DEF RowsInv
    <3>7. KeysInv'
      BY <3>1, <3>4, <3>5 DEF KeysInv
    <3> QED
      BY <3>6, <3>7
  <2> QED
    BY <2>1, <2>2, RowsStep
<1>6. NumbersInv'
  <2>1. \A t \in Tools : answers'[t] \subseteq {0} \cup VersionsIn(rows', t)
    <3>1. CASE UNCHANGED <<rows, answers>>
      BY <3>1 DEF NumbersInv
    <3>2. ASSUME NEW r \in Requests, KeyFree(r), Store(r), NEW t \in Tools
          PROVE  answers'[t] \subseteq {0} \cup VersionsIn(rows', t)
      <4>1. answers'[t] \subseteq answers[t] \cup LatestRow(rows', t)
        BY <3>2 DEF Store, TypeOK
      <4> QED
        BY <4>1, <1>2, LatestIsAVersion DEF NumbersInv
    <3> QED
      BY <3>1, <3>2, RowsStep
  <2>2. ASSUME NEW r \in Requests, pc'[r] \in {"debit", "put"}
        PROVE  version'[r] >= 1 /\ Grounded(version[r], what[r])'
    <3>1. CASE pc[r] \in {"debit", "put"}
      <4>1. version'[r] = version[r] /\ what'[r] = what[r]
        BY <3>1, RequestStep
      <4> QED
        BY <3>1, <4>1, <1>2 DEF NumbersInv, Grounded
    <3>2. CASE pc[r] = "read" /\ pc'[r] = "debit"
      <4>1. PICK latest \in LatestRow(rows, what[r]) \cup answers[what[r]] :
              version'[r] = latest + 1
        BY <3>2, NumberComesFromARead
      <4>2. latest \in {0} \cup VersionsIn(rows, what[r])
        BY <4>1, LatestIsAVersion DEF NumbersInv, TypeOK
      <4>3. latest \in Nat /\ what'[r] = what[r]
        BY <4>2, VersionsAreNumbers, RequestStep
      <4>4. latest = 0 \/ latest \in VersionsIn(rows', what[r])
        BY <4>2, <1>2
      <4> QED
        BY <4>1, <4>3, <4>4 DEF Grounded
    <3> QED
      BY <2>2, <3>1, <3>2, RequestStep DEF TypeOK
  <2>3. ASSUME NEW t \in Tools, NEW v \in VersionsIn(rows', t)
        PROVE  v >= 1 /\ Grounded(v, t)'
    <3>1. CASE v \in VersionsIn(rows, t)
      BY <3>1, <1>2 DEF NumbersInv, Grounded
    <3>2. CASE \E r \in Requests : /\ pc[r] = "put" /\ t = what[r] /\ v = version[r]
      BY <3>2, <1>2 DEF NumbersInv, Grounded
    <3> QED
      BY <3>1, <3>2, RowsStep, StoreAddsARow
  <2> QED
    BY <2>1, <2>2, <2>3 DEF NumbersInv
<1>7. CreatedMeansStored'
  <2> SUFFICES ASSUME NEW r \in Requests, reply'[r] = 201
               PROVE  NewRow(r)' \in rows'
    BY DEF CreatedMeansStored, NewRow
  <2>1. CASE reply[r] = 201
    <3>1. pc[r] = "done"
      <4>1. pc[r] \in {"idle", "done", "dead"} \cup Working
        BY DEF TypeOK
      <4>2. /\ pc[r] \in {"idle", "read", "debit", "put"} => reply[r] = 0
            /\ pc[r] \in {"refund", "dead"} => reply[r] # 201
        BY DEF ReplyInv
      <4> QED
        BY <2>1, <4>1, <4>2
    <3>2. NewRow(r) \in rows
      BY <2>1 DEF CreatedMeansStored, NewRow
    <3>3. NewRow(r)' = NewRow(r)
      BY <3>1, RequestStep DEF NewRow
    <3> QED
      BY <1>2, <3>2, <3>3
  <2>2. CASE Put(r) /\ KeyFree(r)
    BY <2>2, StoreAddsARow DEF Put, NewRow
  <2> QED
    BY <2>1, <2>2, RequestStep
<1> QED
  BY <1>1, <1>5, <1>6, <1>7

(* Keys are unique and a request owns at most one row; the versions of a   *)
(* tool have no gap; and a 201 names a row that is in the table.  All of   *)
(* it under every fault the model knows.                                   *)
THEOREM TableIsSound == Spec => []TableSound
<1>1. IInv => OneRowPerRequest
  BY DEF IInv, RowsInv, KeysInv, OneRowPerRequest
<1>2. IInv => NoGaps
  <2> SUFFICES ASSUME IInv, NEW t \in Tools, NEW v \in VersionsIn(rows, t), v # 1
               PROVE  v > 1 /\ v - 1 \in VersionsIn(rows, t)
    BY DEF NoGaps
  <2> QED
    BY VersionsAreNumbers DEF IInv, NumbersInv, Grounded
<1>3. IInv => CreatedMeansStored
  BY DEF IInv
<1>4. IInv => TableSound
  BY <1>1, <1>2, <1>3 DEF TableSound
<1> QED
  BY <1>4, IInvInit, IInvStep, TypeCorrect, PTL DEF Spec

-----------------------------------------------------------------------------
(* The debit comes first.  Without lost replies the history variable net   *)
(* follows from where a request is, and that is inductive.                 *)
Reliable == "lost_reply" \notin Faults

FeeInv ==
  \A r \in Requests :
    /\ net[r] \in {0, 1}
    /\ pc[r] \in {"idle", "read", "debit"} => net[r] = 0
    /\ pc[r] \in {"put", "refund"} /\ Cost > 0 => net[r] = 1
    /\ Published(r) => reply[r] = 201
    /\ pc[r] = "done" /\ reply[r] = 201 /\ Cost > 0 => net[r] = 1

(* Only its own PutItem publishes a request. *)
LEMMA PublishedStep ==
  ASSUME Reliable, [Next]_vars, NEW r \in Requests, Published(r)'
  PROVE  Published(r) \/ Put(r)
<1>1. CASE UNCHANGED <<rows, answers>>
  BY <1>1 DEF Published
<1>2. ASSUME NEW s \in Requests, KeyFree(s), Store(s), Put(s)
      PROVE  Published(r) \/ Put(r)
  <2>1. rows' = rows \cup {NewRow(s)} /\ NewRow(s).by = s
    BY <1>2, StoreAddsARow DEF NewRow
  <2> QED
    BY <1>2, <2>1 DEF Published
<1> QED
  BY <1>1, <1>2, RowsStep DEF Reliable, PutReplyLost

LEMMA FeeStep ==
  ASSUME Reliable, TypeOK, ReplyInv, FeeInv, [Next]_vars
  PROVE  FeeInv'
<1> USE CostAssumption DEF TypeOK, FeeInv
<1> DEFINE Fee(r) ==
      /\ net[r] \in {0, 1}
      /\ pc[r] \in {"idle", "read", "debit"} => net[r] = 0
      /\ pc[r] \in {"put", "refund"} /\ Cost > 0 => net[r] = 1
      /\ pc[r] = "done" /\ reply[r] = 201 /\ Cost > 0 => net[r] = 1
<1> SUFFICES ASSUME NEW r \in Requests
             PROVE  Fee(r)' /\ (Published(r)' => reply'[r] = 201)
  BY DEF FeeInv
<1>1. Published(r) => reply[r] = 201 /\ pc[r] = "done"
  BY DEF ReplyInv
<1>2. ASSUME UNCHANGED <<pc[r], reply[r], net[r]>>
      PROVE  Fee(r)' /\ (Published(r)' => reply'[r] = 201)
  <2>1. ~Put(r)
    BY <1>2 DEF Put
  <2> QED
    BY <1>2, <2>1, PublishedStep
<1>3. ASSUME NEW s \in Requests \ {r}, Admit(s) \/ Refuse(s) \/ Step(s) \/ Fault(s)
      PROVE  UNCHANGED <<pc[r], reply[r], net[r]>>
  BY <1>3 DEF Admit, Refuse, ReadLatest, RejectPackage, Debit, DebitRefused,
       Put, PutRefused, Refund, ThrowUnpaid, DebitReplyLost, PutReplyLost,
       PutThrows, RefundReplyLost, RefundFails, Crash
<1>4. CASE Put(r)
  BY <1>4 DEF Put
<1>5. ASSUME pc[r] # "done", ~Put(r), Fee(r)'
      PROVE  Fee(r)' /\ (Published(r)' => reply'[r] = 201)
  BY <1>1, <1>5, PublishedStep
<1>6. CASE Admit(r) \/ Refuse(r)
  BY <1>5, <1>6 DEF Admit, Refuse, Refusals, Put
<1>7. CASE ReadLatest(r) \/ RejectPackage(r) \/ DebitRefused(r) \/ ThrowUnpaid(r)
  BY <1>5, <1>7 DEF ReadLatest, RejectPackage, DebitRefused, ThrowUnpaid, Put
<1>8. CASE Debit(r)
  BY <1>5, <1>8 DEF Debit, Put
<1>9. CASE PutRefused(r) \/ PutThrows(r)
  <2>1. pc[r] = "put" /\ pc'[r] = "refund" /\ net'[r] = net[r] /\ ~Put(r)
    BY <1>9 DEF PutRefused, PutThrows, Put
  <2> QED
    BY <1>5, <2>1
<1>10. CASE Refund(r) \/ RefundFails(r)
  <2>1. pc[r] = "refund" /\ pc'[r] = "done" /\ reply'[r] # 201 /\ ~Put(r)
    BY <1>10 DEF Refund, RefundFails, Put, ReplyInv
  <2>2. net'[r] \in {0, 1}
    BY <1>10 DEF Refund, RefundFails
  <2> QED
    BY <1>5, <2>1, <2>2
<1>11. CASE Crash(r)
  BY <1>5, <1>11 DEF Crash, Put
<1>12. CASE UNCHANGED vars
  BY <1>2, <1>12 DEF vars
<1> QED
  BY <1>2, <1>3, <1>4, <1>6, <1>7, <1>8, <1>9, <1>10, <1>11, <1>12
  DEF Next, Reliable, DebitReplyLost, PutReplyLost, RefundReplyLost

(* "Debit first": as long as no reply to a write is lost, no row is in the *)
(* table that its caller has not paid, and nobody pays for a request twice *)
(* or gets more back than was taken, whatever else fails.                  *)
THEOREM NoRowForNothing ==
  Reliable => (Spec => [](NothingFree /\ ChargedAtMostOnce))
<1> SUFFICES ASSUME Reliable PROVE Spec => [](NothingFree /\ ChargedAtMostOnce)
  OBVIOUS
<1>1. Init => FeeInv
  BY DEF Init, FeeInv, Published
<1>2. IInv /\ FeeInv /\ [Next]_vars => FeeInv'
  BY FeeStep DEF IInv
<1>3. IInv /\ FeeInv => NothingFree /\ ChargedAtMostOnce
  BY DEF IInv, TypeOK, ReplyInv, FeeInv, NothingFree, ChargedAtMostOnce
<1> QED
  BY <1>1, <1>2, <1>3, IInvInit, IInvStep, TypeCorrect, PTL DEF Spec

-----------------------------------------------------------------------------
(* Every nonempty set of numbers has a least one. *)
LEMMA LeastNumber ==
  ASSUME NEW S \in SUBSET Nat, S # {}
  PROVE  \E n \in S : \A m \in S : n =< m
<1> DEFINE R == OpToRel(<, Nat)
<1>1. IsWellFoundedOn(R, Nat)
  BY NatLessThanWellFounded
<1>2. \A x, y \in Nat : x < y => <<x, y>> \in R
  BY DEF OpToRel
<1> HIDE DEF R
<1>3. PICK n \in S : \A m \in S : ~(<<m, n>> \in R)
  BY <1>1, WFMin
<1>4. ASSUME NEW m \in S PROVE n =< m
  <2>1. m \in Nat /\ n \in Nat
    OBVIOUS
  <2>2. ~(m < n)
    BY <1>2, <1>3, <2>1, Zenon
  <2> QED
    BY <2>1, <2>2
<1> QED
  BY <1>4

-----------------------------------------------------------------------------
(* power is what its definition says.  As no induction theorem of the      *)
(* library can be cited for it, the least number at which it might not be  *)
(* is refuted.                                                             *)
Powers(f, n) ==
  /\ f \in [0..n -> Nat]
  /\ \A k \in 0..n : f[k] = IF k = 0 THEN 1 ELSE Base * f[k - 1]

LEMMA PowersExtend ==
  ASSUME NEW n \in Nat, NEW f, Powers(f, n)
  PROVE  \E g : Powers(g, n + 1)
<1> DEFINE g == [k \in 0..n + 1 |-> IF k \in 0..n THEN f[k] ELSE Base * f[n]]
<1>1. f[n] \in Nat /\ Base * f[n] \in Nat
  <2>1. n \in 0..n
    OBVIOUS
  <2> QED
    BY <2>1, BaseAssumption DEF Powers
<1>2. g \in [0..n + 1 -> Nat]
  BY <1>1 DEF Powers
<1>3. ASSUME NEW k \in 0..n + 1
      PROVE  g[k] = IF k = 0 THEN 1 ELSE Base * g[k - 1]
  <2>1. CASE k = 0
    <3>1. 0 \in 0..n
      OBVIOUS
    <3> QED
      BY <2>1, <3>1 DEF Powers
  <2>2. CASE k # 0 /\ k \in 0..n
    <3>1. k - 1 \in 0..n /\ k - 1 \in 0..n + 1 /\ k \in 0..n
      BY <2>2
    <3>2. f[k] = Base * f[k - 1]
      BY <2>2, <3>1 DEF Powers
    <3> QED
      BY <2>2, <3>1, <3>2
  <2>3. CASE k = n + 1
    <3>1. k \notin 0..n /\ k - 1 = n /\ n \in 0..n /\ n \in 0..n + 1 /\ k # 0
      BY <2>3
    <3> QED
      BY <2>3, <3>1
  <2> QED
    BY <2>1, <2>2, <2>3
<1> HIDE DEF g
<1> QED
  BY <1>2, <1>3 DEF Powers

LEMMA PowersExist == \A n \in Nat : \E f : Powers(f, n)
<1> DEFINE none == {n \in Nat : ~ \E f : Powers(f, n)}
<1> SUFFICES ASSUME none # {} PROVE FALSE
  OBVIOUS
<1>1. PICK n \in none : \A m \in none : n =< m
  BY LeastNumber
<1>2. n # 0
  <2>1. Powers([k \in 0..0 |-> 1], 0)
    BY DEF Powers
  <2> QED
    BY <2>1
<1>3. n - 1 \in Nat /\ ~(n =< n - 1) /\ (n - 1) + 1 = n
  BY <1>2
<1>4. PICK f : Powers(f, n - 1)
  BY <1>1, <1>3
<1>5. \E g : Powers(g, n)
  BY <1>3, <1>4, PowersExtend
<1> QED
  BY <1>5

(* Two such functions agree where both are defined. *)
LEMMA PowersAgree ==
  ASSUME NEW n \in Nat, NEW f, Powers(f, n), NEW m \in Nat, NEW g, Powers(g, m),
         NEW k \in Nat, k =< n, k =< m
  PROVE  f[k] = g[k]
<1> DEFINE wrong == {i \in Nat : i =< k /\ f[i] # g[i]}
<1>1. wrong = {}
  <2> SUFFICES ASSUME wrong # {} PROVE FALSE
    OBVIOUS
  <2>1. PICK i \in wrong : \A j \in wrong : i =< j
    BY LeastNumber
  <2>2. i \in 0..n /\ i \in 0..m
    BY <2>1
  <2>3. /\ f[i] = IF i = 0 THEN 1 ELSE Base * f[i - 1]
        /\ g[i] = IF i = 0 THEN 1 ELSE Base * g[i - 1]
    BY <2>2 DEF Powers
  <2>4. i # 0
    BY <2>1, <2>3
  <2>5. i - 1 \in Nat /\ i - 1 =< k /\ ~(i =< i - 1)
    BY <2>1, <2>4
  <2>6. f[i - 1] = g[i - 1]
    BY <2>1, <2>5
  <2> QED
    BY <2>1, <2>3, <2>4, <2>6
<1> QED
  BY <1>1

LEMMA PowerIs ==
  /\ power \in [Nat -> Nat]
  /\ \A k \in Nat : power[k] = IF k = 0 THEN 1 ELSE Base * power[k - 1]
<1> DEFINE of(k)    == CHOOSE f : Powers(f, k)
           tower    == [k \in Nat |-> of(k)[k]]
           right(g) == g = [k \in Nat |-> IF k = 0 THEN 1 ELSE Base * g[k - 1]]
<1>1. \A k \in Nat : Powers(of(k), k)
  BY PowersExist
<1> HIDE DEF of
<1>2. ASSUME NEW k \in Nat
      PROVE  tower[k] \in Nat /\ tower[k] = IF k = 0 THEN 1 ELSE Base * tower[k - 1]
  <2>1. Powers(of(k), k) /\ k \in 0..k
    BY <1>1
  <2>2. of(k)[k] \in Nat /\ of(k)[k] = IF k = 0 THEN 1 ELSE Base * of(k)[k - 1]
    BY <2>1 DEF Powers
  <2>3. CASE k = 0
    BY <2>2, <2>3
  <2>4. CASE k # 0
    <3>1. k - 1 \in Nat /\ k - 1 =< k
      BY <2>4
    <3>2. Powers(of(k - 1), k - 1)
      BY <1>1, <3>1
    <3>3. of(k)[k - 1] = of(k - 1)[k - 1]
      BY <2>1, <3>1, <3>2, PowersAgree
    <3> QED
      BY <2>2, <2>4, <3>1, <3>3
  <2> QED
    BY <2>3, <2>4
<1> HIDE DEF tower
<1>3. tower = [k \in Nat |-> tower[k]]
  BY DEF tower
<1>4. right(tower)
  BY <1>2, <1>3
<1>5. power = CHOOSE g : right(g)
  BY DEF power
<1>6. right(CHOOSE g : right(g))
  <2> HIDE DEF right
  <2> QED
    BY <1>4, Zenon
<1>7. right(power)
  <2> HIDE DEF right, power
  <2> QED
    BY <1>5, <1>6, Zenon
<1> HIDE DEF power
<1>8. \A k \in Nat : power[k] = IF k = 0 THEN 1 ELSE Base * power[k - 1]
  BY <1>7
<1>9. power = [k \in Nat |-> power[k]]
  BY <1>7
<1>10. \A k \in Nat : power[k] = tower[k]
  <2> DEFINE wrong == {k \in Nat : power[k] # tower[k]}
  <2> SUFFICES ASSUME wrong # {} PROVE FALSE
    OBVIOUS
  <2>1. PICK k \in wrong : \A j \in wrong : k =< j
    BY LeastNumber
  <2>2. /\ power[k] = IF k = 0 THEN 1 ELSE Base * power[k - 1]
        /\ tower[k] = IF k = 0 THEN 1 ELSE Base * tower[k - 1]
    BY <1>2, <1>8, <2>1
  <2>3. k # 0
    BY <2>1, <2>2
  <2>4. k - 1 \in Nat /\ ~(k =< k - 1)
    BY <2>1, <2>3
  <2>5. power[k - 1] = tower[k - 1]
    BY <2>1, <2>4
  <2> QED
    BY <2>1, <2>2, <2>3, <2>5
<1> QED
  BY <1>2, <1>8, <1>9, <1>10

(* Powers of a base of two or more are positive and grow. *)
LEMMA PowersGrow ==
  /\ \A k \in Nat : power[k] \in Nat /\ power[k] >= 1 /\ power[k + 1] = Base * power[k]
  /\ \A k \in Nat : power[k] < power[k + 1]
  /\ \A j, k \in Nat : j =< k => power[j] =< power[k]
<1> HIDE DEF power
<1>1. \A k \in Nat : power[k] \in Nat /\ power[k + 1] = Base * power[k]
  BY PowerIs
<1>2. \A k \in Nat : power[k] >= 1
  <2> DEFINE zero == {k \in Nat : ~(power[k] >= 1)}
  <2> SUFFICES ASSUME zero # {} PROVE FALSE
    OBVIOUS
  <2>1. PICK k \in zero : \A j \in zero : k =< j
    BY LeastNumber
  <2>2. k # 0
    BY <2>1, PowerIs
  <2>3. k - 1 \in Nat /\ ~(k =< k - 1) /\ (k - 1) + 1 = k
    BY <2>1, <2>2
  <2>4. power[k - 1] >= 1 /\ power[k - 1] \in Nat /\ power[k] = Base * power[k - 1]
    BY <1>1, <2>1, <2>3
  <2>5. Base * power[k - 1] >= 1
    BY <2>4, BaseAssumption
  <2> QED
    BY <2>1, <2>4, <2>5
<1>3. ASSUME NEW k \in Nat PROVE power[k] < power[k + 1]
  <2>1. power[k] \in Nat /\ power[k] >= 1 /\ power[k + 1] = Base * power[k]
    BY <1>1, <1>2
  <2>2. Base \in Nat /\ Base >= 2
    BY BaseAssumption
  <2>3. \A p \in Nat : p >= 1 => p < Base * p
    BY <2>2
  <2> QED
    BY <2>1, <2>3
<1>4. ASSUME NEW j \in Nat, NEW k \in Nat, j =< k PROVE power[j] =< power[k]
  <2> DEFINE lower == {i \in Nat : j =< i /\ ~(power[j] =< power[i])}
  <2>1. lower = {}
    <3> SUFFICES ASSUME lower # {} PROVE FALSE
      OBVIOUS
    <3>1. PICK i \in lower : \A h \in lower : i =< h
      BY LeastNumber
    <3>2. power[i] \in Nat /\ power[j] \in Nat
      BY <1>1, <3>1
    <3>3. i # j
      BY <3>1, <3>2
    <3>4. i - 1 \in Nat /\ j =< i - 1 /\ ~(i =< i - 1) /\ (i - 1) + 1 = i
      BY <3>1, <3>3
    <3>5. power[j] =< power[i - 1] /\ power[i - 1] < power[i] /\ power[i - 1] \in Nat
      BY <1>1, <1>3, <3>1, <3>4
    <3> QED
      BY <3>1, <3>2, <3>5
  <2> QED
    BY <1>4, <2>1
<1> QED
  BY <1>1, <1>2, <1>3, <1>4

(* A number below the power of the width is padded to the width; that      *)
(* power is the first to be longer, by one digit.                          *)
LEMMA Lengths ==
  /\ \A n \in Nat : n < power[Width] => PadLength(n) = Width
  /\ PadLength(power[Width]) = Width + 1
<1> HIDE DEF power
<1>1. Width \in Nat /\ Width >= 1
  BY WidthAssumption
<1>2. ASSUME NEW n \in Nat, n < power[Width] PROVE PadLength(n) = Width
  <2>1. Width \in Width .. Width + n
    BY <1>1
  <2>2. ASSUME NEW k \in Width .. Width + n, power[k - 1] =< n PROVE k = Width
    <3> SUFFICES ASSUME k # Width PROVE FALSE
      OBVIOUS
    <3>1. k - 1 \in Nat /\ Width =< k - 1
      BY <1>1
    <3>2. power[Width] =< power[k - 1] /\ power[Width] \in Nat /\ power[k - 1] \in Nat
      BY <1>1, <3>1, PowersGrow
    <3> QED
      BY <1>2, <2>2, <3>2
  <2> QED
    BY <1>2, <2>1, <2>2 DEF PadLength
<1>3. PadLength(power[Width]) = Width + 1
  <2> DEFINE P == power[Width]
  <2>1. /\ P \in Nat /\ P >= 1 /\ P < power[Width + 1]
        /\ (Width + 1) - 1 = Width /\ Width + 1 \in Width .. Width + P
    BY <1>1, PowersGrow
  <2>2. ASSUME NEW k \in Width .. Width + P, P < power[k], k = Width \/ power[k - 1] =< P
        PROVE  k = Width + 1
    <3>1. k # Width
      BY <2>1, <2>2
    <3> SUFFICES ASSUME k # Width + 1 PROVE FALSE
      OBVIOUS
    <3>2. k - 1 \in Nat /\ Width + 1 =< k - 1 /\ Width + 1 \in Nat
      BY <1>1, <2>1, <3>1
    <3>3. power[Width + 1] =< power[k - 1] /\ power[Width + 1] \in Nat /\ power[k - 1] \in Nat
      BY <3>2, PowersGrow
    <3> QED
      BY <2>1, <2>2, <3>1, <3>3
  <2> HIDE DEF P
  <2>3. PadLength(P) = Width + 1
    BY <2>1, <2>2 DEF PadLength, P
  <2> QED
    BY <2>3 DEF P
<1> QED
  BY <1>2, <1>3

(* How the keys sort up to the first that does not fit. *)
LEMMA KeysSort ==
  /\ power[Width] \in Nat /\ power[Width] >= 3
  /\ \A m, n \in Nat : m < power[Width] /\ n < power[Width] => (SortsBefore(m, n) <=> m < n)
  /\ ~ SortsBefore(power[Width] - 1, power[Width])
<1> HIDE DEF power
<1> DEFINE P == power[Width]
<1>1. Width \in Nat /\ Width >= 1 /\ Base \in Nat /\ Base >= 2 /\ (Base > 2 \/ Width > 1)
  BY BaseAssumption, WidthAssumption
<1>2. P \in Nat /\ P >= 3
  <2>1. power[0] = 1 /\ power[1] = Base * 1 /\ power[2] = Base * power[1]
    BY PowerIs, PowersGrow
  <2>2. power[1] =< P /\ P \in Nat
    BY <1>1, PowersGrow
  <2>3. CASE Base > 2
    BY <1>1, <2>1, <2>2, <2>3
  <2>4. CASE Width > 1
    <3>1. power[2] =< P
      BY <1>1, <2>4, PowersGrow
    <3>2. Base * Base >= 4
      BY <1>1
    <3> QED
      BY <1>1, <2>1, <2>2, <3>1, <3>2
  <2> QED
    BY <1>1, <2>3, <2>4
<1>3. ASSUME NEW m \in Nat, NEW n \in Nat, m < P, n < P
      PROVE  SortsBefore(m, n) <=> m < n
  <2>1. PadLength(m) = Width /\ PadLength(n) = Width
    BY <1>3, Lengths
  <2> QED
    BY <1>1, <2>1 DEF SortsBefore
<1>4. ~ SortsBefore(P - 1, P)
  <2>1. P - 1 \in Nat /\ P - 1 < P
    BY <1>2
  <2>2. PadLength(P - 1) = Width /\ PadLength(P) = Width + 1 /\ (Width + 1) - Width = 1
    BY <1>1, <2>1, Lengths
  <2>3. power[1] = Base
    BY <1>1, PowerIs
  <2>4. ~(P - 1 =< P \div Base)
    <3> DEFINE q == P \div Base
    <3>1. q \in Nat /\ Base * q =< P
      BY <1>1, <1>2
    <3>2. 2 * q =< Base * q
      BY <1>1, <3>1
    <3> HIDE DEF q
    <3>3. ~(P - 1 =< q)
      BY <1>2, <3>1, <3>2, <1>1
    <3> QED
      BY <3>3 DEF q
  <2> HIDE DEF P
  <2> QED
    BY <1>1, <2>2, <2>3, <2>4 DEF SortsBefore
<1> QED
  BY <1>2, <1>3, <1>4

(* Of versions without a gap that reach at most to that key, the query     *)
(* answers one below it, and the highest of these.                         *)
LEMMA LatestFits ==
  ASSUME NEW V \in SUBSET Nat, NEW latest \in Latest(V),
         \A v \in V : v >= 1 /\ v =< power[Width] /\ (v = 1 \/ v - 1 \in V)
  PROVE  /\ latest < power[Width]
         /\ latest + 1 \in V <=> power[Width] \in V
<1> HIDE DEF power
<1> DEFINE P == power[Width]
<1>1. P \in Nat /\ P >= 3
  BY KeysSort
<1>2. \A m, n \in Nat : m < P /\ n < P => (SortsBefore(m, n) <=> m < n)
  BY KeysSort
<1>3. ~ SortsBefore(P - 1, P)
  BY KeysSort
<1>4. latest \in V /\ latest \in Nat /\ \A v \in V \ {latest} : SortsBefore(v, latest)
  BY DEF Latest
<1>5. P \in V => P - 1 \in V /\ P - 1 # P /\ P - 1 \in Nat /\ P - 1 < P
  BY <1>1
<1>6. latest < P
  <2>1. latest # P
    BY <1>3, <1>4, <1>5
  <2> QED
    BY <1>1, <1>4, <2>1
<1>7. ASSUME latest + 1 \in V PROVE P \in V
  <2>1. latest + 1 # latest /\ ~(latest + 1 < latest) /\ latest + 1 \in Nat
    BY <1>4
  <2>2. SortsBefore(latest + 1, latest)
    BY <1>4, <1>7, <2>1
  <2>3. ~(latest + 1 < P)
    BY <1>2, <1>4, <1>6, <2>1, <2>2
  <2>4. latest + 1 = P
    BY <1>1, <1>4, <1>6, <2>3
  <2> QED
    BY <1>7, <2>4
<1>8. ASSUME P \in V PROVE latest + 1 \in V
  <2>1. P - 1 \in V /\ P - 1 \in Nat /\ P - 1 < P
    BY <1>5, <1>8
  <2>2. latest = P - 1
    <3> SUFFICES ASSUME latest # P - 1 PROVE FALSE
      OBVIOUS
    <3>1. SortsBefore(P - 1, latest)
      BY <1>4, <2>1
    <3>2. P - 1 < latest
      BY <1>2, <1>4, <1>6, <2>1, <3>1
    <3> QED
      BY <1>1, <1>4, <1>6, <3>2
  <2> QED
    BY <1>1, <1>8, <2>2
<1> QED
  BY <1>6, <1>7, <1>8

(* No number goes past the first that does not fit, and none of the query's *)
(* answers, however old, reaches it.                                       *)
WithinPadding ==
  /\ \A t \in Tools : \A answer \in answers[t] : answer < power[Width]
  /\ \A r \in Requests : pc[r] \in {"debit", "put"} => version[r] =< power[Width]
  /\ \A t \in Tools : \A v \in VersionsIn(rows, t) : v =< power[Width]

LEMMA AnswersFit ==
  ASSUME IInv, NEW t \in Tools, NEW latest \in LatestRow(rows, t),
         \A v \in VersionsIn(rows, t) : v =< power[Width]
  PROVE  /\ latest < power[Width]
         /\ latest + 1 \in VersionsIn(rows, t) <=> power[Width] \in VersionsIn(rows, t)
<1> HIDE DEF power
<1>1. power[Width] \in Nat /\ power[Width] >= 3
  BY KeysSort
<1>2. VersionsIn(rows, t) \in SUBSET Nat
  BY VersionsAreNumbers DEF IInv
<1>3. CASE VersionsIn(rows, t) = {}
  BY <1>1, <1>3 DEF LatestRow
<1>4. CASE VersionsIn(rows, t) # {}
  <2>1. latest \in Latest(VersionsIn(rows, t))
    BY <1>4 DEF LatestRow
  <2>2. \A v \in VersionsIn(rows, t) :
          v >= 1 /\ v =< power[Width] /\ (v = 1 \/ v - 1 \in VersionsIn(rows, t))
    BY DEF IInv, NumbersInv, Grounded
  <2> QED
    BY <1>2, <2>1, <2>2, LatestFits
<1> QED
  BY <1>3, <1>4

LEMMA WithinPaddingStep ==
  ASSUME IInv, IInv', WithinPadding, [Next]_vars
  PROVE  WithinPadding'
<1> HIDE DEF power
<1> USE DEF IInv
<1>1. power[Width] \in Nat /\ power[Width] >= 3
  BY KeysSort
<1>2. \A t \in Tools : \A v \in VersionsIn(rows', t) : v =< power[Width]
  <2> SUFFICES ASSUME NEW t \in Tools, NEW v \in VersionsIn(rows', t) PROVE v =< power[Width]
    OBVIOUS
  <2>1. v \in VersionsIn(rows, t) \/ \E r \in Requests : pc[r] = "put" /\ v = version[r]
    BY RowsStep, StoreAddsARow
  <2> QED
    BY <2>1 DEF WithinPadding
<1>3. \A t \in Tools : \A latest \in LatestRow(rows', t) : latest < power[Width]
  <2>1. ASSUME NEW t \in Tools, NEW latest \in LatestRow(rows, t),
               \A v \in VersionsIn(rows, t) : v =< power[Width]
        PROVE  latest < power[Width]
    BY <2>1, AnswersFit
  <2>2. \A t \in Tools : \A latest \in LatestRow(rows', t) :
          (\A v \in VersionsIn(rows', t) : v =< power[Width]) => latest < power[Width]
    <3> SUFFICES ASSUME NEW t \in Tools, NEW latest \in LatestRow(rows', t),
                        \A v \in VersionsIn(rows', t) : v =< power[Width]
                 PROVE  latest < power[Width]
      OBVIOUS
    <3>1. VersionsIn(rows', t) \in SUBSET Nat
      BY DEF TypeOK, VersionsIn, Row
    <3>2. CASE VersionsIn(rows', t) = {}
      BY <1>1, <3>2 DEF LatestRow
    <3>3. CASE VersionsIn(rows', t) # {}
      <4>1. latest \in Latest(VersionsIn(rows', t))
        BY <3>3 DEF LatestRow
      <4>2. \A v \in VersionsIn(rows', t) :
              v >= 1 /\ v =< power[Width] /\ (v = 1 \/ v - 1 \in VersionsIn(rows', t))
        BY DEF NumbersInv, Grounded
      <4> QED
        BY <3>1, <4>1, <4>2, LatestFits
    <3> QED
      BY <3>2, <3>3
  <2> QED
    BY <1>2, <2>2
<1>4. \A t \in Tools : \A answer \in answers'[t] : answer < power[Width]
  <2>1. CASE UNCHANGED <<rows, answers>>
    BY <2>1 DEF WithinPadding
  <2>2. ASSUME NEW r \in Requests, KeyFree(r), Store(r), NEW t \in Tools
        PROVE  \A answer \in answers'[t] : answer < power[Width]
    <3>1. answers'[t] \subseteq answers[t] \cup LatestRow(rows', t)
      BY <2>2 DEF Store, TypeOK
    <3> QED
      BY <1>3, <3>1 DEF WithinPadding
  <2> QED
    BY <2>1, <2>2, RowsStep
<1>5. ASSUME NEW r \in Requests, pc'[r] \in {"debit", "put"}
      PROVE  version'[r] =< power[Width]
  <2>1. CASE pc[r] \in {"debit", "put"}
    BY <2>1, RequestStep DEF WithinPadding
  <2>2. CASE pc[r] = "read" /\ pc'[r] = "debit"
    <3>1. PICK latest \in LatestRow(rows, what[r]) \cup answers[what[r]] :
            version'[r] = latest + 1
      BY <2>2, NumberComesFromARead
    <3>2. what[r] \in Tools
      BY DEF TypeOK
    <3>3. latest \in Nat
      BY <3>1, <3>2, LatestIsAVersion, VersionsAreNumbers DEF TypeOK
    <3>4. latest < power[Width]
      BY <3>1, <3>2, AnswersFit DEF WithinPadding
    <3> QED
      BY <1>1, <3>1, <3>3, <3>4
  <2> QED
    BY <1>5, <2>1, <2>2, RequestStep DEF TypeOK
<1> QED
  BY <1>2, <1>4, <1>5 DEF WithinPadding

(* A tool can be registered again until a version is published whose       *)
(* number does not fit the padding, and not from then on, for any requests *)
(* and callers, races, stale reads, retries and crashes: a version of that *)
(* number is the last.                                                     *)
THEOREM VersionsRunOut == Spec => []NumbersRunOut
<1>1. Init => WithinPadding
  <2> HIDE DEF power
  <2>1. power[Width] \in Nat /\ power[Width] >= 3
    BY KeysSort
  <2>2. \A t : VersionsIn({}, t) = {}
    BY DEF VersionsIn
  <2> QED
    BY <2>1, <2>2 DEF Init, WithinPadding
<1>2. IInv /\ IInv' /\ WithinPadding /\ [Next]_vars => WithinPadding'
  BY WithinPaddingStep
<1>3. IInv /\ WithinPadding => NumbersRunOut
  <2> SUFFICES ASSUME IInv, WithinPadding, NEW t \in Tools
               PROVE  /\ \A latest \in LatestRow(rows, t) :
                           latest + 1 \in VersionsIn(rows, t) <=> power[Width] \in VersionsIn(rows, t)
                      /\ \A v \in VersionsIn(rows, t) : v =< power[Width]
    BY DEF NumbersRunOut
  <2> QED
    BY AnswersFit DEF WithinPadding
<1> QED
  BY <1>1, <1>2, <1>3, IInvInit, IInvStep, TypeCorrect, PTL DEF Spec

-----------------------------------------------------------------------------
(* Registry implements PaidPublication.                                    *)
HIDE DEF Goto, Answer, Resend, OutOfAttempts, RefundThen, Affords,
         Charge, GiveBack, Working, Fault, Step

Flying(r) == pc[r] \in {"put", "refund"} /\ net[r] = 1

LEMMA InFlightIsFinite ==
  ASSUME NEW c
  PROVE  IsFiniteSet(InFlight(c)) /\ Cardinality(InFlight(c)) \in Nat
<1>1. InFlight(c) \subseteq Requests
  BY DEF InFlight
<1> QED
  BY <1>1, RequestsAssumption, FS_Subset, FS_CardinalityType

(* A fee enters the flight, leaves it, or none does. *)
LEMMA FeeEnters ==
  ASSUME NEW r \in Requests, UNCHANGED who, ~Flying(r), Flying(r)',
         \A s \in Requests \ {r} : Flying(s)' <=> Flying(s)
  PROVE  \A c \in Callers : Cardinality(InFlight(c)') =
           Cardinality(InFlight(c)) + (IF c = who[r] THEN 1 ELSE 0)
<1> TAKE c \in Callers
<1>1. CASE c = who[r]
  <2>1. InFlight(c)' = InFlight(c) \cup {r} /\ r \notin InFlight(c)
    BY <1>1 DEF InFlight, Flying
  <2> QED
    BY <1>1, <2>1, InFlightIsFinite, FS_AddElement
<1>2. CASE c # who[r]
  <2>1. InFlight(c)' = InFlight(c)
    BY <1>2 DEF InFlight, Flying
  <2> QED
    BY <1>2, <2>1, InFlightIsFinite
<1> QED
  BY <1>1, <1>2

LEMMA FeeLeaves ==
  ASSUME NEW r \in Requests, UNCHANGED who, Flying(r), ~Flying(r)',
         \A s \in Requests \ {r} : Flying(s)' <=> Flying(s)
  PROVE  \A c \in Callers : Cardinality(InFlight(c)') =
           Cardinality(InFlight(c)) - (IF c = who[r] THEN 1 ELSE 0)
<1> TAKE c \in Callers
<1>1. CASE c = who[r]
  <2>1. InFlight(c)' = InFlight(c) \ {r} /\ r \in InFlight(c)
    BY <1>1 DEF InFlight, Flying
  <2> QED
    BY <1>1, <2>1, InFlightIsFinite, FS_RemoveElement
<1>2. CASE c # who[r]
  <2>1. InFlight(c)' = InFlight(c)
    BY <1>2 DEF InFlight, Flying
  <2> QED
    BY <1>2, <2>1, InFlightIsFinite
<1> QED
  BY <1>1, <1>2

LEMMA FlightUnchanged ==
  ASSUME UNCHANGED who, \A s \in Requests : Flying(s)' <=> Flying(s)
  PROVE  \A c \in Callers : InFlight(c)' = InFlight(c)
BY DEF InFlight, Flying

-----------------------------------------------------------------------------
Inv == IInv /\ FeeInv /\ NeverOverdrawn

(* A fee that is settled was in the wallet. *)
LEMMA FeeIsInTheWallet ==
  ASSUME Inv, NEW r \in Requests, Flying(r)
  PROVE  Wallet[who[r]] >= Cost
<1>1. r \in InFlight(who[r]) /\ who[r] \in Callers
  BY DEF InFlight, Flying, Inv, IInv, TypeOK
<1>2. Cardinality(InFlight(who[r])) \in Nat /\ Cardinality(InFlight(who[r])) # 0
  BY <1>1, InFlightIsFinite, FS_EmptySet
<1>3. credits[who[r]] \in Int /\ credits[who[r]] >= 0
  BY <1>1 DEF Inv, IInv, TypeOK, NeverOverdrawn
<1>4. Wallet[who[r]] = credits[who[r]] + Cost * Cardinality(InFlight(who[r]))
  BY <1>1 DEF Wallet
<1>5. \A k \in Nat : k # 0 => Cost * k >= Cost
  BY CostAssumption, Z3
<1> HIDE DEF Affords
<1> QED
  BY <1>2, <1>3, <1>4, <1>5, CostAssumption

(* Settling: the fee of r leaves the flight while the balance stands. *)
LEMMA SettlingPays ==
  ASSUME Inv, NEW r \in Requests, UNCHANGED <<who, credits>>,
         Flying(r), pc'[r] \in {"done", "dead"}, net'[r] = 1,
         \A s \in Requests \ {r} : pc'[s] = pc[s] /\ net'[s] = net[s]
  PROVE  Paid!Pay(r)
<1>1. \A c \in Callers : Cardinality(InFlight(c)') =
        Cardinality(InFlight(c)) - (IF c = who[r] THEN 1 ELSE 0)
  BY FeeLeaves DEF Flying
<1>2. \A c \in Callers : Wallet'[c] =
        Wallet[c] - (IF c = who[r] THEN Cost ELSE 0)
  <2> TAKE c \in Callers
  <2>1. credits[c] \in Int /\ Cardinality(InFlight(c)) \in Nat
    BY InFlightIsFinite DEF Inv, IInv, TypeOK
  <2>2. Wallet'[c] = credits[c] + Cost * Cardinality(InFlight(c)')
    BY DEF Wallet
  <2>3. Wallet[c] = credits[c] + Cost * Cardinality(InFlight(c))
    BY DEF Wallet
  <2>4. \A k \in Nat : Cost * (k - 1) = Cost * k - Cost
    BY CostAssumption, Z3
  <2> QED
    BY <1>1, <2>1, <2>2, <2>3, <2>4, CostAssumption
<1>3. Wallet' = [Wallet EXCEPT ![who[r]] = @ - Cost]
  <2>1. \A c \in Callers : Wallet[c] \in Int
    BY InFlightIsFinite, CostAssumption DEF Wallet, Inv, IInv, TypeOK
  <2>2. DOMAIN Wallet = Callers /\ DOMAIN Wallet' = Callers
    BY DEF Wallet
  <2> QED
    BY <1>2, <2>1, <2>2, CostAssumption DEF Wallet
<1>4. r \notin Settled /\ Settled' = Settled \cup {r}
  BY DEF Settled, Flying
<1> QED
  BY <1>3, <1>4, FeeIsInTheWallet DEF Paid!Pay

USE DEF Goto, Answer, RefundThen, Affords, Charge, GiveBack, Working, Fault, Step

(* What the abstraction does not see: the fee moves between balance and    *)
(* flight, or neither changes.                                             *)
Unseen == UNCHANGED <<rows, Wallet, who, Settled>>

LEMMA DebitIsUnseen ==
  ASSUME Inv, Cost > 0, NEW r \in Requests, Debit(r)
  PROVE  Unseen
<1> USE CostAssumption DEF Inv, IInv, TypeOK
<1>1. /\ pc[r] = "debit" /\ pc'[r] = "put"
      /\ net[r] = 0 /\ net'[r] = 1
      /\ \A s \in Requests \ {r} : pc'[s] = pc[s] /\ net'[s] = net[s]
      /\ UNCHANGED <<who, rows>>
  BY DEF Debit, FeeInv
<1>2. \A c \in Callers : Cardinality(InFlight(c)') =
        Cardinality(InFlight(c)) + (IF c = who[r] THEN 1 ELSE 0)
  BY <1>1, FeeEnters DEF Flying
<1>3. \A c \in Callers : credits'[c] = credits[c] - (IF c = who[r] THEN Cost ELSE 0)
  BY DEF Debit
<1>4. ASSUME NEW c \in Callers
      PROVE  credits'[c] + Cost * Cardinality(InFlight(c)')
               = credits[c] + Cost * Cardinality(InFlight(c))
  <2>1. credits[c] \in Int /\ Cardinality(InFlight(c)) \in Nat
    BY InFlightIsFinite
  <2>2. \A k \in Nat : Cost * (k + 1) = Cost * k + Cost
    BY Z3
  <2> QED
    BY <1>2, <1>3, <2>1, <2>2
<1>5. Wallet' = Wallet
  BY <1>4 DEF Wallet
<1>6. Settled' = Settled
  BY <1>1 DEF Settled
<1> QED
  BY <1>1, <1>5, <1>6 DEF Unseen

LEMMA RefundIsUnseen ==
  ASSUME Inv, Cost > 0, NEW r \in Requests, Refund(r)
  PROVE  Unseen
<1> USE CostAssumption DEF Inv, IInv, TypeOK
<1>1. /\ pc[r] = "refund" /\ pc'[r] = "done"
      /\ net[r] = 1 /\ net'[r] = 0
      /\ \A s \in Requests \ {r} : pc'[s] = pc[s] /\ net'[s] = net[s]
      /\ UNCHANGED <<who, rows>>
  BY DEF Refund, FeeInv
<1>2. \A c \in Callers : Cardinality(InFlight(c)') =
        Cardinality(InFlight(c)) - (IF c = who[r] THEN 1 ELSE 0)
  BY <1>1, FeeLeaves DEF Flying
<1>3. \A c \in Callers : credits'[c] = credits[c] + (IF c = who[r] THEN Cost ELSE 0)
  BY DEF Refund
<1>4. ASSUME NEW c \in Callers
      PROVE  credits'[c] + Cost * Cardinality(InFlight(c)')
               = credits[c] + Cost * Cardinality(InFlight(c))
  <2>1. credits[c] \in Int /\ Cardinality(InFlight(c)) \in Nat
    BY InFlightIsFinite
  <2>2. \A k \in Nat : Cost * (k - 1) = Cost * k - Cost
    BY Z3
  <2> QED
    BY <1>2, <1>3, <2>1, <2>2
<1>5. Wallet' = Wallet
  BY <1>4 DEF Wallet
<1>6. Settled' = Settled
  BY <1>1 DEF Settled
<1> QED
  BY <1>1, <1>5, <1>6 DEF Unseen

LEMMA IdleFeeIsUnseen ==
  ASSUME UNCHANGED <<rows, credits, who>>,
         \A s \in Requests :
           /\ Flying(s)' <=> Flying(s)
           /\ (s \in Settled)' <=> s \in Settled
  PROVE  Unseen
<1>1. \A c \in Callers : InFlight(c)' = InFlight(c)
  BY FlightUnchanged
<1>2. Wallet' = Wallet
  BY <1>1 DEF Wallet
<1>3. Settled' = Settled
  BY DEF Settled
<1> QED
  BY <1>2, <1>3 DEF Unseen

LEMMA PutPublishes ==
  ASSUME Inv, Cost > 0, NEW r \in Requests, Put(r)
  PROVE  Paid!Publish(r)
<1> USE DEF Inv, IInv, TypeOK
<1>1. Paid!Pay(r)
  BY SettlingPays DEF Put, Flying, FeeInv
<1>2. rows' = rows \cup {NewRow(r)}
  BY StoreAddsARow DEF Put
<1>3. \A other \in rows : ~Paid!SameKey(NewRow(r), other)
  BY DEF Put, KeyFree, VersionsIn, NewRow, Paid!SameKey
<1>4. NewRow(r).by = r /\ NewRow(r).tool \in Tools
  BY DEF NewRow
<1> QED
  BY <1>1, <1>2, <1>3, <1>4 DEF Paid!Publish

LEMMA LossForfeits ==
  ASSUME Inv, Cost > 0, NEW r \in Requests, Flying(r), RefundFails(r) \/ Crash(r)
  PROVE  Paid!Forfeit(r)
BY SettlingPays
DEF Inv, IInv, TypeOK, RefundFails, Crash, Flying, Paid!Forfeit

LEMMA StepImplements ==
  ASSUME Reliable, Cost > 0, Inv, Inv', [Next]_vars
  PROVE  [Paid!Next]_(Paid!vars)
<1> USE DEF Inv, IInv, TypeOK
<1>1. Unseen => UNCHANGED Paid!vars
  BY DEF Unseen, Paid!vars
<1>2. CASE UNCHANGED vars
  <2>1. Unseen
    BY <1>2, IdleFeeIsUnseen DEF vars, Flying, Settled
  <2> QED
    BY <1>1, <2>1
<1>3. ASSUME NEW r \in Requests, Debit(r) \/ Refund(r)
      PROVE  UNCHANGED Paid!vars
  BY <1>1, <1>3, DebitIsUnseen, RefundIsUnseen
<1>4. ASSUME NEW r \in Requests, Put(r)
      PROVE  Paid!Next
  BY <1>4, PutPublishes DEF Paid!Next
<1>5. ASSUME NEW r \in Requests, RefundFails(r) \/ (Crash(r) /\ Flying(r))
      PROVE  Paid!Next
  <2>1. Flying(r)
    BY <1>5 DEF RefundFails, Flying, FeeInv
  <2> QED
    BY <1>5, <2>1, LossForfeits DEF Paid!Next
<1>6. ASSUME NEW r \in Requests,
             Admit(r) \/ Refuse(r) \/ ReadLatest(r) \/ RejectPackage(r)
               \/ DebitRefused(r) \/ ThrowUnpaid(r) \/ (Crash(r) /\ ~Flying(r))
      PROVE  UNCHANGED Paid!vars
  <2>1. /\ UNCHANGED <<rows, credits, who, net>>
        /\ \A s \in Requests \ {r} : pc'[s] = pc[s]
    BY <1>6 DEF Admit, Refuse, ReadLatest, RejectPackage, DebitRefused,
                ThrowUnpaid, Crash
  <2>2. /\ net[r] # 1
        /\ pc[r] \notin {"done", "dead"}
    BY <1>6 DEF Admit, Refuse, ReadLatest, RejectPackage, DebitRefused,
                ThrowUnpaid, Crash, Flying, FeeInv
  <2>3. Unseen
    BY <2>1, <2>2, IdleFeeIsUnseen DEF Flying, Settled
  <2> QED
    BY <1>1, <2>3
<1>7. ASSUME NEW r \in Requests, PutRefused(r) \/ PutThrows(r)
      PROVE  UNCHANGED Paid!vars
  <2>1. /\ UNCHANGED <<rows, credits, who, net>>
        /\ \A s \in Requests \ {r} : pc'[s] = pc[s]
        /\ pc[r] = "put" /\ pc'[r] = "refund"
    BY <1>7 DEF PutRefused, PutThrows
  <2>2. Unseen
    BY <2>1, IdleFeeIsUnseen DEF Flying, Settled
  <2> QED
    BY <1>1, <2>2
<1> QED
  BY <1>2, <1>3, <1>4, <1>5, <1>6, <1>7
  DEF Next, Reliable, DebitReplyLost, PutReplyLost, RefundReplyLost

(* The refinement.  Init maps to Init, a PutItem that succeeds to a        *)
(* purchase, a crash or a failed refund with a fee in flight to a forfeit, *)
(* and every other step to a stutter.                                      *)
THEOREM RegistryImplementsPaidPublication ==
  Reliable /\ Cost > 0 => (Spec => ExchangesFeeForRow)
<1> SUFFICES ASSUME Reliable, Cost > 0 PROVE Spec => Paid!Spec
  BY DEF ExchangesFeeForRow
<1>1. Init => Paid!Init
  <2> SUFFICES ASSUME Init PROVE Paid!Init
    OBVIOUS
  <2>1. \A c : InFlight(c) = {}
    BY DEF Init, InFlight
  <2>2. Cardinality({}) = 0
    BY FS_EmptySet
  <2>3. Wallet = [c \in Callers |-> InitialCredits]
    <3>1. \A c \in Callers : Cardinality(InFlight(c)) = 0 /\ credits[c] = InitialCredits
      BY <2>1, <2>2 DEF Init
    <3>2. InitialCredits + Cost * 0 = InitialCredits
      BY CostAssumption, CreditsAssumption
    <3> QED
      BY <3>1, <3>2 DEF Wallet
  <2>4. Settled = {}
    BY DEF Init, Settled
  <2> QED
    BY <2>3, <2>4 DEF Init, Paid!Init
<1>3. Init => FeeInv
  BY DEF Init, FeeInv, Published
<1>4. IInv /\ FeeInv /\ [Next]_vars => FeeInv'
  BY FeeStep DEF IInv
<1>5. IInv /\ FeeInv /\ NeverOverdrawn /\ IInv' /\ FeeInv' /\ NeverOverdrawn'
        /\ [Next]_vars => [Paid!Next]_(Paid!vars)
  BY StepImplements DEF Inv
<1> QED
  BY <1>1, <1>3, <1>4, <1>5, IInvInit, IInvStep, TypeCorrect, BalancesStayPositive,
     PTL DEF Spec, Paid!Spec
=============================================================================
