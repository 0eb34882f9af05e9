-------------------------- MODULE PaidPublication --------------------------
(***************************************************************************)
(* What registry-fn promises about publishing, with none of its steps: a   *)
(* publication is one indivisible exchange of a fee for one immutable row, *)
(* and the only other way to lose a fee is to forfeit it, once, when the   *)
(* function or its refund fails half way.  Nobody gets a row for nothing   *)
(* and nobody pays with money he has not got.                              *)
(***************************************************************************)
EXTENDS Integers

CONSTANTS Requests, Callers, Tools, Cost, InitialCredits

VARIABLES
  shelf,    \* the published rows
  wallet,   \* what each caller still owns
  buyer,    \* the caller of each request
  settled   \* the requests whose fee is gone for good

vars == <<shelf, wallet, buyer, settled>>

Init ==
  /\ shelf = {}
  /\ wallet = [c \in Callers |-> InitialCredits]
  /\ buyer \in [Requests -> Callers]
  /\ settled = {}

Pay(r) ==
  /\ r \notin settled
  /\ wallet[buyer[r]] >= Cost
  /\ wallet' = [wallet EXCEPT ![buyer[r]] = @ - Cost]
  /\ settled' = settled \cup {r}
  /\ UNCHANGED buyer

SameKey(a, b) == a.tool = b.tool /\ a.version = b.version

Publish(r) ==
  /\ \E row \in shelf' :
       /\ row.by = r /\ row.tool \in Tools
       /\ \A other \in shelf : ~SameKey(row, other)
       /\ shelf' = shelf \cup {row}
  /\ Pay(r)

Forfeit(r) == Pay(r) /\ UNCHANGED shelf

Next == \E r \in Requests : Publish(r) \/ Forfeit(r)

Spec == Init /\ [][Next]_vars
=============================================================================
