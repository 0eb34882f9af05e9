------------------------ MODULE RegistryRefinement ------------------------
(***************************************************************************)
(* Registry implements PaidPublication.  A fee that was debited for a      *)
(* request still under way belongs to the caller until the row is stored   *)
(* or the fee is given back, so the abstract wallet is the balance in the  *)
(* table plus the fees in flight.                                          *)
(***************************************************************************)
EXTENDS Registry

InFlight(c) ==
  {r \in Requests : who[r] = c /\ pc[r] \in {"put", "refund"} /\ net[r] = 1}

Wallet == [c \in Callers |-> credits[c] + Cost * Cardinality(InFlight(c))]

Settled == {r \in Requests : pc[r] \in {"done", "dead"} /\ net[r] = 1}

Paid == INSTANCE PaidPublication
          WITH shelf <- rows, wallet <- Wallet, buyer <- who, settled <- Settled

(* Every behaviour of register() is, seen from outside, a sequence of      *)
(* indivisible purchases and forfeits (no reply to a write being lost and  *)
(* publication having a price).                                            *)
ExchangesFeeForRow == Paid!Spec
=============================================================================
