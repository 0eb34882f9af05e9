---------------------------- MODULE VersionKeys ----------------------------
(***************************************************************************)
(* The sort key of the tools table.  A version is a number rendered by     *)
(* pad(n) as a string of at least Width digits in base Base (ten and four  *)
(* in the code), and DynamoDB orders the rows of a tool by that string.    *)
(* pad is injective, so a key is represented here by its number and only   *)
(* the order of the strings is computed.                                   *)
(***************************************************************************)
EXTENDS Naturals

CONSTANTS
  Base,   \* the radix of the digits String(n) writes
  Width   \* the length padStart pads to

ASSUME BaseAssumption  == Base \in Nat \ {0, 1}
(* A single binary digit is excluded: only then does the first number that *)
(* does not fit, 10, extend the one before it, 1, and sort after it.       *)
ASSUME WidthAssumption == Width \in Nat \ {0} /\ (Base > 2 \/ Width > 1)

power[k \in Nat] == IF k = 0 THEN 1 ELSE Base * power[k - 1]

(* The length of pad(n): padStart never truncates. *)
PadLength(n) ==
  CHOOSE k \in Width .. Width + n : n < power[k] /\ (k = Width \/ power[k - 1] =< n)

(***************************************************************************)
(* pad(m) comes before pad(n) in string order.  Strings of one length      *)
(* compare as numbers; otherwise the shorter one is compared with the      *)
(* leading digits of the longer one and, when those agree, comes first.    *)
(***************************************************************************)
SortsBefore(m, n) ==
  LET lm == PadLength(m)
      ln == PadLength(n)
  IN  \/ lm = ln /\ m < n
      \/ lm < ln /\ m =< n \div power[ln - lm]
      \/ lm > ln /\ m \div power[lm - ln] < n

(* mutant: ScanIndexForward is left at its default *)
Latest_Oldest(versions) ==
  {v \in versions : \A w \in versions \ {v} : SortsBefore(v, w)}

(* What Query with ScanIndexForward FALSE and Limit 1 answers, as a set of *)
(* at most one version: nothing sorts after it.                            *)
Latest(versions) ==
  {v \in versions : \A w \in versions \ {v} : SortsBefore(w, v)}
=============================================================================
