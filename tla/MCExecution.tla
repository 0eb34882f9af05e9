---------------------------- MODULE MCExecution ----------------------------
(* Small instances of exec-fn: what may be published, what is published at *)
(* the start and what is approved by then.  The tools are a, b and c.      *)
EXTENDS Execution, TLC

CONSTANTS a, b, c, alice, bob

Use(tool)            == [tool |-> tool, pin |-> 0]
Pinned(tool, v)      == [tool |-> tool, pin |-> v]
Package(owner, uses) == [owner |-> owner, code |-> TRUE, uses |-> uses]
Listing(owner)       == [owner |-> owner, code |-> FALSE, uses |-> <<>>]

(* Two tools: a uses b and may be followed by a version that pins it, b by *)
(* one that closes the cycle or by a mere listing.                         *)
PairPackages == [t \in {a, b} |-> IF t = a
  THEN {Package(alice, <<Pinned(b, 1)>>)}
  ELSE {Package(bob, <<Use(a)>>), Listing(bob)}]
PairSeeded == [t \in {a, b} |-> IF t = a
  THEN <<Package(alice, <<Use(b)>>)>>
  ELSE <<Package(bob, <<>>)>>]
PairReviewed == {<<a, 1>>, <<b, 1>>}

(* Three tools: a uses b twice and b may come to use c twice, or to use a. *)
TreePackages == [t \in {a, b, c} |-> CASE t = a -> {}
  [] t = b -> {Package(bob, <<Use(c), Use(c)>>), Package(bob, <<Use(a)>>)}
  [] t = c -> {Package(bob, <<>>)}]
TreeSeeded == [t \in {a, b, c} |-> CASE t = a -> <<Package(alice, <<Use(b), Use(b)>>)>>
  [] t = b -> <<Package(alice, <<>>)>>
  [] t = c -> <<Package(bob, <<>>)>>]
TreeReviewed == {<<a, 1>>, <<b, 1>>, <<c, 1>>}
=============================================================================
