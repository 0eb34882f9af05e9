------------------------------- MODULE Demand -------------------------------
(***************************************************************************)
(* The needs that cluster-fn reads out of the gaps, and the bounty for     *)
(* closing one of them.                                                    *)
(*                                                                         *)
(* Nothing is accumulated: every figure is computed from the gaps again,   *)
(* so the clusters are operators on the table.  What moves is the table,   *)
(* the use of the tool that is meant to close a need, and the one claim    *)
(* that is looked at.  A gap is who asked what on which day; how often on  *)
(* that day, the label of a cluster and the flags, which decide nothing,   *)
(* are left out.  Every gap has a verified caller: search-fn writes no     *)
(* other.                                                                  *)
(***************************************************************************)
EXTENDS Naturals, FiniteSets, FiniteSetsExt, Components, People

CONSTANTS
  Queries,      \* what is asked
  Near,         \* pairs of queries whose vectors are close enough
  Creator,      \* the owner of the tool that is meant to close a need
  Claimant,     \* the owner who claims the bounty
  MinCallers,   \* RULE.min_callers
  MinSpread,    \* RULE.min_spread_days
  MinAdopters,  \* MIN_INDEPENDENT_CALLERS
  MaxPhrasings, \* how many queries a cluster shows
  MaxGaps,      \* bound on the table
  MaxDay        \* bound on the days

ASSUME NearAssumption == Near \subseteq (SUBSET Queries)
ASSUME RuleAssumption ==
  /\ MinCallers \in Nat \ {0} /\ MinSpread \in Nat /\ MinAdopters \in Nat
  /\ MaxPhrasings \in Nat \ {0} /\ MaxGaps \in Nat /\ MaxDay \in Nat

VARIABLES
  today,
  gaps,    \* gaps table
  used,    \* who has called the tool, directly and with success
  award    \* what the bounty was paid for, or None

vars == <<today, gaps, used, award>>

Gap == [query : Queries, caller : Callers, day : 0 .. MaxDay]

Init == today = 0 /\ gaps = {} /\ used = {} /\ award = None

-----------------------------------------------------------------------------
(* Clustering. *)

Close(g, h) == g.query = h.query \/ {g.query, h.query} \in Near

Clusters(rows) ==
  Groups(rows, {pair \in kSubset(2, rows) : \A g, h \in pair : Close(g, h)})

Real(rows) == {g \in rows : g.caller \notin Simulated}

(* mutant: the clusters are formed first and the simulation taken out of them *)
Needs_SplitLate(rows) == {Real(need) : need \in Clusters(rows)} \ {{}}

(* The needs on the public board: the simulation is split off first. *)
Needs(rows) == Clusters(Real(rows))

-----------------------------------------------------------------------------
(* Counting. *)

OwnersOf(callers) == {Owner[c] : c \in callers} \ {None}

(* mutant: the last time each caller asked, not every time *)
Spread_LastOfEach(need) ==
  LET last == {Max({h.day : h \in {k \in need : k.caller = g.caller}}) : g \in need}
  IN  Max(last) - Min(last)

Spread(need) ==
  LET days == {g.day : g \in need} IN Max(days) - Min(days)

Summary(need) ==
  [callers |-> {g.caller : g \in need}, spread |-> Spread(need)]

Confirmed(summary) ==
  /\ Cardinality(summary.callers) >= MinCallers
  /\ Cardinality(OwnersOf(summary.callers)) >= MinCallers
  /\ summary.spread >= MinSpread

WithoutBeneficiary(summary, owner) ==
  [summary EXCEPT !.callers = {c \in @ : owner = None \/ Owner[c] # owner}]

-----------------------------------------------------------------------------
(* The bounty. *)

(* mutant: a need is forfeit, not only their vote, once the claimant asks *)
Eligible_Forfeit(need, owner) ==
  Confirmed(Summary(need)) /\ \A g \in need : Owner[g.caller] # owner

Eligible(need, owner) == Confirmed(WithoutBeneficiary(Summary(need), owner))

Verdicts == {"tool", "other", "nothing"}

(* The tool answers four of five phrasings. *)
Closes(verdict) ==
  /\ DOMAIN verdict # {}
  /\ 5 * Cardinality({q \in DOMAIN verdict : verdict[q] = "tool"})
       >= 4 * Cardinality(DOMAIN verdict)

(* The callers that count as users of the tool: neither its owner nor the  *)
(* simulation.  adoption() also looks for a sole owner, in a field that no *)
(* row of tools.json has.                                                  *)
Counts(c) == Owner[c] # Creator /\ c \notin Simulated
Adopted   == Cardinality({c \in used : Counts(c)}) >= MinAdopters

Asked(need) == {g.query : g \in need}

(* The phrasings that the board shows of a need. *)
Phrasings(need) ==
  {qs \in SUBSET Asked(need) :
     Cardinality(qs) = Min({Cardinality(Asked(need)), MaxPhrasings})}

-----------------------------------------------------------------------------
NextDay ==
  /\ today < MaxDay
  /\ today' = today + 1
  /\ UNCHANGED <<gaps, used, award>>

(* search-fn finds nothing that fits. *)
Ask(q, c) ==
  /\ gaps' = gaps \cup {[query |-> q, caller |-> c, day |-> today]}
  /\ Cardinality(gaps') <= MaxGaps
  /\ UNCHANGED <<today, used, award>>

(* Somebody calls the tool, and it works. *)
Use(c) ==
  /\ used' = used \cup {c}
  /\ UNCHANGED <<today, gaps, award>>

(* A claim is assessed, for a tool that is approved: the phrasings are put *)
(* to the judge, who may choose the tool, another one or none.             *)
Claim(need) ==
  /\ award = None
  /\ Eligible(need, Claimant)
  /\ \E qs \in Phrasings(need), answers \in [Queries -> Verdicts] :
       LET verdict == [q \in qs |-> answers[q]]
       IN  /\ Closes(verdict)
           /\ award' = [need |-> need, verdict |-> verdict]
  /\ Adopted
  /\ UNCHANGED <<today, gaps, used>>

Next ==
  \/ NextDay
  \/ \E q \in Queries, c \in Callers : Ask(q, c)
  \/ \E c \in Callers : Use(c)
  \/ \E need \in Needs(gaps) : Claim(need)

Spec == Init /\ [][Next]_vars

-----------------------------------------------------------------------------
(* Whatever the order in which the scan returns the gaps, two of them are  *)
(* in one need exactly if a chain of near ones leads from one to the       *)
(* other.  No gap is near one outside of its need, so nothing is split by  *)
(* the union-find; and a need cannot be cut in two without parting two     *)
(* gaps that are near each other, so nothing is merged.                    *)
NeedsAreChains ==
  LET rows == Real(gaps)
  IN  /\ UNION Needs(gaps) = rows
      /\ \A need \in Needs(gaps) :
           /\ \A g \in need, h \in rows \ need : ~ Close(g, h)
           /\ \A part \in (SUBSET need) \ {{}, need} :
                \E g \in part, h \in need \ part : Close(g, h)

(* A need that was confirmed is part of a confirmed one for good, however  *)
(* its cluster grows and merges: who asks again, or late, takes nothing    *)
(* away from the evidence of others.                                       *)
ConfirmedForGood ==
  [][gaps' # gaps =>
       LET confirmed == {need \in Needs(gaps') : Confirmed(Summary(need))}
       IN  \A need \in Needs(gaps) : Confirmed(Summary(need)) =>
             \E later \in confirmed : need \subseteq later]_vars

(* What the simulation asks and calls changes nothing on the board and     *)
(* earns no bounty: it joins no needs, confirms none and adopts nothing.   *)
SimulationMovesNothing ==
  [][(\E c \in Simulated : Use(c) \/ \E q \in Queries : Ask(q, c)) =>
       Needs(gaps') = Needs(gaps) /\ Adopted' = Adopted]_vars

(* What earned a bounty still stands when the award is looked at again:    *)
(* however the need grows and merges, and whoever asks, the claimant not   *)
(* excepted, it is part of a need that is eligible for that claimant.      *)
AwardStands ==
  award # None =>
    \E need \in Needs(gaps) :
      award.need \subseteq need /\ Eligible(need, Claimant)

(* "The need has to still qualify without them": what is left of a paid    *)
(* need when the requests of the claimant are taken out of it is confirmed *)
(* by itself.  The code does not see to it: bounty.mjs says so, and no run *)
(* claims it.                                                              *)
QualifiesWithoutClaimant ==
  award # None =>
    \E need \in Clusters({g \in award.need : Owner[g.caller] # Claimant}) :
      Confirmed(Summary(need))

(* "Independent means: not the claimant": a bounty is paid for a tool that *)
(* enough callers use who are not the claimant's.  It is so only if the    *)
(* claimant owns the tool, and no run claims it.                           *)
AdoptedByOthers ==
  award # None =>
    Cardinality({c \in used : Counts(c) /\ Owner[c] # Claimant}) >= MinAdopters

(* A bounty is paid only for a tool that the judge himself chose for most  *)
(* of what was asked, provided that the board had room for all of it: what *)
(* another tool answers is not closed by this one.                         *)
PaidForMostPhrasings ==
  award # None /\ Cardinality(Asked(award.need)) <= MaxPhrasings =>
    5 * Cardinality({q \in DOMAIN award.verdict : award.verdict[q] = "tool"})
      >= 4 * Cardinality(Asked(award.need))
=============================================================================
