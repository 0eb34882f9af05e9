------------------------------- MODULE Standing -------------------------------
(***************************************************************************)
(* What a night makes of the log of events: the mass of a tool, who builds *)
(* on it, whom it competes with, where it stands among those, and whether  *)
(* it is archived.                                                         *)
(*                                                                         *)
(* Nothing is accumulated, so all of it are operators on the log, and what *)
(* moves is the log and the time.  Left out are calls that failed and      *)
(* brightness, which decide nothing here; that dependency weight is damped *)
(* by a factor; and the order in which tools are published.  Every caller  *)
(* is verified.                                                            *)
(***************************************************************************)
EXTENDS Integers, Sequences, FiniteSets, FiniteSetsExt, Bags, Components, People

CONSTANTS
  Tools,
  ToolOwner,      \* the owner of each tool, or None
  Uses,           \* the tools that each tool is built on
  Builders,       \* the callers that are builders
  Shortlists,     \* what a search may return: sequences of tools
  TopN,           \* COMPETE_TOP_N
  MinCoRetrieval, \* MIN_CO_RETRIEVAL_CALLERS
  Window,         \* STANDING_WINDOW_DAYS, in units of the model's time
  Fading,         \* thousandths of a call left: by its age and by the standing of
                  \* its tool, 0.5 ^ (age / (BASE_HALF_LIFE_DAYS * standing))
  MaxTime,        \* bound on the time
  MaxCalls,       \* bound on the calls in the log
  MaxEvents       \* bound on the calls and searches in the log

Par   == 10000  \* a standing of one, to four decimals
Floor == 1000   \* STANDING_FLOOR
Whole == 1000   \* one call, to three decimals

ASSUME ToolsAssumption == IsFiniteSet(Tools)
ASSUME BuildersAssumption == Builders \subseteq Callers
ASSUME UsesAssumption == \A t \in Tools : Uses[t] \subseteq Tools \ {t}
ASSUME ShortlistsAssumption == Shortlists \subseteq Seq(Tools)
ASSUME CountsAssumption ==
  {TopN, MinCoRetrieval, Window, MaxTime, MaxCalls, MaxEvents} \subseteq Nat
ASSUME FadingAssumption ==
  /\ Fading \in [(0 .. MaxTime) \X (Floor .. Par) -> 0 .. Whole]
  /\ \A age \in 0 .. MaxTime : \A standing \in Floor .. Par :
       /\ age = 0 <=> Fading[age, standing] = Whole
       /\ standing < Par => Fading[age, standing] =< Fading[age, standing + 1]

VARIABLES
  now,
  calls,    \* the calls of the events table, a bag
  searches  \* and its searches; who searches twice counts once, so a set

standingVars == <<now, calls, searches>>

StandingInit == now = 0 /\ calls = EmptyBag /\ searches = {}

-----------------------------------------------------------------------------
(* Mass. *)

Countable(e) == ~ e.self /\ e.caller \notin Simulated

Count(events) == MapThenSumSet(LAMBDA e : calls[e], events)

(* The calls in which somebody chose the tool itself. *)
Direct(t) == {e \in BagToSet(calls) : e.tool = t /\ e.via = None /\ Countable(e)}
Mass(t)   == Count(Direct(t))
Recent(t) == Count({e \in Direct(t) : now - e.time <= Window})

(* Who builds on a tool is read off the calls, and not off declarations. *)
Dependents(t) ==
  {e.via : e \in {x \in BagToSet(calls) : x.tool = t /\ x.via # None /\ Countable(x)}}

(* Dependency weight, before it is damped. *)
Weight(t) ==
  MapThenSumSet(Mass, {d \in Dependents(t) : ToolOwner[t] = None \/ ToolOwner[d] # ToolOwner[t]})

-----------------------------------------------------------------------------
(* Competition. *)

Top(ranked) == {ranked[i] : i \in 1 .. Min({TopN, Len(ranked)})}

(* mutant: a simulated caller counts like any other *)
SeenTogether_Simulated(pair) ==
  {s.caller : s \in {x \in searches : pair \subseteq Top(x.ranked)}} \ Builders

(* The callers who were shown both tools among the first. *)
SeenTogether(pair) ==
  {s.caller : s \in {x \in searches : pair \subseteq Top(x.ranked)}} \ (Simulated \cup Builders)

Rivalries ==
  {pair \in kSubset(2, Tools) : Cardinality(SeenTogether(pair)) >= MinCoRetrieval}
CompetitionClusters == Groups(UNION Rivalries, Rivalries)

(* A tool without rivals is alone. *)
ClusterOf(t) == {t} \cup UNION {cluster \in CompetitionClusters : t \in cluster}

-----------------------------------------------------------------------------
(* Standing and decay. *)

Rounded(n, d) == (2 * n + d) \div (2 * d)

(* mutant: a cluster that is quiet has everybody behind *)
StandingOf_Quiet(t) ==
  LET cluster == ClusterOf(t)
      total   == MapThenSumSet(Recent, cluster)
  IN  IF Cardinality(cluster) < 2 THEN Par
      ELSE IF total = 0 THEN Floor
      ELSE Min({Par, Max({Floor, Rounded(Par * Cardinality(cluster) * Recent(t), total)})})

(* The share of a tool in its cluster, in terms of an equal one. *)
StandingOf(t) ==
  LET cluster == ClusterOf(t)
      total   == MapThenSumSet(Recent, cluster)
  IN  IF Cardinality(cluster) < 2 \/ total = 0 THEN Par
      ELSE Min({Par, Max({Floor, Rounded(Par * Cardinality(cluster) * Recent(t), total)})})

(* Every call is aged by itself, at the pace of the tool's standing now. *)
Live(t) ==
  LET standing == StandingOf(t)
  IN  MapThenSumSet(LAMBDA e : calls[e] * Fading[now - e.time, standing], Direct(t))

Archived(t) == Mass(t) > 0 /\ Live(t) < Whole

-----------------------------------------------------------------------------
Tick ==
  /\ now < MaxTime
  /\ now' = now + 1
  /\ UNCHANGED <<calls, searches>>

SelfCall(c, t) == Owner[c] # None /\ Owner[c] = ToolOwner[t]

(* mutant: a self-call or not by the tool that was chosen *)
Recorded_ByRoot(c, t) ==
  {[tool |-> use[1], via |-> use[2], self |-> SelfCall(c, t), caller |-> c, time |-> now] :
     use \in {<<t, None>>} \cup (Uses[t] \X {t})}

(* The events of one call of t by c, which succeeds, and with it the calls *)
(* of whatever t is built on; each is a self-call or not by its own tool.  *)
Recorded(c, t) ==
  {[tool |-> use[1], via |-> use[2], self |-> SelfCall(c, use[1]), caller |-> c, time |-> now] :
     use \in {<<t, None>>} \cup (Uses[t] \X {t})}

Call(c, t) ==
  /\ calls' = calls (+) SetToBag(Recorded(c, t))
  /\ BagCardinality(calls') <= Min({MaxCalls, MaxEvents - Cardinality(searches)})
  /\ UNCHANGED <<now, searches>>

Search(c, ranked) ==
  /\ searches' = searches \cup {[caller |-> c, ranked |-> ranked]}
  /\ Cardinality(searches') <= MaxEvents - BagCardinality(calls)
  /\ UNCHANGED <<now, calls>>

StandingNext ==
  \/ Tick
  \/ \E c \in Callers, t \in Tools : Call(c, t)
  \/ \E c \in Callers, ranked \in Shortlists : Search(c, ranked)

StandingSpec == StandingInit /\ [][StandingNext]_standingVars

-----------------------------------------------------------------------------
(* Enough people, none of them simulated or building, saw both at the top. *)
SeenByMany(a, b) ==
  \E seen \in kSubset(MinCoRetrieval, Callers \ (Simulated \cup Builders)) :
    \A c \in seen : \E s \in searches :
      s.caller = c /\ \E i, j \in 1 .. Min({TopN, Len(s.ranked)}) : s.ranked[i] = a /\ s.ranked[j] = b

(* Two tools compete exactly if a chain of pairs leads from one to the     *)
(* other each of which that many separate callers were shown: no such pair *)
(* leaves a cluster, and none falls apart into two with no pair between    *)
(* them.  So nobody draws the graph alone.                                 *)
RivalsWereSeenByMany ==
  \A a \in Tools :
    LET cluster == ClusterOf(a)
    IN  /\ \A b \in cluster, c \in Tools \ cluster : ~ SeenByMany(b, c)
        /\ \A part \in (SUBSET cluster) \ {{}, cluster} :
             \E b \in part, c \in cluster \ part : SeenByMany(b, c)

(* Whoever falls behind falls behind somebody: a tool is below par only if *)
(* another one of its cluster is used more, so that a job that is quiet,   *)
(* or that has no rivals, is nobody's loss; and nobody fades faster than   *)
(* ten times as fast as one at par, or slower than it.                     *)
FallsBehindSomebody ==
  \A t \in Tools :
    /\ StandingOf(t) \in Floor .. Par
    /\ StandingOf(t) < Par => \E rival \in ClusterOf(t) : Recent(rival) > Recent(t)

(* What the simulation does, and what an owner does for himself, moves     *)
(* nothing: whatever an owner calls, no tool of his has more mass, comes    *)
(* back from the archive or has another dependent for it.                  *)
InventedUseCountsForNothing ==
  [][\A c \in Callers, t \in Tools : Call(c, t) =>
       \A mine \in {x \in Tools : c \in Simulated \/ SelfCall(c, x)} :
         /\ Mass(mine)' = Mass(mine)
         /\ (Archived(mine) => Archived(mine)')
         /\ Dependents(mine)' = Dependents(mine)]_calls
=============================================================================
