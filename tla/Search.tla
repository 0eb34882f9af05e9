------------------------------- MODULE Search -------------------------------
(***************************************************************************)
(* search-fn: which tools a question is ranked over, and when a question   *)
(* that no tool answers is written down as a gap.                          *)
(*                                                                         *)
(* An environment is a warm container of the function.  It serves one      *)
(* request at a time and keeps a copy of the tools table between them, so  *)
(* a search sees the table as it was some time ago.  now counts ticks.     *)
(* What a vector, a score or the judge says is a free choice.              *)
(*                                                                         *)
(* Faults: "error", a call throws, a write having been applied or not;     *)
(* "lost_reply", an applied write is sent once more; "crash", the function *)
(* is killed and its environment with it.                                  *)
(***************************************************************************)
EXTENDS Naturals, Sequences, FiniteSets

CONSTANTS
  Questions,     \* the questions that are ever asked, one request each
  Tools,         \* the tool_id values
  Seeded,        \* the tools published before the first request
  Environments,  \* the containers of search-fn
  K,             \* how many results are shown
  TTL,           \* CACHE_TTL_MS, in ticks
  Lifetime,      \* bound: a request of search-fn ends within so many ticks
  MaxTime,       \* bound on the clock
  MaxRows,       \* bound: versions per tool
  None,          \* no tool, no environment
  Faults

ASSUME SeededToolsAssumption == Seeded \subseteq Tools
ASSUME TimeAssumption ==
  TTL \in Nat /\ Lifetime \in Nat /\ MaxTime \in Nat /\ MaxRows \in Nat \ {0} /\ K \in Nat
ASSUME NoneAssumption == None \notin Tools \cup Environments
ASSUME SearchFaultsAssumption == Faults \subseteq {"error", "lost_reply", "crash"}

VARIABLES
  rows,      \* tools table: per tool, when each of its versions was stored
  gaps,      \* gaps table
  events,    \* events table: how many searches it holds for each question
  now,       \* the clock
  cache,     \* per environment, toolCache and toolCacheAt
  pc,        \* where each request is
  role,      \* the role of the caller behind each question
  env,       \* the environment that serves it
  since,     \* when it was taken up
  defer,     \* defer_gap
  rejected,  \* the caller rejected what it was shown
  read,      \* during a scan: the versions found so far
  results,   \* the tools shown
  fits,      \* the tool that does the job, or None
  draws,     \* how many gap ids have been drawn for it
  reply      \* the answer of search-fn

world      == <<rows, now>>
request    == <<role, defer, rejected>>
serving    == <<env, since>>
searchVars == <<rows, gaps, events, now, cache, pc, role, env, since, defer,
                rejected, read, results, fits, draws, reply>>

(* An empty cache is one that was loaded before anything was. *)
Cold    == [warm |-> FALSE, at |-> 0, seen |-> [t \in Tools |-> 0]]
NoReply == [status |-> 0, logged |-> FALSE, deferred |-> FALSE]

Init ==
  /\ rows = [t \in Tools |-> IF t \in Seeded THEN <<0>> ELSE <<>>]
  /\ gaps = {}
  /\ events = [q \in Questions |-> 0]
  /\ now = 0
  /\ cache = [e \in Environments |-> Cold]
  /\ pc = [q \in Questions |-> "idle"]
  /\ role \in [Questions -> {"caller", "builder"}]
  /\ env = [q \in Questions |-> None]
  /\ since = [q \in Questions |-> 0]
  /\ defer = [q \in Questions |-> FALSE]
  /\ rejected = [q \in Questions |-> FALSE]
  /\ read = [q \in Questions |-> [t \in Tools |-> 0]]
  /\ results = [q \in Questions |-> {}]
  /\ fits = [q \in Questions |-> None]
  /\ draws = [q \in Questions |-> 0]
  /\ reply = [q \in Questions |-> NoReply]

Searching == {"load", "scan", "event", "judge", "put"}
Serving   == {q \in Questions : pc[q] \in Searching}
Free      == Environments \ {env[q] : q \in Serving}

-----------------------------------------------------------------------------
(* Around the function. *)

(* registry-fn stores a version. *)
Publish(t) ==
  /\ Len(rows[t]) < MaxRows
  /\ rows' = [rows EXCEPT ![t] = Append(@, now)]
  /\ UNCHANGED <<gaps, events, now, cache, pc, request, serving, read, results, fits, draws, reply>>

(* Time passes; a request that has used up its time is not there any more. *)
Tick ==
  /\ now < MaxTime
  /\ \A q \in Serving : now < since[q] + Lifetime
  /\ now' = now + 1
  /\ UNCHANGED <<rows, gaps, events, cache, pc, request, serving, read, results, fits, draws, reply>>

-----------------------------------------------------------------------------
Answer200(logged, deferred) == [status |-> 200, logged |-> logged, deferred |-> deferred]
Failure(status)             == [status |-> status, logged |-> FALSE, deferred |-> FALSE]

(* The environment is free again. *)
Release(q) ==
  /\ env' = [env EXCEPT ![q] = None]
  /\ since' = [since EXCEPT ![q] = 0]

Finish(q, answer) ==
  /\ pc' = [pc EXCEPT ![q] = "done"]
  /\ reply' = [reply EXCEPT ![q] = answer]
  /\ Release(q)

(* The caller is active and the query embedded: an environment is taken,   *)
(* and what is asked of it is in the body.                                 *)
Accept(q, deferred, no) ==
  /\ pc[q] = "idle"
  /\ \E e \in Free : env' = [env EXCEPT ![q] = e]
  /\ rejected' = [rejected EXCEPT ![q] = no]
  /\ defer' = [defer EXCEPT ![q] = deferred]
  /\ since' = [since EXCEPT ![q] = now]
  /\ pc' = [pc EXCEPT ![q] = "load"]
  /\ UNCHANGED <<world, gaps, events, cache, role, read, results, fits, draws, reply>>

(* A field is missing, the key is unknown, the caller suspended, or the    *)
(* lookup or the embedding throws.                                         *)
TurnAway(q) ==
  /\ pc[q] = "idle"
  /\ \E status \in {400, 401, 403} \cup {s \in {500} : "error" \in Faults} :
       Finish(q, Failure(status))
  /\ UNCHANGED <<world, gaps, events, cache, request, read, results, fits, draws>>

(* What may be asked for, or refused. *)
Ask(q) ==
  \/ \E deferred, no \in BOOLEAN : Accept(q, deferred, no)
  \/ TurnAway(q)

(* mutant: the cache has no age *)
Current_ForGood(e) == cache[e].warm

(* loadTools(): the copy is used while it is younger than TTL. *)
Current(e) == cache[e].warm /\ now - cache[e].at < TTL

(* rankTools(): the best K of what the copy holds. *)
Ranked(seen) ==
  LET known == {t \in Tools : seen[t] > 0}
  IN  {best \in SUBSET known :
         Cardinality(best) = IF Cardinality(known) < K THEN Cardinality(known) ELSE K}

Rank(q, seen) ==
  /\ \E best \in Ranked(seen) : results' = [results EXCEPT ![q] = best]
  /\ pc' = [pc EXCEPT ![q] = "event"]

UseCache(q) ==
  /\ pc[q] = "load"
  /\ Current(env[q])
  /\ Rank(q, cache[env[q]].seen)
  /\ UNCHANGED <<world, gaps, events, cache, request, serving, read, fits, draws, reply>>

(* The copy is too old: the table is scanned, page after page. *)
StartScan(q) ==
  /\ pc[q] = "load"
  /\ ~Current(env[q])
  /\ pc' = [pc EXCEPT ![q] = "scan"]
  /\ read' = [read EXCEPT ![q] = [t \in Tools |-> Len(rows[t])]]
  /\ UNCHANGED <<world, gaps, events, cache, request, serving, results, fits, draws, reply>>

(* The newest version of each tool, as of some moment of the scan.  The    *)
(* copy counts its age from the end.                                       *)
Loaded(q) ==
  /\ pc[q] = "scan"
  /\ \E seen \in {f \in [Tools -> 0..MaxRows] :
                    \A t \in Tools : read[q][t] =< f[t] /\ f[t] =< Len(rows[t])} :
       /\ cache' = [cache EXCEPT ![env[q]] = [warm |-> TRUE, at |-> now, seen |-> seen]]
       /\ Rank(q, seen)
  /\ read' = [read EXCEPT ![q] = [t \in Tools |-> 0]]
  /\ UNCHANGED <<world, gaps, events, request, serving, fits, draws, reply>>

(* The event of the search. *)
RecordSearch(q) ==
  /\ pc[q] = "event"
  /\ events' = [events EXCEPT ![q] = @ + 1]
  /\ pc' = [pc EXCEPT ![q] = "judge"]
  /\ UNCHANGED <<world, gaps, cache, request, serving, read, results, fits, draws, reply>>

(* isGap || rejected *)
Unmet(q, fit) == fit = None \/ rejected[q]

(* mutant: a deferred gap is handed out whoever asks *)
Decided_DefersAnyone(q, fit) ==
  IF Unmet(q, fit) /\ defer[q] THEN "defer"
  ELSE IF Unmet(q, fit) /\ role[q] # "builder" THEN "gap" ELSE "none"

(* mutant: a gap is written before anybody asks whether to defer it *)
Decided_IgnoresDefer(q, fit) ==
  IF Unmet(q, fit) /\ role[q] # "builder" THEN "gap" ELSE "none"

(* What follows from the verdict.  A builder's searches are not demand. *)
Decided(q, fit) ==
  IF ~Unmet(q, fit) \/ role[q] = "builder" THEN "none"
  ELSE IF defer[q] THEN "defer" ELSE "gap"

(* adjudicate(): the judge names one of the results or none of them; when  *)
(* it does not answer, the threshold accepts the first result or none.     *)
Judge(q) ==
  /\ pc[q] = "judge"
  /\ \E fit \in results[q] \cup {None} :
       /\ fits' = [fits EXCEPT ![q] = fit]
       /\ \/ /\ Decided(q, fit) = "none"
             /\ Finish(q, Answer200(FALSE, FALSE))
             /\ UNCHANGED draws
          \/ /\ Decided(q, fit) = "defer"
             /\ Finish(q, Answer200(FALSE, TRUE))
             /\ UNCHANGED draws
          \/ /\ Decided(q, fit) = "gap"
             /\ draws' = [draws EXCEPT ![q] = @ + 1]
             /\ pc' = [pc EXCEPT ![q] = "put"]
             /\ UNCHANGED <<serving, reply>>
  /\ UNCHANGED <<world, gaps, events, cache, request, read, results>>

(* A gap: its id is <<question, draw>>, as randomUUID() gives no id twice. *)
Gap(q, reason) == [id |-> <<q, draws[q]>>, reason |-> reason]
SearchGap(q)   == Gap(q, IF rejected[q] THEN "rejected" ELSE "no_fit")

(* mutant: every attempt at the write draws an id of its own *)
PutGap_NewId(q) ==
  /\ pc[q] = "put"
  /\ gaps' = gaps \cup {SearchGap(q)}
  /\ \/ Finish(q, Answer200(TRUE, FALSE)) /\ UNCHANGED draws
     \/ /\ "lost_reply" \in Faults
        /\ draws' = [draws EXCEPT ![q] = @ + 1]
        /\ UNCHANGED <<pc, serving, reply>>
  /\ UNCHANGED <<world, events, cache, request, read, results, fits>>

PutGap(q) ==
  /\ pc[q] = "put"
  /\ gaps' = gaps \cup {SearchGap(q)}
  /\ \/ Finish(q, Answer200(TRUE, FALSE))
     \/ "lost_reply" \in Faults /\ UNCHANGED <<pc, serving, reply>>
  /\ UNCHANGED <<world, events, cache, request, read, results, fits, draws>>

(* A write that was under way may have been applied. *)
Broken(q) ==
  \/ UNCHANGED <<events, gaps>>
  \/ pc[q] = "event" /\ events' = [events EXCEPT ![q] = @ + 1] /\ UNCHANGED gaps
  \/ pc[q] = "put" /\ gaps' = gaps \cup {SearchGap(q)} /\ UNCHANGED events

(* handler()'s catch: a call to a table throws.  Of the judge's nothing    *)
(* comes out: adjudicate() has a catch of its own.                         *)
Throw(q) ==
  /\ "error" \in Faults
  /\ pc[q] \in Searching \ {"judge"}
  /\ pc[q] = "load" => ~Current(env[q])
  /\ Broken(q)
  /\ Finish(q, Failure(500))
  /\ UNCHANGED <<world, cache, request, read, results, fits, draws>>

Crash(q) ==
  /\ "crash" \in Faults
  /\ pc[q] \in Searching
  /\ Broken(q)
  /\ pc' = [pc EXCEPT ![q] = "dead"]
  /\ Release(q)
  /\ cache' = [cache EXCEPT ![env[q]] = Cold]
  /\ UNCHANGED <<world, request, read, results, fits, draws, reply>>

SearchStep(q) ==
  \/ UseCache(q)
  \/ StartScan(q)
  \/ Loaded(q)
  \/ RecordSearch(q)
  \/ Judge(q)
  \/ PutGap(q)

-----------------------------------------------------------------------------
(* Properties. *)

(* What is published becomes findable: a search ranks everything that was  *)
(* stored longer ago than the life of a copy and that of the request that  *)
(* scanned the table for it.                                               *)
FreshListing ==
  [][\A q \in Questions : pc[q] \in {"load", "scan"} /\ pc'[q] = "event" =>
       \A t \in Tools : \A i \in 1..Len(rows[t]) :
         rows[t][i] + TTL + Lifetime =< now => cache'[env[q]].seen[t] >= i]_searchVars

GapsOf(q) == {gap \in gaps : gap.id[1] = q}

(* A question counts once, though a write may be sent twice, and by then   *)
(* it is in the log of searches too.                                       *)
OneGapPerQuestion ==
  \A q \in Questions :
    /\ Cardinality(GapsOf(q)) =< 1
    /\ GapsOf(q) # {} => events[q] > 0
=============================================================================
