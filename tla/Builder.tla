------------------------------- MODULE Builder -------------------------------
(***************************************************************************)
(* cli/build-tool.mjs: operators run it for a confirmed need, of the board *)
(* or with --simulated of the simulation's own snapshot, while others      *)
(* publish and other runs build.  It asks the registry for each phrasing   *)
(* of the need, has a tool written if none fits, tries it once, and        *)
(* publishes it if told to.                                                *)
(*                                                                         *)
(* What search-fn says of a phrasing is abstracted to Fits, and how long   *)
(* its copy of the table lags to List.  The files a run leaves behind are  *)
(* left out: nothing reads them.                                           *)
(***************************************************************************)
EXTENDS Naturals, FiniteSets, Functions

CONSTANTS
  Runs,      \* invocations of the command
  Needs,     \* the clusters of the board and of the simulation's snapshot
  Phrasings, \* the phrasings that its file shows of each need
  Tools,
  Fits,      \* the phrasings for which search-fn names each tool
  Generated, \* what the model may write; the other tools are written by people
  Works,     \* the tools that pass a try on their own sample
  Faults,    \* "error": search-fn fails
  None

Asked == UNION {Phrasings[need] : need \in Needs}

ASSUME PhrasingsAssumption == \A need \in Needs : IsFiniteSet(Phrasings[need]) /\ Phrasings[need] # {}
ASSUME ToolsAssumption ==
  /\ Generated \subseteq Tools /\ Works \subseteq Tools
  /\ \A t \in Tools : Fits[t] \subseteq Asked
ASSUME NoneAssumption == None \notin Tools /\ None \notin Needs

VARIABLES
  confirmed,  \* the needs that gaps.json or sim-gaps.json shows as confirmed
  registered, \* the tools of the registry
  listed,     \* those that no search-fn misses any more
  pc, need, verdicts, draft,  \* of each run; need is None when it is typed in
  before,     \* what was listed when each run began
  built       \* history: what was published, for which need, by which run,
              \* and what there was by then

run  == <<pc, need, verdicts, draft, before>>
vars == <<confirmed, registered, listed, run, built>>

Init ==
  /\ confirmed = {} /\ registered = {} /\ listed = {} /\ built = {}
  /\ pc = [r \in Runs |-> "idle"]
  /\ need = [r \in Runs |-> None]
  /\ verdicts = [r \in Runs |-> <<>>]
  /\ draft = [r \in Runs |-> None]
  /\ before = [r \in Runs |-> {}]

Goto(r, label) == pc' = [pc EXCEPT ![r] = label]

-----------------------------------------------------------------------------
(* Around the command. *)

(* A night confirms a need, of real callers or of the simulation: see Demand. *)
Confirm(n) ==
  /\ confirmed' = confirmed \cup {n}
  /\ UNCHANGED <<registered, listed, run, built>>

(* Somebody publishes a tool. *)
Register(t) ==
  /\ registered' = registered \cup {t}
  /\ UNCHANGED <<confirmed, listed, run, built>>

(* The copies that search-fn keeps without it have expired: see Search. *)
List(t) ==
  /\ listed' = listed \cup {t}
  /\ UNCHANGED <<confirmed, registered, run, built>>

-----------------------------------------------------------------------------
(* The brief: a confirmed need, from the one file or the other, or with     *)
(* --need what the operator types.                                          *)
Begin(r, n) ==
  /\ pc[r] = "idle"
  /\ n \in confirmed \cup {None}
  /\ Goto(r, "search")
  /\ need' = [need EXCEPT ![r] = n]
  /\ before' = [before EXCEPT ![r] = listed]
  /\ UNCHANGED <<confirmed, registered, listed, verdicts, draft, built>>

Brief(r) == IF need[r] = None THEN Asked ELSE Phrasings[need[r]]

(* What search-fn may say of a phrasing; a failure reads like "none fits".  *)
Named(q) ==
  LET fitting == {t \in registered : q \in Fits[t]}
  IN  fitting \cup {t \in {None} : fitting \cap listed = {} \/ "error" \in Faults}

(* askRegistry(), one phrasing at a time. *)
AskRegistry(r) ==
  /\ pc[r] = "search"
  /\ \E q \in Brief(r) \ DOMAIN verdicts[r] : \E t \in Named(q) :
       verdicts' = [verdicts EXCEPT ![r] = [p \in DOMAIN @ \cup {q} |-> IF p = q THEN t ELSE @[p]]]
  /\ UNCHANGED <<confirmed, registered, listed, pc, need, draft, before, built>>

(* mutant: half of the phrasings is not enough *)
Duplicate_OverHalf(r) ==
  \E t \in Range(verdicts[r]) \ {None} :
    2 * Cardinality({q \in DOMAIN verdicts[r] : verdicts[r][q] = t}) > Cardinality(Brief(r))

(* duplicateCheck(): one tool is named for half of the phrasings. *)
Duplicate(r) ==
  \E t \in Range(verdicts[r]) \ {None} :
    2 * Cardinality({q \in DOMAIN verdicts[r] : verdicts[r][q] = t}) >= Cardinality(Brief(r))

Generate(r) ==
  /\ pc[r] = "search"
  /\ DOMAIN verdicts[r] = Brief(r)
  /\ ~ Duplicate(r)
  /\ \E t \in Generated : draft' = [draft EXCEPT ![r] = t]
  /\ Goto(r, "try")
  /\ UNCHANGED <<confirmed, registered, listed, need, verdicts, before, built>>

(* The try: once, through the fetcher and the sandbox. *)
Smoke(r) ==
  /\ pc[r] = "try"
  /\ draft[r] \in Works
  /\ Goto(r, "publish")
  /\ UNCHANGED <<confirmed, registered, listed, need, verdicts, draft, before, built>>

(* With --publish, and never for a need that was typed in. *)
Publish(r) ==
  /\ pc[r] = "publish"
  /\ need[r] # None
  /\ registered' = registered \cup {draft[r]}
  /\ built' = built \cup {[tool |-> draft[r], need |-> need[r], run |-> r, rivals |-> registered]}
  /\ Goto(r, "done")
  /\ UNCHANGED <<confirmed, listed, need, verdicts, draft, before>>

(* Any exit: a duplicate, the model declines or fails, the envelope or the  *)
(* try does, --publish was not given, registry-fn refuses, the operator     *)
(* interrupts.                                                              *)
Exit(r) ==
  /\ pc[r] \in {"search", "try", "publish"}
  /\ Goto(r, "done")
  /\ UNCHANGED <<confirmed, registered, listed, need, verdicts, draft, before, built>>

Step(r) == AskRegistry(r) \/ Generate(r) \/ Smoke(r) \/ Publish(r) \/ Exit(r)

Next ==
  \/ \E n \in Needs \ confirmed : Confirm(n)
  \/ \E t \in Tools \ (Generated \cup registered) : Register(t)
  \/ \E t \in registered \ listed : List(t)
  \/ \E r \in Runs : Step(r) \/ \E n \in Needs \cup {None} : Begin(r, n)

Spec == Init /\ [][Next]_vars

-----------------------------------------------------------------------------
(* "search the registry first -- generating a near-duplicate is the most    *)
(* likely failure": whatever else is published while a run asks one         *)
(* phrasing after the other, no tool is built for a need of which a tool    *)
(* listed by then answers half, and alone; and what is built has worked.    *)
NoDuplicate ==
  \A b \in built :
    /\ b.tool \in Works
    /\ \A t \in before[b.run] :
         LET alone == {q \in Phrasings[b.need] \cap Fits[t] : \A x \in b.rivals \ {t} : q \notin Fits[x]}
         IN  2 * Cardinality(alone) < Cardinality(Phrasings[b.need])
=============================================================================
