---------------------------- MODULE BuilderProofs ----------------------------
(***************************************************************************)
(* No near-duplicate is built, for any runs, needs and tools, whatever     *)
(* others publish meanwhile, as long as search-fn answers.                 *)
(***************************************************************************)
EXTENDS Builder, FiniteSetTheorems, TLAPS

(* The tables only grow, and what is listed is registered. *)
Tables ==
  /\ listed \subseteq registered /\ registered \subseteq Tools
  /\ confirmed \subseteq Needs
  /\ \A r \in Runs : before[r] \subseteq listed

Arrays ==
  /\ DOMAIN pc = Runs /\ DOMAIN need = Runs /\ DOMAIN verdicts = Runs
  /\ DOMAIN draft = Runs /\ DOMAIN before = Runs

(* Only t fits the phrasing q. *)
OnlyFit(t, q) == q \in Fits[t] /\ \A x \in registered \ {t} : q \notin Fits[x]

(* A phrasing that has been asked about, and that of all tools only one    *)
(* fits that was listed when the run began, was answered with that one.    *)
Heard(r) ==
  \A t \in before[r], q \in DOMAIN verdicts[r] : OnlyFit(t, q) => verdicts[r][q] = t

(* Whoever has a draft has asked about everything and found no duplicate;  *)
(* what is about to be published has worked.                               *)
Cleared(r) ==
  /\ need[r] \in Needs \cup {None}
  /\ pc[r] = "idle" => DOMAIN verdicts[r] = {}
  /\ pc[r] \in {"try", "publish"} => DOMAIN verdicts[r] = Brief(r) /\ ~Duplicate(r)
  /\ pc[r] = "publish" => draft[r] \in Works /\ draft[r] \in Tools
  /\ pc[r] = "try" => draft[r] \in Tools

(* Whoever has built something is done. *)
Over == \A b \in built : b.run \in Runs /\ pc[b.run] = "done"

IInv ==
  /\ Tables /\ Arrays /\ Over /\ NoDuplicate
  /\ \A r \in Runs : Heard(r) /\ Cleared(r)

-----------------------------------------------------------------------------
(* What a run that leaves r alone leaves alone. *)
Untouched(r) ==
  /\ pc'[r] = pc[r] /\ need'[r] = need[r] /\ verdicts'[r] = verdicts[r]
  /\ draft'[r] = draft[r] /\ before'[r] = before[r]

(* A publication makes fewer phrasings those of one tool alone. *)
LEMMA HeardIsStable ==
  ASSUME NEW r \in Runs, Heard(r), registered \subseteq registered',
         verdicts'[r] = verdicts[r], before'[r] = before[r]
  PROVE  Heard(r)'
BY DEF Heard, OnlyFit

LEMMA ClearedIsStable ==
  ASSUME NEW r \in Runs, Cleared(r), Untouched(r)
  PROVE  Cleared(r)'
BY DEF Cleared, Untouched, Brief, Duplicate

(* What was built stays free of duplicates. *)
LEMMA BuiltIsStable ==
  ASSUME NoDuplicate, Over, built' = built, \A b \in built : before'[b.run] = before[b.run]
  PROVE  NoDuplicate'
BY DEF NoDuplicate

(* Nobody takes a step: others publish. *)
LEMMA OthersPublish ==
  ASSUME IInv, UNCHANGED <<run, built>>, registered \subseteq registered', Tables'
  PROVE  IInv'
<1>1. UNCHANGED <<pc, need, verdicts, draft, before>>
  BY DEF run
<1>2. \A r \in Runs : Untouched(r)
  BY <1>1 DEF Untouched
<1>3. \A r \in Runs : Heard(r)' /\ Cleared(r)'
  BY <1>2, HeardIsStable, ClearedIsStable DEF IInv, Untouched
<1>4. NoDuplicate'
  BY <1>1, BuiltIsStable DEF IInv
<1>5. Arrays' /\ Over'
  BY <1>1 DEF IInv, Arrays, Over
<1> QED
  BY <1>3, <1>4, <1>5 DEF IInv

(* A step of r, by which it builds nothing. *)
LEMMA RunGoesOn ==
  ASSUME IInv, NEW r \in Runs, pc[r] # "done",
         \A s \in Runs \ {r} : Untouched(s),
         UNCHANGED <<confirmed, registered, listed, built>>,
         Arrays', before'[r] \subseteq listed, Heard(r)', Cleared(r)'
  PROVE  IInv'
<1>1. \A s \in Runs : Heard(s)' /\ Cleared(s)'
  BY HeardIsStable, ClearedIsStable DEF IInv, Untouched
<1>2. Tables'
  BY DEF IInv, Tables, Untouched
<1>3. \A b \in built : b.run \in Runs \ {r}
  BY DEF IInv, Over
<1>4. Over' /\ \A b \in built : before'[b.run] = before[b.run]
  BY <1>3 DEF IInv, Over, Untouched
<1>5. NoDuplicate'
  BY <1>4, BuiltIsStable DEF IInv
<1> QED
  BY <1>1, <1>2, <1>4, <1>5 DEF IInv

-----------------------------------------------------------------------------
(* The steps of a run. *)

LEMMA BeginStep ==
  ASSUME IInv, NEW r \in Runs, NEW n \in Needs \cup {None}, Begin(r, n)
  PROVE  IInv'
<1>1. Arrays' /\ \A s \in Runs \ {r} : Untouched(s)
  BY DEF IInv, Arrays, Untouched, Begin, Goto
<1>2. /\ pc[r] = "idle" /\ pc'[r] = "search" /\ need'[r] = n /\ before'[r] = listed
      /\ verdicts' = verdicts /\ UNCHANGED <<confirmed, registered, listed, built>>
  BY DEF IInv, Arrays, Begin, Goto
<1>3. DOMAIN verdicts[r] = {}
  BY <1>2 DEF IInv, Cleared
<1>4. Heard(r)'
  BY <1>2, <1>3 DEF Heard
<1>5. Cleared(r)'
  BY <1>2 DEF Cleared
<1> QED
  BY <1>1, <1>2, <1>4, <1>5, RunGoesOn

(* What only one listed tool fits is answered with that tool. *)
LEMMA NamedAlone ==
  ASSUME IInv, "error" \notin Faults, NEW q, NEW t \in listed, OnlyFit(t, q), NEW named \in Named(q)
  PROVE  named = t
<1> DEFINE fitting == {x \in registered : q \in Fits[x]}
<1>1. fitting = {t}
  BY DEF IInv, Tables, OnlyFit
<1>2. fitting \cap listed # {}
  BY <1>1
<1> QED
  BY <1>1, <1>2 DEF Named

LEMMA AskStep ==
  ASSUME IInv, "error" \notin Faults, NEW r \in Runs, AskRegistry(r)
  PROVE  IInv'
<1>0. PICK q \in Brief(r) \ DOMAIN verdicts[r] : \E t \in Named(q) :
        verdicts' = [verdicts EXCEPT ![r] =
                      [p \in DOMAIN verdicts[r] \cup {q} |-> IF p = q THEN t ELSE verdicts[r][p]]]
  BY DEF AskRegistry
<1>1. PICK t \in Named(q) :
        verdicts' = [verdicts EXCEPT ![r] =
                      [p \in DOMAIN verdicts[r] \cup {q} |-> IF p = q THEN t ELSE verdicts[r][p]]]
  BY <1>0
<1>2. Arrays' /\ \A s \in Runs \ {r} : Untouched(s)
  BY <1>1 DEF IInv, Arrays, Untouched, AskRegistry
<1>3. /\ pc[r] = "search" /\ pc' = pc /\ need' = need /\ before' = before
      /\ UNCHANGED <<confirmed, registered, listed, built>>
  BY DEF AskRegistry
<1>4. /\ DOMAIN verdicts'[r] = DOMAIN verdicts[r] \cup {q}
      /\ verdicts'[r][q] = t
      /\ \A p \in DOMAIN verdicts[r] : verdicts'[r][p] = verdicts[r][p]
  BY <1>1 DEF IInv, Arrays
<1>5. Heard(r)'
  <2> SUFFICES ASSUME NEW x \in before[r], NEW p \in DOMAIN verdicts'[r], OnlyFit(x, p)
               PROVE  verdicts'[r][p] = x
    BY <1>3 DEF Heard, OnlyFit
  <2>1. CASE p = q
    BY <1>4, <2>1, NamedAlone DEF IInv, Tables
  <2>2. CASE p \in DOMAIN verdicts[r]
    BY <1>4, <2>2 DEF IInv, Heard
  <2> QED
    BY <1>4, <2>1, <2>2
<1>6. Cleared(r)'
  BY <1>3 DEF IInv, Cleared
<1>7. before'[r] \subseteq listed
  BY <1>3 DEF IInv, Tables
<1> QED
  BY <1>2, <1>3, <1>5, <1>6, <1>7, RunGoesOn

(* A step of r that only moves it on. *)
LEMMA MovesOn ==
  ASSUME IInv, NEW r \in Runs, pc[r] # "done",
         NEW label, pc' = [pc EXCEPT ![r] = label], label # "idle",
         DOMAIN draft' = Runs, \A s \in Runs \ {r} : draft'[s] = draft[s],
         UNCHANGED <<confirmed, registered, listed, need, verdicts, before, built>>,
         label \in {"try", "publish"} => DOMAIN verdicts[r] = Brief(r) /\ ~Duplicate(r),
         label = "publish" => draft'[r] \in Works /\ draft'[r] \in Tools,
         label = "try" => draft'[r] \in Tools
  PROVE  IInv'
<1>1. Arrays' /\ \A s \in Runs \ {r} : Untouched(s)
  BY DEF IInv, Arrays, Untouched
<1>2. pc'[r] = label
  BY DEF IInv, Arrays
<1>3. Heard(r)'
  BY HeardIsStable DEF IInv
<1>4. Cleared(r)'
  BY <1>2 DEF IInv, Cleared, Brief, Duplicate
<1>5. before'[r] \subseteq listed
  BY DEF IInv, Tables
<1> QED
  BY <1>1, <1>3, <1>4, <1>5, RunGoesOn

LEMMA GenerateStep ==
  ASSUME IInv, NEW r \in Runs, Generate(r)
  PROVE  IInv'
<1>1. PICK t \in Generated : draft' = [draft EXCEPT ![r] = t]
  BY DEF Generate
<1>2. DOMAIN draft' = Runs /\ draft'[r] = t /\ \A s \in Runs \ {r} : draft'[s] = draft[s]
  BY <1>1 DEF IInv, Arrays
<1>3. t \in Tools
  BY ToolsAssumption
<1>4. /\ pc[r] = "search" /\ pc' = [pc EXCEPT ![r] = "try"]
      /\ DOMAIN verdicts[r] = Brief(r) /\ ~Duplicate(r)
      /\ UNCHANGED <<confirmed, registered, listed, need, verdicts, before, built>>
  BY DEF Generate, Goto
<1> QED
  BY <1>2, <1>3, <1>4, MovesOn

LEMMA SmokeStep ==
  ASSUME IInv, NEW r \in Runs, Smoke(r)
  PROVE  IInv'
<1>1. /\ pc[r] = "try" /\ pc' = [pc EXCEPT ![r] = "publish"] /\ draft[r] \in Works
      /\ UNCHANGED <<confirmed, registered, listed, need, verdicts, draft, before, built>>
  BY DEF Smoke, Goto
<1>2. draft[r] \in Tools /\ DOMAIN verdicts[r] = Brief(r) /\ ~Duplicate(r) /\ DOMAIN draft = Runs
  BY <1>1 DEF IInv, Cleared, Arrays
<1> QED
  BY <1>1, <1>2, MovesOn

LEMMA ExitStep ==
  ASSUME IInv, NEW r \in Runs, Exit(r)
  PROVE  IInv'
<1>1. /\ pc[r] \in {"search", "try", "publish"} /\ pc' = [pc EXCEPT ![r] = "done"]
      /\ UNCHANGED <<confirmed, registered, listed, need, verdicts, draft, before, built>>
  BY DEF Exit, Goto
<1>2. DOMAIN draft = Runs
  BY DEF IInv, Arrays
<1> QED
  BY <1>1, <1>2, MovesOn

(* What NoDuplicate says of a tool that was built. *)
NotHalf(t, n, rivals) ==
  LET alone == {q \in Phrasings[n] \cap Fits[t] : \A x \in rivals \ {t} : q \notin Fits[x]}
  IN  2 * Cardinality(alone) < Cardinality(Phrasings[n])

(* The phrasings that a listed tool alone fits were all answered with it,  *)
(* and as it was no duplicate they are less than half.                     *)
LEMMA NotDuplicated ==
  ASSUME IInv, NEW r \in Runs, pc[r] = "publish", need[r] # None, NEW t \in before[r]
  PROVE  NotHalf(t, need[r], registered)
<1> DEFINE shown == Phrasings[need[r]]
           alone == {q \in shown \cap Fits[t] : \A x \in registered \ {t} : q \notin Fits[x]}
           heard == {q \in DOMAIN verdicts[r] : verdicts[r][q] = t}
<1>1. /\ need[r] \in Needs /\ Brief(r) = shown /\ DOMAIN verdicts[r] = shown /\ ~Duplicate(r)
  BY DEF IInv, Cleared, Brief
<1>2. IsFiniteSet(shown) /\ shown # {} /\ Cardinality(shown) \in Nat /\ Cardinality(shown) > 0
  BY <1>1, PhrasingsAssumption, FS_CardinalityType, FS_EmptySet
<1>3. alone \subseteq heard
  BY <1>1 DEF IInv, Heard, OnlyFit
<1>4. heard \subseteq shown
  BY <1>1
<1>5. IsFiniteSet(heard)
  BY <1>2, <1>4, FS_Subset
<1>6. IsFiniteSet(alone) /\ Cardinality(alone) <= Cardinality(heard)
  BY <1>3, <1>5, FS_Subset
<1>7. Cardinality(alone) \in Nat /\ Cardinality(heard) \in Nat
  BY <1>5, <1>6, FS_CardinalityType
<1>8. t # None
  BY NoneAssumption DEF IInv, Tables
<1>9. ASSUME alone = {} PROVE 2 * Cardinality(alone) < Cardinality(shown)
  <2>1. Cardinality(alone) = 0
    BY <1>9, FS_EmptySet
  <2> QED
    BY <1>2, <2>1
<1>10. ASSUME alone # {} PROVE 2 * Cardinality(alone) < Cardinality(shown)
  <2>1. t \in Range(verdicts[r]) \ {None}
    BY <1>3, <1>8, <1>10 DEF Range
  <2>2. ~(2 * Cardinality(heard) >= Cardinality(shown))
    BY <1>1, <2>1 DEF Duplicate
  <2>3. \A a, h, n \in Nat : a <= h /\ ~(2 * h >= n) => 2 * a < n
    OBVIOUS
  <2> QED
    BY <1>2, <1>6, <1>7, <2>2, <2>3
<1> QED
  BY <1>9, <1>10 DEF NotHalf

LEMMA PublishStep ==
  ASSUME IInv, NEW r \in Runs, Publish(r)
  PROVE  IInv'
<1> DEFINE new == [tool |-> draft[r], need |-> need[r], run |-> r, rivals |-> registered]
<1>1. /\ pc[r] = "publish" /\ need[r] # None /\ pc' = [pc EXCEPT ![r] = "done"]
      /\ registered' = registered \cup {draft[r]} /\ built' = built \cup {new}
      /\ UNCHANGED <<confirmed, listed, need, verdicts, draft, before>>
  BY DEF Publish, Goto
<1>2. draft[r] \in Works /\ draft[r] \in Tools
  BY <1>1 DEF IInv, Cleared
<1>3. /\ pc'[r] = "done" /\ \A s \in Runs \ {r} : pc'[s] = pc[s]
      /\ Arrays' /\ \A s \in Runs \ {r} : Untouched(s)
  BY <1>1 DEF IInv, Arrays, Untouched
<1>4. Tables'
  BY <1>1, <1>2 DEF IInv, Tables
<1>5. \A s \in Runs : Heard(s)'
  BY <1>1, HeardIsStable DEF IInv
<1>6. \A s \in Runs : Cleared(s)'
  <2>1. Cleared(r)'
    BY <1>1, <1>3 DEF IInv, Cleared
  <2> QED
    BY <1>3, <2>1, ClearedIsStable DEF IInv
<1>7. Over'
  BY <1>1, <1>3 DEF IInv, Over
<1>8. NoDuplicate'
  <2> SUFFICES ASSUME NEW b \in built \cup {new}
               PROVE  b.tool \in Works /\ \A t \in before[b.run] : NotHalf(t, b.need, b.rivals)
    BY <1>1 DEF NoDuplicate, NotHalf
  <2>1. CASE b \in built
    BY <2>1 DEF IInv, NoDuplicate, NotHalf
  <2>2. CASE b = new
    <3>1. b.tool = draft[r] /\ b.need = need[r] /\ b.run = r /\ b.rivals = registered
      BY <2>2
    <3> QED
      BY <1>1, <1>2, <3>1, NotDuplicated
  <2> QED
    BY <2>1, <2>2
<1> QED
  BY <1>3, <1>4, <1>5, <1>6, <1>7, <1>8 DEF IInv

-----------------------------------------------------------------------------
LEMMA InitIInv ==
  ASSUME Init
  PROVE  IInv
<1>1. Tables /\ Arrays /\ Over /\ NoDuplicate
  BY DEF Init, Tables, Arrays, Over, NoDuplicate
<1>2. ASSUME NEW r \in Runs PROVE Heard(r) /\ Cleared(r)
  <2>1. pc[r] = "idle" /\ need[r] = None /\ verdicts[r] = <<>> /\ before[r] = {}
    BY DEF Init
  <2>2. DOMAIN <<>> = {}
    OBVIOUS
  <2> QED
    BY <2>1, <2>2 DEF Heard, Cleared
<1> QED
  BY <1>1, <1>2 DEF IInv

LEMMA NextIInv ==
  ASSUME IInv, "error" \notin Faults, Next
  PROVE  IInv'
<1>1. ASSUME NEW n \in Needs, Confirm(n) PROVE IInv'
  <2>1. UNCHANGED <<registered, listed, run, built>> /\ confirmed' = confirmed \cup {n}
    BY <1>1 DEF Confirm
  <2>2. Tables'
    BY <2>1 DEF IInv, Tables, run
  <2> QED
    BY <2>1, <2>2, OthersPublish
<1>2. ASSUME NEW t \in Tools, Register(t) PROVE IInv'
  <2>1. UNCHANGED <<confirmed, listed, run, built>> /\ registered' = registered \cup {t}
    BY <1>2 DEF Register
  <2>2. Tables'
    BY <2>1 DEF IInv, Tables, run
  <2> QED
    BY <2>1, <2>2, OthersPublish
<1>3. ASSUME NEW t \in registered, List(t) PROVE IInv'
  <2>1. UNCHANGED <<confirmed, registered, run, built>> /\ listed' = listed \cup {t}
    BY <1>3 DEF List
  <2>2. Tables'
    BY <2>1 DEF IInv, Tables, run
  <2> QED
    BY <2>1, <2>2, OthersPublish
<1>4. ASSUME NEW r \in Runs, Step(r) PROVE IInv'
  BY <1>4, AskStep, GenerateStep, SmokeStep, PublishStep, ExitStep DEF Step
<1>5. ASSUME NEW r \in Runs, NEW n \in Needs \cup {None}, Begin(r, n) PROVE IInv'
  BY <1>5, BeginStep
<1> QED
  BY <1>1, <1>2, <1>3, <1>4, <1>5 DEF Next

(* As long as search-fn answers, build-tool.mjs publishes no tool for a    *)
(* need of which a tool that was listed when the run began answers half    *)
(* alone, whatever else is published while it asks one phrasing after the  *)
(* other, and nothing that has not passed its try.                         *)
THEOREM NoDuplicateIsBuilt ==
  ASSUME "error" \notin Faults
  PROVE  Spec => []NoDuplicate
<1>1. IInv /\ UNCHANGED vars => IInv'
  <2> SUFFICES ASSUME IInv, UNCHANGED vars PROVE IInv'
    OBVIOUS
  <2>1. UNCHANGED <<confirmed, registered, listed, run, built>>
    BY DEF vars
  <2>2. Tables'
    BY <2>1 DEF IInv, Tables, run
  <2> QED
    BY <2>1, <2>2, OthersPublish
<1>2. IInv /\ [Next]_vars => IInv'
  BY <1>1, NextIInv
<1>3. IInv => NoDuplicate
  BY DEF IInv
<1> QED
  BY <1>2, <1>3, InitIInv, PTL DEF Spec
=============================================================================
