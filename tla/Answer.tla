------------------------------- MODULE Answer -------------------------------
(***************************************************************************)
(* answer-fn in front of search-fn.  A question is asked of search-fn      *)
(* directly, or of answer-fn, which asks search-fn to defer the gap, lets  *)
(* a model answer, reach for tools or give up, and then writes the gap     *)
(* itself or does not.                                                     *)
(*                                                                         *)
(* What the model says is a free choice at each turn: a set of tools, with *)
(* Unmet for record_unmet_need and Unknown for a name it made up.  calls   *)
(* is the set of tools that were run, with how it went.                    *)
(***************************************************************************)
EXTENDS Search

CONSTANTS
  MaxTurns,      \* MAX_TURNS
  MaxAttempts,   \* how often the SDK sends an invocation
  Unmet_,        \* the name record_unmet_need
  Unknown        \* a name of no tool

ASSUME TurnsAssumption == MaxTurns \in Nat /\ MaxAttempts \in Nat
ASSUME NamesAssumption == Unmet_ # Unknown /\ {Unmet_, Unknown} \cap Tools = {}

VARIABLES
  kind,     \* the function each question is asked of
  stage,    \* where its request to answer-fn is
  asked,    \* how often search-fn has been invoked for it
  uses,     \* the tool uses of the last message of the model
  calls,    \* what has been run for it
  turns,    \* how often the loop has come round
  reason,   \* why a gap is about to be written
  outcome   \* the answer of answer-fn

answerVars == <<kind, stage, asked, uses, calls, turns, reason, outcome>>
loop       == <<uses, turns, reason>>
vars       == <<rows, gaps, events, now, cache, pc, role, env, since, defer,
                rejected, read, results, fits, draws, reply,
                kind, stage, asked, uses, calls, turns, reason, outcome>>

NoOutcome == [status |-> 0, by |-> "none", logged |-> FALSE]

AnswerInit ==
  /\ Init
  /\ kind \in [Questions -> {"search", "answer"}]
  /\ stage = [q \in Questions |-> "idle"]
  /\ asked = [q \in Questions |-> 0]
  /\ uses = [q \in Questions |-> {}]
  /\ calls = [q \in Questions |-> {}]
  /\ turns = [q \in Questions |-> 0]
  /\ reason = [q \in Questions |-> "none"]
  /\ outcome = [q \in Questions |-> NoOutcome]

Answering == {"search", "first", "turn", "model", "record"}

Ends(q, status, by, logged) ==
  /\ stage' = [stage EXCEPT ![q] = "done"]
  /\ outcome' = [outcome EXCEPT ![q] =
       [status |-> status, by |-> by, logged |-> logged]]
  /\ uses' = [uses EXCEPT ![q] = {}]
  /\ turns' = [turns EXCEPT ![q] = 0]
  /\ reason' = [reason EXCEPT ![q] = "none"]

-----------------------------------------------------------------------------
(* A question asked of search-fn itself. *)
AskSearch(q) ==
  /\ kind[q] = "search"
  /\ Ask(q)
  /\ UNCHANGED answerVars

(* handler(): a question, or none. *)
AskAnswer(q) ==
  /\ kind[q] = "answer"
  /\ stage[q] = "idle"
  /\ \/ /\ stage' = [stage EXCEPT ![q] = "search"]
        /\ asked' = [asked EXCEPT ![q] = 1]
        /\ UNCHANGED <<outcome, loop>>
     \/ Ends(q, 400, "none", FALSE) /\ UNCHANGED asked
  /\ UNCHANGED <<searchVars, kind, calls>>

(* forward() to search-fn, on behalf of the caller. *)
Forward(q) ==
  /\ stage[q] = "search"
  /\ Accept(q, TRUE, FALSE) \/ TurnAway(q)
  /\ UNCHANGED answerVars

(* The reply was lost, and the SDK invokes search-fn once more. *)
ForwardAgain(q) ==
  /\ "lost_reply" \in Faults
  /\ stage[q] = "search"
  /\ pc[q] \in {"done", "dead"}
  /\ asked[q] < MaxAttempts
  /\ asked' = [asked EXCEPT ![q] = @ + 1]
  /\ pc' = [pc EXCEPT ![q] = "idle"]
  /\ reply' = [reply EXCEPT ![q] = NoReply]
  /\ UNCHANGED <<world, gaps, events, cache, request, serving, read, results, fits, draws,
                 kind, stage, uses, calls, turns, reason, outcome>>

(* What search-fn has found, or the status it failed with: 0 when it died. *)
Found(q) ==
  /\ stage[q] = "search"
  /\ pc[q] \in {"done", "dead"}
  /\ IF reply[q].status = 200
     THEN stage' = [stage EXCEPT ![q] = "first"] /\ UNCHANGED <<outcome, loop>>
     ELSE Ends(q, reply[q].status, "none", FALSE)
  /\ UNCHANGED <<searchVars, kind, asked, calls>>

-----------------------------------------------------------------------------
(* recordGap(): nothing is written when nothing was deferred, and the      *)
(* answer is the same but for gap_logged.                                  *)
RecordGap(q, by, why) ==
  \/ /\ reply[q].deferred
     /\ draws' = [draws EXCEPT ![q] = @ + 1]
     /\ reason' = [reason EXCEPT ![q] = why]
     /\ stage' = [stage EXCEPT ![q] = "record"]
     /\ outcome' = [outcome EXCEPT ![q] = [NoOutcome EXCEPT !.by = by]]
     /\ UNCHANGED <<uses, turns>>
  \/ /\ ~reply[q].deferred
     /\ Ends(q, 200, by, FALSE)
     /\ UNCHANGED draws

Named(q) == SUBSET (results[q] \cup {Unmet_, Unknown})

(* mutant: going to the web is answering like any other *)
First_WebIsFree(q) ==
  /\ stage[q] = "first"
  /\ \/ \E by \in {"model", "web"} : Ends(q, 200, by, FALSE) /\ UNCHANGED draws
     \/ RecordGap(q, "model", "answered_but_expensive")
     \/ /\ \E named \in Named(q) \ {{}} : uses' = [uses EXCEPT ![q] = named]
        /\ stage' = [stage EXCEPT ![q] = "turn"]
        /\ UNCHANGED <<turns, reason, outcome, draws>>
  /\ UNCHANGED <<world, gaps, events, cache, pc, request, serving, read, results, fits, reply,
                 kind, asked, calls>>

(* The first answer of the model: from knowledge, at some cost or not, or  *)
(* off the web, or it reaches for something.                               *)
First(q) ==
  /\ stage[q] = "first"
  /\ \/ Ends(q, 200, "model", FALSE) /\ UNCHANGED draws
     \/ RecordGap(q, "model", "answered_but_expensive")
     \/ RecordGap(q, "web", "answered_by_web_search")
     \/ /\ \E named \in Named(q) \ {{}} : uses' = [uses EXCEPT ![q] = named]
        /\ stage' = [stage EXCEPT ![q] = "turn"]
        /\ UNCHANGED <<turns, reason, outcome, draws>>
  /\ UNCHANGED <<world, gaps, events, cache, pc, request, serving, read, results, fits, reply,
                 kind, asked, calls>>

Reaching(q) == stage[q] = "turn" /\ uses[q] # {} /\ turns[q] < MaxTurns

GivesUp(q) == Unmet_ \in uses[q] /\ calls[q] = {}

GiveUp(q) ==
  /\ Reaching(q)
  /\ GivesUp(q)
  /\ RecordGap(q, "nobody", "model_cannot_answer")
  /\ UNCHANGED <<world, gaps, events, cache, pc, request, serving, read, results, fits, reply,
                 kind, asked, calls>>

(* The tools of a turn, all at once; exec-fn runs each of them or fails. *)
RunTools(q) ==
  /\ Reaching(q)
  /\ ~GivesUp(q)
  /\ \E ok \in [uses[q] \cap Tools -> BOOLEAN] :
       calls' = [calls EXCEPT ![q] = @ \cup {<<t, ok[t]>> : t \in DOMAIN ok}]
  /\ stage' = [stage EXCEPT ![q] = "model"]
  /\ UNCHANGED <<searchVars, kind, asked, uses, turns, reason, outcome>>

(* mutant: the turns are not counted *)
Model_NotCounted(q) ==
  /\ stage[q] = "model"
  /\ \E named \in Named(q) : uses' = [uses EXCEPT ![q] = named]
  /\ stage' = [stage EXCEPT ![q] = "turn"]
  /\ UNCHANGED <<searchVars, kind, asked, calls, turns, reason, outcome>>

(* The model sees the results. *)
Model(q) ==
  /\ stage[q] = "model"
  /\ \E named \in Named(q) : uses' = [uses EXCEPT ![q] = named]
  /\ turns' = [turns EXCEPT ![q] = @ + 1]
  /\ stage' = [stage EXCEPT ![q] = "turn"]
  /\ UNCHANGED <<searchVars, kind, asked, calls, reason, outcome>>

(* Its answer, or what there is when it has not stopped reaching. *)
Conclude(q) ==
  /\ stage[q] = "turn"
  /\ ~Reaching(q)
  /\ Ends(q, 200, "tool", FALSE)
  /\ UNCHANGED <<searchVars, kind, asked, calls>>

(* The PutItem of recordGap(). *)
Record(q) ==
  /\ stage[q] = "record"
  /\ gaps' = gaps \cup {Gap(q, reason[q])}
  /\ \/ Ends(q, 200, outcome[q].by, TRUE)
     \/ "lost_reply" \in Faults /\ UNCHANGED <<stage, outcome, loop>>
  /\ UNCHANGED <<world, events, cache, pc, request, serving, read, results, fits, draws, reply,
                 kind, asked, calls>>

-----------------------------------------------------------------------------
(* The write of a gap that was under way may have been applied. *)
BrokenAnswer(q) ==
  \/ UNCHANGED gaps
  \/ stage[q] = "record" /\ gaps' = gaps \cup {Gap(q, reason[q])}

(* While search-fn works, answer-fn waits for it. *)
Awaits(q) == stage[q] \in Answering /\ pc[q] \notin Searching

(* handler()'s catch: an invocation, the model or the table throws. *)
ThrowAnswer(q) ==
  /\ "error" \in Faults
  /\ Awaits(q)
  /\ stage[q] = "turn" => Reaching(q) /\ ~GivesUp(q)
  /\ BrokenAnswer(q)
  /\ Ends(q, 500, "none", FALSE)
  /\ UNCHANGED <<world, events, cache, pc, request, serving, read, results, fits, draws, reply,
                 kind, asked, calls>>

CrashAnswer(q) ==
  /\ "crash" \in Faults
  /\ Awaits(q)
  /\ BrokenAnswer(q)
  /\ stage' = [stage EXCEPT ![q] = "dead"]
  /\ UNCHANGED <<world, events, cache, pc, request, serving, read, results, fits, draws, reply,
                 kind, asked, uses, calls, turns, reason, outcome>>

Step(q) ==
  \/ SearchStep(q) /\ UNCHANGED answerVars
  \/ Forward(q)
  \/ Found(q)
  \/ First(q)
  \/ GiveUp(q)
  \/ RunTools(q)
  \/ Model(q)
  \/ Conclude(q)
  \/ Record(q)

Next ==
  \/ \E t \in Tools : Publish(t) /\ UNCHANGED answerVars
  \/ Tick /\ UNCHANGED answerVars
  \/ \E q \in Questions :
       \/ AskSearch(q)
       \/ AskAnswer(q)
       \/ Step(q)
       \/ ForwardAgain(q)
       \/ Throw(q) /\ UNCHANGED answerVars
       \/ Crash(q) /\ UNCHANGED answerVars
       \/ ThrowAnswer(q)
       \/ CrashAnswer(q)

Spec == AnswerInit /\ [][Next]_vars

(* A request that has been taken up goes on; nobody else owes a step. *)
FairSpec == Spec /\ \A q \in Questions : WF_vars(Step(q))

-----------------------------------------------------------------------------
(* Properties. *)

(* gap_logged is the truth about the table, whichever function answers and *)
(* whatever had to be sent twice.                                          *)
LoggedMeansLogged ==
  \A q \in Questions :
    /\ kind[q] = "search" /\ pc[q] = "done" /\ reply[q].status = 200
         => (reply[q].logged <=> GapsOf(q) # {})
    /\ kind[q] = "answer" /\ stage[q] = "done" /\ outcome[q].status = 200
         => (outcome[q].logged <=> GapsOf(q) # {})

(* A gap is a need that nobody met: nothing fitted or the caller said so,  *)
(* no tool has produced anything for it, whatever the model says           *)
(* afterwards, and never is it one of a builder, whichever function writes. *)
GapIsUnmetDemand ==
  \A q \in Questions : GapsOf(q) # {} =>
    /\ Unmet(q, fits[q])
    /\ \A t \in Tools : <<t, TRUE>> \notin calls[q]
    /\ role[q] # "builder"

(* Going to the open web, or giving up, leaves a gap whenever nothing in   *)
(* the registry fitted: the demand is not lost because somebody answered.  *)
DemandIsKept ==
  \A q \in Questions :
    /\ stage[q] = "done"
    /\ outcome[q].status = 200
    /\ outcome[q].by \in {"web", "nobody"}
    /\ reply[q].deferred
    => GapsOf(q) # {}

(* Every request that was taken up ends, answered unless it was killed:    *)
(* the loop of model turns does, and a search that dies ends the question. *)
Answered ==
  \A q \in Questions :
    /\ pc[q] \in Searching ~> pc[q] \notin Searching
    /\ stage[q] \in Answering ~> stage[q] \in {"done", "dead"}
=============================================================================
