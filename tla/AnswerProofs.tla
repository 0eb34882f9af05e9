---------------------------- MODULE AnswerProofs ----------------------------
(***************************************************************************)
(* What is true of gaps and of listings for any questions, tools,          *)
(* environments, bounds and faults.                                        *)
(***************************************************************************)
EXTENDS Answer, FiniteSetTheorems, TLAPS

Arrays ==
  /\ DOMAIN pc = Questions /\ DOMAIN stage = Questions /\ DOMAIN fits = Questions
  /\ DOMAIN rejected = Questions /\ DOMAIN defer = Questions /\ DOMAIN events = Questions
  /\ DOMAIN calls = Questions /\ DOMAIN draws = Questions /\ DOMAIN reply = Questions
  /\ DOMAIN outcome = Questions /\ DOMAIN reason = Questions

(* Nothing fitted, nobody was building, and the search is in the log. *)
Demanded(q) == Unmet(q, fits[q]) /\ role[q] # "builder" /\ events[q] > 0

(* What is left of a question that is over. *)
Kept(q) ==
  \/ GapsOf(q) = {}
  \/ Demanded(q) /\ calls[q] = {} /\ \E gap : GapsOf(q) = {gap}

(* A question put to search-fn.  While its gap is written, and perhaps     *)
(* written again, it is one and the same row.                              *)
SearchedFor(q) ==
  /\ stage[q] = "idle" /\ calls[q] = {}
  /\ pc[q] \in {"idle", "load", "scan", "event", "judge"} => GapsOf(q) = {}
  /\ pc[q] = "put" => Demanded(q) /\ GapsOf(q) \subseteq {SearchGap(q)}
  /\ pc[q] \in {"done", "dead"} => Kept(q)
  /\ pc[q] = "done" /\ reply[q].status = 200 => (reply[q].logged <=> GapsOf(q) # {})

(* A question put to answer-fn.  search-fn writes nothing for it; a gap is *)
(* only deferred to it by the last search, and it runs no tool before the  *)
(* write of one.                                                           *)
AnsweredFor(q) ==
  /\ pc[q] \in Searching => stage[q] = "search" /\ defer[q] /\ pc[q] # "put"
  /\ stage[q] = "idle" => pc[q] = "idle"
  /\ reply[q].deferred => pc[q] = "done" /\ Demanded(q)
  /\ stage[q] \in {"idle", "search", "first", "turn", "model"} => GapsOf(q) = {}
  /\ stage[q] \in {"idle", "search", "first", "record"} => calls[q] = {}
  /\ stage[q] = "record" => reply[q].deferred /\ GapsOf(q) \subseteq {Gap(q, reason[q])}
  /\ stage[q] \in {"done", "dead"} => Kept(q)
  /\ stage[q] = "done" /\ outcome[q].status = 200 =>
       /\ outcome[q].logged <=> GapsOf(q) # {}
       /\ outcome[q].by \in {"web", "nobody"} /\ reply[q].deferred => GapsOf(q) # {}

Fine(q) ==
  /\ events[q] \in Nat
  /\ pc[q] \in {"judge", "put"} => events[q] > 0
  /\ pc[q] \in {"idle", "done", "dead"} \cup Searching
  /\ stage[q] \in {"idle", "done", "dead"} \cup Answering
  /\ kind[q] = "search" => SearchedFor(q)
  /\ kind[q] = "answer" => AnsweredFor(q)
  /\ kind[q] \in {"search", "answer"}

IInv == Arrays /\ \A q \in Questions : Fine(q)

-----------------------------------------------------------------------------
(* What a step of somebody else's leaves alone. *)
Same(q) ==
  /\ pc'[q] = pc[q] /\ stage'[q] = stage[q] /\ fits'[q] = fits[q]
  /\ rejected'[q] = rejected[q] /\ defer'[q] = defer[q] /\ events'[q] = events[q]
  /\ calls'[q] = calls[q] /\ draws'[q] = draws[q] /\ reply'[q] = reply[q]
  /\ outcome'[q] = outcome[q] /\ reason'[q] = reason[q]
  /\ role'[q] = role[q] /\ kind'[q] = kind[q]

LEMMA FineStays ==
  ASSUME NEW q \in Questions, Fine(q), Same(q), GapsOf(q)' = GapsOf(q)
  PROVE  Fine(q)'
BY DEF Fine, Same, SearchedFor, AnsweredFor, Kept, Demanded, Unmet, SearchGap, Gap,
       Searching, Answering

(* A write for one question is not one for another. *)
Writes(p) ==
  \/ UNCHANGED gaps
  \/ \E why : gaps' = gaps \cup {Gap(p, why)}

LEMMA GapsAreOnesOwn ==
  ASSUME NEW p \in Questions, NEW q \in Questions, q # p, Writes(p)
  PROVE  GapsOf(q)' = GapsOf(q)
<1>1. \A why : Gap(p, why).id[1] = p
  BY DEF Gap
<1> QED
  BY <1>1 DEF Writes, GapsOf

LEMMA OwnGap ==
  ASSUME NEW p \in Questions, NEW why, gaps' = gaps \cup {Gap(p, why)}
  PROVE  GapsOf(p)' = GapsOf(p) \cup {Gap(p, why)}
<1>1. Gap(p, why).id[1] = p
  BY DEF Gap
<1> QED
  BY <1>1 DEF GapsOf

(* A step for p that writes at most a gap of its own. *)
Own(p) ==
  /\ Arrays' /\ Writes(p)
  /\ \A q \in Questions \ {p} : Same(q)

LEMMA StepOfOne ==
  ASSUME IInv, NEW p \in Questions, Own(p), Fine(p)'
  PROVE  IInv'
<1>1. ASSUME NEW q \in Questions, q # p PROVE Fine(q)'
  BY <1>1, FineStays, GapsAreOnesOwn DEF IInv, Own
<1> QED
  BY <1>1 DEF IInv, Own

LEMMA UnwrittenGaps ==
  ASSUME UNCHANGED gaps, NEW q
  PROVE  GapsOf(q)' = GapsOf(q)
BY DEF GapsOf

-----------------------------------------------------------------------------
(* search-fn. *)
LEMMA AcceptStep ==
  ASSUME IInv, NEW p \in Questions, NEW deferred \in BOOLEAN, NEW no \in BOOLEAN,
         Accept(p, deferred, no), UNCHANGED answerVars,
         kind[p] = "answer" => deferred /\ stage[p] = "search"
  PROVE  IInv'
<1>1. Own(p)
  BY DEF IInv, Own, Arrays, Writes, Same, Accept, world, answerVars
<1>2. GapsOf(p)' = GapsOf(p)
  BY UnwrittenGaps DEF Accept
<1>3. pc[p] = "idle" /\ pc'[p] = "load"
  BY DEF Accept, IInv, Arrays
<1>4. /\ UNCHANGED <<kind, stage, calls, events, reply, reason, outcome>>
      /\ defer'[p] = deferred
  BY DEF Accept, answerVars, IInv, Arrays
<1>5. Fine(p)'
  BY <1>2, <1>3, <1>4 DEF IInv, Fine, SearchedFor, AnsweredFor, Searching, Answering
<1> QED
  BY <1>1, <1>5, StepOfOne

LEMMA TurnAwayStep ==
  ASSUME IInv, NEW p \in Questions, TurnAway(p), UNCHANGED answerVars,
         kind[p] = "answer" => stage[p] = "search"
  PROVE  IInv'
<1>1. Own(p)
  BY DEF IInv, Own, Arrays, Writes, Same, TurnAway, Finish, Failure, world, request, answerVars
<1>2. GapsOf(p)' = GapsOf(p)
  BY UnwrittenGaps DEF TurnAway
<1>3. pc[p] = "idle" /\ pc'[p] = "done"
  BY DEF TurnAway, Finish, IInv, Arrays
<1>4. /\ UNCHANGED <<kind, stage, calls, events, reason, outcome>>
      /\ reply'[p].status # 200 /\ reply'[p].deferred = FALSE
  BY DEF TurnAway, Finish, Failure, answerVars, IInv, Arrays
<1>5. Fine(p)'
  BY <1>2, <1>3, <1>4 DEF IInv, Fine, SearchedFor, AnsweredFor, Kept, Searching, Answering
<1> QED
  BY <1>1, <1>5, StepOfOne

(* The steps by which search-fn comes to know what there is. *)
LEMMA LookStep ==
  ASSUME IInv, NEW p \in Questions, UseCache(p) \/ StartScan(p) \/ Loaded(p),
         UNCHANGED answerVars
  PROVE  IInv'
<1>1. Own(p)
  BY DEF IInv, Own, Arrays, Writes, Same, UseCache, StartScan, Loaded, Rank,
         world, request, answerVars
<1>2. GapsOf(p)' = GapsOf(p)
  BY UnwrittenGaps DEF UseCache, StartScan, Loaded
<1>3. pc[p] \in {"load", "scan"} /\ pc'[p] \in {"scan", "event"}
  BY DEF UseCache, StartScan, Loaded, Rank, IInv, Arrays
<1>4. UNCHANGED <<kind, stage, calls, events, reply, defer, reason, outcome>>
  BY DEF UseCache, StartScan, Loaded, request, answerVars
<1>5. Fine(p)'
  BY <1>2, <1>3, <1>4 DEF IInv, Fine, SearchedFor, AnsweredFor, Searching, Answering
<1> QED
  BY <1>1, <1>5, StepOfOne

LEMMA RecordSearchStep ==
  ASSUME IInv, NEW p \in Questions, RecordSearch(p), UNCHANGED answerVars
  PROVE  IInv'
<1>1. Own(p)
  BY DEF IInv, Own, Arrays, Writes, Same, RecordSearch, world, request, answerVars
<1>2. GapsOf(p)' = GapsOf(p)
  BY UnwrittenGaps DEF RecordSearch
<1>3. pc[p] = "event" /\ pc'[p] = "judge" /\ events'[p] = events[p] + 1 /\ events[p] \in Nat
  BY DEF RecordSearch, IInv, Arrays, Fine
<1>4. UNCHANGED <<kind, stage, calls, reply, defer, reason, outcome>>
  BY DEF RecordSearch, request, answerVars
<1>5. Fine(p)'
  BY <1>2, <1>3, <1>4 DEF IInv, Fine, SearchedFor, AnsweredFor, Searching, Answering
<1> QED
  BY <1>1, <1>5, StepOfOne

(* A verdict leads to a gap, or to a deferred one, when there is a demand. *)
LEMMA JudgeStep ==
  ASSUME IInv, NEW p \in Questions, Judge(p), UNCHANGED answerVars
  PROVE  IInv'
<1>1. Own(p)
  BY DEF IInv, Own, Arrays, Writes, Same, Judge, Finish, world, request, answerVars
<1>2. GapsOf(p)' = GapsOf(p)
  BY UnwrittenGaps DEF Judge
<1>3. PICK fit \in results[p] \cup {None} :
        /\ fits' = [fits EXCEPT ![p] = fit]
        /\ \/ /\ Decided(p, fit) = "none"
              /\ Finish(p, Answer200(FALSE, FALSE))
           \/ /\ Decided(p, fit) = "defer"
              /\ Finish(p, Answer200(FALSE, TRUE))
           \/ /\ Decided(p, fit) = "gap"
              /\ pc' = [pc EXCEPT ![p] = "put"]
              /\ UNCHANGED reply
  BY DEF Judge
<1>4. fits'[p] = fit /\ pc[p] = "judge"
  BY <1>3 DEF IInv, Arrays, Judge
<1>5. UNCHANGED <<kind, stage, calls, events, defer, rejected, role, reason, outcome>>
  BY DEF Judge, request, answerVars
<1>6. \/ pc'[p] = "done" /\ reply'[p] = Answer200(FALSE, FALSE)
      \/ pc'[p] = "done" /\ reply'[p] = Answer200(FALSE, TRUE) /\ Decided(p, fit) = "defer"
      \/ pc'[p] = "put" /\ reply'[p] = reply[p] /\ Decided(p, fit) = "gap"
  BY <1>3 DEF Finish, IInv, Arrays
<1>7. Decided(p, fit) \in {"defer", "gap"} => Demanded(p)'
  BY <1>4, <1>5 DEF Decided, Demanded, Unmet, IInv, Fine
<1>8. Decided(p, fit) = "gap" => ~defer[p]
  BY DEF Decided
<1>9. Fine(p)'
  BY <1>2, <1>4, <1>5, <1>6, <1>7, <1>8
  DEF IInv, Fine, SearchedFor, AnsweredFor, Kept, Answer200, Searching, Answering
<1> QED
  BY <1>1, <1>9, StepOfOne

(* The row may be written many times: it is the same one. *)
LEMMA PutGapStep ==
  ASSUME IInv, NEW p \in Questions, PutGap(p), UNCHANGED answerVars
  PROVE  IInv'
<1>1. Own(p)
  BY DEF IInv, Own, Arrays, Writes, Same, PutGap, Finish, SearchGap, world, request, serving, answerVars
<1>2. GapsOf(p)' = GapsOf(p) \cup {SearchGap(p)}
  BY OwnGap DEF PutGap, SearchGap
<1>3. /\ pc[p] = "put" /\ pc'[p] \in {"put", "done"}
      /\ pc'[p] = "done" => reply'[p] = Answer200(TRUE, FALSE)
      /\ kind[p] = "search"
  BY DEF PutGap, Finish, IInv, Arrays, Fine, AnsweredFor, Searching
<1>4. UNCHANGED <<kind, stage, calls, events, defer, role, rejected, fits, draws, reason, outcome>>
  BY DEF PutGap, request, answerVars
<1>5. SearchGap(p)' = SearchGap(p) /\ (Demanded(p)' <=> Demanded(p))
  BY <1>4 DEF SearchGap, Gap, Demanded, Unmet
<1>6. GapsOf(p)' = {SearchGap(p)} /\ Demanded(p)
  BY <1>2, <1>3 DEF IInv, Fine, SearchedFor
<1>7. Fine(p)'
  BY <1>3, <1>4, <1>5, <1>6 DEF IInv, Fine, SearchedFor, AnsweredFor, Kept, Answer200, Searching, Answering
<1> QED
  BY <1>1, <1>7, StepOfOne

(* A write that throws, or that is cut off, has perhaps been applied. *)
LEMMA BrokenStep ==
  ASSUME IInv, NEW p \in Questions, Throw(p) \/ Crash(p), UNCHANGED answerVars
  PROVE  IInv'
<1>1. /\ pc[p] \in Searching /\ Broken(p)
      /\ \/ pc' = [pc EXCEPT ![p] = "done"] /\ reply' = [reply EXCEPT ![p] = Failure(500)]
         \/ pc' = [pc EXCEPT ![p] = "dead"] /\ UNCHANGED reply
      /\ UNCHANGED <<kind, stage, calls, defer, role, rejected, fits, draws, reason, outcome>>
  BY DEF Throw, Crash, Finish, request, answerVars
<1>2. Writes(p)
  BY <1>1 DEF Broken, Writes, SearchGap
<1>3. Own(p)
  BY <1>1, <1>2 DEF IInv, Own, Arrays, Same, Broken
<1>4. /\ \/ pc'[p] = "done" /\ reply'[p].status # 200
         \/ pc'[p] = "dead"
      /\ kind[p] = "answer" => ~reply'[p].deferred
  <2>1. pc[p] # "done" /\ (kind[p] = "answer" => ~reply[p].deferred)
    BY <1>1 DEF IInv, Fine, AnsweredFor, Searching
  <2> QED
    BY <1>1, <2>1 DEF Failure, IInv, Arrays
<1>5. events'[p] \in Nat /\ (events[p] > 0 => events'[p] > 0)
  BY <1>1 DEF Broken, IInv, Arrays, Fine
<1>6. Demanded(p) => Demanded(p)'
  BY <1>1, <1>5 DEF Demanded, Unmet
<1>7. \/ GapsOf(p)' = {}
      \/ kind[p] = "search" /\ Demanded(p) /\ calls[p] = {} /\ GapsOf(p)' = {SearchGap(p)}
  <2>1. CASE UNCHANGED gaps
    <3>1. GapsOf(p)' = GapsOf(p)
      BY <2>1, UnwrittenGaps
    <3> QED
      BY <1>1, <3>1 DEF IInv, Fine, SearchedFor, AnsweredFor, Searching
  <2>2. CASE pc[p] = "put" /\ gaps' = gaps \cup {SearchGap(p)}
    <3>1. GapsOf(p)' = GapsOf(p) \cup {SearchGap(p)}
      BY <2>2, OwnGap DEF SearchGap
    <3> QED
      BY <2>2, <3>1 DEF IInv, Fine, SearchedFor, AnsweredFor, Searching
  <2> QED
    BY <1>1, <2>1, <2>2 DEF Broken
<1>8. kind[p] = "answer" => stage[p] = "search" /\ calls[p] = {}
  BY <1>1 DEF IInv, Fine, AnsweredFor
<1>9. Fine(p)'
  BY <1>1, <1>4, <1>5, <1>6, <1>7, <1>8
  DEF IInv, Fine, SearchedFor, AnsweredFor, Kept, Searching, Answering
<1> QED
  BY <1>3, <1>9, StepOfOne

-----------------------------------------------------------------------------
(* answer-fn.  Of what search-fn keeps, its steps change the gaps and the  *)
(* draws at most. *)
Behind == <<pc, fits, rejected, defer, events, reply, role, kind>>

LEMMA BehindStays ==
  ASSUME NEW p, UNCHANGED Behind
  PROVE  Demanded(p)' <=> Demanded(p)
BY DEF Behind, Demanded, Unmet

(* An answer is given. *)
LEMMA EndsStep ==
  ASSUME IInv, NEW p \in Questions, kind[p] = "answer", pc[p] \notin Searching,
         UNCHANGED <<Behind, calls>>, UNCHANGED draws \/ draws' = [draws EXCEPT ![p] = @ + 1],
         Writes(p), Kept(p)', NEW status, NEW by, NEW logged \in BOOLEAN,
         Ends(p, status, by, logged),
         status = 200 => /\ logged <=> GapsOf(p)' # {}
                         /\ by \in {"web", "nobody"} /\ reply[p].deferred => GapsOf(p)' # {}
  PROVE  IInv'
<1>1. Own(p)
  BY DEF IInv, Own, Arrays, Same, Ends, Behind
<1>2. /\ stage'[p] = "done" /\ outcome'[p].status = status
      /\ outcome'[p].by = by /\ outcome'[p].logged = logged
  BY DEF IInv, Arrays, Ends
<1>3. UNCHANGED <<pc, fits, rejected, defer, events, reply, role, kind, calls>>
  BY DEF Behind
<1>4. Demanded(p)' <=> Demanded(p)
  BY BehindStays
<1>5. Fine(p)'
  BY <1>2, <1>3, <1>4 DEF IInv, Fine, AnsweredFor, Answering
<1> QED
  BY <1>1, <1>5, StepOfOne

(* The request goes on. *)
LEMMA GoesOn ==
  ASSUME IInv, NEW p \in Questions, kind[p] = "answer", pc[p] \notin Searching,
         UNCHANGED <<Behind, gaps>>,
         UNCHANGED draws \/ draws' = [draws EXCEPT ![p] = @ + 1],
         NEW label \in {"search", "first", "turn", "model", "record"},
         stage' = [stage EXCEPT ![p] = label],
         UNCHANGED outcome \/ \E o : outcome' = [outcome EXCEPT ![p] = o],
         UNCHANGED reason \/ \E why : reason' = [reason EXCEPT ![p] = why],
         UNCHANGED calls \/ \E more : calls' = [calls EXCEPT ![p] = more],
         GapsOf(p) = {},
         label \in {"search", "first", "record"} => calls'[p] = {},
         label = "record" => reply[p].deferred
  PROVE  IInv'
<1>1. Own(p)
  BY DEF IInv, Own, Arrays, Writes, Same, Behind
<1>2. stage'[p] = label /\ GapsOf(p)' = GapsOf(p)
  BY UnwrittenGaps DEF IInv, Arrays
<1>3. UNCHANGED <<pc, fits, rejected, defer, events, reply, role, kind>>
  BY DEF Behind
<1>4. Demanded(p)' <=> Demanded(p)
  BY BehindStays
<1>5. Fine(p)'
  BY <1>2, <1>3, <1>4 DEF IInv, Fine, AnsweredFor, Kept, Answering
<1> QED
  BY <1>1, <1>5, StepOfOne

(* Who is past "idle" was asked of answer-fn, and past "search" it does    *)
(* not wait for search-fn any more.                                        *)
LEMMA Where ==
  ASSUME IInv, NEW p \in Questions, stage[p] # "idle"
  PROVE  /\ kind[p] = "answer" /\ AnsweredFor(p)
         /\ stage[p] # "search" => pc[p] \notin Searching
BY DEF IInv, Fine, SearchedFor, AnsweredFor

LEMMA AskAnswerStep ==
  ASSUME IInv, NEW p \in Questions, AskAnswer(p)
  PROVE  IInv'
<1>1. /\ kind[p] = "answer" /\ stage[p] = "idle" /\ pc[p] \notin Searching
      /\ GapsOf(p) = {} /\ calls[p] = {}
  BY DEF AskAnswer, IInv, Fine, AnsweredFor, Searching
<1>2. UNCHANGED <<Behind, calls, draws, gaps>>
  BY DEF AskAnswer, searchVars, Behind
<1>3. GapsOf(p)' = {} /\ Kept(p)' /\ Writes(p)
  BY <1>1, <1>2, UnwrittenGaps DEF Kept, Writes
<1>4. CASE Ends(p, 400, "none", FALSE)
  BY <1>1, <1>2, <1>3, <1>4, EndsStep
<1>5. CASE stage' = [stage EXCEPT ![p] = "search"] /\ UNCHANGED <<outcome, reason>>
  BY <1>1, <1>2, <1>5, GoesOn
<1> QED
  BY <1>4, <1>5 DEF AskAnswer, loop

LEMMA ForwardAgainStep ==
  ASSUME IInv, NEW p \in Questions, ForwardAgain(p)
  PROVE  IInv'
<1>1. kind[p] = "answer" /\ AnsweredFor(p)
  BY Where DEF ForwardAgain
<1>2. Own(p)
  BY DEF IInv, Own, Arrays, Writes, Same, ForwardAgain, request, world
<1>3. GapsOf(p)' = GapsOf(p)
  BY UnwrittenGaps DEF ForwardAgain
<1>4. /\ stage[p] = "search" /\ pc'[p] = "idle" /\ ~reply'[p].deferred
      /\ UNCHANGED <<kind, stage, calls, events, defer, role, reason, outcome>>
  BY DEF ForwardAgain, NoReply, IInv, Arrays, request
<1>5. Fine(p)'
  BY <1>1, <1>3, <1>4 DEF IInv, Fine, AnsweredFor, Searching, Answering
<1> QED
  BY <1>2, <1>5, StepOfOne

LEMMA FoundStep ==
  ASSUME IInv, NEW p \in Questions, Found(p)
  PROVE  IInv'
<1>1. /\ kind[p] = "answer" /\ stage[p] = "search" /\ pc[p] \notin Searching
      /\ GapsOf(p) = {} /\ calls[p] = {}
  BY Where DEF Found, AnsweredFor, Searching
<1>2. UNCHANGED <<Behind, calls, draws, gaps>>
  BY DEF Found, searchVars, Behind
<1>3. GapsOf(p)' = {} /\ Kept(p)' /\ Writes(p)
  BY <1>1, <1>2, UnwrittenGaps DEF Kept, Writes
<1>4. ASSUME reply[p].status # 200, Ends(p, reply[p].status, "none", FALSE) PROVE IInv'
  BY <1>1, <1>2, <1>3, <1>4, EndsStep
<1>5. CASE stage' = [stage EXCEPT ![p] = "first"] /\ UNCHANGED <<outcome, reason>>
  BY <1>1, <1>2, <1>5, GoesOn
<1> QED
  BY <1>4, <1>5 DEF Found, loop

(* What was deferred is about to be written, or nothing was and the        *)
(* request ends.                                                           *)
LEMMA RecordGapStep ==
  ASSUME IInv, NEW p \in Questions, kind[p] = "answer", pc[p] \notin Searching,
         GapsOf(p) = {}, calls[p] = {}, NEW by, NEW why, RecordGap(p, by, why),
         UNCHANGED <<Behind, calls, gaps>>
  PROVE  IInv'
<1>1. GapsOf(p)' = {} /\ Kept(p)' /\ Writes(p)
  BY UnwrittenGaps DEF Kept, Writes
<1>2. CASE /\ reply[p].deferred
           /\ draws' = [draws EXCEPT ![p] = @ + 1]
           /\ reason' = [reason EXCEPT ![p] = why]
           /\ stage' = [stage EXCEPT ![p] = "record"]
           /\ outcome' = [outcome EXCEPT ![p] = [NoOutcome EXCEPT !.by = by]]
  BY <1>2, GoesOn
<1>3. CASE ~reply[p].deferred /\ Ends(p, 200, by, FALSE) /\ UNCHANGED draws
  BY <1>1, <1>3, EndsStep
<1> QED
  BY <1>2, <1>3 DEF RecordGap

LEMMA FirstStep ==
  ASSUME IInv, NEW p \in Questions, First(p)
  PROVE  IInv'
<1>1. /\ kind[p] = "answer" /\ stage[p] = "first" /\ pc[p] \notin Searching
      /\ GapsOf(p) = {} /\ calls[p] = {}
  BY Where DEF First, AnsweredFor
<1>2. UNCHANGED <<Behind, calls, gaps>>
  BY DEF First, request, Behind
<1>3. GapsOf(p)' = {} /\ Kept(p)' /\ Writes(p)
  BY <1>1, <1>2, UnwrittenGaps DEF Kept, Writes
<1>4. CASE Ends(p, 200, "model", FALSE) /\ UNCHANGED draws
  BY <1>1, <1>2, <1>3, <1>4, EndsStep
<1>5. CASE \/ RecordGap(p, "model", "answered_but_expensive")
           \/ RecordGap(p, "web", "answered_by_web_search")
  BY <1>1, <1>2, <1>5, RecordGapStep
<1>6. CASE stage' = [stage EXCEPT ![p] = "turn"] /\ UNCHANGED <<reason, outcome, draws>>
  BY <1>1, <1>2, <1>6, GoesOn
<1> QED
  BY <1>4, <1>5, <1>6 DEF First

LEMMA GiveUpStep ==
  ASSUME IInv, NEW p \in Questions, GiveUp(p)
  PROVE  IInv'
<1>1. /\ kind[p] = "answer" /\ pc[p] \notin Searching
      /\ GapsOf(p) = {} /\ calls[p] = {}
  BY Where DEF GiveUp, Reaching, GivesUp, AnsweredFor
<1>2. UNCHANGED <<Behind, calls, gaps>>
  BY DEF GiveUp, request, Behind
<1> QED
  BY <1>1, <1>2, RecordGapStep DEF GiveUp

(* The loop: tools, and the model that sees what they gave. *)
LEMMA LoopStep ==
  ASSUME IInv, NEW p \in Questions, RunTools(p) \/ Model(p)
  PROVE  IInv'
<1>1. kind[p] = "answer" /\ pc[p] \notin Searching /\ GapsOf(p) = {}
  BY Where DEF RunTools, Model, Reaching, AnsweredFor
<1>2. UNCHANGED <<Behind, gaps, draws, reason, outcome>>
  BY DEF RunTools, Model, searchVars, Behind
<1>3. CASE RunTools(p)
  <2>1. stage' = [stage EXCEPT ![p] = "model"]
    BY <1>3 DEF RunTools
  <2>2. \E more : calls' = [calls EXCEPT ![p] = more]
    BY <1>3 DEF RunTools
  <2> QED
    BY <1>1, <1>2, <2>1, <2>2, GoesOn
<1>4. CASE Model(p)
  <2>1. stage' = [stage EXCEPT ![p] = "turn"] /\ UNCHANGED calls
    BY <1>4 DEF Model
  <2> QED
    BY <1>1, <1>2, <2>1, GoesOn
<1> QED
  BY <1>3, <1>4

LEMMA ConcludeStep ==
  ASSUME IInv, NEW p \in Questions, Conclude(p)
  PROVE  IInv'
<1>1. kind[p] = "answer" /\ pc[p] \notin Searching /\ GapsOf(p) = {}
  BY Where DEF Conclude, AnsweredFor
<1>2. UNCHANGED <<Behind, calls, draws, gaps>> /\ Ends(p, 200, "tool", FALSE)
  BY DEF Conclude, searchVars, Behind
<1>3. GapsOf(p)' = {} /\ Kept(p)' /\ Writes(p)
  BY <1>1, <1>2, UnwrittenGaps DEF Kept, Writes
<1> QED
  BY <1>1, <1>2, <1>3, EndsStep

(* The gap answer-fn writes, once or again. *)
LEMMA RecordStep ==
  ASSUME IInv, NEW p \in Questions, Record(p)
  PROVE  IInv'
<1>1. /\ kind[p] = "answer" /\ stage[p] = "record" /\ pc[p] \notin Searching
      /\ calls[p] = {} /\ Demanded(p) /\ GapsOf(p) \subseteq {Gap(p, reason[p])}
  BY Where DEF Record, AnsweredFor
<1>2. UNCHANGED <<Behind, calls, draws>> /\ Writes(p)
  BY DEF Record, request, Behind, Writes
<1>3. GapsOf(p)' = {Gap(p, reason[p])}
  BY <1>1, OwnGap DEF Record
<1>4. Demanded(p)'
  BY <1>1, <1>2, BehindStays
<1>5. Kept(p)'
  BY <1>1, <1>2, <1>3, <1>4 DEF Kept
<1>6. CASE Ends(p, 200, outcome[p].by, TRUE)
  BY <1>1, <1>2, <1>3, <1>5, <1>6, EndsStep
<1>7. CASE UNCHANGED <<stage, outcome, reason>>
  <2>1. Own(p)
    BY <1>2, <1>7 DEF IInv, Own, Arrays, Same, Behind
  <2>2. UNCHANGED <<pc, fits, rejected, defer, events, reply, role, kind, calls, draws>>
    BY <1>2 DEF Behind
  <2>3. GapsOf(p)' \subseteq {Gap(p, reason[p])'}
    BY <1>3, <1>7, <2>2 DEF Gap
  <2>4. Fine(p)'
    BY <1>1, <1>4, <1>7, <2>2, <2>3 DEF IInv, Fine, AnsweredFor, Gap
  <2> QED
    BY <2>1, <2>4, StepOfOne
<1> QED
  BY <1>6, <1>7 DEF Record, loop

(* The end of a request that throws, or is cut off, at any point. *)
LEMMA BrokenAnswerStep ==
  ASSUME IInv, NEW p \in Questions, ThrowAnswer(p) \/ CrashAnswer(p)
  PROVE  IInv'
<1>1. /\ kind[p] = "answer" /\ stage[p] \in Answering /\ pc[p] \notin Searching
      /\ AnsweredFor(p)
  BY Where DEF ThrowAnswer, CrashAnswer, Awaits, Answering
<1>2. UNCHANGED <<Behind, calls, draws>> /\ BrokenAnswer(p)
  BY DEF ThrowAnswer, CrashAnswer, request, Behind
<1>3. Writes(p)
  BY <1>2 DEF BrokenAnswer, Writes
<1>4. Kept(p)'
  <2>1. CASE UNCHANGED gaps
    <3>1. GapsOf(p)' = GapsOf(p) /\ (Demanded(p)' <=> Demanded(p))
      BY <1>2, <2>1, UnwrittenGaps, BehindStays
    <3>2. Kept(p)
      BY <1>1 DEF AnsweredFor, Answering, Kept
    <3> QED
      BY <1>2, <3>1, <3>2 DEF Kept
  <2>2. CASE stage[p] = "record" /\ gaps' = gaps \cup {Gap(p, reason[p])}
    <3>1. GapsOf(p)' = {Gap(p, reason[p])}
      BY <1>1, <2>2, OwnGap DEF AnsweredFor
    <3>2. Demanded(p)'
      BY <1>1, <1>2, <2>2, BehindStays DEF AnsweredFor
    <3> QED
      BY <1>1, <1>2, <2>2, <3>1, <3>2 DEF Kept, AnsweredFor
  <2> QED
    BY <1>2, <2>1, <2>2 DEF BrokenAnswer
<1>5. Own(p)
  BY <1>2, <1>3 DEF IInv, Own, Arrays, Same, Behind, ThrowAnswer, CrashAnswer, Ends
<1>6. \/ stage'[p] = "done" /\ outcome'[p].status = 500
      \/ stage'[p] = "dead"
  BY DEF IInv, Arrays, ThrowAnswer, CrashAnswer, Ends
<1>7. UNCHANGED <<pc, fits, rejected, defer, events, reply, role, kind, calls>>
  BY <1>2 DEF Behind
<1>8. Demanded(p)' <=> Demanded(p)
  BY <1>2, BehindStays
<1>9. Fine(p)'
  BY <1>1, <1>4, <1>6, <1>7, <1>8 DEF IInv, Fine, AnsweredFor, Answering
<1> QED
  BY <1>5, <1>9, StepOfOne

-----------------------------------------------------------------------------
LEMMA InitIInv == AnswerInit => IInv
<1> SUFFICES ASSUME AnswerInit PROVE IInv
  OBVIOUS
<1>1. Arrays
  BY DEF AnswerInit, Init, Arrays
<1>2. ASSUME NEW q \in Questions PROVE Fine(q)
  <2>1. /\ pc[q] = "idle" /\ stage[q] = "idle" /\ calls[q] = {} /\ events[q] = 0
        /\ kind[q] \in {"search", "answer"} /\ reply[q] = NoReply
    BY DEF AnswerInit, Init
  <2>2. GapsOf(q) = {}
    BY DEF AnswerInit, Init, GapsOf
  <2> QED
    BY <2>1, <2>2 DEF Fine, SearchedFor, AnsweredFor, NoReply, Searching, Answering
<1> QED
  BY <1>1, <1>2 DEF IInv

(* Whatever concerns no question leaves all of them alone. *)
LEMMA NobodysStep ==
  ASSUME IInv, UNCHANGED <<pc, stage, fits, rejected, defer, events, calls, draws, reply,
                           outcome, reason, role, kind, gaps>>
  PROVE  IInv'
<1>1. ASSUME NEW q \in Questions PROVE Fine(q)'
  BY <1>1, FineStays, UnwrittenGaps DEF IInv, Same
<1> QED
  BY <1>1 DEF IInv, Arrays

LEMMA NextIInv == IInv /\ [Next]_vars => IInv'
<1> SUFFICES ASSUME IInv, [Next]_vars PROVE IInv'
  OBVIOUS
<1>1. CASE \/ \E t \in Tools : Publish(t) /\ UNCHANGED answerVars
           \/ Tick /\ UNCHANGED answerVars
           \/ UNCHANGED vars
  BY <1>1, NobodysStep DEF Publish, Tick, request, answerVars, vars
<1>2. ASSUME NEW q \in Questions, AskSearch(q) PROVE IInv'
  <2>1. kind[q] = "search" /\ Ask(q) /\ UNCHANGED answerVars
    BY <1>2 DEF AskSearch
  <2> QED
    BY <2>1, AcceptStep, TurnAwayStep DEF Ask
<1>3. ASSUME NEW q \in Questions, Forward(q) PROVE IInv'
  <2>1. stage[q] = "search" /\ UNCHANGED answerVars /\ (Accept(q, TRUE, FALSE) \/ TurnAway(q))
    BY <1>3 DEF Forward
  <2> QED
    BY <2>1, AcceptStep, TurnAwayStep
<1>4. ASSUME NEW q \in Questions, SearchStep(q), UNCHANGED answerVars PROVE IInv'
  BY <1>4, LookStep, RecordSearchStep, JudgeStep, PutGapStep DEF SearchStep
<1>5. ASSUME NEW q \in Questions, Step(q) PROVE IInv'
  BY <1>3, <1>4, <1>5, FoundStep, FirstStep, GiveUpStep, LoopStep, ConcludeStep, RecordStep, Zenon
  DEF Step
<1> QED
  BY <1>1, <1>2, <1>5, AskAnswerStep, ForwardAgainStep, BrokenStep, BrokenAnswerStep, Zenon DEF Next

LEMMA GapsAreFine == Spec => []IInv
BY InitIInv, NextIInv, PTL DEF Spec

(* A gap counts once, however often it is sent, and the search it came out *)
(* of is in the log of searches by then.                                   *)
THEOREM GapsCountOnce == Spec => []OneGapPerQuestion
<1>1. ASSUME IInv, NEW q \in Questions
      PROVE  Cardinality(GapsOf(q)) =< 1 /\ (GapsOf(q) # {} => events[q] > 0)
  <2>1. \/ GapsOf(q) = {}
        \/ Demanded(q) /\ \E gap : GapsOf(q) = {gap}
    <3>1. CASE kind[q] = "search"
      BY <1>1, <3>1 DEF IInv, Fine, SearchedFor, Kept, Searching
    <3>2. CASE kind[q] = "answer"
      BY <1>1, <3>2 DEF IInv, Fine, AnsweredFor, Kept, Answering
    <3> QED
      BY <1>1, <3>1, <3>2 DEF IInv, Fine
  <2> QED
    <3>1. Cardinality(GapsOf(q)) =< 1
      <4>1. CASE GapsOf(q) = {}
        BY <4>1, FS_EmptySet
      <4>2. ASSUME NEW gap, GapsOf(q) = {gap} PROVE Cardinality(GapsOf(q)) =< 1
        <5>1. Cardinality({gap}) = 1
          BY FS_Singleton
        <5> QED
          BY <4>2, <5>1
      <4> QED
        BY <2>1, <4>1, <4>2
    <3> QED
      BY <2>1, <3>1 DEF Demanded
<1>2. IInv => OneGapPerQuestion
  BY <1>1 DEF OneGapPerQuestion
<1> QED
  BY <1>2, GapsAreFine, PTL

(* Nothing but an unmet need is written down, by either of the functions:  *)
(* never one that a tool has done something for, nor one of a builder.     *)
THEOREM GapsAreDemand == Spec => []GapIsUnmetDemand
<1>1. ASSUME IInv, NEW q \in Questions, GapsOf(q) # {}
      PROVE  Demanded(q) /\ calls[q] = {}
  <2>1. CASE kind[q] = "search"
    BY <1>1, <2>1 DEF IInv, Fine, SearchedFor, Kept, Searching
  <2>2. CASE kind[q] = "answer"
    BY <1>1, <2>2 DEF IInv, Fine, AnsweredFor, Kept, Answering
  <2> QED
    BY <1>1, <2>1, <2>2 DEF IInv, Fine
<1>2. IInv => GapIsUnmetDemand
  BY <1>1 DEF GapIsUnmetDemand, Demanded
<1> QED
  BY <1>2, GapsAreFine, PTL

(* The answer says that a gap was written exactly when the table has it.   *)
THEOREM AnswersTellOfGaps == Spec => []LoggedMeansLogged
<1>1. ASSUME IInv PROVE LoggedMeansLogged
  BY <1>1 DEF IInv, Fine, SearchedFor, AnsweredFor, LoggedMeansLogged
<1> QED
  BY <1>1, GapsAreFine, PTL

(* No gap that search-fn deferred for an answer is lost to the web or to   *)
(* giving up: answer-fn writes it, unless a write fails or it is killed.   *)
THEOREM DeferredDemandIsKept == Spec => []DemandIsKept
<1>1. ASSUME IInv PROVE DemandIsKept
  BY <1>1 DEF IInv, Fine, SearchedFor, AnsweredFor, DemandIsKept
<1> QED
  BY <1>1, GapsAreFine, PTL

-----------------------------------------------------------------------------
(* Listings.  A scan has seen, and a copy shows, whatever was stored       *)
(* before the request began that scans, or that made the copy.             *)
Clock ==
  /\ now \in Nat /\ rows \in [Tools -> Seq(Nat)]
  /\ \A t \in Tools : \A i \in 1..Len(rows[t]) : rows[t][i] =< now
  /\ DOMAIN cache = Environments /\ DOMAIN pc = Questions /\ DOMAIN read = Questions
  /\ DOMAIN env = Questions /\ DOMAIN since = Questions

Timely(q) ==
  pc[q] \in Searching =>
    /\ env[q] \in Environments /\ since[q] \in Nat
    /\ since[q] =< now /\ now =< since[q] + Lifetime

ScanSees(q) ==
  pc[q] = "scan" =>
    \A t \in Tools : /\ read[q][t] \in Nat
                     /\ \A i \in 1..Len(rows[t]) : rows[t][i] < since[q] => read[q][t] >= i

CopySees(e) ==
  cache[e].warm =>
    /\ cache[e].at \in Nat /\ cache[e].at =< now
    /\ \A t \in Tools :
         /\ cache[e].seen[t] \in Nat
         /\ \A i \in 1..Len(rows[t]) :
              rows[t][i] + Lifetime < cache[e].at => cache[e].seen[t] >= i

Seen ==
  /\ Clock
  /\ \A q \in Questions : Timely(q) /\ ScanSees(q)
  /\ \A e \in Environments : CopySees(e)

LEMMA QuestionStays ==
  ASSUME NEW q \in Questions, Timely(q), ScanSees(q), UNCHANGED <<rows, now>>,
         pc'[q] = pc[q], env'[q] = env[q], since'[q] = since[q], read'[q] = read[q]
  PROVE  Timely(q)' /\ ScanSees(q)'
BY DEF Timely, ScanSees

LEMMA CopyStays ==
  ASSUME NEW e \in Environments, CopySees(e), UNCHANGED <<rows, now>>, cache'[e] = cache[e]
  PROVE  CopySees(e)'
BY DEF CopySees

(* A step of one request that keeps the table, the clock and the copies.   *)
LEMMA OneMoves ==
  ASSUME Seen, NEW p \in Questions, UNCHANGED <<rows, now, cache>>,
         DOMAIN pc' = Questions, DOMAIN env' = Questions, DOMAIN since' = Questions,
         DOMAIN read' = Questions,
         \A q \in Questions \ {p} : /\ pc'[q] = pc[q] /\ env'[q] = env[q]
                                    /\ since'[q] = since[q] /\ read'[q] = read[q],
         Timely(p)', ScanSees(p)'
  PROVE  Seen'
<1>1. Clock'
  BY DEF Seen, Clock
<1>2. ASSUME NEW q \in Questions PROVE Timely(q)' /\ ScanSees(q)'
  BY <1>2, QuestionStays DEF Seen
<1>3. ASSUME NEW e \in Environments PROVE CopySees(e)'
  BY <1>3, CopyStays DEF Seen
<1> QED
  BY <1>1, <1>2, <1>3 DEF Seen

(* Most go on, or end, without looking. *)
LEMMA OneGoesOn ==
  ASSUME Seen, NEW p \in Questions, UNCHANGED <<rows, now, cache, read>>,
         NEW label, label # "scan", pc' = [pc EXCEPT ![p] = label],
         \/ Release(p) /\ label \notin Searching
         \/ UNCHANGED <<env, since>> /\ (label \in Searching => pc[p] \in Searching)
  PROVE  Seen'
<1>1. /\ DOMAIN pc' = Questions /\ DOMAIN env' = Questions /\ DOMAIN since' = Questions
      /\ DOMAIN read' = Questions
      /\ \A q \in Questions \ {p} : /\ pc'[q] = pc[q] /\ env'[q] = env[q]
                                    /\ since'[q] = since[q] /\ read'[q] = read[q]
  BY DEF Seen, Clock, Release
<1>2. pc'[p] = label
  BY DEF Seen, Clock
<1>3. Timely(p)' /\ ScanSees(p)'
  BY <1>2 DEF Seen, Timely, ScanSees
<1> QED
  BY <1>1, <1>3, OneMoves

LEMMA NobodyLooks ==
  ASSUME Seen, UNCHANGED <<rows, now, cache, read, pc, env, since>>
  PROVE  Seen'
BY DEF Seen, Clock, Timely, ScanSees, CopySees, Searching

LEMMA PublishSeen ==
  ASSUME Seen, NEW t \in Tools, Publish(t)
  PROVE  Seen'
<1>1. /\ rows' = [rows EXCEPT ![t] = Append(rows[t], now)]
      /\ UNCHANGED <<now, cache, read, pc, env, since>>
  BY DEF Publish, serving
<1>2. rows \in [Tools -> Seq(Nat)] /\ now \in Nat
  BY DEF Seen, Clock
<1>3. ASSUME NEW u \in Tools
      PROVE  /\ rows'[u] \in Seq(Nat)
             /\ \A i \in 1..Len(rows'[u]) :
                  (i \in 1..Len(rows[u]) /\ rows'[u][i] = rows[u][i]) \/ rows'[u][i] = now
  <2>1. CASE u = t
    BY <1>1, <1>2, <2>1
  <2>2. CASE u # t
    BY <1>1, <1>2, <2>2
  <2> QED
    BY <2>1, <2>2
<1>4. DOMAIN rows' = Tools /\ rows' \in [Tools -> Seq(Nat)]
  BY <1>1, <1>2
<1>5. Clock'
  BY <1>1, <1>2, <1>3, <1>4 DEF Seen, Clock
<1>6. ASSUME NEW q \in Questions PROVE Timely(q)' /\ ScanSees(q)'
  <2>1. Timely(q)'
    BY <1>1 DEF Seen, Timely
  <2>2. ASSUME pc[q] = "scan", NEW u \in Tools, NEW i \in 1..Len(rows'[u]),
               rows'[u][i] < since[q]
        PROVE  read[q][u] >= i
    <3>1. since[q] \in Nat /\ since[q] =< now
      BY <2>2 DEF Seen, Timely, Searching
    <3>2. i \in 1..Len(rows[u]) /\ rows'[u][i] = rows[u][i]
      BY <1>2, <1>3, <2>2, <3>1
    <3> QED
      BY <2>2, <3>2 DEF Seen, ScanSees
  <2>3. ASSUME pc[q] = "scan", NEW u \in Tools PROVE read[q][u] \in Nat
    BY <2>3 DEF Seen, ScanSees
  <2> QED
    BY <1>1, <2>1, <2>2, <2>3 DEF ScanSees
<1>7. ASSUME NEW e \in Environments PROVE CopySees(e)'
  <2>1. ASSUME cache[e].warm, NEW u \in Tools, NEW i \in 1..Len(rows'[u]),
               rows'[u][i] + Lifetime < cache[e].at
        PROVE  cache[e].seen[u] >= i
    <3>1. cache[e].at \in Nat /\ cache[e].at =< now /\ Lifetime \in Nat
      BY <2>1, TimeAssumption DEF Seen, CopySees
    <3>2. i \in 1..Len(rows[u]) /\ rows'[u][i] = rows[u][i]
      BY <1>2, <1>3, <2>1, <3>1
    <3> QED
      BY <2>1, <3>2 DEF Seen, CopySees
  <2> QED
    BY <1>1, <2>1 DEF Seen, CopySees
<1> QED
  BY <1>5, <1>6, <1>7 DEF Seen

LEMMA TickSeen ==
  ASSUME Seen, Tick
  PROVE  Seen'
<1>1. /\ now' = now + 1 /\ UNCHANGED <<rows, cache, read, pc, env, since>>
      /\ \A q \in Serving : now < since[q] + Lifetime
  BY DEF Tick, serving
<1>2. now \in Nat /\ Lifetime \in Nat
  BY TimeAssumption DEF Seen, Clock
<1>3. Clock'
  <2>1. \A t \in Tools : \A i \in 1..Len(rows[t]) : rows[t][i] \in Nat /\ rows[t][i] =< now
    BY DEF Seen, Clock
  <2> QED
    BY <1>1, <1>2, <2>1 DEF Seen, Clock
<1>4. ASSUME NEW q \in Questions PROVE Timely(q)' /\ ScanSees(q)'
  BY <1>1, <1>2, <1>4 DEF Seen, Timely, ScanSees, Serving
<1>5. ASSUME NEW e \in Environments PROVE CopySees(e)'
  BY <1>1, <1>2, <1>5 DEF Seen, CopySees
<1> QED
  BY <1>3, <1>4, <1>5 DEF Seen

LEMMA AcceptSeen ==
  ASSUME Seen, NEW p \in Questions, NEW deferred, NEW no, Accept(p, deferred, no)
  PROVE  Seen'
<1>1. PICK e \in Free : env' = [env EXCEPT ![p] = e]
  BY DEF Accept
<1>2. /\ UNCHANGED <<rows, now, cache, read>> /\ since' = [since EXCEPT ![p] = now]
      /\ pc' = [pc EXCEPT ![p] = "load"]
  BY DEF Accept, world
<1>3. /\ DOMAIN pc' = Questions /\ DOMAIN env' = Questions /\ DOMAIN since' = Questions
      /\ DOMAIN read' = Questions
      /\ \A q \in Questions \ {p} : /\ pc'[q] = pc[q] /\ env'[q] = env[q]
                                    /\ since'[q] = since[q] /\ read'[q] = read[q]
      /\ env'[p] \in Environments /\ since'[p] = now /\ pc'[p] = "load"
  BY <1>1, <1>2 DEF Seen, Clock, Free
<1>4. Timely(p)' /\ ScanSees(p)'
  BY <1>2, <1>3, TimeAssumption DEF Seen, Clock, Timely, ScanSees
<1> QED
  BY <1>2, <1>3, <1>4, OneMoves

LEMMA StartScanSeen ==
  ASSUME Seen, NEW p \in Questions, StartScan(p)
  PROVE  Seen'
<1>1. /\ UNCHANGED <<rows, now, cache, env, since>> /\ pc[p] = "load"
      /\ pc' = [pc EXCEPT ![p] = "scan"]
      /\ read' = [read EXCEPT ![p] = [t \in Tools |-> Len(rows[t])]]
  BY DEF StartScan, world, serving
<1>2. /\ DOMAIN pc' = Questions /\ DOMAIN env' = Questions /\ DOMAIN since' = Questions
      /\ DOMAIN read' = Questions
      /\ \A q \in Questions \ {p} : /\ pc'[q] = pc[q] /\ env'[q] = env[q]
                                    /\ since'[q] = since[q] /\ read'[q] = read[q]
      /\ pc'[p] = "scan"
      /\ \A t \in Tools : read'[p][t] = Len(rows[t])
  BY <1>1 DEF Seen, Clock
<1>3. Timely(p)'
  BY <1>1, <1>2 DEF Seen, Timely, Searching
<1>4. ScanSees(p)'
  <2>1. \A t \in Tools : Len(rows[t]) \in Nat /\ \A i \in 1..Len(rows[t]) : Len(rows[t]) >= i
    BY DEF Seen, Clock
  <2> QED
    BY <1>1, <1>2, <2>1 DEF ScanSees
<1> QED
  BY <1>1, <1>2, <1>3, <1>4, OneMoves

(* What a scan shows of what is older than the life of a request. *)
LEMMA LoadedShows ==
  ASSUME Seen, NEW p \in Questions, Loaded(p)
  PROVE  /\ env[p] \in Environments
         /\ \E seen : /\ cache' = [cache EXCEPT ![env[p]] = [warm |-> TRUE, at |-> now, seen |-> seen]]
                      /\ \A t \in Tools :
                           /\ seen[t] \in Nat
                           /\ \A i \in 1..Len(rows[t]) : rows[t][i] + Lifetime < now => seen[t] >= i
<1>1. PICK seen \in [Tools -> 0..MaxRows] :
        /\ \A t \in Tools : read[p][t] =< seen[t]
        /\ cache' = [cache EXCEPT ![env[p]] = [warm |-> TRUE, at |-> now, seen |-> seen]]
  BY DEF Loaded
<1>2. pc[p] = "scan" /\ env[p] \in Environments /\ since[p] \in Nat /\ now =< since[p] + Lifetime
  BY DEF Loaded, Seen, Timely, Searching
<1>3. now \in Nat /\ Lifetime \in Nat /\ MaxRows \in Nat
  BY TimeAssumption DEF Seen, Clock
<1>4. ASSUME NEW t \in Tools, NEW i \in 1..Len(rows[t]), rows[t][i] + Lifetime < now
      PROVE  seen[t] >= i
  <2>1. rows[t] \in Seq(Nat)
    BY DEF Seen, Clock
  <2>2. rows[t][i] \in Nat /\ i \in Nat
    BY <2>1
  <2>3. rows[t][i] < since[p]
    BY <1>2, <1>3, <1>4, <2>2
  <2>4. read[p][t] \in Nat /\ read[p][t] >= i
    BY <1>2, <2>3 DEF Seen, ScanSees
  <2>5. seen[t] \in Nat /\ read[p][t] =< seen[t]
    BY <1>1, <1>3
  <2> QED
    BY <2>2, <2>4, <2>5
<1>5. \A t \in Tools : seen[t] \in Nat
  BY <1>1, <1>3
<1> QED
  BY <1>1, <1>2, <1>4, <1>5

LEMMA LoadedSeen ==
  ASSUME Seen, NEW p \in Questions, Loaded(p)
  PROVE  Seen'
<1>1. PICK seen :
        /\ cache' = [cache EXCEPT ![env[p]] = [warm |-> TRUE, at |-> now, seen |-> seen]]
        /\ \A t \in Tools :
             /\ seen[t] \in Nat
             /\ \A i \in 1..Len(rows[t]) : rows[t][i] + Lifetime < now => seen[t] >= i
  BY LoadedShows
<1>2. /\ UNCHANGED <<rows, now, env, since>> /\ pc[p] = "scan" /\ env[p] \in Environments
      /\ pc' = [pc EXCEPT ![p] = "event"]
      /\ read' = [read EXCEPT ![p] = [t \in Tools |-> 0]]
  BY LoadedShows DEF Loaded, Rank, world, serving
<1>3. Clock'
  BY <1>1, <1>2 DEF Seen, Clock
<1>4. ASSUME NEW q \in Questions, q # p PROVE Timely(q)' /\ ScanSees(q)'
  BY <1>2, <1>4, QuestionStays DEF Seen, Clock
<1>5. Timely(p)' /\ ScanSees(p)'
  BY <1>2 DEF Seen, Clock, Timely, ScanSees, Searching
<1>6. ASSUME NEW e \in Environments, e # env[p] PROVE CopySees(e)'
  BY <1>1, <1>2, <1>6, CopyStays DEF Seen, Clock
<1>7. CopySees(env[p])'
  <2>1. /\ cache'[env[p]].at = now /\ cache'[env[p]].seen = seen
        /\ now \in Nat /\ now =< now
    BY <1>1, <1>2 DEF Seen, Clock
  <2> QED
    BY <1>1, <1>2, <2>1 DEF CopySees
<1> QED
  BY <1>2, <1>3, <1>4, <1>5, <1>6, <1>7 DEF Seen

LEMMA CrashSeen ==
  ASSUME Seen, NEW p \in Questions, Crash(p)
  PROVE  Seen'
<1>1. /\ UNCHANGED <<rows, now, read>> /\ Release(p)
      /\ pc' = [pc EXCEPT ![p] = "dead"] /\ cache' = [cache EXCEPT ![env[p]] = Cold]
      /\ env[p] \in Environments
  BY DEF Crash, world, Seen, Timely
<1>2. Clock'
  BY <1>1 DEF Seen, Clock, Release
<1>3. ASSUME NEW q \in Questions, q # p PROVE Timely(q)' /\ ScanSees(q)'
  BY <1>1, <1>3, QuestionStays DEF Seen, Clock, Release
<1>4. Timely(p)' /\ ScanSees(p)'
  BY <1>1 DEF Seen, Clock, Timely, ScanSees, Searching
<1>5. PICK gone \in Environments : cache' = [cache EXCEPT ![gone] = Cold]
  BY <1>1
<1>6. ASSUME NEW e \in Environments, e # gone PROVE CopySees(e)'
  BY <1>1, <1>5, <1>6, CopyStays DEF Seen, Clock
<1>7. CopySees(gone)'
  BY <1>5 DEF Seen, Clock, CopySees, Cold
<1> QED
  BY <1>2, <1>3, <1>4, <1>6, <1>7 DEF Seen

LEMMA SearchStepSeen ==
  ASSUME Seen, NEW p \in Questions, SearchStep(p)
  PROVE  Seen'
<1>1. CASE UseCache(p)
  BY <1>1, OneGoesOn DEF UseCache, Rank, world, serving, Searching
<1>2. CASE RecordSearch(p)
  BY <1>2, OneGoesOn DEF RecordSearch, world, serving, Searching
<1>3. CASE Judge(p)
  <2>1. /\ UNCHANGED <<rows, now, cache, read>> /\ pc[p] = "judge"
        /\ \/ pc' = [pc EXCEPT ![p] = "done"] /\ Release(p)
           \/ pc' = [pc EXCEPT ![p] = "put"] /\ UNCHANGED <<env, since>>
    BY <1>3 DEF Judge, Finish, world, serving
  <2> QED
    BY <2>1, OneGoesOn DEF Searching
<1>4. CASE PutGap(p)
  <2>1. /\ UNCHANGED <<rows, now, cache, read>>
        /\ \/ pc' = [pc EXCEPT ![p] = "done"] /\ Release(p)
           \/ UNCHANGED <<pc, env, since>>
    BY <1>4 DEF PutGap, Finish, world, serving
  <2> QED
    BY <2>1, OneGoesOn, NobodyLooks DEF Searching
<1> QED
  BY <1>1, <1>2, <1>3, <1>4, StartScanSeen, LoadedSeen DEF SearchStep

LEMMA TurnAwaySeen ==
  ASSUME Seen, NEW p \in Questions, TurnAway(p) \/ Throw(p)
  PROVE  Seen'
<1>1. /\ UNCHANGED <<rows, now, cache, read>>
      /\ pc' = [pc EXCEPT ![p] = "done"] /\ Release(p)
  BY DEF TurnAway, Throw, Finish, world
<1> QED
  BY <1>1, OneGoesOn DEF Searching

LEMMA ForwardAgainSeen ==
  ASSUME Seen, NEW p \in Questions, ForwardAgain(p)
  PROVE  Seen'
<1>1. /\ UNCHANGED <<rows, now, cache, read, env, since>>
      /\ pc' = [pc EXCEPT ![p] = "idle"]
  BY DEF ForwardAgain, world, serving
<1> QED
  BY <1>1, OneGoesOn DEF Searching

(* answer-fn looks at nothing. *)
AnswersAlone(p) ==
  \/ AskAnswer(p) \/ Found(p) \/ First(p) \/ GiveUp(p) \/ RunTools(p) \/ Model(p)
  \/ Conclude(p) \/ Record(p) \/ ThrowAnswer(p) \/ CrashAnswer(p)

LEMMA AnswersAloneLook ==
  ASSUME NEW p, AnswersAlone(p)
  PROVE  UNCHANGED <<rows, now, cache, read, pc, env, since>>
BY DEF AnswersAlone, AskAnswer, Found, First, GiveUp, RunTools, Model, Conclude, Record,
       ThrowAnswer, CrashAnswer, searchVars, world, serving

LEMMA InitSeen == AnswerInit => Seen
<1> SUFFICES ASSUME AnswerInit PROVE Seen
  OBVIOUS
<1>1. rows = [t \in Tools |-> IF t \in Seeded THEN <<0>> ELSE <<>>] /\ now = 0
  BY DEF AnswerInit, Init
<1>2. \A t \in Tools : rows[t] \in Seq(Nat) /\ \A i \in 1..Len(rows[t]) : rows[t][i] =< now
  <2>1. <<0>> \in Seq(Nat) /\ <<>> \in Seq(Nat)
    OBVIOUS
  <2> QED
    BY <1>1, <2>1
<1>3. Clock
  BY <1>1, <1>2 DEF AnswerInit, Init, Clock
<1>4. ASSUME NEW q \in Questions PROVE Timely(q) /\ ScanSees(q)
  BY DEF AnswerInit, Init, Timely, ScanSees, Searching
<1>5. ASSUME NEW e \in Environments PROVE CopySees(e)
  BY DEF AnswerInit, Init, CopySees, Cold
<1> QED
  BY <1>3, <1>4, <1>5 DEF Seen

(* Who takes a step. *)
LEMMA NextCases ==
  ASSUME Next
  PROVE  \/ \E t \in Tools : Publish(t)
         \/ Tick
         \/ \E q \in Questions :
              \/ \E deferred, no \in BOOLEAN : Accept(q, deferred, no)
              \/ TurnAway(q) \/ SearchStep(q) \/ Throw(q) \/ Crash(q)
              \/ ForwardAgain(q) \/ AnswersAlone(q)
<1> DEFINE Goal(q) ==
      \/ \E deferred, no \in BOOLEAN : Accept(q, deferred, no)
      \/ TurnAway(q) \/ SearchStep(q) \/ Throw(q) \/ Crash(q)
      \/ ForwardAgain(q) \/ AnswersAlone(q)
<1>1. ASSUME NEW q \in Questions, AskSearch(q) \/ Forward(q) PROVE Goal(q)
  BY <1>1 DEF AskSearch, Ask, Forward
<1>2. ASSUME NEW q \in Questions, Step(q) PROVE Goal(q)
  BY <1>1, <1>2, Zenon DEF Step, AnswersAlone
<1>3. ASSUME NEW q \in Questions, AskAnswer(q) \/ ThrowAnswer(q) \/ CrashAnswer(q) PROVE Goal(q)
  BY <1>3, Zenon DEF AnswersAlone
<1> HIDE DEF Goal
<1>4. ASSUME NEW q \in Questions, ForwardAgain(q) \/ Throw(q) \/ Crash(q) PROVE Goal(q)
  BY <1>4, Zenon DEF Goal
<1>5. \/ \E t \in Tools : Publish(t)
      \/ Tick
      \/ \E q \in Questions : Goal(q)
  BY <1>1, <1>2, <1>3, <1>4, Zenon DEF Next
<1> QED
  BY <1>5, Zenon DEF Goal

LEMMA NextSeen == Seen /\ [Next]_vars => Seen'
<1> SUFFICES ASSUME Seen, [Next]_vars PROVE Seen'
  OBVIOUS
<1>1. CASE UNCHANGED vars
  BY <1>1, NobodyLooks DEF vars
<1>2. ASSUME NEW q \in Questions, AnswersAlone(q) PROVE Seen'
  BY <1>2, AnswersAloneLook, NobodyLooks
<1>3. CASE Next
  BY <1>2, <1>3, NextCases, PublishSeen, TickSeen, AcceptSeen, TurnAwaySeen, SearchStepSeen, CrashSeen,
     ForwardAgainSeen, Zenon
<1> QED
  BY <1>1, <1>3

(* A request that comes to rank has used a copy, or made one. *)
LEMMA RankingStep ==
  ASSUME Seen, Next, NEW q \in Questions, pc[q] \in {"load", "scan"}, pc'[q] = "event"
  PROVE  UseCache(q) \/ Loaded(q)
<1>1. ASSUME NEW p \in Questions, SearchStep(p) PROVE UseCache(q) \/ Loaded(q)
  <2>1. CASE p = q
    BY <1>1, <2>1 DEF SearchStep, StartScan, RecordSearch, Judge, PutGap, Seen, Clock
  <2>2. CASE p # q
    <3>1. pc'[q] = pc[q]
      BY <1>1, <2>2 DEF SearchStep, UseCache, Loaded, Rank, StartScan, RecordSearch, Judge, PutGap,
                        Finish, Seen, Clock
    <3> QED
      BY <3>1
  <2> QED
    BY <2>1, <2>2
<1>2. ASSUME NEW p \in Questions,
             TurnAway(p) \/ Throw(p) \/ Crash(p) \/ ForwardAgain(p)
                \/ \E deferred, no \in BOOLEAN : Accept(p, deferred, no)
      PROVE  FALSE
  <2>1. PICK label \in {"done", "dead", "idle", "load"} : pc' = [pc EXCEPT ![p] = label]
    BY <1>2 DEF TurnAway, Throw, Crash, ForwardAgain, Accept, Finish
  <2>2. pc'[q] \in {label, pc[q]}
    BY <2>1 DEF Seen, Clock
  <2> QED
    BY <2>1, <2>2
<1>3. ASSUME UNCHANGED pc PROVE FALSE
  BY <1>3
<1>4. ASSUME NEW p \in Questions, AnswersAlone(p) PROVE FALSE
  BY <1>3, <1>4, AnswersAloneLook
<1>5. ASSUME NEW t \in Tools, Publish(t) PROVE FALSE
  BY <1>3, <1>5 DEF Publish
<1>6. ASSUME Tick PROVE FALSE
  BY <1>3, <1>6 DEF Tick
<1> QED
  BY <1>1, <1>2, <1>4, <1>5, <1>6, NextCases, Zenon

(* As long as a copy has a life at all, whatever was stored longer ago     *)
(* than that and the life of a request is in what a search ranks.          *)
THEOREM ListingsAreFresh ==
  ASSUME TTL > 0
  PROVE  Spec => FreshListing
<1> DEFINE Fresh ==
      \A q \in Questions : pc[q] \in {"load", "scan"} /\ pc'[q] = "event" =>
        \A t \in Tools : \A i \in 1..Len(rows[t]) :
          rows[t][i] + TTL + Lifetime =< now => cache'[env[q]].seen[t] >= i
<1>1. ASSUME Seen, Next, NEW q \in Questions, pc[q] \in {"load", "scan"}, pc'[q] = "event",
             NEW t \in Tools, NEW i \in 1..Len(rows[t]), rows[t][i] + TTL + Lifetime =< now
      PROVE  cache'[env[q]].seen[t] >= i
  <2>1. now \in Nat /\ TTL \in Nat /\ Lifetime \in Nat /\ rows[t] \in Seq(Nat)
    BY <1>1, TimeAssumption DEF Seen, Clock
  <2>2. rows[t][i] \in Nat
    BY <2>1
  <2>3. env[q] \in Environments
    BY <1>1 DEF Seen, Timely, Searching
  <2>4. CASE UseCache(q)
    <3>1. cache'[env[q]] = cache[env[q]] /\ cache[env[q]].warm /\ now - cache[env[q]].at < TTL
      BY <2>4 DEF UseCache, Current
    <3>2. cache[env[q]].at \in Nat
      BY <1>1, <2>3, <3>1 DEF Seen, CopySees
    <3>3. rows[t][i] + Lifetime < cache[env[q]].at
      <4>1. PICK at \in Nat : at = cache[env[q]].at
        BY <3>2
      <4>2. PICK stored \in Nat : stored = rows[t][i]
        BY <2>2
      <4>3. now - at < TTL /\ stored + TTL + Lifetime =< now
        BY <1>1, <3>1, <4>1, <4>2
      <4>4. stored + Lifetime < at
        BY <2>1, <4>3
      <4> QED
        BY <4>1, <4>2, <4>4
    <3> QED
      BY <1>1, <2>3, <3>1, <3>3 DEF Seen, CopySees
  <2>5. CASE Loaded(q)
    <3>1. PICK seen :
            /\ cache' = [cache EXCEPT ![env[q]] = [warm |-> TRUE, at |-> now, seen |-> seen]]
            /\ \A u \in Tools :
                 /\ seen[u] \in Nat
                 /\ \A n \in 1..Len(rows[u]) : rows[u][n] + Lifetime < now => seen[u] >= n
      BY <1>1, <2>5, LoadedShows
    <3>2. cache'[env[q]].seen = seen
      BY <1>1, <2>3, <3>1 DEF Seen, Clock
    <3>3. rows[t][i] + Lifetime < now
      BY <1>1, <2>1, <2>2
    <3> QED
      BY <1>1, <3>1, <3>2, <3>3
  <2> QED
    BY <1>1, <2>4, <2>5, RankingStep
<1>2. Seen /\ Next => Fresh
  BY <1>1, Zenon
<1>3. Seen /\ UNCHANGED vars => UNCHANGED searchVars
  BY DEF vars, searchVars
<1> HIDE DEF Fresh
<1>4. Seen /\ [Next]_vars => [Fresh]_searchVars
  BY <1>2, <1>3
<1>5. Spec => [][Fresh]_searchVars
  BY <1>4, InitSeen, NextSeen, PTL DEF Spec
<1> QED
  BY <1>5 DEF FreshListing, Fresh
=============================================================================
