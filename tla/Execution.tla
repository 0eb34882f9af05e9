----------------------------- MODULE Execution -----------------------------
(***************************************************************************)
(* exec-fn: running a published tool and the tools it depends on, behind   *)
(* the review gate.  A call is one execution of handler(); runTool()       *)
(* recurses inside it, so a call is a stack of frames, one per runTool()   *)
(* that has not returned.  Calls interleave, at their awaits, with each    *)
(* other, with registry-fn publishing versions and with an operator        *)
(* deciding about versions through cli/review.mjs.                         *)
(*                                                                         *)
(* Versions are numbers here: below 10000 the order of the sort keys is    *)
(* the order of the numbers (see VersionKeys for what happens above).      *)
(*                                                                         *)
(* Faults chooses what may go wrong around a call:                         *)
(*   "stale_read"  a table is read from a replica that lags;               *)
(*   "error"       an SDK call or a Lambda invocation throws, a write       *)
(*                 having been applied or not;                             *)
(*   "crash"       the function is killed, by its timeout for instance.    *)
(***************************************************************************)
EXTENDS Naturals, Sequences, FiniteSets

CONSTANTS
  Calls,         \* the requests to exec-fn that are ever made
  Owners,        \* the identities behind callers and behind tools
  Tools,         \* the tool_id values
  Packages,      \* the version rows a publisher may submit, per tool
  Seeded,        \* the rows published at the start: a sequence per tool
  Reviewed,      \* the <<tool, version>> pairs approved at the start
  MaxVersion,    \* bound: versions published per tool
  MaxReviews,    \* bound: decisions an operator takes
  MaxDepth,      \* MAX_DEPTH
  MaxUses,       \* MAX_USES
  Faults

Versions == 1..MaxVersion
Refs     == Tools \X Versions
Verdicts == {"approved", "rejected", "revoked"}

(* A declared dependency; pin 0 is a declaration without a version. *)
Dep == [tool : Tools, pin : {0} \cup Versions]
Row == [owner : Owners, code : BOOLEAN, uses : Seq(Dep)]

(* validateUses(): what registry-fn lets into the table. *)
ValidUses(t, uses) ==
  /\ Len(uses) =< MaxUses
  /\ \A i \in 1..Len(uses) : uses[i].tool # t

ValidRow(t, row) == row \in Row /\ ValidUses(t, row.uses)

ASSUME VersionAssumption == MaxVersion \in Nat /\ MaxReviews \in Nat
ASSUME DepthAssumption   == MaxDepth \in Nat /\ MaxUses \in Nat
ASSUME PackageAssumption == \A t \in Tools : \A p \in Packages[t] : ValidRow(t, p)
ASSUME SeededAssumption  ==
  /\ Seeded \in [Tools -> Seq(Row)]
  /\ \A t \in Tools : /\ Len(Seeded[t]) =< MaxVersion
                      /\ \A v \in 1..Len(Seeded[t]) : ValidRow(t, Seeded[t][v])
ASSUME ReviewedAssumption == Reviewed \subseteq Refs
ASSUME ExecFaultsAssumption == Faults \subseteq {"stale_read", "error", "crash"}

VARIABLES
  store,      \* tools table: per tool the sequence of its version rows
  approvals,  \* approvals table: per ref the last decision, or "none"
  replica,    \* what an eventually consistent read of it may still show
  reviews,    \* how many decisions have been taken
  pc,         \* where each call is
  asker,      \* the owner behind the caller of each call
  stack,      \* its frames, the root first
  log,        \* the events it has recorded
  reply,      \* the status it answers with, 0 before that
  barred      \* history: the refs not approved at any time since it began

tables == <<store, approvals, replica, reviews>>
vars   == <<store, approvals, replica, reviews,
            pc, asker, stack, log, reply, barred>>

Init ==
  /\ store = Seeded
  /\ approvals = [ref \in Refs |-> IF ref \in Reviewed THEN "approved" ELSE "none"]
  /\ replica = approvals
  /\ reviews = 0
  /\ pc = [k \in Calls |-> "idle"]
  /\ asker \in [Calls -> Owners]
  /\ stack = [k \in Calls |-> <<>>]
  /\ log = [k \in Calls |-> <<>>]
  /\ reply = [k \in Calls |-> 0]
  /\ barred = [k \in Calls |-> {}]

-----------------------------------------------------------------------------
(* The rest of the platform. *)

(* mayExecute() *)
Approved(table) == {ref \in Refs : table[ref] = "approved"}

(* registry-fn stores a new version: see Registry for how. *)
Publish(t) ==
  /\ Len(store[t]) < MaxVersion
  /\ \E row \in Packages[t] : store' = [store EXCEPT ![t] = Append(@, row)]
  /\ UNCHANGED <<approvals, replica, reviews, pc, asker, stack, log, reply, barred>>

(* cli/review.mjs: an unconditional put-item on a version with code. *)
Review(t, v) ==
  /\ reviews < MaxReviews
  /\ v =< Len(store[t])
  /\ store[t][v].code
  /\ \E verdict \in Verdicts :
       /\ approvals' = [approvals EXCEPT ![<<t, v>>] = verdict]
       /\ barred' = IF verdict = "approved"
                    THEN [k \in Calls |-> barred[k] \ {<<t, v>>}]
                    ELSE barred
  /\ reviews' = reviews + 1
  /\ UNCHANGED <<store, replica, pc, asker, stack, log, reply>>

(* The replica of a row catches up. *)
Replicate(ref) ==
  /\ replica[ref] # approvals[ref]
  /\ replica' = [replica EXCEPT ![ref] = approvals[ref]]
  /\ UNCHANGED <<store, approvals, reviews, pc, asker, stack, log, reply, barred>>

-----------------------------------------------------------------------------
(* Frames.  ver is 0 until the version is resolved; next is the position   *)
(* in uses of the dependency that comes next.                              *)

Frame(t, pin) == [tool |-> t, pin |-> pin, ver |-> 0, next |-> 1]

Depth(k)  == Len(stack[k]) - 1
Top(k)    == stack[k][Len(stack[k])]
Chain(k)  == {stack[k][i].tool : i \in 1..Depth(k)}
TopRow(k) == store[Top(k).tool][Top(k).ver]
Via(k)    == IF Depth(k) = 0 THEN {} ELSE {stack[k][Depth(k)].tool}

SetTop(k, frame) == stack' = [stack EXCEPT ![k][Len(stack[k])] = frame]

(* mutant: the version asked for is not looked up *)
Resolved_Unchecked(pin, n) == IF pin = 0 THEN n ELSE pin

(* resolveTool(): the version asked for, or the newest one, in a table     *)
(* that holds the first n versions; 0 is "none".  A replica that lags may  *)
(* miss any of the rows published after the start.                         *)
Resolved(pin, n) == CASE pin = 0 -> n [] pin \in 1..n -> pin [] OTHER -> 0

Found(t, pin) ==
  {Resolved(pin, n) : n \in IF "stale_read" \in Faults
                            THEN Len(Seeded[t])..Len(store[t])
                            ELSE {Len(store[t])}}

(* isSelfCall(), stamped on a frame once its row is known. *)
SelfCall(k) == Top(k).ver # 0 /\ TopRow(k).owner = asker[k]

(* record(): the event of the running frame. *)
Event(k, outcome, version) ==
  [tool |-> Top(k).tool, version |-> version, outcome |-> outcome,
   self |-> SelfCall(k), via |-> Via(k), depth |-> Depth(k)]

(* handler()'s catch: the stack unwinds, and after the events written so   *)
(* far comes one that knows the tool asked for and nothing of what         *)
(* runTool() had found out.                                                *)
Unwind(k, written) ==
  /\ "error" \in Faults
  /\ log' = [log EXCEPT ![k] = Append(written,
       [tool |-> stack[k][1].tool, version |-> stack[k][1].pin, outcome |-> "error",
        self |-> FALSE, via |-> {}, depth |-> 0])]
  /\ stack' = [stack EXCEPT ![k] = <<>>]
  /\ pc' = [pc EXCEPT ![k] = "done"]
  /\ reply' = [reply EXCEPT ![k] = 500]
  /\ UNCHANGED <<asker, barred, tables>>

(* fail(): record the failure and return it.  A parent does the same with  *)
(* what it is returned.  The write may be applied and throw all the same.  *)
FailNaming(k, status, version) ==
  LET written == Append(log[k], Event(k, "error", version))
  IN  \/ /\ log' = [log EXCEPT ![k] = written]
         /\ stack' = [stack EXCEPT ![k] = SubSeq(@, 1, Len(@) - 1)]
         /\ pc' = [pc EXCEPT ![k] = IF Depth(k) = 0 THEN "done" ELSE "failing"]
         /\ reply' = [reply EXCEPT ![k] = status]
         /\ UNCHANGED <<asker, barred, tables>>
      \/ Unwind(k, written)

Fail(k, status) == FailNaming(k, status, Top(k).ver)

Continue(k, label) ==
  /\ pc' = [pc EXCEPT ![k] = label]
  /\ UNCHANGED <<asker, log, reply, barred, tables>>

-----------------------------------------------------------------------------
(* handler(): an active caller asks for a tool, pinned or not. *)

Begin(k, t, pin) ==
  /\ pc[k] = "idle"
  /\ pc' = [pc EXCEPT ![k] = "resolve"]
  /\ stack' = [stack EXCEPT ![k] = <<Frame(t, pin)>>]
  /\ barred' = [barred EXCEPT ![k] = Refs \ Approved(approvals)]
  /\ UNCHANGED <<asker, log, reply, tables>>

(* A malformed body, an unknown key, an inactive caller, or a lookup that  *)
(* throws outside of the try (the function URL says 502): no event.        *)
TurnAway(k) ==
  /\ pc[k] = "idle"
  /\ pc' = [pc EXCEPT ![k] = "done"]
  /\ \E status \in {400, 401, 403} \cup {s \in {502} : "error" \in Faults} :
       reply' = [reply EXCEPT ![k] = status]
  /\ UNCHANGED <<asker, stack, log, barred, tables>>

(* mutant: the depth is compared with =< instead of < *)
ChainAllows_OneDeeper(k) ==
  /\ Top(k).tool \notin Chain(k)
  /\ Depth(k) =< MaxDepth

(* checkChain(): no tool above itself, and no more than MaxDepth of them. *)
ChainAllows(k) ==
  /\ Top(k).tool \notin Chain(k)
  /\ Depth(k) < MaxDepth

RefuseChain(k) ==
  /\ pc[k] = "resolve"
  /\ ~ChainAllows(k)
  /\ FailNaming(k, 409, Top(k).pin)

Resolve(k) ==
  /\ pc[k] = "resolve"
  /\ ChainAllows(k)
  /\ \E ver \in Found(Top(k).tool, Top(k).pin) \ {0} :
       SetTop(k, [Top(k) EXCEPT !.ver = ver])
  /\ Continue(k, "gate")

(* mutant: a row that is not there is waited for *)
ResolveNothing_Waits(k) == pc[k] = "resolve" /\ FALSE

ResolveNothing(k) ==
  /\ pc[k] = "resolve"
  /\ ChainAllows(k)
  /\ 0 \in Found(Top(k).tool, Top(k).pin)
  /\ FailNaming(k, 404, Top(k).pin)

NoCode(k) ==
  /\ pc[k] = "gate"
  /\ ~TopRow(k).code
  /\ FailNaming(k, 409, Top(k).pin)

(* approvalFor() and mayExecute(): absence of an approval is a refusal. *)
Shown(ref) ==
  {approvals[ref]} \cup (IF "stale_read" \in Faults THEN {replica[ref]} ELSE {})

(* mutant: dependencies run under the approval of the root *)
Gate_RootOnly(k) ==
  /\ pc[k] = "gate"
  /\ TopRow(k).code
  /\ Depth(k) = 0 => "approved" \in Shown(<<Top(k).tool, Top(k).ver>>)
  /\ Continue(k, "body")
  /\ UNCHANGED stack

(* mutant: a tool runs unless something says no *)
Gate_FailsOpen(k) ==
  /\ pc[k] = "gate"
  /\ TopRow(k).code
  /\ Shown(<<Top(k).tool, Top(k).ver>>) \ {"rejected", "revoked"} # {}
  /\ Continue(k, "body")
  /\ UNCHANGED stack

Gate(k) ==
  /\ pc[k] = "gate"
  /\ TopRow(k).code
  /\ "approved" \in Shown(<<Top(k).tool, Top(k).ver>>)
  /\ Continue(k, "body")
  /\ UNCHANGED stack

GateRefuses(k) ==
  /\ pc[k] = "gate"
  /\ TopRow(k).code
  /\ Shown(<<Top(k).tool, Top(k).ver>>) \ {"approved"} # {}
  /\ Fail(k, 403)

(* mutant: the loop ends one dependency early *)
Pending_AllButLast(k) == Top(k).next < Len(TopRow(k).uses)

(* The dependencies, in the order of their declaration. *)
Pending(k) == Top(k).next =< Len(TopRow(k).uses)

(* The schema refuses the input, before anything else, or the input that a *)
(* dependency declares reads something that is not there.                  *)
BadInput(k) ==
  /\ pc[k] = "body"
  /\ Top(k).next = 1 \/ Pending(k)
  /\ Fail(k, 400)

Descend(k) ==
  LET dep == TopRow(k).uses[Top(k).next]
  IN  /\ pc[k] = "body"
      /\ Pending(k)
      /\ stack' = [stack EXCEPT ![k] = Append(@, Frame(dep.tool, dep.pin))]
      /\ Continue(k, "resolve")

(* fetcher-fn answers ok: false (502), or runtime-fn does (422). *)
RunFails(k) ==
  /\ pc[k] = "body"
  /\ ~Pending(k)
  /\ \E status \in {422, 502} : Fail(k, status)

(* The frames above the running one, the parent at its next dependency. *)
Resumed(k) == [SubSeq(stack[k], 1, Depth(k)) EXCEPT ![Depth(k)].next = @ + 1]

(* The runtime ran the source: record it, and return to the parent. *)
Run(k) ==
  LET written == Append(log[k], Event(k, "success", Top(k).ver))
  IN  /\ pc[k] = "body"
      /\ ~Pending(k)
      /\ \/ /\ Depth(k) = 0
            /\ log' = [log EXCEPT ![k] = written]
            /\ stack' = [stack EXCEPT ![k] = <<>>]
            /\ pc' = [pc EXCEPT ![k] = "done"]
            /\ reply' = [reply EXCEPT ![k] = 200]
            /\ UNCHANGED <<asker, barred, tables>>
         \/ /\ Depth(k) > 0
            /\ log' = [log EXCEPT ![k] = written]
            /\ stack' = [stack EXCEPT ![k] = Resumed(k)]
            /\ UNCHANGED <<pc, reply, asker, barred, tables>>
         \/ Unwind(k, written)

(* mutant: a parent returns what it is returned and records nothing *)
Propagate_Silent(k) ==
  /\ pc[k] = "failing"
  /\ stack' = [stack EXCEPT ![k] = SubSeq(@, 1, Len(@) - 1)]
  /\ pc' = [pc EXCEPT ![k] = IF Depth(k) = 0 THEN "done" ELSE "failing"]
  /\ UNCHANGED <<asker, log, reply, barred, tables>>

(* sub.ok is false: the parent fails with the same status. *)
Propagate(k) ==
  /\ pc[k] = "failing"
  /\ Fail(k, reply[k])

-----------------------------------------------------------------------------
Running == {"resolve", "gate", "body", "failing"}

(* Anything the try covers throws. *)
Throw(k) ==
  /\ pc[k] \in Running
  /\ Unwind(k, log[k])

(* The function is gone, or the catch's own event could not be written. *)
Crash(k) ==
  /\ "crash" \in Faults
  /\ pc[k] \in Running
  /\ pc' = [pc EXCEPT ![k] = "dead"]
  /\ UNCHANGED <<asker, stack, log, reply, barred, tables>>

Step(k) ==
  \/ RefuseChain(k)
  \/ Resolve(k)
  \/ ResolveNothing(k)
  \/ NoCode(k)
  \/ Gate(k)
  \/ GateRefuses(k)
  \/ BadInput(k)
  \/ Descend(k)
  \/ RunFails(k)
  \/ Run(k)
  \/ Propagate(k)

Next ==
  \/ \E t \in Tools : Publish(t)
  \/ \E t \in Tools, v \in Versions : Review(t, v)
  \/ \E ref \in Refs : Replicate(ref)
  \/ \E k \in Calls :
       \/ \E t \in Tools, pin \in {0} \cup Versions : Begin(k, t, pin)
       \/ TurnAway(k) \/ Step(k) \/ Throw(k) \/ Crash(k)

Spec == Init /\ [][Next]_vars

(* A call that has begun runs on; nobody else owes a step. *)
FairSpec == Spec /\ \A k \in Calls : WF_vars(Step(k))

-----------------------------------------------------------------------------
(* Properties. *)

FrameType == [tool : Tools, pin : {0} \cup Versions, ver : {0} \cup Versions, next : Nat \ {0}]
EventType == [tool : Tools, version : {0} \cup Versions, outcome : {"success", "error"},
              self : BOOLEAN, via : SUBSET Tools, depth : Nat]

(* The types of the variables; a resolved frame names a row that exists,   *)
(* and a call that runs has a frame.                                       *)
TypeOK ==
  /\ store \in [Tools -> Seq(Row)]
  /\ \A t \in Tools : Len(store[t]) =< MaxVersion
  /\ approvals \in [Refs -> Verdicts \cup {"none"}]
  /\ replica \in [Refs -> Verdicts \cup {"none"}]
  /\ reviews \in 0..MaxReviews
  /\ pc \in [Calls -> {"idle", "done", "dead"} \cup Running]
  /\ asker \in [Calls -> Owners]
  /\ stack \in [Calls -> Seq(FrameType)]
  /\ \A k \in Calls : /\ pc[k] \in Running => stack[k] # <<>>
                     /\ \A i \in 1..Len(stack[k]) :
                          stack[k][i].ver =< Len(store[stack[k][i].tool])
  /\ log \in [Calls -> Seq(EventType)]
  /\ reply \in [Calls -> {0, 200, 400, 401, 403, 404, 409, 422, 500, 502}]
  /\ barred \in [Calls -> SUBSET Refs]

Successes(k) == {i \in 1..Len(log[k]) : log[k][i].outcome = "success"}

(* A frame whose version has passed the gate. *)
PastGate(k, i) == i < Len(stack[k]) \/ pc[k] \in {"body", "failing"}

(* Unreviewed code does not run, at any depth, and a revoked version does  *)
(* not run on the next call: whatever runs has been approved at some time  *)
(* since the call began.                                                   *)
RevokedStops ==
  \A k \in Calls : pc[k] \in Running =>
    \A i \in 1..Len(stack[k]) :
      PastGate(k, i) => <<stack[k][i].tool, stack[k][i].ver>> \notin barred[k]

(* Absence of an approval is a refusal, replicas that lag included: a      *)
(* version that ran with success has code, and a reviewer has decided      *)
(* about it.                                                               *)
UnreviewedNeverRuns ==
  \A k \in Calls : \A i \in Successes(k) :
    LET ref == <<log[k][i].tool, log[k][i].version>>
    IN  store[ref[1]][ref[2]].code /\ approvals[ref] # "none"

(* The chain of a running tool names no tool twice and is never longer     *)
(* than MaxDepth, whatever gets published while the call runs.             *)
ChainIsSimple ==
  \A k \in Calls : pc[k] \in {"gate", "body", "failing"} =>
    /\ Len(stack[k]) =< MaxDepth
    /\ \A i, j \in 1..Len(stack[k]) :
         stack[k][i].tool = stack[k][j].tool => i = j

(* Depth and breadth together bound what one call can cost: the runs of    *)
(* the sandbox are at most those of the full tree.                         *)
TreeSize[d \in 0..MaxDepth] == IF d = 0 THEN 0 ELSE 1 + MaxUses * TreeSize[d - 1]
RunsBounded == \A k \in Calls : Cardinality(Successes(k)) =< TreeSize[MaxDepth]

(* The log is a tree that can be read back: a tool that succeeded is       *)
(* preceded by a success of each dependency its version declares, made on  *)
(* its behalf and at the version it pins.                                  *)
SuccessHasDependencies ==
  \A k \in Calls : \A i \in Successes(k) :
    LET e    == log[k][i]
        uses == store[e.tool][e.version].uses
    IN  \A d \in 1..Len(uses) : \E j \in Successes(k) :
          /\ j < i
          /\ log[k][j].tool = uses[d].tool
          /\ log[k][j].via = {e.tool}
          /\ log[k][j].depth = e.depth + 1
          /\ uses[d].pin # 0 => log[k][j].version = uses[d].pin

(* A call that ran is answered and logged alike: one root event, the last  *)
(* of all, a success exactly when the answer is 200.                       *)
LogMatchesReply ==
  \A k \in Calls : pc[k] = "done" =>
    /\ reply[k] = 200 => log[k] # <<>>
    /\ \A i \in 1..Len(log[k]) : log[k][i].depth = 0 <=> i = Len(log[k])
    /\ log[k] # <<>> =>
         (log[k][Len(log[k])].outcome = "success" <=> reply[k] = 200)

(* Every call that has begun is answered, cycles among the published       *)
(* dependencies notwithstanding.                                           *)
Answered == \A k \in Calls : pc[k] \in Running ~> pc[k] = "done"
=============================================================================
