--------------------------------- MODULE Mcp ---------------------------------
(***************************************************************************)
(* mcp-fn and what it is in front of: a POST carries one message or a      *)
(* batch of them, and each that needs something real is forwarded, with    *)
(* the key of whoever asks, to search-fn, exec-fn or answer-fn, which      *)
(* invoke further functions in turn.  All of them share the account's      *)
(* places (Invocations).  Meanwhile versions of a tool are published,      *)
(* reviewed and revoked, and the caller behind the key may be suspended.   *)
(*                                                                         *)
(* Inside, the functions are those of Search, Answer and Execution; here   *)
(* they keep what the composition tells apart: whom they invoke, in which  *)
(* order, what they record and what they answer.                           *)
(***************************************************************************)
EXTENDS Invocations

CONSTANTS
  Scripts,      \* bound: what a client with one key may do, a sequence of
                \* POSTs, each a sequence of kinds of messages
  MaxVersion,   \* bound: versions of the tool
  Form,         \* the input schema of each of them
  Reviewed,     \* the versions approved at the start
  Sandboxes,    \* fetcher-fn and runtime-fn, how often a call invokes them
  Uses,         \* bound: tools an answer runs in one turn
  Refusals      \* bound: of 400, 403, 404, 409 and of 422, 502, with which
                \* the dependencies or the sandbox fail a call

Posts    == UNION {DOMAIN s : s \in Scripts}
Versions == 1..MaxVersion
Kinds    == {"local", "search", "call", "answer"}

ASSUME ScriptAssumption  == Scripts \subseteq Seq(Seq(Kinds) \ {<<>>})
ASSUME CatalogAssumption ==
  /\ MaxVersion \in Nat \ {0}
  /\ DOMAIN Form = Versions
  /\ Reviewed \subseteq Versions
ASSUME WorkAssumption    ==
  /\ Sandboxes \in Nat \ {0} /\ Uses \in Nat
  /\ 422 \in Refusals /\ Refusals \subseteq {400, 403, 404, 409, 422, 502}

VARIABLES
  newest,     \* tools table: the newest version of the tool
  approved,   \* approvals table: the versions approved now
  suspended,  \* callers table: the caller behind the key is suspended, and
              \* the replicas, from which all of these are read, know it
  script,     \* what the client does
  known,      \* the client has been shown these versions, each with a form
  told        \* what each POST was answered

platform == <<newest, approved, suspended>>
client   == <<script, known, told>>
pool     == <<inv, faults>>
vars     == <<inv, faults, newest, approved, suspended, script, known, told>>

Init ==
  /\ inv = [n \in {} |-> 0]
  /\ faults = 0
  /\ newest = 1
  /\ approved = Reviewed \cap {1}
  /\ suspended = FALSE
  /\ script \in Scripts
  /\ known = {[ver |-> 1, form |-> Form[1]]}
  /\ told = [p \in Posts |-> "nothing"]

-----------------------------------------------------------------------------
(* The rest of the platform. *)

PublishVersion ==
  /\ newest < MaxVersion
  /\ newest' = newest + 1
  /\ UNCHANGED <<pool, approved, suspended, client>>

(* A reviewer approves; that one may take it back is in Execution. *)
Approve(v) ==
  /\ v =< newest
  /\ v \notin approved
  /\ approved' = approved \cup {v}
  /\ UNCHANGED <<pool, newest, suspended, client>>

Suspend ==
  /\ ~suspended
  /\ suspended' = TRUE
  /\ UNCHANGED <<pool, newest, approved, client>>

-----------------------------------------------------------------------------
(* handler() of mcp-fn.  A key is only looked at for its shape. *)

(* What can be asked for a message of this kind: a call names a version    *)
(* that was shown, or none, and fills in the form that was shown with it.  *)
Asked(kind) ==
  CASE kind = "call"  -> UNION {{Job("call", pin, shown.form) : pin \in {0, shown.ver}} :
                                  shown \in known}
    [] kind = "local" -> {[Job("local", 0, Form[1]) EXCEPT !.st = "ended", !.status = 200]}
    [] OTHER          -> {Job(kind, 0, Form[1])}

(* The client sends one POST after the other. *)
Turn(p) ==
  /\ p \in DOMAIN script
  /\ told[p] = "nothing"
  /\ <<p>> \notin Nodes
  /\ \A q \in 1..(p - 1) : told[q] # "nothing"

(* dispatch() of every message at once.  initialize, ping, tools/list and  *)
(* what is malformed need nobody and are answered on the spot.             *)
Post(p) ==
  /\ Turn(p)
  /\ Room
  /\ \E jobs \in [DOMAIN script[p] -> UNION {Asked(kind) : kind \in Range(script[p])}] :
       /\ \A i \in DOMAIN jobs : jobs[i] \in Asked(script[p][i])
       /\ Start(p, [Job("mcp", 0, Form[1]) EXCEPT !.st = "running"], jobs)
  /\ UNCHANGED <<platform, client>>

(* Not a POST, not JSON, no key of the right shape, or no place for it.    *)
TurnAway(p) ==
  /\ Turn(p)
  /\ told' = [told EXCEPT ![p] = "refusal"]
  /\ UNCHANGED <<pool, platform, script, known>>

Answered(p, answer) ==
  /\ inv[<<p>>].st = "running"
  /\ Set(<<p>>, [inv[<<p>>] EXCEPT !.st = "ended", !.status = 200])
  /\ told' = [told EXCEPT ![p] = answer]

Results(p) == {n \in Group(<<p>>) : inv[n].fn = "search" /\ inv[n].status = 200}

(* Every message has its reply. *)
ReplyList(p) ==
  /\ Settled(<<p>>)
  /\ ~Casualty(<<p>>)
  /\ Answered(p, "list")
  /\ known' = known \cup {[ver |-> inv[n].ver, form |-> inv[n].form] : n \in Results(p)}
  /\ UNCHANGED <<platform, script>>

(* One of them has thrown: a single error for all, whatever the others do. *)
ReplyError(p) ==
  /\ GivenUp(<<p>>) \/ Casualty(<<p>>)
  /\ Answered(p, "error")
  /\ UNCHANGED <<platform, script, known>>

-----------------------------------------------------------------------------
(* A function has n at this phase. *)
At(n, fn, phase) == inv[n].fn = fn /\ inv[n].st = "running" /\ inv[n].phase = phase

Inside == UNCHANGED <<platform, client>>

Goto(n, phase) == Set(n, [inv[n] EXCEPT !.phase = phase])

(* mutant: a key is looked up for what the client itself asks for *)
Verified_AtTheDoor(n) == Len(n) > 2 \/ ~suspended

(* authenticate(), and the status of the caller's row, which nobody caches. *)
Verified(n) == ~suspended

Verify(n, next) ==
  /\ At(n, "search", "begin") \/ At(n, "call", "begin")
  /\ \/ Verified(n) /\ Goto(n, next)
     \/ ~Verified(n) /\ Return(n, inv[n], 403)
  /\ Inside

(* loadTools() keeps the form beside the version, in one copy of the row. *)
FormShown(v) == Form[v]

(* search-fn ranks a copy of the table that may be old, and records it. *)
Rank(n) ==
  /\ At(n, "search", "rank")
  /\ \E v \in 1..newest :
       Return(n, [inv[n] EXCEPT !.ver = v, !.form = FormShown(v), !.ok = @ + 1], 200)
  /\ Inside

-----------------------------------------------------------------------------
(* exec-fn. *)

(* mutant: the newest version runs, whichever was asked for *)
Resolved_Newest(pin) == newest

(* resolveTool() *)
Resolved(pin) == IF pin = 0 THEN newest ELSE pin

Resolve(n) ==
  /\ At(n, "call", "resolve")
  /\ Set(n, [inv[n] EXCEPT !.ver = Resolved(inv[n].pin), !.phase = "gate"])
  /\ Inside

(* fail() and the catch of handler(): recorded, then answered. *)
Fail(n, status) == Return(n, [inv[n] EXCEPT !.bad = @ + 1, !.ver = 0, !.left = 0], status)

Sandbox == <<Job("sandbox", 0, Form[1])>>

(* mutant: fetchers and runtimes of a call are invoked together *)
NextSandboxes_Together(left) == [i \in 1..left |-> Sandbox[1]]

(* One after the other, those of the dependencies first: "slower and       *)
(* predictable beats faster and occasionally deadlocked".                  *)
NextSandboxes(left) == Sandbox

InvokeNext(n, left) ==
  LET jobs == NextSandboxes(left)
  IN  Spawn(n, [inv[n] EXCEPT !.phase = "run", !.ver = 0, !.left = left - Len(jobs)], jobs)

(* What validateInput() says of its own input. *)
Fits(n) == inv[n].form = Form[inv[n].ver]

(* Past the review gate and validateInput(). *)
MayRun(n) == inv[n].ver \in approved /\ Fits(n)

Gate(n) ==
  /\ At(n, "call", "gate")
  /\ \/ inv[n].ver \notin approved /\ Fail(n, 403)
     \/ inv[n].ver \in approved /\ ~Fits(n) /\ Fail(n, 400)
     \/ MayRun(n) /\ InvokeNext(n, Sandboxes)
  /\ Inside

(* The sandbox it waited for has done its work. *)
Worked(n) == Settled(n) /\ Statuses(n) = {200}

(* The next of the dependencies is refused, or its input does not resolve: *)
(* its own gate and schema are judged like those of any tool, and whatever *)
(* it is answered is the answer.  Those before it have run.                *)
DependencyRefuses(n) ==
  /\ \/ At(n, "call", "gate") /\ MayRun(n)
     \/ At(n, "call", "run") /\ Worked(n) /\ inv[n].left > 0
  /\ \E status \in Refusals \ {422, 502} : Fail(n, status)
  /\ Inside

(* The fetch or the transform fails, that of a dependency included, or one *)
(* of them throws.                                                         *)
RunFails(n) ==
  /\ At(n, "call", "run")
  /\ \/ /\ Settled(n) /\ ~Casualty(n) /\ 422 \in Statuses(n)
        /\ \E status \in Refusals \cap {422, 502} : Fail(n, status)
     \/ (GivenUp(n) \/ Casualty(n)) /\ Fail(n, 500)
  /\ Inside

RunGoesOn(n) ==
  /\ At(n, "call", "run")
  /\ Worked(n)
  /\ \/ inv[n].left > 0 /\ InvokeNext(n, inv[n].left)
     \/ inv[n].left = 0 /\ Return(n, [inv[n] EXCEPT !.ok = @ + 1], 200)
  /\ Inside

(* A table throws, and the catch of handler() records an error: a read,    *)
(* that of a dependency included, or the event of the success, which may   *)
(* be in the log all the same.                                             *)
TableThrows(n) ==
  /\ faults < MaxFaults
  /\ \E stored \in {0, 1} :
       /\ \/ stored = 0 /\ (At(n, "call", "resolve") \/ At(n, "call", "gate"))
          \/ At(n, "call", "run") /\ Worked(n) /\ (stored = 1 => inv[n].left = 0)
       /\ Returned(n, [inv[n] EXCEPT !.ok = @ + stored, !.bad = @ + 1, !.ver = 0, !.left = 0], 500)
  /\ faults' = faults + 1
  /\ Inside

(* fetcher-fn and runtime-fn, external to each other: it works or not.     *)
RunSandbox(n) ==
  /\ At(n, "sandbox", "begin")
  /\ \E status \in {200, 422} : Return(n, inv[n], status)
  /\ Inside

-----------------------------------------------------------------------------
(* answer-fn. *)

AnswerSearches(n) ==
  /\ At(n, "answer", "begin")
  /\ Spawn(n, [inv[n] EXCEPT !.phase = "search"], <<Job("search", 0, Form[1])>>)
  /\ Inside

(* The search was refused, its reply has no status, or it has thrown. *)
AnswerFails(n) ==
  /\ At(n, "answer", "search")
  /\ \/ Settled(n) /\ ~Casualty(n) /\ 200 \notin Statuses(n) /\ Return(n, inv[n], 403)
     \/ (Casualty(n) \/ GivenUp(n)) /\ Return(n, inv[n], 500)
  /\ Inside

(* The model reaches for the tools of a turn, all of them at once, without *)
(* a version and with the form that search-fn gave; or for none.           *)
AnswerReaches(n) ==
  /\ At(n, "answer", "search")
  /\ Settled(n) /\ Statuses(n) = {200}
  /\ \/ Return(n, inv[n], 200)
     \/ \E found \in Group(n), uses \in 1..Uses :
          Spawn(n, [inv[n] EXCEPT !.phase = "calls"],
                [i \in 1..uses |-> Job("call", 0, inv[found].form)])
  /\ Inside

(* mutant: a tool that threw is taken for one that failed, and not waited for *)
AnswerEnds_AnyThrow(n) ==
  /\ At(n, "answer", "calls")
  /\ \/ Settled(n) /\ Return(n, inv[n], 200)
     \/ GivenUp(n) /\ Return(n, inv[n], 200)
  /\ Inside

(* A tool that failed is one more result; a throw ends the whole answer.   *)
AnswerEnds(n) ==
  /\ At(n, "answer", "calls")
  /\ \/ Settled(n) /\ Return(n, inv[n], 200)
     \/ GivenUp(n) /\ Return(n, inv[n], 500)
  /\ Inside

-----------------------------------------------------------------------------
(* A place is given or refused. *)
Begin(n) == Admit(n, suspended) /\ Inside
Wait(n)  == Throttle(n) /\ Inside

(* The endpoint's own invocation may be killed with the rest.              *)
Die(n) ==
  /\ Kill(n)
  /\ told' = IF Len(n) = 1 THEN [told EXCEPT ![n[1]] = "gone"] ELSE told
  /\ UNCHANGED <<platform, script, known>>

LoseReply(n) == Lose(n) /\ Inside

Step(n) ==
  \/ Len(n) = 1 /\ (ReplyList(n[1]) \/ ReplyError(n[1]))
  \/ (Awaited(n) \/ Thawed(n)) /\ (Begin(n) \/ Wait(n))
  \/ Verify(n, IF inv[n].fn = "search" THEN "rank" ELSE "resolve")
  \/ Rank(n)
  \/ Resolve(n) \/ Gate(n) \/ DependencyRefuses(n) \/ RunGoesOn(n)
  \/ RunFails(n) \/ TableThrows(n) \/ RunSandbox(n)
  \/ AnswerSearches(n) \/ AnswerReaches(n) \/ AnswerFails(n) \/ AnswerEnds(n)

Next ==
  \/ PublishVersion
  \/ \E v \in Versions : Approve(v)
  \/ Suspend
  \/ \E p \in Posts : TurnAway(p) \/ Post(p)
  \/ \E n \in Nodes :
       \/ Step(n)
       \/ LoseReply(n) \/ Die(n)

Spec == Init /\ [][Next]_vars

(* The functions that run go on, whichever it is that takes a step; none   *)
(* of them has to, and a frozen environment need never go on.              *)
FairSpec == Spec /\ WF_vars(\E n \in Nodes : Step(n))

-----------------------------------------------------------------------------
(* Properties. *)

Message(n) == Len(n) = 2

(* A call that is pinned to the version that was shown, its input filled   *)
(* in the form that was shown, reaches validateInput() with an input that  *)
(* fits, whatever is published between the search and the call.  Its       *)
(* dependencies may still be refused theirs, and the call with them.       *)
PinnedCallFits ==
  \A n \in Nodes : At(n, "call", "gate") /\ inv[n].pin # 0 => Fits(n)

(* What is told of a call is what happened to it.  Each message of a list  *)
(* has come to an end, and unless a reply was lost before, nothing of a    *)
(* success is still under way but the sandbox of a call that was killed.   *)
(* Of a call itself: a success was recorded; a 500 was recorded as an      *)
(* error, though perhaps as a success too; any other refusal was not, what *)
(* its dependencies and sandboxes did before notwithstanding; and no call  *)
(* succeeds more often than it was asked for.                              *)
ToldWhatHappened ==
  \A n \in {m \in Nodes : Message(m) /\ told[m[1]] = "list"} :
    /\ inv[n].st = "ended"
    /\ inv[n].status = 200 /\ inv[n].tries = 0 =>
         \A m \in Below(n) \cap Running : inv[m].fn = "sandbox"
    /\ inv[n].fn = "call" =>
         /\ inv[n].status = 200 => inv[n].ok > 0
         /\ inv[n].status = 500 => inv[n].bad > 0
         /\ inv[n].status \notin {200, 500} /\ inv[n].tries = 0 => inv[n].ok = 0
         /\ inv[n].ok =< inv[n].tries + 1

(* "A suspended caller must stop working at once": an invocation that      *)
(* begins after the suspension records nothing, though it be a message of  *)
(* a batch or a tool of an answer that was under way, or asked for again.  *)
SuspendedStops ==
  [][\A n \in Running : inv[n].late =>
       n \in DOMAIN inv' /\ inv'[n].ok = inv[n].ok /\ inv'[n].bad = inv[n].bad]_vars

(* What is under way takes one place each, a call a second one for its     *)
(* sandbox.                                                                *)
Places ==
  LET under == {n \in Nodes : inv[n].st \in {"asked", "running"}}
      calls == {n \in under : inv[n].fn = "call"}
      own   == {n \in under : inv[n].fn = "sandbox" /\ Front(n) \in calls}
  IN  Cardinality(under \ own) + Cardinality(calls)

(* As a call invokes its sandboxes one after the other, no invocation is   *)
(* throttled as long as two places for each call and one for each of the   *)
(* others are within the ceiling, whatever the tools depend on.            *)
ThrottledOnlyWhenFull ==
  [][\A n \in Nodes :
       /\ n \in DOMAIN inv' /\ inv[n].st = "asked"
       /\ inv'[n] # inv[n] /\ inv'[n].st # "running"
       => Places > Ceiling]_vars

(* Functions that wait for each other at the ceiling do not wait for ever: *)
(* time and again every POST has been answered and every place is free.    *)
Rest == Running = {} /\ \A n \in Nodes : told[n[1]] # "nothing"

PostsEnd == []<>Rest
=============================================================================
