# Endless: TLA+ models, checks and proofs

Endless is a registry of tools for agents. Somebody publishes a tool; a reviewer
approves one of its versions; agents search for a tool, call it, and what nobody
could do is logged as a gap. The program is a set of AWS Lambda functions under
`src/infra/lambda`, the DynamoDB tables they share, and a few command line tools
the operator uses. Every function handles a request start to end in one container,
so there are no threads: what interleaves are requests, at their `await`s, and what
is hard is what can happen between two table operations.

## Inventory

| component | state it keeps | operations | correct when |
|---|---|---|---|
| **registry-fn** `registry/` | tools table (rows are never edited), callers table (`credits`, `publications`) | `POST /tools`: authorise, embed, find the latest version, debit, conditional PutItem, refund; `GET` | no overdraft, no version edited or skipped, fee and row exchanged for each other |
| **exec-fn** `exec/` | none; reads tools, approvals, callers, appends to events | `runTool()`, recursive over declared dependencies, behind the review gate | nothing unreviewed or revoked runs, chains end, one call is one tree of events |
| **review gate** `exec/gate.mjs`, `cli/review.mjs` | approvals table | approve, reject, revoke one version | absence of an approval is a refusal |
| **kill switch** `killswitch/`, `killswitch.tf` | reserved concurrency of mcp-fn | throttle on alarm, alert | a flood shuts the endpoint, nothing else does, the operator knows |
| **search-fn** `search/` | 60 s cache of tools; gaps table | embed, rank, adjudicate, write or defer a gap | a gap is a need nobody meets |
| **answer-fn** `answer/` | none; writes the gap search deferred | a loop of model turns over the candidate tools | says "recorded" when it is |
| **mcp-fn** `mcp/` | none | a POST with a message or a batch, forwarded with the caller's key | each message is told what happened; every POST ends |
| **app** `app/server.mjs` | none | relay with a fallback key | forwards identity unchanged |
| **events-fn** `events/` | events table | append | append only |
| **fetcher-fn**, **runtime-fn** | none | allowlisted HTTP; `node:vm` sandbox | bounded, no credentials |
| **gap clustering** `cluster/cluster.mjs` | none | group near gaps, count callers, owners and spread, confirm | a need is what independent people asked for |
| **bounty** `cluster/bounty.mjs`, `cli/closure.mjs` | none | assess a claim: eligible, closed, adopted | pays for a need and a use that stand without the claimant (which the code does in part only: see the disagreements) |
| **mass, decay** `cluster/mass.mjs`, `decay.mjs` | none | score, weigh, decay, archive | counts demand, not noise |
| **nightly job** `cluster/index.mjs`, `world.mjs` | board bucket, copies at the edges | compute and write five files in order, invalidate two | written is seen; paid never changes earned |
| **builder** `registry/builder.mjs`, `cli/build-tool.mjs` | none | generate, validate, publish | held to the tighter envelope |
| **callers** `cli/mint-caller.mjs`, `*/auth.mjs` | callers table | mint, verify, suspend | a key identifies one caller |
| **stasis** `cli/stasis.mjs` | `stasis.json` | hold or release a stage | never grants a stage |

They interact by Lambda invocations (app to mcp to search, answer and exec; exec to
fetcher and runtime), by the tables, by the S3 bucket, and by one SNS topic. The
hard behaviours are races of publications for a version number and a balance, a
request that dies or loses a reply between a debit and a write, tables read from
replicas that lag, publications and reviews while a call runs, graphs of
dependencies that change, functions that wait for functions at the account's ceiling of
ten, and a function triggered by what it publishes itself.
`PROJECT.json` lists every hazard at its line with the properties that watch it.

## Modules

| module | models |
|---|---|
| `VersionKeys` | the string sort key of a version and which row "the last one" is (`pad`, `latestRow`) |
| `Registry` | registry-fn: `POST /tools`, with the faults around its calls |
| `PaidPublication` | what registry-fn promises: an indivisible exchange of a fee for a row |
| `RegistryRefinement` | the mapping by which `Registry` implements `PaidPublication` |
| `RegistryProofs` | proofs about both |
| `Execution` | exec-fn with the review gate, publishers and reviewers |
| `ExecutionProofs` | proofs about it |
| `KillSwitch` | killswitch-fn, its alarms, its topic, the endpoint and the operator |
| `KillSwitchProofs` | proofs about it |
| `Search` | search-fn: the tool cache, the event, the verdict, the gap or its deferral |
| `Answer` | answer-fn in front of it: the turn loop and the deferred gap |
| `AnswerProofs` | proofs about both |
| `Invocations` | functions that invoke functions: the account's places, throttling, retries of the SDK, lost replies, kills |
| `Mcp` | mcp-fn over all of it: search-fn, exec-fn and answer-fn in one composition, with publications, reviews and a suspension |
| `McpProofs` | proofs about it |
| `Components` | the union-find that clustering and competition group things with |
| `People` | the callers, and who owns them, that `Demand` and `Standing` share |
| `Demand` | the table of gaps, the needs read out of it, and one claim of a bounty |
| `Board` | a night's files, the edges that cache them, and the holds operators sell |
| `BoardProofs` | proofs about it |
| `Standing` | mass, dependents and their weight, competition, standing and archiving, over a log of calls and searches |
| `NightProofs` | proofs about `Components`, `Demand` and `Standing` |
| `Builder` | `cli/build-tool.mjs`: the duplicate check, the try and the publication, while others publish |
| `BuilderProofs` | proofs about it |
| `MCRegistry`, `MCExecution`, `MCKillSwitch`, `MCMcp`, `MCAnswer`, `MCDemand`, `MCBoard`, `MCStanding`, `MCBuilder` | small instances for TLC |

### Registry

One process per request. `pc` is the next table operation: `read` (embedding,
latest version, checks on the package), `debit`, `put`, `refund`, then `done`;
`dead` when the container is gone. Each DynamoDB call is one action, because each
is atomic on one item and nothing holds between two of them.

* `Admit`/`Refuse` are `handler()` up to `register()`: `authorise()` looks at the
  balance and changes nothing.
* `ReadLatest` picks what `latestRow()` may answer: the row whose key sorts last or,
  with `"stale_read"`, any earlier answer. `answers` records those.
* `Debit`, `DebitRefused` are the conditional `UpdateItem`; `Put`, `PutRefused` the
  `PutItem` under `attribute_not_exists`; `Refund` the unconditional update.
* `"error"`: a call is not applied and throws. `"lost_reply"`: a write is applied and
  the SDK, which sends a call `MaxAttempts` times, sees a timeout; the repeated call is
  judged on its own (a repeated debit charges again, a repeated PutItem meets its own
  row). `"crash"`: the container dies between two operations.
* `net` is a history variable: debits minus refunds applied for a request.
* What a package must look like is data: `RejectPackage` may refuse any package.

`PaidPublication` knows rows, wallets and settled requests, and two steps: buy a row,
or forfeit a fee. The mapping gives a fee in flight (debited, its request still
working) back to its caller, so that debits and refunds are stutters and the `PutItem`
is the purchase. It is a refinement only while no reply to a write is lost: a PutItem that
was applied and throws is refunded (see the disagreements below).

### Execution

One call is one `handler()`; `runTool()` recurses inside it, so a call is a stack of
frames (`tool`, the version asked for, the one resolved, the next dependency), the root
first. `pc` is where the top frame is: `resolve` (chain check, version), `gate`, `body`
(dependencies, fetch, run), `failing` (a dependency returned `ok: false`).

* `Publish`, `Review`, `Replicate` are the rest of the platform, at any moment.
  `Publish` admits what `validateUses()` admits.
* `RefuseChain`, `ResolveNothing`, `NoCode`, `GateRefuses`, `BadInput`, `RunFails` are the
  returns through `fail()`; each records an event and pops its frame, and `Propagate` is a
  parent failing with what its dependency returned.
* With `"error"`, `Unwind` is the catch of `handler()`: anything may throw, a write of an
  event having been applied or not, and one more event is written for the root.
* `barred` is a history variable: the versions that were not approved at any moment since
  the call began. It is what "a revoked tool has to stop running on the next call" means.
* Input values, fetched data and results are not modelled; whether they satisfy a schema, a
  template or the sandbox is a nondeterministic choice.
* Calls share nothing but the tables, so one call against everything else shows what many do.

### KillSwitch

`endpoint`, the state of the flood alarm, a bag of undelivered notifications, and for each
invocation of the function where it is between its three service calls. A notification is
a flood report, a charges report or the function's own alert, since one topic carries all
three. An invocation that dies is retried from the start, three times in all, and the
service cuts a chain of self-invocations after `MaxHops`. The operator may restore at any time.

### Search and Answer

A question is one request, asked of search-fn directly or of answer-fn, which invokes search-fn and waits. `pc` is where search-fn
is with it: `load` (authenticated and embedded; the cache is consulted), `scan`, `event`, `judge`, `put`, then `done`; `dead` when its
container is gone. `stage` is where answer-fn is: `search`, `first` (the first answer of the model), `turn`, `model`, `record`.

* `cache[e]` is what the environment `e` keeps between requests: for each tool the version it saw, and when the copy was loaded. An
  environment serves one request at a time, keeps its copy through an error and loses it in a crash. A tool's versions are known by
  the time they were stored (`rows`), which is what `FreshListing` compares.
* A scan is paged, so `Loaded` may or may not have what was stored while it ran (`StartScan` notes what there was). Scores are left out: `Ranked`
  is any set of the right size.
* `Judge` is `adjudicate()` with the fallback to the threshold, then the decision of the handler (`Decided`): nothing, defer, or write.
  `adjudicate()` catches its own errors, so nothing is thrown from there.
* `First` to `Record` are `handler()` of answer-fn: what the model names in a message is a free choice of the tools it was offered, giving up,
  and a name nobody offered. `RunTools` runs all of a turn; each works or fails. `calls` is kept after the answer, for `GapIsUnmetDemand`.
* `RecordGap` is the beginning of `recordGap()`, which does nothing when nothing was deferred; the PutItem is `Record`.
* `"lost_reply"` repeats an applied PutItem, or the whole invocation of search-fn (`ForwardAgain`, once the first has ended). The id of a
  gap is drawn before the write, so a repeated write is the same row.
* Left out: results without an `input_schema` (not offered to the model), names that `toolNameFor()` makes equal, the lag of a scan behind the
  table beyond the scan itself, and an invocation repeated while the first is still running.

### Invocations and Mcp

`Invocations` is the machinery, `Mcp` the functions on it. `inv` maps the path of an invocation to its record: `<<p>>` is the endpoint's own for the POST `p`,
`<<p, i>>` is asked for message `i` of its batch, and so on below. A record keeps the function, what a call asks for, where it is (`phase`), the version it found and
what it has recorded (`ok`, `bad`).

* `Post` is `handler()` of mcp-fn with `dispatch()` of every message; what is forwarded becomes an invocation that is `"asked"`. `Begin` gives it one of `Ceiling`
  places, `Wait` is a throttled attempt, and `Again` what the SDK does next: ask again, `MaxAttempts` times, and then throw (`GivenUp`).
* A `Group` is what somebody waits for: one invocation, or all of a `Promise.all`. It settles when all have returned and throws with the first that throws
  (`ReplyError`), while the others go on, unheard. What the invoker of those had still to ask for is asked for when its environment thaws (`Thawed`).
* Inside, the functions are those of the modules above, reduced to whom they invoke, in which order, what they record and what they answer: `Verify`, `Rank` for
  search-fn, `Verify`, `Resolve`, `Gate`, `RunGoesOn`, `DependencyRefuses`, `RunFails`, `TableThrows` for exec-fn,
  and `AnswerSearches`, `AnswerReaches`, `AnswerEnds`, `AnswerFails` for answer-fn, for one turn of its loop. A call that throws is caught by exec-fn, recorded and answered; a
  call that throws in answer-fn ends the answer; a function that was killed throws in mcp-fn and exec-fn, which look at `FunctionError`, and reads as a
  failure without a status in answer-fn, which does not.
* The dependencies of a call run inside it: of those only their sandboxes are seen, in a row with its own, and that one of them may be refused before the next
  sandbox is asked for (`DependencyRefuses`: by its gate, its schema, or inputs that do not resolve), or fail with it (`RunFails`); the call then answers with the status
  of the dependency (`Refusals`), and what ran before has run. `TableThrows` is the catch of `handler()`: a read throws, or the event of the success does, applied
  or not, and the answer is 500.
* `known` is what the client has been shown, a version with a form: a call fills in such a form, with or without naming the version. Schemas are model
  values: the input of a call `Fits` a version exactly if it has its form.
* `suspended`, `approved` and `newest` are what the replicas know, since none of them is read with `ConsistentRead`; how far they lag is in `Execution`.
* `"lost_reply"` loses the end of an invocation somebody waits for, and the SDK invokes again; `"kill"` ends a running function, the endpoint itself included.
  Each counts as a fault, and so does a table that throws.

### Demand

Nothing is accumulated in this part of the code: every night computes everything from the log again. So the clusters, the counts and the
verdicts are operators on the table of gaps, and what moves is the table (`Ask`, `NextDay`), who has used the tool (`Use`), and a `Claim`,
which may be made whenever somebody runs the command.

* `Clusters` is `cluster()`: `Close` stands for the cosine against the threshold, `Groups` for its union-find with the pairs in any order.
* `Needs` splits the simulation off first, as the handler does (`index.mjs:246-253`).
* `Summary` keeps what `assess()` looks at; `WithoutBeneficiary` removes the callers and leaves the spread, as the code does. Labels, median
  ages and flags decide nothing and are left out.
* `Claim` is `assessClaim()`, fed the way `cli/closure.mjs` does it: one verdict per phrasing the board shows, chosen freely. `Counts` is what
  `massOf()` lets through, seen from one tool, where a
  self-call is a call by the tool's owner, `Creator`, who need not be the claimant.
* What `adoption()` reads as `only_owner` is a field nobody writes, so that part of the condition is constant and not there.
* `QualifiesWithoutClaimant` and `AdoptedByOthers` are what `bounty.mjs` says and the code does not do. They belong to no run; TLC
  refutes either within seconds when it is an invariant of `demand_counts`.

### Board

One nightly run, its `pc` being the next file. A run is known by a number, and what it computes is that number and a stage for each tool
(`usage` at the moment `ComputeMass` reads the log).

* `Die` is any throw or timeout between two writes, with the restart from the beginning that the service owes a failed event.
* `LoadStasis` takes any failure of its read for an empty file (`"unread"`), and so does `Load`, the CLI's read (`"misread"`).
* `copies` is what each edge serves; `Fetch` and `Drop` are its own affair, `Publish` starts an invalidation and `Purge` is its arrival.
  `PublishFails` is also the run without a distribution to invalidate.
* The CLI is read, check, write: `Load`, then `ReadStage` against `tools.json` in S3, then `TurnOn`; or `TurnOff`. `Refuse` is each of its early exits.
* `sold`, `standing` and `reached` are history: what operators were told, which holds no one has touched since the run began, and the best
  stage a tool has been given by `tools.json`.

### Standing

Every night computes scores from the whole log again, so they are operators on it, and what moves is the log (`Call`, `Search`) and the time.

* `calls` is the bag of countable-or-not calls that succeeded. `Call` records what `runTool()` does: the call of the tool, and one of everything the
  tool uses with the tool as `via`; each is a self-call by its own tool's owner. `searches` is a set: `SeenTogether` counts callers, not searches.
* `Direct`, `Mass`, `Dependents`, `Weight` are `mass.mjs`. Of dependency weight the damping factor is left out, which scales all alike.
* `Rivalries` and `CompetitionClusters` are the graph of `competitionClusters()`, over `Components`; `StandingOf` is `standingOf()` in ten-thousandths, rounded as
  the code rounds; `Live` ages every call by the standing of now. Powers of a half are the constant `Fading`, to three decimals: a call of no age is whole,
  and at no age does less of it remain at a higher standing, which is what `0.5 ** (age / (halfLife * standing))` does.
* `StandingInit`, `StandingNext` and `StandingSpec` are named apart from those of `Demand`, with which it shares `People`, so that one module can talk of
  both and what is proved of the union-find serves them alike.
* Failures, latency and brightness (a Wilson bound) are scores that decide nothing here.

### Builder

One `run` of the command is `pc`, the need it was given (`None` when typed in), the verdicts so far and the draft. The needs are those of `gaps.json` and,
with `--simulated`, those of `sim-gaps.json`, which are built for and published in the same way. `AskRegistry` is one phrasing, so that
other runs and people publish between two of them. What search-fn may answer (`Named`) is a registered tool that fits the phrasing, and "none fits" as long
as none of those is `listed`, that is in every copy `Search` may rank (its `FreshListing` says when). `before` is what was listed when the run
began. A model may write any of `Generated`, good or broken. `Exit` is each way out, the envelope among them.

## Runs

| run | shows |
|---|---|
| `registry_faults` | under every fault at once: balances never negative, one row per key and per request, no gaps, 201 only for a stored row; a tool whose numbers have used up the padding gets no further version and loses none |
| `registry_ledger` | without lost replies: no row unpaid, and the refinement: a fee is exchanged for a row or forfeited, once; a fee taken ends in a row or comes back, unless the container is gone or the refund fails |
| `exec_gate` | revocation holds at every depth; a success has its dependencies' successes before it |
| `exec_tree` | with lagging replicas: unreviewed code never runs; cost is bounded by depth and breadth; answer and log agree; every call ends |
| `killswitch_fires` | a reported flood shuts the endpoint and the operator is told, through races, deaths and retries |
| `killswitch_own_alert` | its own alert fires it (violation) |
| `mcp_posts` | a call pinned to the version that was shown comes to `validateInput()` with an input that fits; a list of replies is true of what was recorded; whoever is suspended has nothing recorded by what begins afterwards; nothing is throttled while two places for each call and one for each of the others fit; at the ceiling, with a reply lost, a function killed or a table that throws, every POST ends and every place comes back |
| `answer_gaps` | at most one gap per question, none for a builder, none when a tool served or fitted and was not rejected; what the web answered or nobody did leaves one; `gap_logged` is true of the table; what is ranked is not older than cache and request allow; every request ends |
| `demand_counts` | needs are exactly the chains of near gaps, in whatever order they are scanned; what was confirmed stays confirmed while needs grow and merge; the simulation changes nothing; what earned a bounty stays eligible for its claimant, whoever asks |
| `board_nights` | a stage above the earned one was reached before it was sold; a night shows the holds that stood when it began; what was invalidated is not served again; a night that began is written, deaths or not |
| `standing_scores` | two tools compete exactly if chains of pairs lead from one to the other that enough separate, real callers were shown; who is below par has a rival used more; neither the simulation nor an owner lifts a tool of his |
| `builder_runs` | whatever is published meanwhile, nothing is built for a need half of which, alone, a tool answers that was listed when the run began; and nothing that did not work when it was tried |

The violation is a disagreement between the code and its own comments; `findings` in `PROJECT.json` quotes them. Others were met and have
no run of their own; several are a property of a run above, checked there without the fault, or with fewer steps, that breaks it:

* A publication whose PutItem was applied and whose reply was lost throws, and the catch refunds it (`registry/index.mjs:236`): the row is free, while
  `:66-70` says that credit and row stand for each other but for a crash. `NothingFree`, which `registry_ledger` checks, fails with `"lost_reply"` in `Faults`.
* `cluster/bounty.mjs:15-17` says that every request of the claimant is removed from the evidence. `excludeBeneficiary()` (`cluster.mjs:158`) removes the
  claimant from the callers of the summary; the cluster was formed with those requests, which may be the only link between two needs of others, and
  `spread_days` still counts their times. `QualifiesWithoutClaimant` of `Demand` fails: a need is paid for of which nothing confirmed is left without the claimant.
* "generating a near-duplicate is the most likely failure" (`cli/build-tool.mjs:8-9`), so the registry is searched first; but `askRegistry()` never looks at
  the status of the search (`:87-99`), and a search that failed reads as "nothing fits". `NoDuplicate` fails with `"error"` in `Faults`.
  Two runs for one need see nothing of each other until one has published, and both may publish; `NoDuplicate` is about what was listed before.
* `decay.mjs:178-181` ages every call by itself, so that a single call today is no "one-call reset". But the half-life is the tool's standing now, for all
  its calls (`:212`): one call that brings it to par re-ages all the old ones. A tool also returns without any call when its
  cluster goes quiet. And a tool with one call is archived by the next run, while one never called is not (`:203-206`).
* An archived tool "stops appearing in discovery" (`decay.mjs:192`): nothing in `search/` looks at whether a tool is archived.
* Dependency weight "can only arrive through something other people actually chose" (`mass.mjs:155-156`), but an owner's own calls of somebody
  else's tool, built on his, are calls of that tool like any other, and raise the weight of his. Hence `InventedUseCountsForNothing` speaks of mass,
  dependents and the archive, and not of weight.

* `pad()` pads to four digits and never truncates, and the last key in string order is not the last number once "10000" sorts before
  "9999": every further publication is then given a number that is taken, pays, is refused and refunded. "Re-registering a tool_id writes a NEW sort-key row"
  (`registry/index.mjs:3-4`) ends there, which `NumbersRunOut` says exactly. search-fn orders versions as numbers
  (`search/index.mjs:87`) and then shows one that exec-fn does not take for the newest.
* `approvalFor()` reads without `ConsistentRead`, so a call that begins after a revocation may still run the tool, while
  `exec/index.mjs:87-89` says that it stops "on the next call". `RevokedStops`, which `exec_gate` checks, fails with `"stale_read"` in `Faults`.
* answer-fn says "It has been recorded as a need nobody met." (`answer/index.mjs:361`, likewise `:297` and `:323`) when search-fn had
  deferred nothing and `recordGap()` returned at once; only `gap_logged` tells the truth.
* `cli/stasis.mjs:70-73` takes every failed read for "No object yet", and writes the empty document it starts from over everybody's holds; two
  operators at once lose one of two sales. `WorldHonoursSales`, which `board_nights` checks, fails with two tools and `"misread"`, and with two operators.
* `world.json` is served with an age like the other two but not invalidated with them, while `cluster/index.mjs:361-362` speaks of "both
  public objects". No page reads it yet.
* "Every phrasing" (`cli/closure.mjs:105`) is at most 25 of them (`cluster.mjs:140`), so a need with more may be closed for a tool
  that answers few of them; hence the condition of `PaidForMostPhrasings`, which is proved and not among the runs.
* "Independent means: not the claimant" (`bounty.mjs:108`), but `distinct_callers` counts a claimant who does not own the tool, and the exception for a sole owner reads
  `only_owner` (`:119`), which is never written: such a claimant can adopt a tool alone. `AdoptedByOthers` of `Demand` fails.
* A crash between the debit and the PutItem keeps the fee for good, while `registry/index.mjs:68-70` calls it recoverable and
  visible. `BrieflyOutOfPocket`, which `registry_ledger` checks, therefore ends in `"dead"` for a container that is gone.
* The event that the catch of exec-fn writes has no `self_call`, while `exec/index.mjs:136-137` says that every event after the
  resolution carries it.
* An unpinned dependency follows its newest version, while `registry/index.mjs:3-5` says that dependents keep resolving to what
  they were built against.
* The charges alarm fires the kill switch as well; and an endpoint restored before the alarm has returned to OK stays open to a
  flood that goes on.
* A tool that failed counts as one that has run: a model that gives up after it is told "Some tools already returned"
  (`answer/index.mjs:371`), the answer is logged as a tool's (`:432-433`) and the demand is dropped.

* "Notifications have no id and expect no reply" (`mcp/index.mjs:292`): those of `initialize`, `ping`, `tools/list` and `tools/call` without an id are answered,
  with the id `null`; only an unknown method is not.
* `mcp.tf:107-108` says that initialize, ping and tools/list answer without a key. Since `KEY_SHAPE` (`mcp/index.mjs:248`) they do not.
* A result of a search is "usable on arrival" (`search/index.mjs:101`) if it is called by its version. A call that names none meets the newest row, with the form of
  another; answer-fn names none (`answer/index.mjs:381`). Hence the condition of `PinnedCallFits`; and a dependency that
  names no version may refuse, for its input, a call that fits (`exec/index.mjs:211-226`).
* "slower and predictable beats faster and occasionally deadlocked" (`exec/index.mjs:197-198`): sandboxes are invoked one after the other, and
  `ThrottledOnlyWhenFull` says what that buys. The tools of an answer and the messages of a batch are asked for in parallel all the same: of ten places, a batch of four calls takes
  nine and an answer that reaches for five tools needs twelve. The SDK gives up, so that nobody waits for ever (`PostsEnd`); what fails is the call.
* "A suspended caller must stop working at once" (`search/index.mjs:55`, `callers.tf:17-19`): the row is read without `ConsistentRead`, so at once means as
  soon as the replica that is asked knows.
* A batch of which one message throws is answered with one error and without an id (`mcp/index.mjs:325-327`), though its siblings go on and may run tools.
* `cli/closure.mjs:92-95` asks for the approval of version `"0001"`, whatever the newest one is that a call would run.

### Bounds

* Registry: every hazard here is a race of two requests, or of one request with a fault. `registry_ledger` has three requests, of which the third
  puts a stranger between them, two callers, two tools and keys of four decimal digits as in the code. `registry_faults` has four requests of one caller
  for one tool, with a padding of one digit of three, so that the third number is the first that does not fit and the fourth request finds it
  taken. Two credits at a cost of one make the third debit fail, unless a
  credit came back for a row that was stored all the same, without which there would be no third number. Two attempts per call give one retry.
* Execution: two tools with a cycle that a publication closes, or three with one used twice;
  two versions each; three reviews, so that a version can be revoked, approved and revoked
  again within a call (two in `exec_tree`). `MaxDepth` is 3 as in the code, and 2 in `exec_tree` with `MaxUses` 2,
  where the full tree has three runs and one level more is reached by a mutant. Two versions
  are enough for "newest" and "pinned" to differ.
* Answer: one question, since questions share only the cache; the second request that a warm container serves is the repeated
  invocation of search-fn for the same question, which the cache cannot tell from another. Two tools, so that one is seen and the other
  not, or one works and one fails; two turns, so that giving up comes before and after a tool; a cache life of one tick, a request life of one
  and two ticks in all, so that a copy loaded by the end of the first tick has to be dropped at the second.
* Mcp: three places where the account has ten, so that one call fits with its endpoint and its sandbox, and two calls or an answer meet the ceiling, the answer
  with a tool of its own in hand; two attempts where the SDK makes three; one fault, anywhere;
  a dependency is refused with 400, the only status that could be taken for the call's own (the proofs take any of `Refusals`). A tool with two versions, of different forms, the first approved; calls with
  two sandboxes, answers with up to two tools. Three clients: one that searches twice at once and then calls what it was shown, one that calls twice at once, one that asks
  in a batch with a message that needs nobody.
* KillSwitch: two invocations, two deaths (the third attempt lives), one hop of its own
  alert, one restore, one charges alarm, one undelivered flood report.
* Demand: four gaps on two days. Two near pairs of three queries, one of them between the other two, give a chain, a bridge and a merge. Two
  strangers, the claimant, who does not own the tool that is claimed, and a simulated caller; rule and adoption ask for two, not three, and a board shows two phrasings, not 25, so that each
  threshold is met, missed by one, and met only with the claimant or the simulation.
* Standing: three tools, of which one is built on another and two pairs may be shown together, so that a chain of rivals has an end and a middle; two real
  callers who own a tool each, a simulated one, a builder; calls and searches enough for both pairs to be seen by two callers, or for a tool's share to
  be none, half and all of a cluster's (three calls, six events); two days, of half a half-life each.
* Builder: two runs, needs of two and of three phrasings, so that half is met exactly or missed by one; a tool for one phrasing, one for two, and
  two that a model may write, one of them broken.
* Board: two attempts of a run, which are two nights or a death and its retry, one tool, one edge, two invocations of the CLI (a sale and a
  release, or two sales), one operator whose reads work, so
  that what `WorldHonoursSales` excepts (two operators, `"misread"`) is outside of it. Of a night's attempts the last one lives (`Attempts`), and runs do not overlap.

`CHECK_DEADLOCK FALSE` where the system really stops: when all requests or calls are answered.

### Fairness

A request or call that has begun takes its next step (`WF` on `Step`): the container has
nothing else to do. No request has to be made, no fault is due (nor a repeated invocation), nobody has to review or
publish. In `Mcp`, some function that runs goes on (`WF` on the step of any of them; none in particular has to, and a thawed environment need not). In `KillSwitch`, CloudWatch evaluates, SNS delivers and an invocation goes on; the
callers and the operator owe nothing. In `Board`, a nightly run goes on and an invalidation arrives; no night has to begin, and
nobody has to sell or ask for anything.

### Mutants

An operator commented `mutant:` is a plausible bug of the definition it is named after. Each property of a
passing run has one that it must catch.

## Proofs

For every value of the constants, from the named assumptions of the modules. About `Registry`, in
`RegistryProofs`:

* `TypeCorrect`: type correctness. The conjunct on `attempts` needs the guard of `Resend`.
* `BalancesStayPositive`: no overdraft. Inductive with types: only `Charge` lowers a balance,
  under its condition.
* `PublishedForGood`: no step removes or edits a row. `Store` would replace a row with the same key;
  `KeyFree` is what excludes it.
* `TableIsSound`: `TableSound`, that is `OneRowPerRequest`, `NoGaps` and `CreatedMeansStored`. None is inductive: the
  invariant adds that a request which has stored is past storing or carries a number that is taken,
  and that a number about to be stored has a predecessor in the table, though it comes from a read that
  others have overtaken (every recorded answer is 0 or a row's version, and rows stay).
* `NoRowForNothing`: without `"lost_reply"`, `NothingFree` and `ChargedAtMostOnce`, from an invariant that ties
  `net` and the presence of a row to `pc`.
* `RegistryImplementsPaidPublication`: without `"lost_reply"` and with a positive cost, every behaviour of `Registry` is
  one of `PaidPublication`; each action is a purchase, a forfeit or a stutter, by lemmas on the cardinality of the
  fees in flight.
* `VersionsRunOut`: `NumbersRunOut`, for any base and padding. The first number that does not fit sorts before the last that does
  (`KeysSort`), which is in the table by then, so that the query never answers with it, and no number beyond it is ever given out (`WithinPadding`); below it
  keys sort like the numbers, so the row that sorts last is the highest that fits, and the one after it is free, or is that number (`AnswersFit`). `power` is shown to be what its
  definition says from the least number at which it would not be (`PowerIs`).

About `Execution`, in `ExecutionProofs`, for any graph of tools, any calls and limits, and every fault unless one is named.
Lemmas say once what the actions of a call do (`MovesAlone`: to others, nothing; `MovesFrames`: to its frames;
`MovesLog`: to its log), and each invariant is shown from them:

* `ExecutionTypes`: type correctness with `Resolution`: a frame above another, or past `resolve`, has a version, and
  its row exists. Without it `TopRow` has no type.
* `ChainsAreSimple`: no tool twice in a chain and at most `MaxDepth` of them. The property is silent while the top frame
  resolves; `SimpleChain` says what holds of the frames above it by then, and `checkChain()` gives the rest.
* `OnlyReviewedCodeRuns`: `Vetted` (the row exists, has code, somebody has decided about it) is stable, because rows stay
  and no decision becomes "none"; `GateVets` gives it to a frame that passes the gate, though from a replica, because
  `ReplicaFollows`; frames hand it to the log (`VettedFrames`, `VettedLog`).
* `RevokedVersionsStop`: without `"stale_read"`. What is approved now is not in `barred` (`ApprovedIsNotBarred`), `barred`
  only shrinks while a call goes on, and the gate lets through what is approved now.
* `LogIsATree`: every success is preceded by those of its declared dependencies. It needs to know, of the frames, that a resolved one
  has the version it was asked for (`Pinned`), that each runs for the next dependency of the one above (`Linked`), and that what comes
  before that one has succeeded (`Met`); a publication in between changes nothing because a resolved frame's row is fixed.

* `LogAndReplyAgree`: without `"error"`, `LogMatchesReply`. While a call runs its log holds no root event (`Inner`), a frame that fails hands
  up no 200 (`FailuresAreNot200`), and so the root's own event closes the log as the reply says (`RootCloses`).
* `OneCallIsBounded`: `RunsBounded`. A frame has a budget, the nodes of the full tree below its depth; the runs so far and the
  budgets of what the frames on the stack have yet to start are within that of the root (`Room`), whatever is published meanwhile, because a
  resolved version's dependencies are fixed. That the recursive bound is the function it says follows from the least depth at which it would not be.

About `Demand`, in `NightProofs`, for any callers, owners, nearness and rule:

* `MostPhrasingsAreAnswered`: `PaidForMostPhrasings`, that the tool answers four fifths of the phrasings of a need that was paid for, if they are all shown.
  The invariant adds that the table is finite, without which cardinalities say nothing.
* `AwardsStand`: `AwardStands`. The owners and days of a need, without the claimant's owners too, are among those of the one it has grown into
  (`EvidenceGrows`), and needs only grow (`NeedsGrow`).
* `SimulationIsSplitOff`: `SimulationMovesNothing`. What the simulation asks is not in `Real`, of which the needs are a function, and its use counts for nobody.
* `GroupsAreConnected`: what the union-find of `Components` computes, for any finite items and links: a partition which no link leaves, and of which no
  part falls into two without a link between them. Parents are grounded (`Grounded`: among any items there is one whose parent is itself or none of
  them), so that `Find` is a function and finds the one root (`FindsTheRoot`); a union joins the groups of its two ends and no others
  (`UnionJoins`); and the fold over the links, in whatever order they are chosen, is `Grouping` of those folded so far.
* `NeedsAreWhole`: `NeedsAreChains`, from that, for the rows of real callers and the pairs of them that are near.
* `ConfirmationsAreKept`: `ConfirmedForGood`. Rows only come, so that links only do, and a need lies within one need of the larger table (`NeedsGrow`); its
  owners and days are among those of that one (`ConfirmedGrows`), which is dated as rows are (`Dated`).

About `Mcp`, in `McpProofs`, for any scripts, ceiling, versions, sandboxes and faults, from one invariant: the paths are a forest
(`Forest`: a group exists, nothing is left below what is forgotten, nobody has more children than it asked for) and every record
is `Fine`. `Changes`, `Returns`, `Spawns` and `Starts` show once what the ways to go on do to the forest and to everybody else; under them, one
lemma per action only has to say what becomes of its own record.

* `PinnedCallFitsHolds`: a pinned call keeps the form of its pin (`FitsItsPin`), because what the client knows, and a search that ended well,
  carry a version and its own form (`ShowsForms`). The forest is what makes the search of a group one of the records that are known to be fine.
* `SuspendedStopsHolds`: who began with the key suspended is at `"begin"` for as long as the caller is suspended (`StaysOut`), and a
  suspension is never lifted; what records is past `Verify`, so it is not one of these, and no step of anybody touches the record of another who runs.
* `ToldIsWhatHappened`: `ToldWhatHappened`. Every step is the `Deed` of one invocation: it changes its own record and begins, ends or forgets only what is
  directly under it. The invariant (`Whole`) adds what a record may look like (`Plain`), that under a call there are only sandboxes and under a
  message only what its function invokes (`Kinship`), that whoever waits minds its group and whoever does not has nobody under way (`Minds`), and
  how the runs recorded relate to status and tries (`Telling`). Told a list, the messages have all ended (`Done`), and stay so.
* `ThrottledWhenFull`: `ThrottledOnlyWhenFull`. An invocation is refused a place only if `Ceiling` others run; a call's one sandbox shares its
  second place, and the one who asks is under way and does not run, so that `Places` counts at least one more than run (`PlacesWhenFull`).

About `Search` and `Answer`, in `AnswerProofs`, for any questions, tools, environments, bounds and faults. Every step of one request changes the
record of nobody else (`Own`) and writes at most a gap of its own question, so each lemma only has to show `Fine` of the one that moves.

* `GapsCountOnce`, `GapsAreDemand`, `AnswersTellOfGaps` (`LoggedMeansLogged`) and `DeferredDemandIsKept` (`DemandIsKept`) come from `Fine`: while a write is under way, and perhaps
  repeated, there is a demand and the gaps of the question are within the one row being written (`SearchedFor`, `AnsweredFor`); search-fn writes nothing
  for a question put to answer-fn, because that one always asks it to defer; and nothing that has run a tool comes to write.
* `ListingsAreFresh`: `FreshListing`, for a life of the copy that is not 0. `Seen` says that a scan has seen what was stored before its request
  began, and a copy what was stored a request's life before it was made; a request being no older than `Lifetime` (`Timely`) turns one into the other.

About `Standing`, in `NightProofs` too, for any finite number of tools, any graph of them, callers, lists and `Fading`. A sum over a finite set is the
number of the units its terms are made of (`SumIsUnits`), so that sums are compared by inclusion:

* `RivalsAreSeenByMany`: `RivalsWereSeenByMany`, from `GroupsAreConnected` for the links of competition (`RivalsAreGrouped`). Two tools are linked exactly
  if enough callers were shown both (`RivalsAreSeen`): who was shown both is a finite set of callers, because the searches are (`Searched`), and one of
  at least so many has a part of just so many (`PartOfSize`), which the witnesses of the property are.
* `StandingIsRelative`: `FallsBehindSomebody`. If no rival is used more than the tool, the use of all is at most the number of rivals times its own, and
  the quotient rounds to par or above (`BelowParIsBehind`).
* `InventedUseIsVoid`: `InventedUseCountsForNothing`. The log after such a call has, of the tool, the same events that count (`InventedAddsNothing`), so mass
  and dependents are the same. Its rivals may be used more, its share can only fall (`StandingFalls`), and the same calls fade no slower at a lower
  standing (`LiveFalls`), so an archived tool stays archived. Both rest on the log being finite and of the past (`Logged`).

About `KillSwitch`, in `KillSwitchProofs`, for any number of invocations, charges, restores and alerts:

* `NeverShutSilently`: the endpoint is never shut with nobody told and no invocation under way that will tell. It is what
  `OperatorIsTold` has of safety, and assumes that fewer invocations die than a report is given attempts: with three deaths and three
  attempts TLC finds the endpoint shut in silence. `AttemptsLast` is what it needs: each attempt beyond the first of a report is a death.
* `AlertsTellTheTruth`: until somebody restores the endpoint, whoever is about to say that it is shut, or has said it, is right.

About `Builder`, in `BuilderProofs`:

* `NoDuplicateIsBuilt`: without `"error"`, `NoDuplicate`. The verdicts are given one after the other while others publish; what holds of
  them meanwhile (`Heard`) is that a phrasing which of all tools only one fits that was listed when the run began, was answered with that
  one. A publication only makes fewer phrasings those of one tool, so this is stable; what the brief accepts (`Cleared`) counts
  at least the phrasings of `NoDuplicate` (`NotDuplicated`).

About `Board`, in `BoardProofs`:

* `MoneyNeverGrants`: `NeverGranted`. A document of holds is `Earned` when no hold in it is above what its tool has reached, which only grows; the
  file, the run's copy and the copy of each operator, however old, are, and so is whatever one of them writes back.
* `SalesAreHonoured`: `WorldHonoursSales`, for one operator and no `"misread"`. What the operator is about to save and what the run has read
  have every sale made before (`Honest`): the one copy that is written back differs from the file in the tool being sold and in nothing else.

Where an argument takes induction (over depths, over finite sets), it is a least counterexample: the set of those that fail has a
least member by the library's well-foundedness theorems, which take no operator.

Only model-checked: liveness (`Answered` of `Execution` and of `Answer`, `BrieflyOutOfPocket`, `FloodShutsEndpoint`, `OperatorIsTold`, `PostsEnd`, `PublishedIsSeen`,
`NightIsWritten`), which the prover cannot do. Every safety invariant and action property of the passing runs has a theorem. `PublishedForGood`, `ChainsAreSimple`,
`NeverShutSilently` and `AlertsTellTheTruth` are proved and not among the runs' properties.

## Plan

In the order of what matters to the system:

1. `Registry` and its abstract specification: done, with proofs.
2. `Execution` with the review gate: done, with proofs of all it promises but `Answered`.
3. `KillSwitch`: modelled and checked, its safety proved. Next: an abstract switch it implements once triggers and alerts have topics of their own.
4. `Search` and `Answer`: modelled, checked and proved. Next: two environments and two questions in one run of TLC, which is beyond its budget today.
5. `Demand`: modelled, checked and proved. Next: how gaps of different vectors come to be near.
6. `Standing`: modelled, checked and proved. Next: that `Mass` only grows.
7. `Board`: modelled and checked, its safety proved. Next: what a page sees that reads two files.
8. `Builder`: modelled, checked and proved. Next: minting callers while requests run.
9. `Mcp`: modelled and checked, its safety proved. Next: two clients at the ceiling in one run of TLC.
10. A composition of publishing, review, execution and scoring over one log: that the events exec-fn writes count as `Standing` says.

Not planned: rendering pages, embeddings and ranking scores, Terraform, evaluation and simulation scripts, vendored libraries.
