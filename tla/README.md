# OPENMAGI / AgentGate in TLA+

OPENMAGI stands between a coding agent and the machine it works on. Every tool
call gets a verdict `allow`, `ask` or `deny` before it runs, and every tool result
one of `pass`, `mask`, `drop` before the model reads it. This directory models the
code that reaches those verdicts: TLC checks the models on small instances, and
TLAPS proves most of their safety properties for every instance. All paths below are
relative to `src/`; in Python files they abbreviate
`service/agentgate/`, in TypeScript files `adapters/packages/`.

    cd tla
    tlc -workers 2 -config MCGate.cfg MCGate      # one run
    tlapm GateProofs.tla                          # one module of proofs

Contents: [the system](#1-the-system), [the modules](#2-the-modules),
[the runs](#3-the-runs), [the proofs](#4-the-proofs),
[what the code does otherwise](#5-where-code-and-words-differ),
[what is left out](#6-what-is-not-modelled), [the plan](#7-the-plan).

## 1. The system

A harness (opencode, Kilo, Codex, Pi, DeepSeek Harness) runs a **plugin**; the
plugin asks the **gate service** over HTTP, once before a call
(`POST /v1/decide`) and once after it (`POST /v1/inspect`). The service is one
asyncio process with in-memory stores and an optional PostgreSQL behind them.

    harness -> plugin hooks -> client/policy -> HTTP -> api/app.py
                                                      |-- replay store (Idempotency-Key)
                                                      |-- Gate: session, allow cache, stage 1, stage 2, escalation
                                                      |-- Inspector: stage 1 scan, cache, stage 2, reconciliation
                                                      `-- background task: session row, decision row, cache row

### Components

| component | state it keeps | operations | what makes it correct |
|---|---|---|---|
| shell analysis (`shell/`, `normalize/`) | none; the walker collects commands, pipelines, paths and flags | `normalize`, `resolve_effective_argv`, `chain_unresolved` | what is judged is what would run, wherever the walk looks: every command, with its pipeline, behind any wrapper, and no path of a command lost in silence |
| stage 1 rules (`rules/`, `domain/verdict.py`) | none; the loop has a position and a floor | `RuleChain.run`, 19 rules in one order | the order is a priority policy: no `allow` past a refusal, denials beat floors, the user's rules bind everyone below them |
| gate (`engine/gate.py`, `domain/session.py`, `session/`) | per session: workspace, streak of denials, window of recent decisions, allow cache | `decide`, which suspends at the classifier | an `allow` is lawful where it was judged; one workspace per session; a cached `allow` repeats a grant; escalation neither comes late nor repeats itself nor touches a final verdict |
| HTTP answer path, store (`api/app.py`, `session/replay.py`, `session/persistent.py`, `store/`) | replay entries, background tasks, tables | `_answer`, the writer's three statements, restore after a restart | a replay is the answer of the same request; a restart brings back nothing that was not given |
| bearer check (`api/deps.py`, `store/keys.py`) | cache of outcomes, key rows | `verify`, which suspends at the query; create, revoke, expiry | a revoked or expired key stops working within a TTL, and a good one is refused only for a reason |
| stage 2 classifier (`classify/`) | none | one request, no retry | an `allow` is the model's own, every failure is an `ask` marked as one, every call is answered |
| inspection (`engine/inspector.py`, `inspect/`) | TTL cache of verdicts | `inspect`, which suspends at the classifier | a certain secret never reaches the model, the classifier lifts only what it may, and masks only what it saw |
| TTL store (`session/ttl_store.py`) | entries in insertion order, count of puts | `get`, `put` with sweep and cap | nothing live is lost below the cap, nothing expired is returned |
| adapter core (`core/src`) | state file and its cache, verdict book, inspection cache, history of turns | `readMode`, `writeMode`, `resolveOut`, `resolveIn`, `record`, `clampHistory` | a failure of the guard never becomes an `allow`; what is sent is never refused for its dialogue |
| plugin-v1 (`plugin-v1/src`) | `patched` flag, the core's caches | hooks, concurrent per call, suspending at the session lookup and the guard | a prompt is answered only on a grant, a refused call never runs, unfiltered text is never told by accident |
| plugin-v2, -pi, -dsh, -codex | the core's caches and history; Codex: its transcript | hooks before and after a call, Codex's permission hook, Pi's dialog and input | a call runs unasked only on a grant, a mode or the harness's own rules; the dialogue sent is the recent past |
| installer, benchmark, frontend | | | see [section 6](#6-what-is-not-modelled) |

### Interaction and concurrency

The service has three suspension points: the key verifier's query, the
classifier's HTTP request, and the statements of the background task. Between two
of them a call runs in one piece. Hence each model has one action per piece, and
any other call may run between the pieces. What this leaves to go wrong:

* state read before the classifier and used after it (workspace, counters, cache);
* two calls with one `Idempotency-Key`, the second before the first is answered;
* background tasks that commit in another order than they were started, or of
  which one statement fails;
* a crash between an answer and its task, and a restart that restores from rows;
* queries that come back late and overwrite a newer outcome;
* in the plugin: hooks of other calls between a look-up and a store in the verdict
  book, a mode switched in another process, permission checks in either order
  with `tool.execute.before`;
* hooks of other calls that record turns while a request is under way, and Codex's
  two hooks, between which the mode and the guard may change;
* in sequential code: the order of nineteen rules, the precedence of overlapping
  findings, windows that touch, thresholds reached exactly, limits counted one way by
  the adapter and another way by the service.

`PROJECT.json` lists each at its line under `hazards`, with the properties that
would catch it.

## 2. The modules

| module | models | notes |
|---|---|---|
| `Verdicts` | `domain/verdict.py`, `ChainOutcome` | verdicts as records, their strictness, floor and escalation |
| `Chains` | `rules/base.py` | abstract specification: what a chain's outcome *is*, as a formula over all its rules at once |
| `RuleChain` | `RuleChain.run` | the loop, one action per way a rule may answer |
| `Stage1`, `Stage1Actions` | the rules and `rules/chain.py` | each rule as an operator over the parts of a normalized action; `STAGE1` is the list |
| `CommandTable` | `shell/commands.py` | the roles and the value-taking options of the commands |
| `Wrappers` | `shell/wrappers.py`, `rules/hard_deny/shared.py` | what remains of an argv behind its wrappers |
| `Normalize` | `normalize/shell.py`, `normalize/__init__.py`, `rules/hard_deny/pipe_exec.py` | the walk over the tree of a shell line |
| `LLMClient` | `classify/client.py` | the outcomes of one request |
| `Sessions` | `domain/session.py`, `session/escalation.py` | counters, window, escalation |
| `Decisions` | what callers of `decide` may rely on | abstract specification: answers taken in one piece, without counters, cache or waiting |
| `Gate` | `engine/gate.py`, `session/memory.py` | concurrent calls of `decide`; implements `Decisions` |
| `Service` | `api/app.py`, `session/replay.py`, `session/persistent.py`, `store/` | extends `Gate` with replay, background tasks, tables, crash and restart |
| `KeyVerifier` | `api/deps.py`, `store/keys.py` | concurrent checks, queries, key life |
| `Inspect` | `inspect/` | the pure algorithms over lines and findings |
| `Lists` | Python's conditional list comprehension, `sorted` and `sum` | recursive functions, for `TtlStore`, `Inspect` and `Turns` |
| `TtlStore` | `session/ttl_store.py` | the store's operations as operators, for `Inspector` and `Service` |
| `Inspector` | `engine/inspector.py` | concurrent inspections over the store |
| `AdapterCore` | `core/src/mode.ts`, `policy.ts`, `cache.ts` | operators, for `PluginV1` and `Adapters` |
| `PluginV1` | `plugin-v1/src/index.ts` | the hooks of concurrent tool calls |
| `Turns` | `core/src/history.ts`, `domain/dialogue.py`, `api/schemas.py` | the dialogue: kept, clamped, validated, fitted into the prompt |
| `Adapters` | `plugin-v2`, `plugin-pi`, `plugin-dsh`, `plugin-codex` | their hooks over `AdapterCore` and `Turns` |
| `*Proofs` | | theorems about `RuleChain` (with `Stage1` and `Wrappers`), `Gate` (with `Verdicts`), `KeyVerifier`, `Adapters`, `TtlStore`, `Service`, `PluginV1`, `Inspector` |
| `MC*` | | instances for TLC |

Some modules hold operators that no other one uses, such as
`SettledIgnoringFloor` before `Settled`: plausible bugs in the code. `PROJECT.json`
lists under `mutants` the operator each stands in for and the property that must
then fail. They are no part of the specification.

**CommandTable / Wrappers / Normalize.** The parser, `bashlex`, is a library: a script is the tree it
returns, and `Normalize` walks it branch by branch as `_Walker` does, with its nesting depth,
its assignments, its counter of pipelines and the bodies it keeps until the whole pipeline
has been looked at. A node carries beside its words the argv that gets to run, which the
walker never looks at; the properties compare what the walker found with that. The shell also runs
commands in places the walk leaves aside: a substitution in an assignment, in the words of a `for` or in a
body whose delimiter is not quoted, what a compound's redirects hold, and a body that reaches a shell through a
compound. The reference reading in `MCNormalize` (`PipelinesOf`) takes the set of such places as a parameter, so that
`NormalFormIsTheScript` says of each whether what runs there is named, only announced by a flag, or
neither ([section 5](#5-where-code-and-words-differ) has the list). `Wrappers` peels
`env`, `sudo`, `timeout` and their like off an argv with the options of `CommandTable`.

**Stage 1.** A `Verdict` is a record of decision, whether it is hard, a floor, an
error and its rule. A shell line is a sequence of parts, each with the *facts* the
matchers establish about it (its shape, wrapper, redirect, host, whether the
user's patterns match, and so on); the rules are operators on those facts that
keep every guard and early return. `Chains!RunOutcome` defines the answer
without a loop: the first rule that settles and the first floor above it.
`RuleChain` is the loop with its floor variable. That the loop ends with the
declarative outcome (`LoopReturnsRunOutcome`) is its refinement of `Chains`.

**Gate.** `call[c]` is one invocation with its request, stage and answer. The
actions are `Refuse` (unknown profile or model), `AnswerFromCache`,
`AnswerAtStage1`, `AskClassifier` and `ClassifierAnswers`, each the whole piece of
`decide` between two suspensions, with the session it opens, the counters it
records, the escalation and the cache entry. `Stage1(request, workspace)` is a
constant operator, so the theorems hold for every rule chain; in the runs it is a
table with one request for every kind of outcome. The classifier's answer is what
`Verdicts!Classified` makes of any reply `LLMClient` admits: a time-out, another status, a body that
is no JSON, an empty or malformed message, or one of the three letters. `clock` is in units in which the cache's TTL is
a small number; `Tick` may happen at any time.
`Decisions` says what of this a caller can tell. In one step a call is refused, judged or given a
repetition of a fresh allow; a judgement is one that stage 1's outcome leaves open, at the workspace
the session is pinned to *at that moment*. Its variables are mapped from the gate's (`Pinned`, `Told`, `clock`), and
`KeepsItsPromise` is the refinement: that the gate takes the workspace before the classifier is asked and
answers long afterwards, beside other calls of the session, cannot be told from this.

**Service.** The background task of an answer goes through `upserting`,
`inserting`, `caching` and `stored`, with a failure possible at each statement;
the upsert writes the row captured when the task began. `Restart` clears the memory
and every task, and restores session, cache and replay from the rows as
`restore` does: newest first, up to its limit, in a store with the cap and the sweep of `TtlStore`.
It takes time (`RestoreTime` bounds it), and it counts in whole seconds (`Second` is a number of ticks): an
answer's age is rounded down when the restart begins, the rest of its TTL runs from when it is put back, and an allow
comes back for the whole seconds it has left, or not at all. So a replayed answer may be up to a second and the
restart's own time older than a TTL, which is what `Lifetime` says. `EnsureSession` is the bare session row an inspection needs.

**KeyVerifier.** A check is answered at once (static token, fresh cache) or starts a
query; `ReadRow` is the moment the database looks, `FinishQuery` the moment the
outcome is remembered, so a row may be arbitrarily old when it is.

**Inspect / Inspector.** A line is a record of what the patterns find in it:
a rule of a detector, a secret (certain form, candidate, begin or end of a PEM
block), and its width, which is what the budget counts. Findings, `Resolve`,
`Apply`, `BuildSegments`, `Validate` and `Reconcile` follow the Python functions.
`Inspector` runs them in the pieces of `inspect`: refusal, stage 1, cache,
classifier, reconciliation, cache again. The prompt holds the redacted segments; the dialogue
beside them is `Turns`'.

**AdapterCore / PluginV1.** One record per tool call says between which hooks it is
(`stage`), and the actions are the hooks up to their next suspension: `Before`,
`PermissionAsk`, `SendDecide`, `GuardDecides`, `AutoApprove`, `Inspect`,
`SendInspect`, `GuardInspects`. The harness is external and may do what the source
says of it: on the stock build `before -> permission.asked -> after`, on the patched
build `permission.ask` for every check, before or after `tool.execute.before`. The
two readings of the mode at the start of a hook are one. A tool's output is a set of texts, each returned or thrown
(`Outputs`). `Inspect` asks about all of them but one: a thrown text that begins as the plugin's own messages
do (`OwnMessages`, `isOwnMessage`) stays as it is. The record also holds a history for the
properties (which answers were heard, how each check was passed); it is dropped
when it is no longer needed, to keep the state space small.

**Turns / Adapters.** A turn has a role, an author, a content and two sizes. `Clamped` is what the adapter
sends, measured as JSON; `HistoryErrors` what the schema refuses, measured as text; `Fit` what the
prompt shows. `Adapters` has one specification for the four adapters, with the adapter, its
dialog and its policy chosen in `Init`: `Pre` is the outgoing hook up to its first await,
with the turn it records, `GuardDecides` the rest of it, `Ends` what each harness is told.
`Perm` and `GuardPermits` are Codex's second hook, `HarnessAllows`, `DshPrompts`, `HumanAnswers` and
`ToolRuns` the harness, and `Inspect` and `GuardInspects` the incoming hook. `PreThrows` and
`InspectThrows` are the exceptions the DeepSeek adapter catches. `past`, `cleared` and parts of a
call's record are histories for the properties.

## 3. The runs

No run checks for deadlock: calls, checks and ticks are finite in number, so every
behaviour may end.

| run | bounds | states, time | shows |
|---|---|---|---|
| `chain` | one or two parts, all tools and policies | 0.27 M, 30 s | the loop returns the declarative outcome; an `allow` has no rule against it at any position; hard denials prevail |
| `gate` | 3 calls, a window of 2 of 2, TTL 2, symmetry | 0.24 M, 90 s | every `allow` is lawful where it was judged; one workspace per session; cached allows have a grant; streak and window agree; the gate implements `Decisions`, with which final verdicts stand |
| `gate_counters` | 4 calls of one session, streak 2, window 3 of 4, fairness | 65 k, 20 s | the streak cannot outgrow the threshold however answers interleave; every decision is counted once; **every call at the classifier is answered** |
| `service` | 2 calls, TTL 2, a second of 2 ticks, one restart of up to 1 tick, failing statements, a replay store of one entry, one row restored | 1.2 M, 100 s | replays, cached allows and workspaces are ones that were given, through a crash too; a replay is less than a TTL old, after a restart less than a TTL, the part of a second it was rounded by and the restart's time; answers are forgotten only by age, by the cap or by a restart; memory never lacks what the store has |
| `keys` | 3 checks, key lifetime 3, TTL 2, 5 ticks | 0.67 M, 10 s | revocation and expiry take effect within a TTL whatever the delays; a refusal has its reason |
| `inspect` | 1 call, outputs up to 5 lines over 10 kinds, 4 profiles, all answers; and 3 calls, TTL 2, sweep at every second put, 2 entries | 0.15 M, 80 s | secrets stay hidden; stage 1's drop stands; the classifier lifts only what is liftable and masks only what it saw; the lines of the windows are shown or counted; a cached verdict was given, and a live one is lost only to the cap |
| `plugin` | 2 tool calls (up to two checks, and none), 2 texts, one of them like the plugin's own messages, 1 switch of the mode, 1 tick | 2.4 M, 110 s | nothing passes without the human but for a reason; the guard is asked again only when its verdict is old; unfiltered text was cleared, or is an error that begins as the plugin's own; a mode is never older than the last tick |
| `shell` | 7 666 scripts and file calls, wrapper chains of 2, nesting of 2 | 7.7 k, 5 s | the normal form names what stands where the walk looks, and announces what runs from an assignment or a body; a failure keeps nothing; one pipeline has one number; no path a command names is lost in silence; unwrapping finds the command; a download piped into an interpreter is caught where both stand directly in the pipeline under their bare names |
| `adapters` | 4 adapters, 2 calls of one session, 1 message, 1 write of the mode, 3 turns of 8 bytes | 0.75 M, 25 s | a call runs unasked only if the guard, a mode or the harness let it; unfiltered text was cleared; the prompt shows the newest turns without a gap; no request is refused for its dialogue |
| `service_row`, `plugin_fail_open`, `prompt_secret` | | seconds | violations, see [section 5](#5-where-code-and-words-differ) |

No run checks a type invariant: those of `RuleChain`, `Gate`, `KeyVerifier`, `Adapters`, `Service`,
`PluginV1` and `Inspector` are proved instead. The `inspect` run begins either with one inspection of any output or with
several of a few, which is a restriction of the order of calls, not of what a call does
(`MCSpec`).

**Why the bounds are enough.** The rules look at one part or at all parts of a line
alike, so two parts show every disagreement between "any" and "all". In the gate,
two calls are needed to race and a third to see the result; the streak and the
window are reached with 2 denials and passed with 3 or 4. The clock runs one tick
past the TTL in `service` and further in `keys`, and up to it elsewhere, which is where `<` and `<=` differ. In
`service` a second is two ticks, so that ages between two seconds occur, and a restart takes none or one; an answer of
age 3, a tick past the TTL of 2, is then replayed, and the bound of 4 says by how much the code may be late.
The store holds two entries, so that a third put meets the sweep and the cap. In
the inspection two lines of each kind make every pair of findings
that compete, three show a PEM block with something inside, and five make windows
that overlap, touch and stay apart. In the plugin one call with two checks meets
every order of its own hooks, and another moves the shared caches meanwhile; the
verdict's time to live is 0 ticks, so one tick expires it. The replay store holds one entry
and one row is restored, so two keyed calls meet the cap and the order. A script of the shell
run nests up to three levels under a bound of two, carries up to two wrappers and,
with the longest chain, one past the bound; commands stand in each of the places the walk leaves aside, alone and
inside compounds and pipelines. In `adapters` four turns are more than the three
that are kept, two long ones more than the eight bytes that are sent, and one alone is more than that and
than its share of the prompt.
The `about` of each run and each mutant in `PROJECT.json` show that the interesting
cases occur: every mutant is found by its run under these bounds.

**Fairness.** Only `gate_counters` needs it: weak fairness of
`ClassifierAnswers(c)` for each call. The code justifies it, for the HTTP client has a
timeout and `LLMClassifier.classify` turns every exception into an ask
(`classify/llm.py:40`), so a call at the classifier always continues. Nothing is
assumed about new calls, ticks, queries, statements of the background task or the
harness.

**Symmetry** is used for the names of calls and checks, which nothing compares
but for equality, and never in the run with liveness.

## 4. The proofs

Every theorem holds for all values of the constants that satisfy the named
`ASSUME`s of its module, which TLC evaluates in the runs. In each module the theorems about
`Spec` rest on one inductive invariant (`IInv`, `SInv`, `LoopInv`), a conjunction of the type
invariant and of what the properties need to survive a suspension; each action has a lemma.

* `RuleChainProofs`: type correctness, `LoopReturnsRunOutcome` and `AllowIsUnopposed`
  for every chain of rules and every answer of theirs. `LoopInv` says that every
  settling rule lies at or after the loop's position and that the floor kept is the first
  one above it; without the second part the loop's end says nothing about floors.
  `AllowIsUnopposed` is then a fact about chains in which no rule that allows stands
  above one that refuses, an assumption which the service's own list meets in the run.
  `HardDenialsWin` is about that very list: over any actions and policies, what one of the hard-deny
  rules denies is denied for good. Its hypotheses fix the chain to `STAGE1` and say that a line that could
  not be parsed has no parts, which `MCRuleChain` has TLC evaluate; the argument is that of the six rules
  above a hard denial five deny as hard and the first is silent on a parsed line.
  Of the argv those rules look at, `UnwrappingStepsOverWrappersOnly` says, for every argv, set of wrappers and table of
  patterns, that what is removed in front are wrappers' names, options with their values, durations of `timeout` and
  assignments of `env`, and nothing else, and that a chain counts as too deep only if the argv has more tokens than
  levels are peeled. The skip over the options is a recursion towards the end of the argv, solved backwards from there
  (`OptionsSkipped`); one level is `PeelTakes`, and the levels are an induction. `EscalatorsAreNotSteppedOver` adds, from
  the command table, that no wrapper stage 1 looks past is a command that raises privileges: of those only `sudo` and
  `doas` are wrappers, no name has two rows (`TableAssumption`, which TLC evaluates), and `xargs`, which stage 1 adds, is
  no such command.
* `GateProofs`: an `allow` of stage 2 is the model's own (`AllowIsTheModels`): whatever the
  transport, the decoding and the schema make of a reply, only a complete answer that says so allows.
  Then type correctness, `AllowIsLawful`, `OneWorkspacePerSession`,
  `CachedAllowHasGrant` and `FinalVerdictsStand`, for any number of calls, sessions and requests. None is
  inductive alone. The invariant `IInv` adds that a call at the classifier is in an
  open session and was judged at its workspace (`ReviewsAreOpen`), that every cache
  entry has a call which granted it (`CacheIsGranted`), and that no answer lies in the
  future (`NoFutureAnswer`). The last two carry a grant across ticks, the first carries
  the workspace across the suspension. `CountersCountAnswers`, `StreakIsBounded` and `StreakMatchesWindow`
  are inductive together over `IInv`, once a session nobody opened is known to have counted nothing
  (`CInv`). A step either is `Quiet` for a session or `Counts` one answer of it; what a window of fixed
  length shows after an append is a lemma about cardinalities.
  `PromiseIsKept` is the refinement of `Decisions`: every step of the gate is a step of it or a stutter, one
  lemma per action. `ReviewsAreBound` adds to `IInv` that what is at the classifier was left open by the rules, with the
  floor they gave; `SettledIsLawful`, `RaisedIsLawful` and `EscalatedIsLawful` follow a verdict through the floor and
  the escalation; and the workspace a call was judged at is still the session's when it is answered, for a pin is never
  moved (`PlaceIsWorkspaceFor`). `FinalVerdictsAreKept` says the same of a final denial as an invariant.
* `KeyVerifierProofs`: type correctness and the bounds on revocation, expiry and
  refusals. The invariant says that the row a query has seen, and every outcome in
  the cache, was *just* when it was read: no accepting outcome is younger than the
  revocation or the expiry, and no refusing one lacks a reason. A late query then cannot bring a key back,
  since what it writes carries the time its check began.
* `AdaptersProofs`: `SilentRunIsEarned`, `RawTextWasCleared`, `PromptIsTheRecentPast` and `DialogueIsNeverRefused` for all four
  adapters, any calls, sessions, texts, messages and limits, and any number of changes of the mode.
  `IInv` adds what is known of a call before it has passed (`Earned`: at the guard it has heard
  nothing yet and was read in one mode, and only Codex hands a call to a second hook) and that the inspection
  cache shows a text only if the guard has let it pass (`CacheIsCleared`). The first carries the
  reason across the suspension at the guard and from one hook to the next, the second from one call to another.
  That the cache evicts and replaces without inventing an entry is a lemma about `Keep`, which this module and
  the next state alike.
  The two about the dialogue (`PromptsAreRecent`, `DialoguesAreAccepted`) rest on `DInv`: the history is the newest end of
  what was said, never longer than the cap, and a request carries the newest end of a history there was.
  That the clamp keeps such an end within the bytes and the turns, that the schema's measure of it is no larger
  than the adapter's, and that the service's prompt is an end of it again are lemmas about `Total`, the sum, which
  is recursive, and about the greatest number of turns that fits.
* `PluginV1Proofs`: type correctness, `SilentPassHasAReason`, `AskedAgainOnlyWhenOld`, `RawTextWasCleared` and
  `ModeIsOfTheLastTick`, for any number of concurrent calls, of checks of each and of switches, on both
  builds. `IInv` says of every call that each of its checks had a reason then, that an allow in the verdict
  book has one *while the call is being decided* (`BookHasReasons`; later the history is gone),
  that the book still has a verdict no older than the first one or that one is old (`AsksInTime`), and that a hook at
  the guard is one of those two that ask; of the mode's cache, that it is of the last tick or shows by its time
  stamp that it is not (`ModesAreFresh`). A text that reaches the model as it was has been cleared, was no business of
  the guard in that mode, or is an error that begins as the plugin's own messages, for any set of such texts and any
  outputs. What other calls, the clock and the mode file change between two hooks of a
  call is one lemma (`WeatherIsSound`).
* `TtlStoreProofs` is about the operators of the store, and so about recursive functions. The library's
  induction rules take a predicate, so this module derives one over *sets* of naturals
  (`LeastNatural`, from the well-foundedness of finite intervals, then `NatSetInduction`), and from it that a bounded
  recursion has a solution (`BoundedRecursion`), what `Picked`, the list comprehension, returns, and that a sum of
  naturals is one. On that rest the
  lemmas about `get` and `put`: both keep the type and the cap, neither loses a live entry but to a newer one
  of its key or to the cap, and both keep one entry per key and the order of the entries (`Ascends`), so that what the
  cap takes is the oldest (`AfterPutDisplaces`).
* `ServiceProofs`: type correctness, `ReplaysItsOwnAnswer`, `AnswersAreRemembered`, `PinComesFromADecision`,
  `CachedAllowWasGranted` and `StoreIsNeverAhead`, for any number of calls, failing statements, crashes and restarts. `SInv` says of what is kept
  anywhere (replay store, cache, tables, captured upserts) that an answer of a call stands behind it: an entry's value
  is an answered call of its slot, a cache entry an allow that was no repeat, a session's workspace that of a decide
  call, and what a row or a pending upsert has counted is within what the process has. A restart then restores
  only what was given, and `Stands` (no step takes an answer back) carries the rest.
  `ReplaysItsOwnAnswer` also bounds the age of what is replayed, and for that every entry kept expires within its slack of
  the answer (`ReplaysAreFresh`): nothing before the first restart, afterwards less than a second (`WholeSecondsRoundDown`)
  and the time the restart took (`RestoredExpiry`). One restart's slack is enough however many there are, since each
  measures the age anew from the stored row.
  `AnswersAreRemembered` needs more than that, the order of the store: `RInv` says over `SInv` that the store has one
  entry per key and, until the first restart, the oldest first, that no two rows are of one slot, and that every
  answer that is still owed (before a restart all of them, after it those stored and those on their way into the
  table) is held or crowded out. An answer the cap takes is crowded out by exactly the entries left; a restart
  is an induction over the rows, newest first, each put as `AfterPutDisplaces` describes. Here
  `ServiceAssumption` counts: a restart reads at least as many rows as the store may hold (`MaxEntries <=
  RestoreLimit`, both 100 000: `session/replay.py:30`, `store/repo.py:65`). Were fewer read, a stored answer could
  be forgotten with room left for it.
* `InspectorProofs`: `SecretsStayHidden`, `StageOneDropStands`, `OnlyTheLiftableIsLifted`, `ModelMasksWhatItSaw`,
  `WindowedLinesAreCounted`, `CachedVerdictWasGiven` and the action property `NoLiveVerdictIsLost`, for outputs of any length, any findings, windows
  and budgets, and any answers of the classifier. `IInv` reduces the state to the algorithms: every
  answer is `Lawful`, that is, stage 1's or what `Reconcile` makes of some answer for the same request, and the cache
  holds only what such calls gave. The rest is about the algorithms. `Scanned` is the invariant of the scan over lines (a
  secret line is in a finding of certain form, an open PEM block keeps every line until its end);
  `WinnerComesFirst` says which of several overlapping findings shapes a line; `DropGrows` that spans of the model's
  only add removed lines, by cardinality; `ValidatedSpans` and the merging that no span leaves the lines
  shown. `LawfulCases` then splits a verdict by the classifier's answer, and each theorem looks at what is left of
  stage 1's findings. `WindowsAreCounted` follows the windows through the functions of `segments.py`, each a recursion
  over a sequence of intervals: `SortedPairs` (sorting keeps the windows and orders them), `MergedWindows` and
  `ChunkedWindows` (merging and cutting keep the lines, and the intervals come out `Apart`), and `FittedAccounts` (of
  chunks that are apart, what is shown and what is counted as omitted make the whole, chunk by chunk). That they are
  apart is what makes the count one of lines, and merging is right only for windows in the order of their first
  lines, which is why the sort belongs to the argument.

Only model-checked:

* liveness under fairness, which is beyond the prover;
* `Normalize`, whose walk over the tree is a set of mutually recursive operators, and whose properties compare it with
  another recursive reading of the same tree;
* that the service's list of rules meets the assumption on the order of chains, which TLC evaluates.

## 5. Where code and words differ

Each of these is a run that TLC must find violated.

* `service_row`: the row of a decision refused for an unknown profile or model names a session
  nobody opened, violates its foreign key and is lost; `engine/decision.py:217` says the session row is
  guaranteed.
* `plugin_fail_open`: with the guard unreachable and the policy to fail open, the verdict book keeps
  what the harness's rules said to the first check of a call. A second check of that
  call, which the rules want confirmed, passes in silence.
  `adapters/docs/ARCHITECTURE.md:126` says that to fail open is to let the harness decide.
* `prompt_secret`: every adapter records a tool's result in its history before the guard has inspected
  it (`plugin-pi/src/index.ts:142` and its like), and `classify/render.py:31` writes the history into
  the prompt as it is, of this request and of later ones. `engine/inspector.py:15` says a recognized
  secret is never in the prompt; only the segments are redacted.

Seen while modelling, without a run of their own:

* A call that matches the user's deny list is answered `ask` if the rule for unresolved wrappers or git-force's
  ask, both above `client.deny` (`rules/chain.py:45`), settles first; `api/schemas.py:282` says of the
  list "Never runs."
* Two calls under one `Idempotency-Key`, the second sent while the first is at the classifier, are decided,
  counted and stored twice (`api/app.py:387`); `api/app.py:505` promises the same decision.
* `inspect/segments.py:55` counts the lines outside every window as omitted only if there is no finding,
  against the comment at line 47.
* `inspect/reconcile.py:6` says a pass of the classifier lifts every mask; an `encoded` mask is
  kept.
* A refused inspection stores the raw output, uninspected.
* An answer put back by a restart may be replayed for longer than its TTL: `int()` at `session/replay.py:60` drops a part
  of a second of its age, and its time runs from when it is put back; the module says at line 5 that it keeps
  "whatever of its TTL remains".
* The redirect of a compound (`{ echo a; } > f`) is walked by nobody (`normalize/shell.py:216`): its target is neither a
  path of the action nor flagged; line 390 says that dropping a path must never be silent.
* Nor is a substitution walked in an assignment, in the words of a `for` or in a compound's redirect, though
  `normalize/shell.py:227` says that unhandled shapes are taken "so we never silently drop a command". An assignment
  sets `has_env_assign`; the other two announce nothing. A body that a shell reads through a compound, and a
  substitution in a body with an unquoted delimiter, are announced by `has_heredoc` only.
* `rules/hard_deny/pipe_exec.py:28` compares names with its table as they are written, and sees the commands that stand
  directly in the pipeline: an interpreter called by its path, or standing in a compound, is none to it.
* A thrown text that begins as the plugin's own messages do is not inspected (`plugin-v1/src/index.ts:241`), and
  `plugin.test.ts:358` wants it so; the comment above that block says that errors would otherwise reach the model
  unfiltered.
* An upsert of a session's row that commits after a newer one takes the row back to its older counters
  (`store/writer.py:51`); the memory is not affected, a restart would be.
* A replay key's namespace is the principal and the session; `api/app.py:513` calls it
  "global to the service, scoped neither by session nor by credential".
* A cached `allow` answers before escalation, so a session at its limit is still allowed what it was allowed
  before.
* After a restart the freshest restored answers are the first to be evicted, since they are inserted first
  (`session/replay.py:59`); the query is ordered newest first to keep them (`store/repo.py`, `load_replayable`).
* On Codex a guard's `ask` is handed on to the permission hook (`pre.mjs:8`); where Codex would not have prompted, no
  such hook runs and the call runs unasked. The same holds in mode `ask`.
* A tool name longer than the schema takes is cut in no adapter but Codex: its results are dropped, and every later call
  is refused while the turn is in the history, though `core/src/limits.ts:6` says that what is sent is clamped.
* Pi drops the human's turns from before the first tool call, which `plugin-pi/src/index.ts:61` says are held, and
  files those of a later session under the first.
* Every adapter records the tool call before it asks about it, so the newest turn is the proposed action itself;
  `api/schemas.py:161` says the last turn is the one before it.
* A failed lookup of a session's parent is remembered for ever, and may overwrite a good one
  (`plugin-v1/src/session-context.ts:67`).
* On the patched build `tool.execute.before` has no rule to inherit and stores `ask` when the guard is gone, so a
  check the rules would let pass is prompted.
* A prompt is auto-approved on the verdict of its call also if the mode has been switched to `ask` or `off`
  in between (`plugin-v1/src/index.ts:260`).

## 6. What is not modelled

* Pattern tables, regular expressions, entropy, the shell's grammar, path and domain normalization: string
  work. The models take the facts it establishes and explore their combinations.
* Of the walk over a shell line: a variable that names a shell, which hides it from the look ahead over a pipeline, and
  a here-string with a substitution of its own. The runs hold no such script, and of the wrappers no `sudo A=1 cmd`,
  whose assignment is taken for the command, nor a duration such as `.5`.
* Most of the validation of requests, which is local to a field, and the wording of prompts and reasons.
* The answer to an exception nobody expects (`api.internal-error`).
* The feed, `/v1/profiles`, `/healthz`, the JSONL sink, command-line parsing, migrations: no state
  that a modelled component reads.
* `SessionContext` of plugin-v1, with the walk to the root session, and the parts of the requests other than the dialogue.
* The rules file and its loading; the mapping of tools.
* The mode file's cache in `Adapters`, which takes `readMode` as reading it; `PluginV1` has the cache.
* The installer, the benchmark and the static site.

## 7. The plan

The order followed the weight of what can go wrong: first the rules that decide and
the gate that keeps their decisions, then what surrounds it.

1. Done: `Verdicts`, `Chains`, `RuleChain`, `Stage1` and their proofs.
2. Done: `Sessions`, `Gate` and their proofs.
3. Done: `Service` over `Gate`; `KeyVerifier` and its proofs.
4. Done: `Inspect`, `TtlStore`, `Inspector` and their proofs.
5. Done: `AdapterCore`, `PluginV1` and its proofs.
6. Done: the replay store as a `TtlStore` with its cap and restore order; `LLMClient`; `CommandTable`, `Wrappers`,
   `Normalize`; `Turns`, `Adapters` and their proofs; the proofs about `Service`, its replay store included, and of the gate's counters.
7. Done: the proofs about folds and recursions over turns and lines (`PromptIsTheRecentPast`, `DialogueIsNeverRefused`,
   `WindowedLinesAreCounted`), and over options and wrapper levels, by the bounded induction of `TtlStoreProofs`.
8. Done: the abstract specification `Decisions` and the proof that `Gate` implements it. `Service` does not implement it as
   it is: a restart forgets a pin that was not stored, and a cache entry lives a whole TTL from the moment it is written
   to its table. Next: a weaker promise that says what a crash may lose.
9. Next, models: `SessionContext` of plugin-v1; the benchmark's executor and recorder, with resumption after a
   crash; the installer's edits of configuration files.
