----------------------------- MODULE Inspector -----------------------------
(***************************************************************************)
(* The inspect route (engine/inspector.py): a tool result is judged from   *)
(* the cache, by stage 1, or by stage 1 and the classifier.  Calls run     *)
(* concurrently and suspend only at the classifier's HTTP request.         *)
(***************************************************************************)
EXTENDS Inspect, TtlStore

CONSTANTS Calls,          \* invocations of inspect
          Requests,       \* the results they carry, and where they come from
          Known(_),       \* whether the profile exists
          Settings(_),    \* the profile's inspect settings
          Answers(_),     \* what the classifier may answer about an output
          TTL,            \* seconds a verdict is cached
          MaxClock        \* bound on the clock

ASSUME InspectorAssumption ==
  /\ \A r \in Requests : r.output \in Seq(Line) /\ r.output # <<>>
  /\ \A r \in Requests : Known(r.profile) =>
       /\ Settings(r.profile).classifier \in {"off", "on-flag", "always"}
       /\ Settings(r.profile).budget.segmentMaxLines \in Nat \ {0}
       /\ Settings(r.profile).budget.maxSegments \in Nat \ {0}
       /\ Settings(r.profile).budget.windowLines \in Nat
  /\ \A r \in Requests :
       Answers(r.output) \subseteq [verdict  : {"pass", "mask", "drop"},
                                  spans    : Seq([start : Int, end : Int, kind : STRING]),
                                  unredact : SUBSET Int]
  /\ TTL \in Nat
  /\ MaxClock \in Nat

VARIABLES cache,   \* the verdicts remembered, by content
          call,    \* Calls -> how far each call is, and its answer
          clock

vars == <<cache, call, clock>>

\* What a verdict depends on: the profile, the output, the task with the
\* dialogue and the provenance (context), and whether entropy candidates count.
\* Neither the session nor the tool is part of it.
CacheKey(r) == [profile |-> r.profile, output |-> r.output, context |-> r.context,
                candidates |-> r.candidates]

FindingsOf(r) == Findings(r.output, Settings(r.profile).secrets, r.candidates)

Stage1Of(r) == Apply(r.output, FindingsOf(r))

RedactedOf(r) == RedactedLines(r.output, FindingsOf(r))

SegmentsOf(r) == BuildSegments(r.output, RedactedOf(r), FindingsOf(r), Settings(r.profile).budget)

\* What the classifier's prompt says of a result: the lines of the segments as
\* stage 1 redacted them, the rules that flagged something and the lines whose
\* value was hidden only because it looked random, shown or not.
Prompt(r) ==
  [lines      |-> [n \in Shown(SegmentsOf(r)) |-> RedactedOf(r)[n]],
   flags      |-> {f.rule : f \in ToSet(FindingsOf(r))},
   candidates |-> {f.line : f \in {g \in ToSet(FindingsOf(r)) : g.candidate}}]

\* Whether a finding leaves the classifier anything to judge again.
AsksTheModel(f) ==
  /\ f.rule # "inspect.invisible"
  /\ f.rule = "inspect.secret" => f.candidate

ShouldClassify(r) ==
  CASE Settings(r.profile).classifier = "off" -> FALSE
    [] Settings(r.profile).classifier = "always" -> TRUE
    [] OTHER -> \E f \in ToSet(FindingsOf(r)) : AsksTheModel(f)

-----------------------------------------------------------------------------
NoCall == [phase |-> "new"]

\* An answer: the verdict with its text, the stage and the model that gave it,
\* whether stage 2 failed, and the text the record stores ("raw").  The
\* classifier's own answer is kept beside it for the properties to speak of.
Answer(r, outcome, stage, model, error, review) ==
  [phase |-> "done", request |-> r, outcome |-> outcome, stage |-> stage, model |-> model,
   error |-> error, review |-> review, record |-> RedactedOf(r), cached |-> FALSE, at |-> clock]

NoReview == [verdict |-> "none", spans |-> <<>>, unredact |-> {}]

Refusal(r, error) ==
  [phase |-> "done", request |-> r, outcome |-> Dropped("api"), stage |-> 0, model |-> FALSE,
   error |-> error, review |-> NoReview, record |-> Raw(r.output), cached |-> FALSE, at |-> clock]

\* as_cached keeps what was judged and drops what belongs to the call judged.
AsCached(v, r) ==
  [phase |-> "done", request |-> r, outcome |-> v.outcome, stage |-> 0, model |-> v.model,
   error |-> FALSE, review |-> v.review, record |-> v.record, cached |-> TRUE, at |-> clock]

\* What the cache holds of an answer.
Value(c, a) == [id |-> c, outcome |-> a.outcome, model |-> a.model, review |-> a.review,
                record |-> a.record]

RemembersErrors(c, a, store) ==
  AfterPut(store, CacheKey(a.request), Value(c, a), TTL, clock)

\* An answer whose stage 2 failed is not remembered.
Remember(c, a, store) ==
  IF a.error THEN store ELSE AfterPut(store, CacheKey(a.request), Value(c, a), TTL, clock)

Finish(c, a, store) ==
  /\ call' = [call EXCEPT ![c] = a]
  /\ cache' = Remember(c, a, store)
  /\ UNCHANGED clock

Hits(r) == Live(cache, CacheKey(r), clock)

AfterMiss(r) == AfterGet(cache, CacheKey(r), clock)

Starts(c, r) == call[c] = NoCall /\ Known(r.profile)

-----------------------------------------------------------------------------
Init ==
  /\ cache = EmptyStore
  /\ call = [c \in Calls |-> NoCall]
  /\ clock = 0

\* The profile is unknown.
Refuse(c, r) ==
  /\ call[c] = NoCall
  /\ ~Known(r.profile)
  /\ call' = [call EXCEPT ![c] = Refusal(r, FALSE)]
  /\ UNCHANGED <<cache, clock>>

\* Resolving the policy raises before the cache is asked.
PreludeRaises(c, r) ==
  /\ Starts(c, r)
  /\ call' = [call EXCEPT ![c] = Refusal(r, TRUE)]
  /\ UNCHANGED <<cache, clock>>

\* A detector raises after the cache has been asked: the result is dropped.
Stage1Raises(c, r) ==
  /\ Starts(c, r)
  /\ Hits(r) = {}
  /\ call' = [call EXCEPT ![c] = Refusal(r, TRUE)]
  /\ cache' = AfterMiss(r)
  /\ UNCHANGED clock

AnswerFromCache(c, r) ==
  /\ Starts(c, r)
  /\ \E e \in Hits(r) : call' = [call EXCEPT ![c] = AsCached(e.value, r)]
  /\ UNCHANGED <<cache, clock>>

SettleAtStage1(c, r) ==
  /\ Starts(c, r)
  /\ Hits(r) = {}
  /\ ~ShouldClassify(r)
  /\ Finish(c, Answer(r, Stage1Of(r), 1, FALSE, FALSE, NoReview), AfterMiss(r))

\* The profile's default model has no classifier: stage 1's verdict stands.
SettleWithoutModel(c, r) ==
  /\ Starts(c, r)
  /\ Hits(r) = {}
  /\ ShouldClassify(r)
  /\ ~Settings(r.profile).hasModel
  /\ Finish(c, Answer(r, Stage1Of(r), 1, FALSE, TRUE, NoReview), AfterMiss(r))

AskClassifier(c, r) ==
  /\ Starts(c, r)
  /\ Hits(r) = {}
  /\ ShouldClassify(r)
  /\ Settings(r.profile).hasModel
  /\ call' = [call EXCEPT ![c] = [phase |-> "review", request |-> r, prompt |-> Prompt(r)]]
  /\ cache' = AfterMiss(r)
  /\ UNCHANGED clock

\* The answer to a review: what reconcile makes of it, or stage 1's verdict
\* when the spans cannot be used.
Judged(r, answer) ==
  LET merged == Reconcile(r.output, FindingsOf(r), Stage1Of(r), answer, SegmentsOf(r),
                          Settings(r.profile).budget)
  IN Answer(r, merged.outcome, IF merged.error THEN 1 ELSE 2, TRUE, merged.error, answer)

ClassifierAnswers(c) ==
  /\ call[c].phase = "review"
  /\ \E answer \in Answers(call[c].request.output) :
       Finish(c, Judged(call[c].request, answer), cache)

\* Stage 2 fails: stage 1's verdict stands.
ClassifierFails(c) ==
  /\ call[c].phase = "review"
  /\ LET r == call[c].request
     IN Finish(c, Answer(r, Stage1Of(r), 1, TRUE, TRUE, NoReview), cache)

Tick ==
  /\ clock < MaxClock
  /\ clock' = clock + 1
  /\ UNCHANGED <<cache, call>>

Begin(c, r) ==
  \/ Refuse(c, r)
  \/ PreludeRaises(c, r)
  \/ Stage1Raises(c, r)
  \/ AnswerFromCache(c, r)
  \/ SettleAtStage1(c, r)
  \/ SettleWithoutModel(c, r)
  \/ AskClassifier(c, r)

Next ==
  \/ \E c \in Calls, r \in Requests : Begin(c, r)
  \/ \E c \in Calls : ClassifierAnswers(c) \/ ClassifierFails(c)
  \/ Tick

Spec == Init /\ [][Next]_vars

-----------------------------------------------------------------------------
Done == {c \in Calls : call[c].phase = "done"}

\* Answers that were judged, and the ones the classifier's answer went into.
Judgements == {c \in Done : call[c].stage > 0 \/ call[c].cached}
Reviewed == {c \in Judgements : call[c].review # NoReview}

\* Calls that wait for the classifier.
InReview == {c \in Calls : call[c].phase = "review"}

\* What the agent gets to see of a line.
Text(c, n) ==
  CASE call[c].outcome.verdict = "pass" -> "raw"
    [] call[c].outcome.verdict = "mask" -> call[c].outcome.text[n]
    [] call[c].outcome.verdict = "drop" -> "gone"

\* A line of key material: a fence above it that nothing has closed since.
InKey(output, n) ==
  \E b \in 1..n : /\ output[b].secret \in {"begin", "block"}
                  /\ \A m \in b..(n - 1) : output[m].secret \notin {"end", "block"}

\* A secret recognized by its form, and every line of a private key, is hidden
\* from the agent, from the classifier and from the stored record, whatever the
\* classifier asks to be released (engine/inspector.py, inspect/secrets.py).
SecretsStayHidden ==
  \A c \in Judgements \cup InReview :
    LET r == call[c].request
    IN Settings(r.profile).secrets =>
         \A n \in DOMAIN r.output :
           r.output[n].secret = "form" \/ InKey(r.output, n) =>
             IF c \in InReview
             THEN n \in DOMAIN call[c].prompt.lines => call[c].prompt.lines[n] # "raw"
             ELSE /\ Text(c, n) \notin {"raw", "cleaned"}
                  /\ call[c].record[n] # "raw"

\* A result stage 1 drops stays dropped whatever the classifier answers, a mask
\* of its own and releases included (inspect/reconcile.py).
StageOneDropStands ==
  \A c \in Reviewed :
    Stage1Of(call[c].request).verdict = "drop" => call[c].outcome.verdict = "drop"

\* A line stage 1 touched reaches the agent as it was only if the classifier
\* released it, or passed the result and no finding on the line but instruction-like
\* text or a pipe to a shell stood against it (inspect/reconcile.py).
OnlyTheLiftableIsLifted ==
  \A c \in Judgements :
    LET r == call[c].request
        On(n) == {f \in ToSet(FindingsOf(r)) : Covers(f, n)}
    IN \A n \in DOMAIN r.output : Text(c, n) = "raw" =>
         \A f \in On(n) :
           \/ f.candidate /\ f.line \in call[c].review.unredact
           \/ f.rule \in LiftableRules /\ call[c].review.verdict = "pass"

\* The classifier's spans only ever take away lines it was shown
\* (inspect/spans.py).
ModelMasksWhatItSaw ==
  \A c \in Reviewed :
    \A s \in call[c].outcome.spans : s.source = "model" =>
      s.start .. s.end \subseteq Shown(SegmentsOf(call[c].request))

\* The lines of the windows, or all when there is none, are shown or counted as
\* omitted, each once; with room for all of them every flagged line is shown
\* (inspect/segments.py).
WindowedLinesAreCounted ==
  \A c \in InReview :
    LET r        == call[c].request
        findings == FindingsOf(r)
        near     == Settings(r.profile).budget.windowLines
        windowed == {n \in DOMAIN r.output : \E f \in ToSet(findings) :
                       f.line - near <= n /\ n <= f.last + near}
        segments == SegmentsOf(r)
    IN /\ Cardinality(Shown(segments)) + segments.omittedLines
            = IF findings = <<>> THEN Len(r.output) ELSE Cardinality(windowed)
       /\ segments.omittedLines = 0 => Covered(findings) \subseteq Shown(segments)

\* A cached verdict repeats one that was given for the same content, task and
\* provenance less than a TTL earlier, by a stage that did not fail
\* (engine/inspector.py, as_cached in engine/inspection.py).
CachedVerdictWasGiven ==
  \A c \in Done : call[c].cached =>
    \E g \in Judgements :
      /\ ~call[g].cached
      /\ ~call[g].error
      /\ call[g].outcome = call[c].outcome
      /\ call[g].model = call[c].model
      /\ call[g].request.output = call[c].request.output
      /\ call[g].request.context = call[c].request.context
      /\ call[g].at <= call[c].at
      /\ call[c].at < call[g].at + TTL

\* A verdict in the cache is lost before its time only to a newer one for the
\* same content, or because the store is full (session/ttl_store.py).
NoLiveVerdictIsLost ==
  [][\A i \in DOMAIN cache.items :
       LET e == cache.items[i]
       IN clock < e.expires =>
            \/ \E j \in DOMAIN cache'.items : cache'.items[j] = e
            \/ cache'.items # <<>> /\ Last(cache'.items).key = e.key
            \/ i = 1 /\ Len(cache.items) = MaxEntries]_vars
=============================================================================
