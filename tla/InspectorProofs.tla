-------------------------- MODULE InspectorProofs --------------------------
(***************************************************************************)
(* Theorems about the inspect route: what its cache repeats and keeps, and *)
(* what the agent, the classifier and the record get to see of a result.   *)
(***************************************************************************)
EXTENDS Inspector, TtlStoreProofs

-----------------------------------------------------------------------------
(***************************************************************************)
(* The invariant, over any values of the variables so that it can be       *)
(* stated of a state and of its successor alike.                           *)
(***************************************************************************)

Reconciled(r, answer) ==
  Reconcile(r.output, FindingsOf(r), Stage1Of(r), answer, SegmentsOf(r), Settings(r.profile).budget)

\* A verdict on a result is stage 1's, or what its reconciliation with an answer
\* of the classifier gives.
Lawful(r, outcome, review) ==
  \/ review = NoReview /\ outcome = Stage1Of(r)
  \/ review \in Answers(r.output) /\ outcome = Reconciled(r, review).outcome

InReviewOf(a, r) == a = [phase |-> "review", request |-> r, prompt |-> Prompt(r)]

Judgement(a) == a.stage > 0 \/ a.cached

Ended(a, now) ==
  /\ a.phase = "done" /\ a.request \in Requests
  /\ a.stage \in 0..2 /\ a.cached \in BOOLEAN /\ a.error \in BOOLEAN
  /\ a.at \in Nat /\ a.at <= now
  /\ Judgement(a) => /\ Known(a.request.profile)
                     /\ a.record = RedactedOf(a.request)
                     /\ Lawful(a.request, a.outcome, a.review)

\* A call has not begun, is at the classifier, or has its answer.
Shape(a, now) ==
  \/ a = NoCall
  \/ \E r \in Requests : Known(r.profile) /\ InReviewOf(a, r)
  \/ Ended(a, now)

\* Calls whose verdict is their own and no makeshift.
Giving(calls) == {g \in Calls : /\ calls[g].phase = "done" /\ calls[g].stage > 0
                                /\ ~calls[g].cached /\ ~calls[g].error}

\* What these calls have the cache remember.
Given(calls) ==
  {[key |-> CacheKey(calls[g].request), value |-> Value(g, calls[g]), expires |-> calls[g].at + TTL] :
     g \in Giving(calls)}

Repeats(calls, a) ==
  \E g \in Giving(calls) :
    /\ calls[g].outcome = a.outcome /\ calls[g].model = a.model
    /\ calls[g].request.output = a.request.output
    /\ calls[g].request.context = a.request.context
    /\ calls[g].at <= a.at /\ a.at < calls[g].at + TTL

RepeatsAreGiven(calls) ==
  \A c \in Calls : calls[c].phase = "done" /\ calls[c].cached => Repeats(calls, calls[c])

Holds(store, calls, now) ==
  /\ calls = [c \in Calls |-> calls[c]]
  /\ now \in Nat
  /\ \A c \in Calls : Shape(calls[c], now)
  /\ RepeatsAreGiven(calls)
  /\ store \in Store(Given(calls))
  /\ Len(store.items) <= MaxEntries

IInv == Holds(cache, call, clock)

-----------------------------------------------------------------------------
(***************************************************************************)
(* The steps of a call.                                                    *)
(***************************************************************************)

LEMMA ReconcileErrs ==
  ASSUME NEW output, NEW findings, NEW stage1, NEW segments, NEW budget,
         NEW answer, answer.verdict \in {"pass", "mask", "drop"}
  PROVE  Reconcile(output, findings, stage1, answer, segments, budget).error \in BOOLEAN
<1> DEFINE added == Validate(answer.spans, Len(output), segments, budget)
<1>1. CASE answer.verdict = "drop"
  BY <1>1 DEF Reconcile
<1>2. CASE answer.verdict = "pass"
  BY <1>2 DEF Reconcile
<1>3. CASE answer.verdict = "mask" /\ added # <<>>
  BY <1>3 DEF Reconcile
<1>4. CASE answer.verdict = "mask" /\ added = <<>>
  BY <1>4 DEF Reconcile
<1> QED
  BY <1>1, <1>2, <1>3, <1>4

\* A verdict on a result is one on any result with the same key.
LEMMA SameKey ==
  ASSUME NEW r, NEW s, CacheKey(r) = CacheKey(s)
  PROVE  /\ r.profile = s.profile /\ r.output = s.output /\ r.context = s.context
         /\ RedactedOf(r) = RedactedOf(s)
         /\ \A outcome, review : Lawful(r, outcome, review) => Lawful(s, outcome, review)
<1>1. r.profile = s.profile /\ r.output = s.output /\ r.context = s.context /\ r.candidates = s.candidates
  BY DEF CacheKey
<1>2. FindingsOf(r) = FindingsOf(s)
  BY <1>1 DEF FindingsOf
<1>3. Stage1Of(r) = Stage1Of(s) /\ RedactedOf(r) = RedactedOf(s)
  BY <1>1, <1>2 DEF Stage1Of, RedactedOf
<1>4. SegmentsOf(r) = SegmentsOf(s)
  BY <1>1, <1>2, <1>3 DEF SegmentsOf
<1>5. \A review : Reconciled(r, review) = Reconciled(s, review)
  BY <1>1, <1>2, <1>3, <1>4 DEF Reconciled
<1> QED
  BY <1>1, <1>3, <1>5 DEF Lawful

\* What has been given stays given when another call goes on.
LEMMA GivenStays ==
  ASSUME NEW calls, calls = [c \in Calls |-> calls[c]],
         NEW c \in Calls, calls[c].phase # "done", NEW a
  PROVE  LET after == [calls EXCEPT ![c] = a]
         IN /\ after = [d \in Calls |-> after[d]]
            /\ after[c] = a /\ \A d \in Calls : d # c => after[d] = calls[d]
            /\ \A g \in Giving(calls) : g \in Giving(after) /\ after[g] = calls[g]
            /\ Given(calls) \subseteq Given(after)
<1> DEFINE after == [calls EXCEPT ![c] = a]
<1>1. after = [d \in Calls |-> after[d]] /\ after[c] = a /\ \A d \in Calls : d # c => after[d] = calls[d]
  OBVIOUS
<1> HIDE DEF after
<1>2. \A g \in Giving(calls) : g \in Giving(after) /\ after[g] = calls[g]
  BY <1>1 DEF Giving
<1>3. Given(calls) \subseteq Given(after)
  BY <1>2 DEF Given
<1> QED
  BY <1>1, <1>2, <1>3 DEF after

\* A call goes on to a state of its own, and the store to one of what is given.
LEMMA Advances ==
  ASSUME NEW store, NEW calls, NEW now, Holds(store, calls, now),
         NEW c \in Calls, calls[c].phase # "done",
         NEW a, Shape(a, now), a.phase = "done" /\ a.cached => Repeats(calls, a),
         NEW kept \in Store(Given([calls EXCEPT ![c] = a])), Len(kept.items) <= MaxEntries
  PROVE  Holds(kept, [calls EXCEPT ![c] = a], now)
<1> DEFINE after == [calls EXCEPT ![c] = a]
<1>1. calls = [d \in Calls |-> calls[d]]
  BY DEF Holds
<1>2. /\ after = [d \in Calls |-> after[d]]
      /\ after[c] = a /\ \A d \in Calls : d # c => after[d] = calls[d]
      /\ \A g \in Giving(calls) : g \in Giving(after) /\ after[g] = calls[g]
  BY <1>1, GivenStays
<1> HIDE DEF after
<1>3. \A d \in Calls : Shape(after[d], now)
  BY <1>2 DEF Holds
<1>4. \A b : Repeats(calls, b) => Repeats(after, b)
  BY <1>2 DEF Repeats
<1>5. RepeatsAreGiven(after)
  BY <1>2, <1>4 DEF RepeatsAreGiven, Holds
<1> QED
  BY <1>2, <1>3, <1>5 DEF Holds, after

\* The answer of a call that was judged is remembered as what it has given.
LEMMA Remembered ==
  ASSUME NEW calls, NEW store \in Store(Given(calls)), Len(store.items) <= MaxEntries,
         calls = [c \in Calls |-> calls[c]],
         NEW c \in Calls, calls[c].phase # "done",
         NEW a, a.phase = "done", a.stage > 0, ~a.cached, a.error \in BOOLEAN, a.at = clock
  PROVE  LET kept == Remember(c, a, store)
         IN kept \in Store(Given([calls EXCEPT ![c] = a])) /\ Len(kept.items) <= MaxEntries
<1> DEFINE after == [calls EXCEPT ![c] = a]
           T == Given(after)
<1>1. after[c] = a /\ Given(calls) \subseteq T
  BY GivenStays
<1> HIDE DEF after, T
<1>2. store \in Store(T)
  BY <1>1, StoreWidens
<1>3. CASE a.error
  BY <1>2, <1>3 DEF Remember, T, after
<1>4. CASE ~a.error
  <2>1. c \in Giving(after)
    BY <1>1, <1>4 DEF Giving
  <2>2. [key |-> CacheKey(a.request), value |-> Value(c, a), expires |-> clock + TTL] \in T
    BY <1>1, <2>1 DEF Given, T
  <2>3. Remember(c, a, store) = AfterPut(store, CacheKey(a.request), Value(c, a), TTL, clock)
    BY <1>4 DEF Remember
  <2> DEFINE k == CacheKey(a.request)
             v == Value(c, a)
  <2> HIDE DEF k, v
  <2>4. AfterPut(store, k, v, TTL, clock) \in Store(T) /\ Len(AfterPut(store, k, v, TTL, clock).items) <= MaxEntries
    BY <1>2, <2>2, AfterPutType, AfterPutWithinCap DEF k, v
  <2> QED
    BY <2>3, <2>4 DEF k, v, T, after
<1> QED
  BY <1>3, <1>4

LEMMA Forgotten ==
  ASSUME NEW T, NEW store \in Store(T), Len(store.items) <= MaxEntries, NEW key, NEW now
  PROVE  AfterGet(store, key, now) \in Store(T) /\ Len(AfterGet(store, key, now).items) <= MaxEntries
  BY AfterGetType, AfterGetWithinCap

\* A call that has not begun, or is at the classifier, has no answer yet.
LEMMA NotDone ==
  /\ NoCall.phase = "new"
  /\ \A a, r : InReviewOf(a, r) => a.phase = "review" /\ a.request = r
  BY DEF NoCall, InReviewOf

LEMMA StoreOfState ==
  ASSUME IInv, NEW c \in Calls, call[c].phase # "done", NEW a
  PROVE  /\ cache \in Store(Given(call)) /\ Len(cache.items) <= MaxEntries
         /\ \A store \in Store(Given(call)) : store \in Store(Given([call EXCEPT ![c] = a]))
         /\ call = [d \in Calls |-> call[d]] /\ clock \in Nat
<1>1. /\ cache \in Store(Given(call)) /\ Len(cache.items) <= MaxEntries
      /\ call = [d \in Calls |-> call[d]] /\ clock \in Nat
  BY DEF IInv, Holds
<1>2. Given(call) \subseteq Given([call EXCEPT ![c] = a])
  BY <1>1, GivenStays
<1>3. \A store \in Store(Given(call)) : store \in Store(Given([call EXCEPT ![c] = a]))
  BY <1>2, StoreWidens
<1> QED
  BY <1>1, <1>3

\* A refusal is no judgement.
LEMMA RefusalShape ==
  ASSUME NEW r \in Requests, NEW error \in BOOLEAN, clock \in Nat
  PROVE  Shape(Refusal(r, error), clock) /\ ~Refusal(r, error).cached
<1> DEFINE a == Refusal(r, error)
<1>1. /\ a.phase = "done" /\ a.request = r /\ a.stage = 0 /\ a.error = error /\ a.cached = FALSE
      /\ a.at = clock
  BY DEF Refusal
<1> HIDE DEF a
<1>2. ~Judgement(a)
  BY <1>1 DEF Judgement
<1>3. clock <= clock /\ 0 \in 0..2 /\ FALSE \in BOOLEAN
  OBVIOUS
<1>4. Ended(a, clock)
  BY <1>1, <1>2, <1>3 DEF Ended
<1> QED
  BY <1>1, <1>4 DEF Shape, a

\* A judgement just given.
Judges(a) ==
  /\ a.phase = "done" /\ a.request \in Requests /\ Known(a.request.profile)
  /\ a.stage \in {1, 2} /\ a.cached = FALSE /\ a.error \in BOOLEAN /\ a.at = clock
  /\ a.record = RedactedOf(a.request) /\ Lawful(a.request, a.outcome, a.review)

LEMMA JudgementShape ==
  ASSUME clock \in Nat, NEW a, Judges(a)
  PROVE  Shape(a, clock) /\ a.stage > 0 /\ ~a.cached
<1>1. a.stage \in 0..2 /\ a.stage > 0 /\ clock <= clock /\ FALSE \in BOOLEAN
  BY DEF Judges
<1>2. Ended(a, clock)
  BY <1>1 DEF Ended, Judges
<1>3. a.cached = FALSE
  BY DEF Judges
<1> QED
  BY <1>1, <1>2, <1>3 DEF Shape

LEMMA RefuseHolds ==
  ASSUME IInv, NEW c \in Calls, NEW r \in Requests,
         Refuse(c, r) \/ PreludeRaises(c, r) \/ Stage1Raises(c, r)
  PROVE  IInv'
<1>1. call[c].phase # "done"
  BY NotDone DEF Refuse, PreludeRaises, Stage1Raises, Starts
<1>2. PICK error \in BOOLEAN : /\ call' = [call EXCEPT ![c] = Refusal(r, error)]
                               /\ cache' = cache \/ cache' = AfterMiss(r)
                               /\ clock' = clock
  BY DEF Refuse, PreludeRaises, Stage1Raises
<1> DEFINE a == Refusal(r, error)
<1>3. /\ cache \in Store(Given(call)) /\ Len(cache.items) <= MaxEntries /\ clock \in Nat
      /\ \A store \in Store(Given(call)) : store \in Store(Given([call EXCEPT ![c] = a]))
  BY <1>1, StoreOfState
<1>4. cache' \in Store(Given(call)) /\ Len(cache'.items) <= MaxEntries
  BY <1>2, <1>3, Forgotten DEF AfterMiss
<1>5. Shape(a, clock) /\ ~a.cached
  BY <1>3, RefusalShape
<1> HIDE DEF a
<1>6. cache' \in Store(Given([call EXCEPT ![c] = a]))
  BY <1>3, <1>4
<1>7. Holds(cache', [call EXCEPT ![c] = a], clock)
  BY <1>1, <1>4, <1>5, <1>6, Advances DEF IInv
<1> QED
  BY <1>2, <1>7 DEF IInv, a

\* A verdict is recorded and, if stage 2 did not fail, remembered.
LEMMA FinishHolds ==
  ASSUME IInv, NEW c \in Calls, call[c].phase # "done", NEW store \in Store(Given(call)),
         Len(store.items) <= MaxEntries, NEW a, Judges(a), Finish(c, a, store)
  PROVE  IInv'
<1> DEFINE kept == Remember(c, a, store)
<1>1. call = [d \in Calls |-> call[d]] /\ clock \in Nat
  BY StoreOfState
<1>2. Shape(a, clock) /\ a.stage > 0 /\ ~a.cached
  BY <1>1, JudgementShape
<1>3. a.phase = "done" /\ a.error \in BOOLEAN /\ a.at = clock
  BY DEF Judges
<1>4. kept \in Store(Given([call EXCEPT ![c] = a])) /\ Len(kept.items) <= MaxEntries
  BY <1>1, <1>2, <1>3, Remembered
<1>5. call' = [call EXCEPT ![c] = a] /\ cache' = kept /\ clock' = clock
  BY DEF Finish
<1> HIDE DEF kept
<1>6. Holds(kept, [call EXCEPT ![c] = a], clock)
  BY <1>2, <1>4, Advances DEF IInv
<1> QED
  BY <1>5, <1>6 DEF IInv

LEMMA SettleHolds ==
  ASSUME IInv, NEW c \in Calls, NEW r \in Requests, SettleAtStage1(c, r) \/ SettleWithoutModel(c, r)
  PROVE  IInv'
<1>1. call[c].phase # "done" /\ Known(r.profile)
  BY NotDone DEF SettleAtStage1, SettleWithoutModel, Starts
<1>2. PICK error \in BOOLEAN :
        Finish(c, Answer(r, Stage1Of(r), 1, FALSE, error, NoReview), AfterMiss(r))
  BY DEF SettleAtStage1, SettleWithoutModel
<1> DEFINE a == Answer(r, Stage1Of(r), 1, FALSE, error, NoReview)
<1>3. cache \in Store(Given(call)) /\ Len(cache.items) <= MaxEntries /\ clock \in Nat
  BY <1>1, StoreOfState
<1>4. AfterMiss(r) \in Store(Given(call)) /\ Len(AfterMiss(r).items) <= MaxEntries
  BY <1>3, Forgotten DEF AfterMiss
<1>5. Judges(a)
  <2>1. /\ a.phase = "done" /\ a.request = r /\ a.stage = 1 /\ a.cached = FALSE /\ a.error = error
        /\ a.at = clock /\ a.record = RedactedOf(r) /\ a.outcome = Stage1Of(r) /\ a.review = NoReview
    BY DEF Answer
  <2> HIDE DEF a
  <2> QED
    BY <1>1, <2>1 DEF Judges, Lawful
<1> HIDE DEF a
<1> QED
  BY <1>1, <1>2, <1>4, <1>5, FinishHolds DEF a

LEMMA AskHolds ==
  ASSUME IInv, NEW c \in Calls, NEW r \in Requests, AskClassifier(c, r)
  PROVE  IInv'
<1> DEFINE a == [phase |-> "review", request |-> r, prompt |-> Prompt(r)]
<1>1. call[c].phase # "done" /\ Known(r.profile)
  BY NotDone DEF AskClassifier, Starts
<1>2. call' = [call EXCEPT ![c] = a] /\ cache' = AfterMiss(r) /\ clock' = clock
  BY DEF AskClassifier
<1>3. /\ cache \in Store(Given(call)) /\ Len(cache.items) <= MaxEntries /\ clock \in Nat
      /\ \A store \in Store(Given(call)) : store \in Store(Given([call EXCEPT ![c] = a]))
  BY <1>1, StoreOfState
<1>4. cache' \in Store(Given(call)) /\ Len(cache'.items) <= MaxEntries
  BY <1>2, <1>3, Forgotten DEF AfterMiss
<1>5. Shape(a, clock) /\ a.phase # "done"
  BY <1>1 DEF Shape, InReviewOf
<1> HIDE DEF a
<1>6. cache' \in Store(Given([call EXCEPT ![c] = a]))
  BY <1>3, <1>4
<1>7. Holds(cache', [call EXCEPT ![c] = a], clock)
  BY <1>1, <1>4, <1>5, <1>6, Advances DEF IInv
<1> QED
  BY <1>2, <1>7 DEF IInv

\* A hit was given within a TTL, for a result with the same key.
LEMMA HitHolds ==
  ASSUME IInv, NEW c \in Calls, NEW r \in Requests, AnswerFromCache(c, r)
  PROVE  IInv'
<1>1. call[c].phase # "done" /\ Known(r.profile)
  BY NotDone DEF AnswerFromCache, Starts
<1>2. PICK e \in Live(cache, CacheKey(r), clock) :
        call' = [call EXCEPT ![c] = AsCached(e.value, r)] /\ cache' = cache /\ clock' = clock
  BY DEF AnswerFromCache, Hits
<1> DEFINE a == AsCached(e.value, r)
<1>3. /\ cache \in Store(Given(call)) /\ Len(cache.items) <= MaxEntries /\ clock \in Nat
      /\ \A store \in Store(Given(call)) : store \in Store(Given([call EXCEPT ![c] = a]))
  BY <1>1, StoreOfState
<1>4. e \in Given(call) /\ e.key = CacheKey(r) /\ clock < e.expires
  BY <1>2, <1>3, LiveIsHeld
<1>5. PICK g \in Giving(call) : /\ e.key = CacheKey(call[g].request) /\ e.value = Value(g, call[g])
                                /\ e.expires = call[g].at + TTL
  BY <1>4 DEF Given
<1>6. Ended(call[g], clock) /\ Judgement(call[g])
  <2>1. Shape(call[g], clock) /\ call[g].phase = "done" /\ call[g].stage > 0
    BY <1>5 DEF Giving, IInv, Holds
  <2> QED
    BY <2>1, NotDone DEF Shape, Judgement
<1> DEFINE s == call[g].request
<1>7. /\ s.output = r.output /\ s.context = r.context /\ RedactedOf(s) = RedactedOf(r)
      /\ Lawful(r, call[g].outcome, call[g].review)
  <2>1. CacheKey(s) = CacheKey(r) /\ Lawful(s, call[g].outcome, call[g].review)
    BY <1>4, <1>5, <1>6 DEF Ended
  <2> HIDE DEF s
  <2> QED
    BY <2>1, SameKey
<1>8. /\ a.phase = "done" /\ a.request = r /\ a.stage = 0 /\ a.error = FALSE /\ a.cached = TRUE
      /\ a.at = clock /\ a.outcome = call[g].outcome /\ a.model = call[g].model
      /\ a.review = call[g].review /\ a.record = call[g].record
  BY <1>5 DEF AsCached, Value
<1> HIDE DEF a
<1>9. /\ a.record = RedactedOf(r) /\ call[g].at <= clock /\ clock < call[g].at + TTL
      /\ clock <= clock /\ 0 \in 0..2 /\ FALSE \in BOOLEAN /\ TRUE \in BOOLEAN
  BY <1>3, <1>4, <1>5, <1>6, <1>7, <1>8 DEF Ended, Judgement
<1>10. Ended(a, clock)
  BY <1>1, <1>3, <1>7, <1>8, <1>9 DEF Ended
<1>11. Repeats(call, a)
  BY <1>7, <1>8, <1>9 DEF Repeats
<1>12. cache \in Store(Given([call EXCEPT ![c] = a])) /\ Shape(a, clock)
  BY <1>3, <1>10 DEF Shape
<1>13. Holds(cache, [call EXCEPT ![c] = a], clock)
  BY <1>1, <1>3, <1>11, <1>12, Advances DEF IInv
<1> QED
  BY <1>2, <1>13 DEF IInv, a

\* A call at the classifier is at it with a request of its own.
LEMMA AtClassifier ==
  ASSUME IInv, NEW c \in Calls, call[c].phase = "review"
  PROVE  /\ call[c].request \in Requests /\ Known(call[c].request.profile)
         /\ InReviewOf(call[c], call[c].request)
         /\ clock \in Nat
<1>1. Shape(call[c], clock) /\ clock \in Nat
  BY DEF IInv, Holds
<1>2. ~Ended(call[c], clock) /\ call[c] # NoCall
  BY NotDone DEF Ended
<1> QED
  BY <1>1, <1>2, NotDone DEF Shape

LEMMA ClassifierHolds ==
  ASSUME IInv, NEW c \in Calls, ClassifierAnswers(c) \/ ClassifierFails(c)
  PROVE  IInv'
<1> DEFINE r == call[c].request
<1>1. call[c].phase = "review"
  BY DEF ClassifierAnswers, ClassifierFails
<1>2. r \in Requests /\ Known(r.profile) /\ clock \in Nat /\ call[c].phase # "done"
  BY <1>1, AtClassifier
<1>3. cache \in Store(Given(call)) /\ Len(cache.items) <= MaxEntries
  BY <1>2, StoreOfState
<1>4. CASE ClassifierAnswers(c)
  <2>1. PICK answer \in Answers(r.output) : Finish(c, Judged(r, answer), cache)
    BY <1>4 DEF ClassifierAnswers
  <2> DEFINE merged == Reconciled(r, answer)
             a == Judged(r, answer)
  <2>2. answer.verdict \in {"pass", "mask", "drop"}
    BY <1>2, InspectorAssumption
  <2>3. merged.error \in BOOLEAN
    BY <2>2, ReconcileErrs DEF Reconciled
  <2>4. Judges(a)
    <3>1. a = Answer(r, merged.outcome, IF merged.error THEN 1 ELSE 2, TRUE, merged.error, answer)
      BY DEF Judged, Reconciled
    <3>2. (IF merged.error THEN 1 ELSE 2) \in {1, 2}
      OBVIOUS
    <3> DEFINE stage == IF merged.error THEN 1 ELSE 2
    <3>3. /\ a.phase = "done" /\ a.request = r /\ a.stage = stage /\ a.cached = FALSE
          /\ a.error = merged.error /\ a.at = clock /\ a.record = RedactedOf(r)
          /\ a.outcome = merged.outcome /\ a.review = answer
      BY <3>1 DEF Answer
    <3>4. Lawful(r, merged.outcome, answer)
      BY DEF Lawful
    <3> HIDE DEF a, r, merged, stage
    <3> QED
      BY <1>2, <2>3, <3>2, <3>3, <3>4 DEF Judges, stage
  <2> HIDE DEF a, r
  <2> QED
    BY <1>2, <1>3, <2>1, <2>4, FinishHolds DEF a
<1>5. CASE ClassifierFails(c)
  <2> DEFINE a == Answer(r, Stage1Of(r), 1, TRUE, TRUE, NoReview)
  <2>1. Finish(c, a, cache)
    BY <1>5 DEF ClassifierFails
  <2>2. Judges(a)
    <3>1. /\ a.phase = "done" /\ a.request = r /\ a.stage = 1 /\ a.cached = FALSE /\ a.error = TRUE
          /\ a.at = clock /\ a.record = RedactedOf(r) /\ a.outcome = Stage1Of(r) /\ a.review = NoReview
      BY DEF Answer
    <3>2. TRUE \in BOOLEAN
      OBVIOUS
    <3> HIDE DEF a, r
    <3> QED
      BY <1>2, <3>1, <3>2 DEF Judges, Lawful
  <2> HIDE DEF a, r
  <2> QED
    BY <1>2, <1>3, <2>1, <2>2, FinishHolds
<1> QED
  BY <1>4, <1>5

LEMMA TickHolds ==
  ASSUME IInv, Tick
  PROVE  IInv'
<1>1. clock' = clock + 1 /\ cache' = cache /\ call' = call /\ clock \in Nat
  BY DEF Tick, IInv, Holds
<1>2. clock + 1 \in Nat /\ \A n \in Nat : n <= clock => n <= clock + 1
  BY <1>1
<1>3. \A a : Ended(a, clock) => Ended(a, clock + 1)
  BY <1>2 DEF Ended
<1>4. \A c \in Calls : Shape(call[c], clock + 1)
  BY <1>3 DEF IInv, Holds, Shape
<1>5. Holds(cache, call, clock + 1)
  BY <1>2, <1>4 DEF IInv, Holds
<1> QED
  BY <1>1, <1>5 DEF IInv

LEMMA InitHolds == Init => IInv
<1> SUFFICES ASSUME Init PROVE IInv
  OBVIOUS
<1>1. cache = EmptyStore /\ call = [c \in Calls |-> NoCall] /\ clock = 0
  BY DEF Init
<1>2. \A c \in Calls : Shape(call[c], clock) /\ call[c].phase # "done"
  BY <1>1, NotDone DEF Shape
<1>3. cache \in Store(Given(call)) /\ Len(cache.items) <= MaxEntries
  BY <1>1, EmptyStoreType, TtlStoreAssumption DEF EmptyStore
<1> QED
  BY <1>1, <1>2, <1>3 DEF IInv, Holds, RepeatsAreGiven

LEMMA StepHolds ==
  ASSUME IInv, [Next]_vars
  PROVE  IInv'
<1>1. CASE UNCHANGED vars
  BY <1>1 DEF vars, IInv
<1>2. ASSUME NEW c \in Calls, NEW r \in Requests, Begin(c, r)
      PROVE  IInv'
  BY <1>2, RefuseHolds, HitHolds, SettleHolds, AskHolds DEF Begin
<1>3. ASSUME NEW c \in Calls, ClassifierAnswers(c) \/ ClassifierFails(c)
      PROVE  IInv'
  BY <1>3, ClassifierHolds
<1>4. CASE Tick
  BY <1>4, TickHolds
<1> QED
  BY <1>1, <1>2, <1>3, <1>4 DEF Next

THEOREM InspectorInvariant == Spec => []IInv
<1>1. Init => IInv
  BY InitHolds
<1>2. IInv /\ [Next]_vars => IInv'
  BY StepHolds
<1> QED
  BY <1>1, <1>2, PTL DEF Spec

-----------------------------------------------------------------------------
(***************************************************************************)
(* The cache.                                                              *)
(***************************************************************************)

\* A call that has ended has the shape of one.
LEMMA DoneEnded ==
  ASSUME IInv, NEW c \in Calls, call[c].phase = "done"
  PROVE  Ended(call[c], clock)
<1>1. Shape(call[c], clock)
  BY DEF IInv, Holds
<1> QED
  BY <1>1, NotDone DEF Shape

\* A cached verdict repeats one that was given for the same content, task and
\* provenance less than a TTL earlier (engine/inspector.py, as_cached).
THEOREM CachedVerdictsWereGiven == Spec => []CachedVerdictWasGiven
<1>1. IInv => CachedVerdictWasGiven
  <2> SUFFICES ASSUME IInv, NEW c \in Done, call[c].cached
               PROVE  \E g \in Judgements :
                        /\ ~call[g].cached /\ ~call[g].error
                        /\ call[g].outcome = call[c].outcome /\ call[g].model = call[c].model
                        /\ call[g].request.output = call[c].request.output
                        /\ call[g].request.context = call[c].request.context
                        /\ call[g].at <= call[c].at /\ call[c].at < call[g].at + TTL
    BY DEF CachedVerdictWasGiven
  <2>1. PICK g \in Giving(call) :
          /\ call[g].outcome = call[c].outcome /\ call[g].model = call[c].model
          /\ call[g].request.output = call[c].request.output
          /\ call[g].request.context = call[c].request.context
          /\ call[g].at <= call[c].at /\ call[c].at < call[g].at + TTL
    BY DEF IInv, Holds, RepeatsAreGiven, Repeats, Done
  <2>2. g \in Judgements /\ ~call[g].cached /\ ~call[g].error
    BY DEF Giving, Judgements, Done
  <2> QED
    BY <2>1, <2>2
<1> QED
  BY <1>1, InspectorInvariant, PTL

\* Whether an item of a store is still there afterwards, or had to go.
Kept(before, after, i) ==
  \/ \E j \in DOMAIN after.items : after.items[j] = before.items[i]
  \/ after.items # <<>> /\ after.items[Len(after.items)].key = before.items[i].key
  \/ i = 1 /\ Len(before.items) = MaxEntries

LEMMA RememberKeeps ==
  ASSUME NEW T, NEW store \in Store(T), Len(store.items) <= MaxEntries, NEW c, NEW a,
         [key |-> CacheKey(a.request), value |-> Value(c, a), expires |-> clock + TTL] \in T,
         NEW i \in DOMAIN store.items, clock < store.items[i].expires
  PROVE  Kept(store, Remember(c, a, store), i)
<1>1. CASE a.error
  BY <1>1 DEF Remember, Kept
<1>2. CASE ~a.error
  <2> DEFINE k == CacheKey(a.request)
             v == Value(c, a)
             after == AfterPut(store, k, v, TTL, clock)
  <2>1. Remember(c, a, store) = after
    BY <1>2 DEF Remember
  <2> HIDE DEF k, v
  <2>2. \/ \E j \in DOMAIN after.items : after.items[j] = store.items[i]
        \/ after.items # <<>> /\ after.items[Len(after.items)].key = k /\ store.items[i].key = k
        \/ i = 1 /\ Len(store.items) = MaxEntries
    BY AfterPutKeeps DEF k, v
  <2> HIDE DEF after
  <2> QED
    BY <2>1, <2>2 DEF Kept
<1> QED
  BY <1>1, <1>2

\* Of a look-up and a put in one step, the first moves nothing unless it makes
\* room, and then the second need not.
LEMMA MissThenRemember ==
  ASSUME NEW T, cache \in Store(T), Len(cache.items) <= MaxEntries, NEW r, NEW c, NEW a,
         [key |-> CacheKey(a.request), value |-> Value(c, a), expires |-> clock + TTL] \in T,
         NEW i \in DOMAIN cache.items, clock < cache.items[i].expires
  PROVE  Kept(cache, Remember(c, a, AfterMiss(r)), i)
<1> DEFINE missed == AfterMiss(r)
           last == Remember(c, a, missed)
<1>1. missed \in Store(T) /\ Len(missed.items) <= MaxEntries
  BY Forgotten DEF AfterMiss
<1>2. /\ \E j \in DOMAIN missed.items : missed.items[j] = cache.items[i]
      /\ missed.items = cache.items \/ Len(missed.items) < Len(cache.items)
  BY AfterGetKeeps DEF AfterMiss
<1> HIDE DEF missed
<1>3. \A j \in DOMAIN missed.items : clock < missed.items[j].expires => Kept(missed, last, j)
  BY <1>1, RememberKeeps
<1> HIDE DEF last
<1>4. CASE missed.items = cache.items
  BY <1>3, <1>4 DEF Kept, last, missed
<1>5. CASE Len(missed.items) < Len(cache.items)
  <2>1. PICK j \in DOMAIN missed.items : missed.items[j] = cache.items[i]
    BY <1>2
  <2>2. Kept(missed, last, j)
    BY <1>3, <2>1
  <2>3. Len(missed.items) # MaxEntries
    <3>1. Len(missed.items) \in Nat /\ Len(cache.items) \in Nat /\ MaxEntries \in Nat
      BY <1>1, TtlStoreAssumption DEF Store
    <3> QED
      BY <1>5, <3>1
  <2> QED
    BY <2>1, <2>2, <2>3 DEF Kept, last, missed
<1> QED
  BY <1>2, <1>4, <1>5

\* What a step makes of the cache.
LEMMA CacheSteps ==
  ASSUME IInv, [Next]_vars
  PROVE  \/ cache' = cache
         \/ \E r \in Requests : cache' = AfterMiss(r)
         \/ \E c \in Calls, r \in Requests : \E a :
              /\ cache' = Remember(c, a, AfterMiss(r)) \/ cache' = Remember(c, a, cache)
              /\ a.request \in Requests
<1>1. CASE UNCHANGED vars
  BY <1>1 DEF vars
<1>2. ASSUME NEW c \in Calls, NEW r \in Requests, Begin(c, r)
      PROVE  \/ cache' = cache
             \/ cache' = AfterMiss(r)
             \/ \E a : cache' = Remember(c, a, AfterMiss(r)) /\ a.request \in Requests
  <2>1. CASE Refuse(c, r) \/ PreludeRaises(c, r) \/ AnswerFromCache(c, r)
    BY <2>1 DEF Refuse, PreludeRaises, AnswerFromCache
  <2>2. CASE Stage1Raises(c, r) \/ AskClassifier(c, r)
    BY <2>2 DEF Stage1Raises, AskClassifier
  <2>3. CASE SettleAtStage1(c, r) \/ SettleWithoutModel(c, r)
    <3>1. PICK error \in BOOLEAN :
            cache' = Remember(c, Answer(r, Stage1Of(r), 1, FALSE, error, NoReview), AfterMiss(r))
      BY <2>3 DEF SettleAtStage1, SettleWithoutModel, Finish
    <3>2. Answer(r, Stage1Of(r), 1, FALSE, error, NoReview).request = r
      BY DEF Answer
    <3> QED
      BY <3>1, <3>2
  <2> QED
    BY <1>2, <2>1, <2>2, <2>3 DEF Begin
<1>3. ASSUME NEW c \in Calls, ClassifierAnswers(c) \/ ClassifierFails(c)
      PROVE  \E r \in Requests : \E a : cache' = Remember(c, a, cache) /\ a.request \in Requests
  <2> DEFINE r == call[c].request
  <2>1. r \in Requests
    BY <1>3, AtClassifier DEF ClassifierAnswers, ClassifierFails
  <2>2. PICK a : Finish(c, a, cache) /\ a.request = r
    <3>2. CASE ClassifierAnswers(c)
      <4>1. PICK answer \in Answers(r.output) : Finish(c, Judged(r, answer), cache)
        BY <3>2 DEF ClassifierAnswers
      <4>2. Judged(r, answer).request = r
        BY DEF Judged, Answer
      <4> QED
        BY <4>1, <4>2
    <3>3. CASE ClassifierFails(c)
      <4> DEFINE a == Answer(r, Stage1Of(r), 1, TRUE, TRUE, NoReview)
      <4>1. Finish(c, a, cache)
        BY <3>3 DEF ClassifierFails
      <4>2. a.request = r
        BY DEF Answer
      <4> HIDE DEF a, r
      <4> QED
        BY <4>1, <4>2
    <3> QED
      BY <1>3, <3>2, <3>3
  <2> QED
    BY <2>1, <2>2 DEF Finish
<1>4. CASE Tick
  BY <1>4 DEF Tick
<1> QED
  BY <1>1, <1>2, <1>3, <1>4 DEF Next

\* A verdict in the cache is lost before its time only to a newer one for the
\* same content, or because the store is full (session/ttl_store.py).
THEOREM LiveVerdictsAreKept == Spec => NoLiveVerdictIsLost
<1>1. ASSUME IInv, [Next]_vars, NEW i \in DOMAIN cache.items, clock < cache.items[i].expires
      PROVE  Kept(cache, cache', i)
  <2>1. CASE cache' = cache
    BY <2>1 DEF Kept
  <2>2. cache \in Store(Given(call)) /\ Len(cache.items) <= MaxEntries
    BY <1>1 DEF IInv, Holds
  <2>3. ASSUME NEW r \in Requests, cache' = AfterMiss(r)
        PROVE  Kept(cache, cache', i)
    BY <1>1, <2>2, <2>3, AfterGetKeeps DEF AfterMiss, Kept
  <2>4. ASSUME NEW c \in Calls, NEW r \in Requests, NEW a,
               cache' = Remember(c, a, AfterMiss(r)) \/ cache' = Remember(c, a, cache)
        PROVE  Kept(cache, cache', i)
    <3> DEFINE T == Given(call) \cup {[key |-> CacheKey(a.request), value |-> Value(c, a), expires |-> clock + TTL]}
    <3>1. cache \in Store(T)
      BY <2>2, StoreWidens
    <3>2. [key |-> CacheKey(a.request), value |-> Value(c, a), expires |-> clock + TTL] \in T
      OBVIOUS
    <3> HIDE DEF T
    <3> QED
      BY <1>1, <2>2, <2>4, <3>1, <3>2, MissThenRemember, RememberKeeps
  <2> QED
    BY <1>1, <2>1, <2>3, <2>4, CacheSteps
<1>2. IInv /\ [Next]_vars =>
        [\A i \in DOMAIN cache.items :
           LET e == cache.items[i]
           IN clock < e.expires =>
                \/ \E j \in DOMAIN cache'.items : cache'.items[j] = e
                \/ cache'.items # <<>> /\ Last(cache'.items).key = e.key
                \/ i = 1 /\ Len(cache.items) = MaxEntries]_vars
  BY <1>1 DEF Kept, Last
<1> QED
  BY <1>2, InspectorInvariant, PTL DEF Spec, NoLiveVerdictIsLost

-----------------------------------------------------------------------------
(***************************************************************************)
(* Sequences of findings.                                                  *)
(***************************************************************************)

Member(s, x) == \E i \in DOMAIN s : s[i] = x

LEMMA ConcatMembers ==
  ASSUME NEW T, NEW s \in Seq(T), NEW t \in Seq(T)
  PROVE  /\ s \o t \in Seq(T)
         /\ \A x : Member(s \o t, x) <=> Member(s, x) \/ Member(t, x)
<1> DEFINE q == s \o t
<1>1. /\ q \in Seq(T) /\ Len(s) \in Nat /\ Len(t) \in Nat /\ Len(q) = Len(s) + Len(t)
      /\ DOMAIN s = 1..Len(s) /\ DOMAIN t = 1..Len(t) /\ DOMAIN q = 1..Len(q)
      /\ \A i \in 1..Len(s) : q[i] = s[i]
      /\ \A i \in 1..Len(t) : q[Len(s) + i] = t[i]
  OBVIOUS
<1> HIDE DEF q
<1>2. \A i \in 1..Len(q) : i \in 1..Len(s) \/ (i - Len(s) \in 1..Len(t) /\ Len(s) + (i - Len(s)) = i)
  BY <1>1
<1>3. \A i \in 1..Len(s) : i \in 1..Len(q)
  BY <1>1
<1>4. \A i \in 1..Len(t) : Len(s) + i \in 1..Len(q)
  BY <1>1
<1>5. ASSUME NEW x, Member(q, x) PROVE Member(s, x) \/ Member(t, x)
  <2>1. PICK i \in 1..Len(q) : q[i] = x
    BY <1>1, <1>5 DEF Member
  <2>2. CASE i \in 1..Len(s)
    BY <1>1, <2>1, <2>2 DEF Member
  <2>3. CASE i - Len(s) \in 1..Len(t) /\ Len(s) + (i - Len(s)) = i
    <3>1. t[i - Len(s)] = x
      BY <1>1, <2>1, <2>3
    <3> QED
      BY <1>1, <2>3, <3>1 DEF Member
  <2> QED
    BY <1>2, <2>1, <2>2, <2>3
<1>6. ASSUME NEW x, Member(s, x) PROVE Member(q, x)
  BY <1>1, <1>3, <1>6 DEF Member
<1>7. ASSUME NEW x, Member(t, x) PROVE Member(q, x)
  BY <1>1, <1>4, <1>7 DEF Member
<1> QED
  BY <1>1, <1>5, <1>6, <1>7 DEF q

LEMMA PickedMembers ==
  ASSUME NEW T, NEW items \in Seq(T), NEW I
  PROVE  /\ Picked(items, I) \in Seq(T)
         /\ \A i \in DOMAIN items : i \in I => Member(Picked(items, I), items[i])
         /\ \A x : Member(Picked(items, I), x) => \E i \in DOMAIN items : i \in I /\ x = items[i]
  BY PickedType, PickedItems DEF Member

\* Sorting yields a sequence of the items.
LEMMA SortedType ==
  ASSUME NEW T, NEW items \in Seq(T), NEW key
  PROVE  Sorted(items, key) \in Seq(T)
<1> DEFINE N == Len(items)
           S == Seq(1..N)
           Later(before, n) == {i \in DOMAIN before : Precedes(key[n], key[before[i]])}
           Put(before, n) == Picked(before, DOMAIN before \ Later(before, n)) \o <<n>>
                               \o Picked(before, Later(before, n))
           Body(f) == [n \in 0..N |-> IF n = 0 THEN <<>> ELSE Put(f[n - 1], n)]
           step == [p \in S \X (1..N) |-> Put(p[1], p[2])]
           g == CHOOSE f : f = Body(f)
<1>1. N \in Nat /\ <<>> \in S /\ \A n \in 1..N : items[n] \in T
  OBVIOUS
<1>2. \A q \in S, n \in 1..N : Put(q, n) \in S
  <2> TAKE q \in S, n \in 1..N
  <2> HIDE DEF N, Later
  <2>1. Picked(q, DOMAIN q \ Later(q, n)) \in S /\ Picked(q, Later(q, n)) \in S
    BY PickedType
  <2> QED
    BY <2>1
<1>3. Sorted(items, key) = [i \in DOMAIN g[N] |-> items[g[N][i]]]
  BY DEF Sorted
<1> HIDE DEF Put
<1>4. \A q \in S, n \in 1..N : step[<<q, n>>] = Put(q, n)
  OBVIOUS
<1>5. Stays(N, S, step)
  BY <1>2, <1>4 DEF Stays
<1> HIDE DEF N, S, step, g
<1>6. Recursion(N, S, <<>>, step) # {}
  BY <1>1, <1>5, BoundedRecursion
<1>7. PICK f \in [0..N -> S] : f[0] = <<>> /\ \A n \in 1..N : f[n] = step[<<f[n - 1], n>>]
  BY <1>6 DEF Recursion
<1>8. f = Body(f)
  <2>1. \A n \in 0..N : n # 0 => n \in 1..N /\ f[n - 1] \in S
    BY <1>1, <1>7
  <2>2. \A n \in 0..N : f[n] = Body(f)[n]
    BY <1>4, <1>7, <2>1
  <2> QED
    BY <1>7, <2>2
<1>9. g = Body(g)
  BY <1>8 DEF g
<1> DEFINE P == {n \in 0..N : g[n] \in S}
<1>10. 0 \in P
  <2>1. g[0] = <<>> /\ 0 \in 0..N
    BY <1>1, <1>9
  <2> QED
    BY <1>1, <2>1
<1>11. ASSUME NEW n \in P, n < N PROVE n + 1 \in P
  <2>1. n + 1 \in 1..N /\ (n + 1) - 1 = n /\ n + 1 # 0 /\ n + 1 \in 0..N /\ g[n] \in S
    BY <1>1, <1>11
  <2>2. g[n + 1] = Put(g[n], n + 1)
    BY <1>9, <2>1
  <2> QED
    BY <1>2, <2>1, <2>2
<1>12. P \in SUBSET (0..N) /\ N \in 0..N
  BY <1>1
<1> HIDE DEF P
<1>13. P = 0..N
  BY <1>1, <1>10, <1>11, <1>12, BoundedInduction
<1> DEFINE o == g[N]
<1>14. o \in Seq(1..N)
  BY <1>12, <1>13 DEF P, S
<1> HIDE DEF o
<1>15. /\ Len(o) \in Nat /\ DOMAIN o = 1..Len(o) /\ \A i \in 1..Len(o) : o[i] \in 1..N
  <2> DEFINE E == 1..N
  <2>1. o \in Seq(E)
    BY <1>14
  <2> HIDE DEF E
  <2>2. /\ Len(o) \in Nat /\ DOMAIN o = 1..Len(o) /\ \A i \in 1..Len(o) : o[i] \in E
    BY <2>1
  <2> QED
    BY <2>2 DEF E
<1>16. [i \in 1..Len(o) |-> items[o[i]]] \in Seq(T)
  BY <1>1, <1>15
<1> QED
  BY <1>3, <1>15, <1>16 DEF o

-----------------------------------------------------------------------------
(***************************************************************************)
(* What stage 1 finds.                                                     *)
(***************************************************************************)

Rules == DetectorRules \cup {"none", "inspect.secret", "inspect.semantic"}

SpanKinds == DetectorRules \cup ModelSpanKinds \cup {"none", "secret"}

Findable == [line : Nat, last : Nat, rule : Rules, action : {"redact", "clean", "mask"},
             candidate : BOOLEAN, kind : SpanKinds]

\* Only values that may be released are candidates, only secrets are redacted,
\* and a finding of stage 1 is not the model's.
Stage1Findings(count) ==
  {f \in Findable : /\ f.line \in 1..count /\ f.last \in f.line..count
                    /\ f.candidate => f.action = "redact"
                    /\ f.action = "redact" => f.rule = "inspect.secret"
                    /\ f.rule # "inspect.semantic"}

Scans(count) == [findings : Seq(Stage1Findings(count)), skipThrough : Nat]

ClosesKey(output, n) == n = Len(output) \/ output[n].secret \in {"end", "block"}

LEMMA PemEndCloses ==
  ASSUME NEW output \in Seq(Line), NEW n \in 1..Len(output)
  PROVE  PemEnd(output, n) \in n..Len(output) /\ ClosesKey(output, PemEnd(output, n))
<1> DEFINE N == Len(output)
           fences == {m \in n..N : output[m].secret \in {"end", "block"}}
<1>1. N \in Nat /\ n \in Nat /\ N \in n..N
  OBVIOUS
<1>2. PemEnd(output, n) = IF fences = {} THEN N ELSE Min(fences)
  BY DEF PemEnd
<1>3. fences \in SUBSET Nat /\ fences \subseteq n..N
  BY <1>1
<1>4. \A m \in fences : output[m].secret \in {"end", "block"}
  OBVIOUS
<1> HIDE DEF fences
<1>5. CASE fences = {}
  BY <1>1, <1>2, <1>5 DEF ClosesKey
<1>6. CASE fences # {}
  <2>1. Min(fences) \in fences
    <3>1. \E m \in fences : \A k \in fences : m <= k
      BY <1>3, <1>6, LeastNatural
    <3> QED
      BY <3>1 DEF Min
  <2> QED
    BY <1>2, <1>3, <1>4, <1>6, <2>1 DEF ClosesKey
<1> QED
  BY <1>5, <1>6

\* A redaction that stands whatever the classifier asks to be released.
Certain(f) == f.action = "redact" /\ ~f.candidate

LEMMA RedactType ==
  ASSUME NEW count \in Nat, NEW line \in 1..count, NEW last \in line..count, NEW candidate \in BOOLEAN,
         NEW f, f = Redact(line, last, candidate)
  PROVE  /\ f \in Stage1Findings(count) /\ f.line = line /\ f.last = last
         /\ ~candidate => Certain(f)
<1>1. line \in Nat /\ last \in Nat /\ last \in 1..count
  OBVIOUS
<1>2. /\ f.line = line /\ f.last = last /\ f.rule = "inspect.secret" /\ f.action = "redact"
      /\ f.candidate = candidate
  BY DEF Redact, Finding
<1>3. f \in Findable
  <2>1. f = [line |-> line, last |-> last, rule |-> "inspect.secret", action |-> "redact",
             candidate |-> candidate, kind |-> "secret"]
    BY DEF Redact, Finding
  <2>2. "inspect.secret" \in Rules /\ "secret" \in SpanKinds /\ "redact" \in {"redact", "clean", "mask"}
    BY DEF Rules, SpanKinds
  <2> QED
    BY <1>1, <2>1, <2>2 DEF Findable
<1> QED
  BY <1>1, <1>2, <1>3 DEF Stage1Findings, Certain

\* What the scanner knows when it has been through n lines: every recognized
\* form and every fence that opens is under a certain redaction, the latter one
\* that goes as far as the key; and so is what it will skip.
Scanned(output, n, scan) ==
  /\ \A m \in 1..n : output[m].secret = "form" =>
       \E f \in Stage1Findings(Len(output)) :
          Member(scan.findings, f) /\ Certain(f) /\ f.line <= m /\ m <= f.last
  /\ \A b \in 1..n : output[b].secret \in {"begin", "block"} =>
       \E f \in Stage1Findings(Len(output)) :
          Member(scan.findings, f) /\ Certain(f) /\ f.line <= b /\ b <= f.last /\ ClosesKey(output, f.last)
  /\ n < scan.skipThrough =>
       \E f \in Stage1Findings(Len(output)) :
          /\ Member(scan.findings, f) /\ Certain(f)
          /\ f.line <= n /\ f.last = scan.skipThrough /\ ClosesKey(output, f.last)

\* What a line adds to the findings, if anything.
Adds(output, n, scan, f, after) ==
  /\ f \in Stage1Findings(Len(output)) /\ f.line = n /\ n <= f.last
  /\ after.findings = Append(scan.findings, f) /\ after.skipThrough = f.last
  /\ \/ Certain(f) /\ ClosesKey(output, f.last)
     \/ Certain(f) /\ f.last = n /\ output[n].secret \notin {"begin", "block"}
     \/ f.last = n /\ output[n].secret \notin {"begin", "block", "form"}

LEMMA ScanLineCases ==
  ASSUME NEW output \in Seq(Line), NEW entropyCandidates, NEW n \in 1..Len(output),
         NEW scan \in Scans(Len(output)), NEW after, after = ScanLine(output, entropyCandidates, n, scan)
  PROVE  /\ after \in Scans(Len(output))
         /\ \/ n <= scan.skipThrough /\ after = scan
            \/ /\ ~(n <= scan.skipThrough) /\ after = scan
               /\ output[n].secret \notin {"begin", "block", "form"}
            \/ \E f : Adds(output, n, scan, f, after)
<1> DEFINE T == Stage1Findings(Len(output))
<1>1. /\ Len(output) \in Nat /\ n \in n..Len(output) /\ n <= n
      /\ FALSE \in BOOLEAN /\ TRUE \in BOOLEAN
  OBVIOUS
<1>2. scan.findings \in Seq(T) /\ scan.skipThrough \in Nat
  BY DEF Scans
<1>3. ASSUME NEW last \in n..Len(output), NEW candidate \in BOOLEAN, NEW f, f = Redact(n, last, candidate),
             after = [findings |-> Append(scan.findings, f), skipThrough |-> last],
             \/ candidate = FALSE /\ ClosesKey(output, last)
             \/ candidate = FALSE /\ last = n /\ output[n].secret \notin {"begin", "block"}
             \/ last = n /\ output[n].secret \notin {"begin", "block", "form"}
      PROVE  after \in Scans(Len(output)) /\ \E h : Adds(output, n, scan, h, after)
  <2>1. f \in T /\ f.line = n /\ f.last = last /\ (~candidate => Certain(f))
    BY <1>1, <1>3, RedactType
  <2>2. n <= last /\ last \in Nat
    OBVIOUS
  <2>3. Append(scan.findings, f) \in Seq(T)
    BY <1>2, <2>1
  <2>4. after.findings = Append(scan.findings, f) /\ after.skipThrough = last
    BY <1>3
  <2>5. after \in Scans(Len(output))
    BY <1>3, <2>2, <2>3 DEF Scans
  <2> HIDE DEF T
  <2>6. Adds(output, n, scan, f, after)
    BY <1>3, <2>1, <2>2, <2>4 DEF Adds, T
  <2> QED
    BY <2>5, <2>6
<1>4. CASE n <= scan.skipThrough
  BY <1>4 DEF ScanLine
<1>5. CASE ~(n <= scan.skipThrough)
  <2>1. CASE output[n].secret \in {"begin", "block"}
    <3> DEFINE last == PemEnd(output, n)
               f == Redact(n, last, FALSE)
    <3>1. after = [findings |-> Append(scan.findings, f), skipThrough |-> last]
      BY <1>5, <2>1 DEF ScanLine
    <3>2. last \in n..Len(output) /\ ClosesKey(output, last)
      BY PemEndCloses
    <3> HIDE DEF last
    <3> QED
      BY <1>1, <1>3, <3>1, <3>2
  <2>2. CASE output[n].secret = "form"
    <3> DEFINE f == Redact(n, n, FALSE)
    <3>1. after = [findings |-> Append(scan.findings, f), skipThrough |-> n]
      BY <1>5, <2>2 DEF ScanLine
    <3>2. output[n].secret \notin {"begin", "block"}
      BY <2>2
    <3> QED
      BY <1>1, <1>3, <3>1, <3>2
  <2>3. CASE output[n].secret = "candidate" /\ entropyCandidates
    <3> DEFINE f == Redact(n, n, TRUE)
    <3>1. after = [findings |-> Append(scan.findings, f), skipThrough |-> n]
      BY <1>5, <2>3 DEF ScanLine
    <3>2. output[n].secret \notin {"begin", "block", "form"}
      BY <2>3
    <3> QED
      BY <1>1, <1>3, <3>1, <3>2
  <2>4. CASE /\ output[n].secret \notin {"begin", "block"} /\ output[n].secret # "form"
             /\ ~(output[n].secret = "candidate" /\ entropyCandidates)
    BY <1>5, <2>4 DEF ScanLine
  <2> QED
    BY <2>1, <2>2, <2>3, <2>4
<1> QED
  BY <1>4, <1>5

LEMMA ScanLineKnows ==
  ASSUME NEW output \in Seq(Line), NEW entropyCandidates, NEW n \in Nat, n + 1 \in 1..Len(output),
         NEW scan \in Scans(Len(output)), Scanned(output, n, scan),
         NEW after, after = ScanLine(output, entropyCandidates, n + 1, scan)
  PROVE  Scanned(output, n + 1, after)
<1> DEFINE T == Stage1Findings(Len(output))
           k == n + 1
<1>1. /\ \/ k <= scan.skipThrough /\ after = scan
         \/ ~(k <= scan.skipThrough) /\ after = scan /\ output[k].secret \notin {"begin", "block", "form"}
         \/ \E f : Adds(output, k, scan, f, after)
      /\ after \in Scans(Len(output))
  BY ScanLineCases
<1>2. /\ k \in Nat /\ scan.skipThrough \in Nat /\ n < k /\ k <= k
      /\ scan.findings \in Seq(T)
      /\ \A m \in 1..k : m \in 1..n \/ m = k
      /\ k < scan.skipThrough => k <= scan.skipThrough
      /\ k <= scan.skipThrough => n < scan.skipThrough
      /\ \A m \in Nat : m <= n => m <= k
  BY DEF Scans
<1>3. \A f \in T : f.line \in Nat /\ f.last \in Nat
  BY DEF Stage1Findings, Findable
<1> HIDE DEF T, k
<1>4. CASE after = scan /\ (k <= scan.skipThrough \/ output[k].secret \notin {"begin", "block", "form"})
  <2>1. ASSUME k <= scan.skipThrough
        PROVE  \E f \in T : /\ Member(scan.findings, f) /\ Certain(f) /\ f.line <= k
                            /\ f.last = scan.skipThrough /\ ClosesKey(output, f.last)
    <3>1. PICK f \in T : /\ Member(scan.findings, f) /\ Certain(f)
                         /\ f.line <= n /\ f.last = scan.skipThrough /\ ClosesKey(output, f.last)
      BY <1>2, <2>1 DEF Scanned, T
    <3> QED
      BY <1>2, <1>3, <3>1
  <2>2. \A m \in 1..k : output[m].secret = "form" =>
          \E f \in T : Member(scan.findings, f) /\ Certain(f) /\ f.line <= m /\ m <= f.last
    BY <1>2, <1>4, <2>1 DEF Scanned, T
  <2>3. \A b \in 1..k : output[b].secret \in {"begin", "block"} =>
          \E f \in T : /\ Member(scan.findings, f) /\ Certain(f) /\ f.line <= b /\ b <= f.last
                       /\ ClosesKey(output, f.last)
    BY <1>2, <1>4, <2>1 DEF Scanned, T
  <2>4. Scanned(output, k, scan)
    BY <1>2, <2>1, <2>2, <2>3 DEF Scanned, T
  <2> QED
    BY <1>4, <2>4 DEF k
<1>5. ASSUME NEW f, Adds(output, k, scan, f, after)
      PROVE  Scanned(output, k, after)
  <2>1. f \in T /\ f.line = k /\ k <= f.last /\ f.last \in Nat /\ after.skipThrough = f.last
    BY <1>3, <1>5 DEF Adds, T
  <2>2. Member(after.findings, f) /\ \A h : Member(scan.findings, h) => Member(after.findings, h)
    <3> DEFINE q == scan.findings
               e == Len(q) + 1
    <3>1. /\ Append(q, f)[e] = f /\ e \in DOMAIN Append(q, f)
          /\ \A i \in DOMAIN q : i \in DOMAIN Append(q, f) /\ Append(q, f)[i] = q[i]
      BY <1>2, <2>1
    <3>2. after.findings = Append(q, f)
      BY <1>5 DEF Adds
    <3> HIDE DEF q, e
    <3> QED
      BY <3>1, <3>2 DEF Member, q
  <2>3. /\ output[k].secret = "form" => Certain(f)
        /\ output[k].secret \in {"begin", "block"} => Certain(f) /\ ClosesKey(output, f.last)
        /\ f.last # k => Certain(f) /\ ClosesKey(output, f.last)
    BY <1>5 DEF Adds
  <2>4. k < f.last => f.last # k
    BY <1>2, <2>1
  <2>5. \A m \in 1..k : output[m].secret = "form" =>
          \E h \in T : Member(after.findings, h) /\ Certain(h) /\ h.line <= m /\ m <= h.last
    BY <1>2, <2>1, <2>2, <2>3 DEF Scanned, T
  <2>6. \A b \in 1..k : output[b].secret \in {"begin", "block"} =>
          \E h \in T : /\ Member(after.findings, h) /\ Certain(h) /\ h.line <= b /\ b <= h.last
                       /\ ClosesKey(output, h.last)
    BY <1>2, <2>1, <2>2, <2>3 DEF Scanned, T
  <2>7. k < after.skipThrough =>
          \E h \in T : /\ Member(after.findings, h) /\ Certain(h) /\ h.line <= k
                       /\ h.last = after.skipThrough /\ ClosesKey(output, h.last)
    BY <1>2, <2>1, <2>2, <2>3, <2>4
  <2> QED
    BY <2>5, <2>6, <2>7 DEF Scanned, T
<1> QED
  BY <1>1, <1>4, <1>5 DEF k

LEMMA SecretsScanned ==
  ASSUME NEW output \in Seq(Line), NEW entropyCandidates
  PROVE  \E scan \in Scans(Len(output)) : /\ scan.findings = ScanSecrets(output, entropyCandidates)
                                          /\ Scanned(output, Len(output), scan)
<1> DEFINE N == Len(output)
           S == Scans(N)
           base == [findings |-> <<>>, skipThrough |-> 0]
           Read(scan, n) == ScanLine(output, entropyCandidates, n, scan)
           Body(f) == [n \in 0..N |-> IF n = 0 THEN base ELSE Read(f[n - 1], n)]
           step == [p \in S \X (1..N) |-> Read(p[1], p[2])]
           g == CHOOSE f : f = Body(f)
<1>1. N \in Nat /\ base \in S
  BY DEF Scans
<1>2. \A q \in S, n \in 1..N : Read(q, n) \in S
  BY ScanLineCases
<1>3. ScanSecrets(output, entropyCandidates) = g[N].findings
  BY DEF ScanSecrets
<1>4. Scanned(output, 0, base)
  BY DEF Scanned
<1>5. \A n \in Nat, q \in S : n + 1 \in 1..N /\ Scanned(output, n, q) => Scanned(output, n + 1, Read(q, n + 1))
  BY ScanLineKnows
<1> HIDE DEF Read
<1>6. \A q \in S, n \in 1..N : step[<<q, n>>] = Read(q, n)
  OBVIOUS
<1>7. Stays(N, S, step)
  BY <1>2, <1>6 DEF Stays
<1> HIDE DEF N, S, step, g, base
<1>8. Recursion(N, S, base, step) # {}
  BY <1>1, <1>7, BoundedRecursion
<1>9. PICK f \in [0..N -> S] : f[0] = base /\ \A n \in 1..N : f[n] = step[<<f[n - 1], n>>]
  BY <1>8 DEF Recursion
<1>10. f = Body(f)
  <2>1. \A n \in 0..N : n # 0 => n \in 1..N /\ f[n - 1] \in S
    BY <1>1, <1>9
  <2>2. \A n \in 0..N : f[n] = Body(f)[n]
    BY <1>6, <1>9, <2>1
  <2> QED
    BY <1>9, <2>2
<1>11. g = Body(g)
  BY <1>10 DEF g
<1> DEFINE P == {n \in 0..N : g[n] \in S /\ Scanned(output, n, g[n])}
<1>12. 0 \in P
  <2>1. g[0] = base /\ 0 \in 0..N
    BY <1>1, <1>11
  <2> QED
    BY <1>1, <1>4, <2>1
<1>13. ASSUME NEW n \in P, n < N PROVE n + 1 \in P
  <2>1. /\ n \in Nat /\ n + 1 \in 1..N /\ (n + 1) - 1 = n /\ n + 1 # 0 /\ n + 1 \in 0..N
        /\ g[n] \in S /\ Scanned(output, n, g[n])
    BY <1>1, <1>13
  <2>2. g[n + 1] = Read(g[n], n + 1)
    BY <1>11, <2>1
  <2> QED
    BY <1>2, <1>5, <2>1, <2>2
<1>14. P \in SUBSET (0..N) /\ N \in 0..N
  BY <1>1
<1> HIDE DEF P
<1>15. P = 0..N
  BY <1>1, <1>12, <1>13, <1>14, BoundedInduction
<1>16. g[N] \in S /\ Scanned(output, N, g[N])
  BY <1>14, <1>15 DEF P
<1> QED
  BY <1>3, <1>16 DEF N, S

\* secrets.py: a recognized form, and every line of a private key, is under a
\* redaction that stands.
LEMMA SecretsAreFound ==
  ASSUME NEW output \in Seq(Line), NEW entropyCandidates, NEW n \in DOMAIN output,
         output[n].secret = "form" \/ InKey(output, n)
  PROVE  \E f \in Stage1Findings(Len(output)) :
            Member(ScanSecrets(output, entropyCandidates), f) /\ Certain(f) /\ Covers(f, n)
<1> DEFINE N == Len(output)
<1>1. PICK scan \in Scans(N) : /\ scan.findings = ScanSecrets(output, entropyCandidates)
                               /\ Scanned(output, N, scan)
  BY SecretsScanned
<1>2. n \in 1..N /\ N \in Nat
  OBVIOUS
<1>3. CASE output[n].secret = "form"
  BY <1>1, <1>2, <1>3 DEF Scanned, Covers
<1>4. CASE InKey(output, n)
  <2>1. PICK b \in 1..n : /\ output[b].secret \in {"begin", "block"}
                          /\ \A m \in b..(n - 1) : output[m].secret \notin {"end", "block"}
    BY <1>4 DEF InKey
  <2>2. b \in 1..N
    BY <1>2
  <2>3. PICK f \in Stage1Findings(N) :
          /\ Member(scan.findings, f) /\ Certain(f) /\ f.line <= b /\ b <= f.last /\ ClosesKey(output, f.last)
    BY <1>1, <2>1, <2>2 DEF Scanned
  <2>4. f.line \in Nat /\ f.last \in Nat
    BY DEF Stage1Findings, Findable
  <2>5. n <= f.last
    <3>1. CASE f.last = N
      BY <1>2, <3>1
    <3>2. CASE output[f.last].secret \in {"end", "block"}
      <4>1. f.last \notin b..(n - 1)
        BY <2>1, <3>2
      <4> QED
        BY <1>2, <2>3, <2>4, <4>1
    <3> QED
      BY <2>3, <3>1, <3>2 DEF ClosesKey
  <2>6. f.line <= n
    BY <1>2, <2>3, <2>4
  <2> QED
    BY <1>1, <2>3, <2>5, <2>6 DEF Covers
<1> QED
  BY <1>3, <1>4

LEMMA FindingsType ==
  ASSUME NEW output \in Seq(Line), NEW secrets, NEW entropyCandidates
  PROVE  /\ Findings(output, secrets, entropyCandidates) \in Seq(Stage1Findings(Len(output)))
         /\ secrets => \A f : Member(ScanSecrets(output, entropyCandidates), f) =>
                                Member(Findings(output, secrets, entropyCandidates), f)
<1> DEFINE T == Stage1Findings(Len(output))
           Flag(n) == Finding(n, n, output[n].rule,
                              IF output[n].rule = "inspect.invisible" THEN "clean" ELSE "mask",
                              FALSE, output[n].rule)
           flags == [n \in DOMAIN output |-> Flag(n)]
<1>1. ASSUME NEW n \in DOMAIN output
      PROVE  Flag(n) \in T
  <2>1. n \in 1..Len(output) /\ n \in Nat /\ output[n].rule \in DetectorRules \cup {"none"}
    <3>1. n \in 1..Len(output) /\ n \in Nat /\ output[n] \in Line
      OBVIOUS
    <3>2. \A line \in Line : line.rule \in DetectorRules \cup {"none"}
      BY DEF Line
    <3> QED
      BY <3>1, <3>2
  <2> DEFINE rule == output[n].rule
             action == IF rule = "inspect.invisible" THEN "clean" ELSE "mask"
             f == Flag(n)
  <2>2. action \in {"clean", "mask"}
    OBVIOUS
  <2>3. rule \in Rules /\ rule \in SpanKinds /\ rule # "inspect.semantic"
    BY <2>1 DEF Rules, SpanKinds, DetectorRules, LiftableRules
  <2> HIDE DEF rule, action
  <2>4. f = [line |-> n, last |-> n, rule |-> rule, action |-> action, candidate |-> FALSE, kind |-> rule]
    BY DEF Finding, rule, action
  <2> HIDE DEF f
  <2>5. f \in Findable
    BY <2>1, <2>2, <2>3, <2>4 DEF Findable
  <2>6. f.line = n /\ f.last = n /\ f.rule = rule /\ f.candidate = FALSE /\ f.action = action
    BY <2>4
  <2>7. f \in T
    BY <2>1, <2>2, <2>3, <2>5, <2>6 DEF Stage1Findings
  <2> QED
    BY <2>7 DEF f
<1>2. flags \in Seq(T)
  <2>1. DOMAIN output = 1..Len(output) /\ Len(output) \in Nat
    OBVIOUS
  <2> HIDE DEF T, Flag
  <2> QED
    BY <1>1, <2>1
<1>3. ScanDetectors(output) \in Seq(T)
  <2>1. ScanDetectors(output) = Picked(flags, {n \in DOMAIN output : output[n].rule # "none"})
    BY DEF ScanDetectors
  <2> HIDE DEF flags, T
  <2> QED
    BY <1>2, <2>1, PickedType
<1>4. ScanSecrets(output, entropyCandidates) \in Seq(T)
  BY SecretsScanned DEF Scans
<1>5. <<>> \in Seq(T)
  OBVIOUS
<1> HIDE DEF T
<1> QED
  BY <1>3, <1>4, <1>5, ConcatMembers DEF Findings, T

-----------------------------------------------------------------------------
(***************************************************************************)
(* What becomes of a line.                                                 *)
(***************************************************************************)

Touches(findings, n) == \E f \in Findable : Member(findings, f) /\ Covers(f, n)

LEMMA PrecedenceOrder ==
  /\ \A a \in {"redact", "clean", "mask"} : Precedence[a] \in Nat
  /\ Precedence["redact"] = 0 /\ Precedence["clean"] = 1 /\ Precedence["mask"] = 2
  BY DEF Precedence

LEMMA CoveredLines ==
  ASSUME NEW findings \in Seq(Findable), NEW n \in Nat
  PROVE  n \in Covered(findings) <=> Touches(findings, n)
<1>1. \A f \in Findable : n \in f.line .. f.last <=> Covers(f, n)
  BY DEF Covers, Findable
<1>2. \A i \in DOMAIN findings : findings[i] \in Findable
  OBVIOUS
<1> QED
  BY <1>1, <1>2 DEF Covered, Touches, Member, ToSet

\* The winner of a line covers it, and no other on it comes before it.
LEMMA WinnerComesFirst ==
  ASSUME NEW findings \in Seq(Findable), NEW n \in Nat, n \in Covered(findings)
  PROVE  LET w == findings[Winner(findings, n)]
         IN /\ w \in Findable /\ Member(findings, w) /\ Covers(w, n)
            /\ \A f : Member(findings, f) /\ Covers(f, n) =>
                 Precedence[w.action] <= Precedence[f.action]
<1> DEFINE on == {i \in DOMAIN findings : Covers(findings[i], n)}
           Rank(i) == Precedence[findings[i].action]
           First(i) == \A j \in on \ {i} : Rank(i) < Rank(j) \/ (Rank(i) = Rank(j) /\ i < j)
<1>1. \A i \in DOMAIN findings : i \in Nat /\ findings[i] \in Findable /\ Rank(i) \in Nat
  <2>1. \A i \in DOMAIN findings : i \in Nat /\ findings[i] \in Findable
    OBVIOUS
  <2>2. \A f \in Findable : f.action \in {"redact", "clean", "mask"}
    BY DEF Findable
  <2> QED
    BY <2>1, <2>2, PrecedenceOrder
<1>2. on # {}
  BY CoveredLines DEF Touches, Member
<1>3. Winner(findings, n) = CHOOSE i \in on : First(i)
  BY DEF Winner
<1>4. on \subseteq DOMAIN findings /\ on \in SUBSET Nat /\ \A i \in on : Covers(findings[i], n)
  BY <1>1
<1>5. \A i \in DOMAIN findings : Covers(findings[i], n) => i \in on
  OBVIOUS
<1> HIDE DEF on, Rank
<1>6. PICK p \in {Rank(i) : i \in on} : \A q \in {Rank(i) : i \in on} : p <= q
  <2> DEFINE ranks == {Rank(i) : i \in on}
  <2>1. ranks \in SUBSET Nat /\ ranks # {}
    BY <1>1, <1>2, <1>4
  <2> HIDE DEF ranks
  <2>2. \E p \in ranks : \A q \in ranks : p <= q
    BY <2>1, LeastNatural
  <2> QED
    BY <2>2 DEF ranks
<1>7. PICK i \in {j \in on : Rank(j) = p} : \A j \in {h \in on : Rank(h) = p} : i <= j
  <2> DEFINE best == {j \in on : Rank(j) = p}
  <2>1. best \in SUBSET Nat /\ best # {}
    BY <1>4, <1>6
  <2> HIDE DEF best
  <2>2. \E i \in best : \A j \in best : i <= j
    BY <2>1, LeastNatural
  <2> QED
    BY <2>2 DEF best
<1>8. First(i)
  <2> SUFFICES ASSUME NEW j \in on \ {i} PROVE Rank(i) < Rank(j) \/ (Rank(i) = Rank(j) /\ i < j)
    OBVIOUS
  <2>1. i \in Nat /\ j \in Nat /\ Rank(i) \in Nat /\ Rank(j) \in Nat /\ Rank(i) = p /\ p <= Rank(j) /\ i # j
    BY <1>1, <1>4, <1>6, <1>7
  <2>2. Rank(j) = p => i <= j
    BY <1>7
  <2> QED
    BY <2>1, <2>2
<1>9. Winner(findings, n) \in on /\ First(Winner(findings, n))
  BY <1>3, <1>7, <1>8
<1> DEFINE w == Winner(findings, n)
<1>10. \A j \in on : Rank(w) <= Rank(j)
  <2> SUFFICES ASSUME NEW j \in on PROVE Rank(w) <= Rank(j)
    OBVIOUS
  <2>1. Rank(w) \in Nat /\ Rank(j) \in Nat
    BY <1>1, <1>4, <1>9
  <2>2. j # w => Rank(w) < Rank(j) \/ Rank(w) = Rank(j)
    BY <1>9
  <2> QED
    BY <2>1, <2>2
<1> HIDE DEF First, w
<1>11. w \in DOMAIN findings /\ findings[w] \in Findable /\ Covers(findings[w], n)
  BY <1>1, <1>4, <1>9 DEF w
<1>12. \A f : Member(findings, f) /\ Covers(f, n) => Precedence[findings[w].action] <= Precedence[f.action]
  BY <1>5, <1>10 DEF Member, Rank
<1> QED
  BY <1>11, <1>12 DEF w, Member

\* What the agent sees of a line, as Text has it of a call.
Shows(outcome, n) ==
  CASE outcome.verdict = "pass" -> "raw"
    [] outcome.verdict = "mask" -> outcome.text[n]
    [] outcome.verdict = "drop" -> "gone"

\* A verdict of stage 1 leaves the lines alone that nothing was found on, and
\* shows nothing of one that is redacted.
LEMMA AppliedText ==
  ASSUME NEW output \in Seq(Line), NEW findings \in Seq(Findable), NEW n \in DOMAIN output
  PROVE  LET shown == Shows(Apply(output, findings), n)
         IN /\ shown = "raw" => ~Touches(findings, n)
            /\ (\E f \in Findable : Member(findings, f) /\ f.action = "redact" /\ Covers(f, n)) =>
                 shown \notin {"raw", "cleaned"}
<1> DEFINE outcome == Apply(output, findings)
           byLine == ByLine(findings)
           w == findings[Winner(findings, n)]
<1>1. n \in Nat /\ n \in Covered(findings) <=> Touches(findings, n)
  BY CoveredLines
<1>2. CASE findings = <<>>
  <2>1. ~Touches(findings, n)
    BY <1>2 DEF Touches, Member
  <2>2. \A f \in Findable : ~Member(findings, f)
    BY <1>2 DEF Member
  <2> QED
    BY <2>1, <2>2
<1>3. CASE findings # <<>> /\ 2 * Cardinality(Removable(findings)) > LineCount(output)
  <2>1. outcome.verdict = "drop"
    BY <1>3 DEF Apply, Dropped
  <2>2. Shows(outcome, n) = "gone"
    BY <2>1 DEF Shows
  <2> QED
    BY <2>2
<1>4. CASE findings # <<>> /\ ~(2 * Cardinality(Removable(findings)) > LineCount(output))
  <2>1. outcome.verdict = "mask" /\ outcome.text = Rewrite(output, findings)
    BY <1>4 DEF Apply
  <2>2. Shows(outcome, n) = IF n \in Covered(findings) THEN Rewritten(w, n) ELSE "raw"
    BY <2>1 DEF Shows, Rewrite, ByLine
  <2>3. CASE n \in Covered(findings)
    <3>1. /\ w \in Findable
          /\ \A f : Member(findings, f) /\ Covers(f, n) => Precedence[w.action] <= Precedence[f.action]
      BY <1>1, <2>3, WinnerComesFirst
    <3> HIDE DEF w, outcome
    <3>2. w.action \in {"redact", "clean", "mask"}
      BY <3>1 DEF Findable
    <3>3. Rewritten(w, n) # "raw" /\ (w.action = "redact" => Rewritten(w, n) \notin {"raw", "cleaned"})
      BY <3>2 DEF Rewritten
    <3>4. ASSUME NEW f \in Findable, Member(findings, f), f.action = "redact", Covers(f, n)
          PROVE  w.action = "redact"
      <4>1. Precedence[w.action] <= Precedence["redact"]
        BY <3>1, <3>4
      <4> QED
        BY <3>2, <4>1, PrecedenceOrder
    <3> QED
      BY <2>2, <2>3, <3>3, <3>4 DEF outcome
  <2>4. CASE n \notin Covered(findings)
    <3>1. ~Touches(findings, n)
      BY <1>1, <2>4
    <3> QED
      BY <3>1 DEF Touches
  <2> QED
    BY <2>3, <2>4
<1> QED
  BY <1>2, <1>3, <1>4

\* In the prompt and in the record a redacted line is never as it was.
LEMMA RedactedText ==
  ASSUME NEW output \in Seq(Line), NEW findings \in Seq(Findable), NEW n \in DOMAIN output,
         \E f \in Findable : Member(findings, f) /\ f.action = "redact" /\ Covers(f, n)
  PROVE  RedactedLines(output, findings)[n] # "raw"
<1> DEFINE I == {i \in DOMAIN findings : findings[i].action = "redact"}
           redactions == Picked(findings, I)
           byLine == ByLine(redactions)
<1>1. PICK f \in Findable : Member(findings, f) /\ f.action = "redact" /\ Covers(f, n)
  OBVIOUS
<1>2. Member(redactions, f) /\ redactions \in Seq(Findable)
  <2>1. PICK i \in DOMAIN findings : findings[i] = f /\ i \in I
    BY <1>1 DEF Member
  <2> HIDE DEF I
  <2> QED
    BY <2>1, PickedMembers
<1>3. n \in Nat
  OBVIOUS
<1>4. RedactedLines(output, findings)
        = [m \in DOMAIN output |-> IF m \notin DOMAIN byLine THEN "raw"
                                   ELSE IF m = byLine[m].line THEN "redacted" ELSE "empty"]
  BY DEF RedactedLines
<1>5. DOMAIN byLine = Covered(redactions)
  BY DEF ByLine
<1> HIDE DEF redactions, byLine
<1>6. n \in DOMAIN byLine
  BY <1>1, <1>2, <1>3, <1>5, CoveredLines DEF Touches
<1> QED
  BY <1>4, <1>6

\* Removable lines are the ones on which there is a finding, and only masks.
LEMMA RemovableLines ==
  ASSUME NEW findings \in Seq(Findable), NEW n \in Nat
  PROVE  n \in Removable(findings) <=>
           /\ Touches(findings, n)
           /\ \A f \in Findable : Member(findings, f) /\ Covers(f, n) => f.action = "mask"
<1> DEFINE w == findings[Winner(findings, n)]
<1>1. n \in Removable(findings) <=> n \in Covered(findings) /\ w.action = "mask"
  BY DEF Removable
<1>2. n \in Covered(findings) <=> Touches(findings, n)
  BY CoveredLines
<1>3. ASSUME n \in Covered(findings)
      PROVE  w.action = "mask" <=>
               \A f \in Findable : Member(findings, f) /\ Covers(f, n) => f.action = "mask"
  <2>1. /\ w \in Findable /\ Member(findings, w) /\ Covers(w, n)
        /\ \A f : Member(findings, f) /\ Covers(f, n) => Precedence[w.action] <= Precedence[f.action]
    BY <1>3, WinnerComesFirst
  <2> HIDE DEF w
  <2>2. ASSUME w.action = "mask", NEW f \in Findable, Member(findings, f), Covers(f, n)
        PROVE  f.action = "mask"
    <3>1. Precedence["mask"] <= Precedence[f.action]
      BY <2>1, <2>2
    <3>2. f.action \in {"redact", "clean", "mask"}
      BY DEF Findable
    <3> QED
      BY <3>1, <3>2, PrecedenceOrder
  <2> QED
    BY <2>1, <2>2
<1> QED
  BY <1>1, <1>2, <1>3

\* Findings on lines of an output have their removable lines there.
LEMMA RemovableInside ==
  ASSUME NEW count \in Nat, NEW findings \in Seq(Findable),
         \A f \in Findable : Member(findings, f) => f.line \in 1..count /\ f.last \in 1..count
  PROVE  Removable(findings) \subseteq 1..count
<1>1. \A i \in DOMAIN findings : findings[i] \in Findable
  OBVIOUS
<1>2. \A f \in Findable : Member(findings, f) => f.line .. f.last \subseteq 1..count
  BY DEF Findable
<1>3. Covered(findings) \subseteq 1..count
  BY <1>1, <1>2 DEF Covered, ToSet, Member
<1> QED
  BY <1>3 DEF Removable

\* What is dropped is dropped with more masks on it, and with fewer redactions.
LEMMA DropGrows ==
  ASSUME NEW output \in Seq(Line), NEW findings \in Seq(Findable), NEW more \in Seq(Findable),
         Apply(output, findings).verdict = "drop", more # <<>>,
         \A f \in Findable : Member(findings, f) /\ f.action = "mask" => Member(more, f),
         \A f \in Findable : Member(more, f) => Member(findings, f) \/ f.action = "mask",
         \A f \in Findable : Member(more, f) => f.line \in 1..Len(output) /\ f.last \in 1..Len(output),
         Removable(findings) \subseteq Nat
  PROVE  Apply(output, more).verdict = "drop"
<1> DEFINE A == Removable(findings)
           B == Removable(more)
<1>1. A \subseteq B
  <2> SUFFICES ASSUME NEW n \in A PROVE n \in B
    OBVIOUS
  <2>1. /\ n \in Nat /\ Touches(findings, n)
        /\ \A f \in Findable : Member(findings, f) /\ Covers(f, n) => f.action = "mask"
    BY RemovableLines
  <2>2. Touches(more, n)
    BY <2>1 DEF Touches
  <2>3. \A f \in Findable : Member(more, f) /\ Covers(f, n) => f.action = "mask"
    BY <2>1
  <2> QED
    BY <2>1, <2>2, <2>3, RemovableLines
<1>2. Len(output) \in Nat /\ IsFiniteSet(1..Len(output))
  <2>1. Len(output) \in Nat /\ Len(output) \in Int /\ 1 \in Int
    OBVIOUS
  <2> QED
    BY <2>1, FS_Interval
<1>3. B \subseteq 1..Len(output)
  BY <1>2, RemovableInside
<1> HIDE DEF A, B
<1>4. IsFiniteSet(A) /\ IsFiniteSet(B) /\ Cardinality(A) <= Cardinality(B)
  BY <1>1, <1>2, <1>3, FS_Subset
<1>5. Cardinality(A) \in Nat /\ Cardinality(B) \in Nat
  BY <1>4, FS_CardinalityType
<1>6. LineCount(output) \in Int
  BY <1>2 DEF LineCount
<1>7. 2 * Cardinality(A) > LineCount(output)
  BY DEF Apply, Passed, A
<1>8. 2 * Cardinality(B) > LineCount(output)
  BY <1>4, <1>5, <1>6, <1>7
<1> QED
  BY <1>8 DEF Apply, Dropped, B

\* A span of a verdict is that of one of the findings.
LEMMA AppliedSpans ==
  ASSUME NEW output, NEW findings \in Seq(Findable), NEW span \in Apply(output, findings).spans
  PROVE  \E f \in Findable : Member(findings, f) /\ span = Span(f)
<1> DEFINE kept == Resolve(findings)
<1>1. findings # <<>> /\ ~(2 * Cardinality(Removable(findings)) > LineCount(output))
  BY DEF Apply, Passed, Dropped
<1>2. Apply(output, findings).spans = {Span(f) : f \in ToSet(kept)}
  BY <1>1 DEF Apply
<1>3. kept \in Seq({findings[i] : i \in DOMAIN findings})
  <2> DEFINE T == {findings[i] : i \in DOMAIN findings}
  <2>1. findings \in Seq(T)
    OBVIOUS
  <2> HIDE DEF T
  <2>2. Resolve(findings) \in Seq(T)
    BY <2>1, PickedType, SortedType DEF Resolve
  <2> QED
    BY <2>2 DEF T
<1> HIDE DEF kept
<1>4. \A f \in ToSet(kept) : \E i \in DOMAIN findings : f = findings[i]
  <2> DEFINE T == {findings[i] : i \in DOMAIN findings}
  <2>1. kept \in Seq(T)
    BY <1>3
  <2> HIDE DEF T
  <2>2. \A f \in ToSet(kept) : f \in T
    BY <2>1 DEF ToSet
  <2> QED
    BY <2>2 DEF T
<1>5. \A i \in DOMAIN findings : findings[i] \in Findable
  OBVIOUS
<1> QED
  BY <1>2, <1>4, <1>5 DEF Member

-----------------------------------------------------------------------------
(***************************************************************************)
(* The classifier's spans.                                                 *)
(***************************************************************************)

ModelSpans == [start : Int, end : Int, kind : STRING]

\* Spans of at most count lines that lie in W.
SpansIn(count, W) ==
  {s \in [start : Int, end : Int, kind : ModelSpanKinds] :
     1 <= s.start /\ s.start <= s.end /\ s.end <= count /\ s.start .. s.end \subseteq W}

LEMMA Retyped ==
  ASSUME NEW T, NEW U, NEW s \in Seq(T), \A i \in DOMAIN s : s[i] \in U
  PROVE  s \in Seq(U)
  OBVIOUS

\* Merging spans takes no line that none of them has.
LEMMA MergeSpanType ==
  ASSUME NEW count \in Nat, NEW W, NEW kept \in Seq(SpansIn(count, W)), NEW span \in SpansIn(count, W)
  PROVE  MergeSpan(kept, span) \in Seq(SpansIn(count, W))
<1> DEFINE U == SpansIn(count, W)
           m == Len(kept)
           last == kept[m]
           wide == [last EXCEPT !.end = Most(@, span.end)]
<1>1. \A s \in U : /\ s \in [start : Int, end : Int, kind : ModelSpanKinds]
                   /\ 1 <= s.start /\ s.start <= s.end /\ s.end <= count /\ s.start .. s.end \subseteq W
  BY DEF SpansIn
<1>2. CASE kept = <<>>
  BY <1>2 DEF MergeSpan
<1>3. CASE kept # <<>> /\ span.start > last.end
  <2>1. MergeSpan(kept, span) = Append(kept, span)
    BY <1>3 DEF MergeSpan
  <2> HIDE DEF U
  <2> QED
    BY <2>1
<1>4. CASE kept # <<>> /\ ~(span.start > last.end) /\ span.kind = last.kind
  <2>1. MergeSpan(kept, span) = [kept EXCEPT ![m].end = Most(@, span.end)]
    BY <1>4 DEF MergeSpan
  <2>2. m \in DOMAIN kept /\ last \in U /\ span \in U /\ DOMAIN kept = 1..m /\ m \in Nat
    <3>1. kept \in Seq(U) /\ span \in U
      OBVIOUS
    <3> HIDE DEF U
    <3> QED
      BY <1>4, <3>1
  <2>3. [kept EXCEPT ![m].end = Most(@, span.end)] = [kept EXCEPT ![m] = wide]
    BY <2>2
  <2>4. wide \in U
    <3>1. /\ last.start \in Int /\ last.end \in Int /\ span.start \in Int /\ span.end \in Int
          /\ last.kind \in ModelSpanKinds /\ span.start <= last.end
          /\ 1 <= last.start /\ last.start <= last.end /\ last.end <= count /\ span.end <= count
      BY <1>1, <1>4, <2>2
    <3> DEFINE end == Most(last.end, span.end)
    <3>2. end \in Int /\ last.end <= end /\ end <= count /\ last.start <= end
          /\ (end = last.end \/ end = span.end)
      BY <3>1 DEF Most
    <3>3. wide = [start |-> last.start, end |-> end, kind |-> last.kind]
      <4>1. last \in [start : Int, end : Int, kind : ModelSpanKinds]
        BY <1>1, <2>2
      <4> HIDE DEF last, end
      <4> QED
        BY <4>1 DEF end
    <3> HIDE DEF end
    <3>4. \A x \in last.start .. end : x \in last.start .. last.end \/ x \in span.start .. span.end
      BY <3>1, <3>2
    <3>5. last.start .. end \subseteq W
      <4>1. last.start .. last.end \subseteq W /\ span.start .. span.end \subseteq W
        BY <1>1, <2>2
      <4> QED
        BY <3>4, <4>1
    <3> HIDE DEF wide, last
    <3> QED
      BY <3>1, <3>2, <3>3, <3>5 DEF SpansIn
  <2> HIDE DEF U, wide, last
  <2>5. [kept EXCEPT ![m] = wide] \in Seq(U)
    BY <2>2, <2>4 DEF U
  <2> QED
    BY <2>1, <2>3, <2>5 DEF U
<1>5. CASE kept # <<>> /\ ~(span.start > last.end) /\ span.kind # last.kind
  BY <1>5 DEF MergeSpan
<1> QED
  BY <1>2, <1>3, <1>4, <1>5

LEMMA MergeSpansType ==
  ASSUME NEW count \in Nat, NEW W, NEW spans \in Seq(SpansIn(count, W))
  PROVE  MergeSpans(spans) \in Seq(SpansIn(count, W))
<1> DEFINE N == Len(spans)
           S == Seq(SpansIn(count, W))
           Body(f) == [n \in 0..N |-> IF n = 0 THEN <<>> ELSE MergeSpan(f[n - 1], spans[n])]
           step == [p \in S \X (1..N) |-> MergeSpan(p[1], spans[p[2]])]
           g == CHOOSE f : f = Body(f)
<1>1. N \in Nat /\ <<>> \in S /\ \A n \in 1..N : spans[n] \in SpansIn(count, W)
  OBVIOUS
<1>2. \A q \in S, n \in 1..N : MergeSpan(q, spans[n]) \in S
  BY <1>1, MergeSpanType
<1>3. MergeSpans(spans) = g[N]
  BY DEF MergeSpans
<1>4. \A q \in S, n \in 1..N : step[<<q, n>>] = MergeSpan(q, spans[n])
  OBVIOUS
<1>5. Stays(N, S, step)
  BY <1>2, <1>4 DEF Stays
<1> HIDE DEF N, S, step, g
<1>6. Recursion(N, S, <<>>, step) # {}
  BY <1>1, <1>5, BoundedRecursion
<1>7. PICK f \in [0..N -> S] : f[0] = <<>> /\ \A n \in 1..N : f[n] = step[<<f[n - 1], n>>]
  BY <1>6 DEF Recursion
<1>8. f = Body(f)
  <2>1. \A n \in 0..N : n # 0 => n \in 1..N /\ f[n - 1] \in S
    BY <1>1, <1>7
  <2>2. \A n \in 0..N : f[n] = Body(f)[n]
    BY <1>4, <1>7, <2>1
  <2> QED
    BY <1>7, <2>2
<1>9. g = Body(g)
  BY <1>8 DEF g
<1> DEFINE P == {n \in 0..N : g[n] \in S}
<1>10. 0 \in P
  <2>1. g[0] = <<>> /\ 0 \in 0..N
    BY <1>1, <1>9
  <2> QED
    BY <1>1, <2>1
<1>11. ASSUME NEW n \in P, n < N PROVE n + 1 \in P
  <2>1. n + 1 \in 1..N /\ (n + 1) - 1 = n /\ n + 1 # 0 /\ n + 1 \in 0..N /\ g[n] \in S
    BY <1>1, <1>11
  <2>2. g[n + 1] = MergeSpan(g[n], spans[n + 1])
    BY <1>9, <2>1
  <2> QED
    BY <1>2, <2>1, <2>2
<1>12. P \in SUBSET (0..N) /\ N \in 0..N
  BY <1>1
<1> HIDE DEF P
<1>13. P = 0..N
  BY <1>1, <1>10, <1>11, <1>12, BoundedInduction
<1> QED
  BY <1>3, <1>12, <1>13 DEF P, S

\* The findings made of the classifier's spans: masks of lines it was shown.
ModelFindings(count, W) ==
  {f \in Findable : /\ f.line \in 1..count /\ f.last \in 1..count /\ f.line .. f.last \subseteq W
                    /\ f.action = "mask" /\ ~f.candidate /\ f.rule = "inspect.semantic"}

LEMMA ValidatedSpans ==
  ASSUME NEW spans \in Seq(ModelSpans), NEW count \in Nat, NEW segments, NEW budget
  PROVE  Validate(spans, count, segments, budget) \in Seq(ModelFindings(count, Shown(segments)))
<1> DEFINE W == Shown(segments)
           U == SpansIn(count, W)
           I == {i \in DOMAIN spans : WellFormed(spans[i], count, segments, budget)}
           accepted == Picked(spans, I)
           merged == MergeSpans(Sorted(accepted, [i \in DOMAIN accepted |-> <<accepted[i].start, accepted[i].end>>]))
           Mask(s) == Finding(s.start, s.end, "inspect.semantic", "mask", FALSE, s.kind)
<1>1. Validate(spans, count, segments, budget) = [i \in DOMAIN merged |-> Mask(merged[i])]
  BY DEF Validate
<1>2. \A i \in I : spans[i] \in U
  <2> SUFFICES ASSUME NEW i \in I PROVE spans[i] \in U
    OBVIOUS
  <2> DEFINE s == spans[i]
  <2>1. s \in ModelSpans /\ WellFormed(s, count, segments, budget)
    OBVIOUS
  <2> HIDE DEF s
  <2>2. /\ 1 <= s.start /\ s.start <= s.end /\ s.end <= count
        /\ s.start .. s.end \subseteq W /\ s.kind \in ModelSpanKinds
    BY <2>1 DEF WellFormed
  <2>3. s \in [start : Int, end : Int, kind : ModelSpanKinds]
    BY <2>1, <2>2 DEF ModelSpans
  <2> QED
    BY <2>2, <2>3 DEF SpansIn, s
<1>3. accepted \in Seq(U)
  <2> HIDE DEF I, U
  <2>1. accepted \in Seq(ModelSpans) /\ \A x : Member(accepted, x) => \E i \in DOMAIN spans : i \in I /\ x = spans[i]
    BY PickedMembers
  <2>2. \A i \in DOMAIN accepted : accepted[i] \in U
    BY <1>2, <2>1 DEF Member
  <2> HIDE DEF accepted
  <2> QED
    BY <2>1, <2>2, Retyped
<1>4. merged \in Seq(U)
  <2> HIDE DEF accepted
  <2>1. Sorted(accepted, [i \in DOMAIN accepted |-> <<accepted[i].start, accepted[i].end>>]) \in Seq(U)
    BY <1>3, SortedType
  <2> QED
    BY <2>1, MergeSpansType
<1>5. ASSUME NEW s \in U
      PROVE  Mask(s) \in ModelFindings(count, W)
  <2> DEFINE f == Mask(s)
  <2>1. /\ s.start \in 1..count /\ s.end \in 1..count /\ s.start .. s.end \subseteq W
        /\ s.kind \in ModelSpanKinds
    BY DEF SpansIn
  <2>2. /\ s.start \in Nat /\ s.end \in Nat /\ s.kind \in SpanKinds /\ "inspect.semantic" \in Rules
    BY <2>1 DEF SpanKinds, Rules
  <2>3. f = [line |-> s.start, last |-> s.end, rule |-> "inspect.semantic", action |-> "mask",
             candidate |-> FALSE, kind |-> s.kind]
    BY DEF Finding
  <2> HIDE DEF f
  <2>4. f \in Findable
    BY <2>2, <2>3 DEF Findable
  <2>5. /\ f.line = s.start /\ f.last = s.end /\ f.rule = "inspect.semantic" /\ f.action = "mask"
        /\ f.candidate = FALSE
    BY <2>3
  <2>6. f \in ModelFindings(count, W)
    BY <2>1, <2>4, <2>5 DEF ModelFindings
  <2> QED
    BY <2>6 DEF f
<1> HIDE DEF merged, U, W, Mask
<1>6. Len(merged) \in Nat /\ DOMAIN merged = 1..Len(merged) /\ \A i \in DOMAIN merged : merged[i] \in U
  BY <1>4
<1>7. [i \in 1..Len(merged) |-> Mask(merged[i])] \in Seq(ModelFindings(count, W))
  BY <1>5, <1>6
<1> QED
  BY <1>1, <1>6, <1>7 DEF W

-----------------------------------------------------------------------------
(***************************************************************************)
(* What an answer of the classifier may change.                            *)
(***************************************************************************)

Released(review, f) == f.candidate /\ f.line \in review.unredact

Standing(r, review) == Unreleased(FindingsOf(r), review.unredact)

Added(r, review) ==
  Validate(review.spans, Len(r.output), SegmentsOf(r), Settings(r.profile).budget)

LEMMA Subtypes ==
  ASSUME NEW count \in Nat, NEW W
  PROVE  /\ Stage1Findings(count) \subseteq Findable /\ ModelFindings(count, W) \subseteq Findable
         /\ \A s \in Seq(Stage1Findings(count)) : s \in Seq(Findable)
         /\ \A s \in Seq(ModelFindings(count, W)) : s \in Seq(Findable)
<1>1. Stage1Findings(count) \subseteq Findable /\ ModelFindings(count, W) \subseteq Findable
  BY DEF Stage1Findings, ModelFindings
<1> QED
  BY <1>1

LEMMA RequestFindings ==
  ASSUME NEW r \in Requests
  PROVE  /\ r.output \in Seq(Line) /\ Len(r.output) \in Nat
         /\ FindingsOf(r) \in Seq(Stage1Findings(Len(r.output))) /\ FindingsOf(r) \in Seq(Findable)
<1>1. r.output \in Seq(Line)
  BY InspectorAssumption
<1>2. Len(r.output) \in Nat
  BY <1>1
<1>3. FindingsOf(r) \in Seq(Stage1Findings(Len(r.output)))
  BY <1>1, FindingsType DEF FindingsOf
<1> QED
  BY <1>1, <1>2, <1>3, Subtypes

LEMMA StandingFindings ==
  ASSUME NEW r \in Requests, NEW review
  PROVE  /\ Standing(r, review) \in Seq(Findable) /\ Unlifted(Standing(r, review)) \in Seq(Findable)
         /\ \A f : Member(Standing(r, review), f) <=> Member(FindingsOf(r), f) /\ ~Released(review, f)
         /\ \A f : Member(Unlifted(Standing(r, review)), f) <=>
                     Member(Standing(r, review), f) /\ f.rule \notin LiftableRules
<1> DEFINE F == FindingsOf(r)
           I == {i \in DOMAIN F : ~(F[i].candidate /\ F[i].line \in review.unredact)}
           S == Standing(r, review)
           J == {i \in DOMAIN S : S[i].rule \notin LiftableRules}
<1>1. F \in Seq(Findable)
  BY RequestFindings
<1>2. S = Picked(F, I) /\ \A i \in DOMAIN F : i \in I <=> ~Released(review, F[i])
  BY DEF Standing, Unreleased, Released
<1> HIDE DEF F, I
<1>3. S \in Seq(Findable) /\ \A f : Member(S, f) <=> Member(F, f) /\ ~Released(review, f)
  <2> HIDE DEF S
  <2>1. /\ S \in Seq(Findable)
        /\ \A i \in DOMAIN F : i \in I => Member(S, F[i])
        /\ \A x : Member(S, x) => \E i \in DOMAIN F : i \in I /\ x = F[i]
    BY <1>1, <1>2, PickedMembers
  <2> QED
    BY <1>2, <2>1 DEF Member
<1>4. Unlifted(S) = Picked(S, J) /\ \A i \in DOMAIN S : i \in J <=> S[i].rule \notin LiftableRules
  BY DEF Unlifted
<1> HIDE DEF S, J
<1>5. /\ Unlifted(S) \in Seq(Findable)
      /\ \A f : Member(Unlifted(S), f) <=> Member(S, f) /\ f.rule \notin LiftableRules
  <2>1. /\ Unlifted(S) \in Seq(Findable)
        /\ \A i \in DOMAIN S : i \in J => Member(Unlifted(S), S[i])
        /\ \A x : Member(Unlifted(S), x) => \E i \in DOMAIN S : i \in J /\ x = S[i]
    BY <1>3, <1>4, PickedMembers
  <2> QED
    BY <1>4, <2>1 DEF Member
<1> QED
  BY <1>3, <1>5 DEF F, S

LEMMA AddedFindings ==
  ASSUME NEW r \in Requests, NEW review \in Answers(r.output)
  PROVE  /\ Added(r, review) \in Seq(Findable)
         /\ \A f : Member(Added(r, review), f) =>
                     f \in ModelFindings(Len(r.output), Shown(SegmentsOf(r)))
         /\ Standing(r, review) \o Added(r, review) \in Seq(Findable)
         /\ \A f : Member(Standing(r, review) \o Added(r, review), f) <=>
                     Member(Standing(r, review), f) \/ Member(Added(r, review), f)
<1> DEFINE W == Shown(SegmentsOf(r))
           added == Added(r, review)
<1>1. review.spans \in Seq(ModelSpans)
  BY InspectorAssumption DEF ModelSpans
<1>2. Len(r.output) \in Nat
  BY RequestFindings
<1>3. added \in Seq(ModelFindings(Len(r.output), W))
  BY <1>1, <1>2, ValidatedSpans DEF Added
<1> HIDE DEF added, W
<1>4. added \in Seq(Findable)
  BY <1>2, <1>3, Subtypes
<1>5. \A f : Member(added, f) => f \in ModelFindings(Len(r.output), W)
  BY <1>3 DEF Member
<1>6. Standing(r, review) \in Seq(Findable)
  BY StandingFindings
<1> QED
  BY <1>4, <1>5, <1>6, ConcatMembers DEF added, W

\* The ways a verdict comes about.
LEMMA LawfulCases ==
  ASSUME NEW r \in Requests, NEW outcome, NEW review, Lawful(r, outcome, review)
  PROVE  \/ outcome = Stage1Of(r)
         \/ outcome.verdict = "drop" /\ outcome.spans = {}
         \/ /\ review.verdict = "pass" /\ Stage1Of(r).verdict # "drop"
            /\ outcome = Apply(r.output, Unlifted(Standing(r, review)))
         \/ /\ review \in Answers(r.output) /\ Added(r, review) # <<>>
            /\ outcome = Apply(r.output, Standing(r, review) \o Added(r, review))
<1>1. CASE review = NoReview /\ outcome = Stage1Of(r)
  BY <1>1
<1>2. CASE review \in Answers(r.output) /\ outcome = Reconciled(r, review).outcome
  <2> DEFINE kept == Standing(r, review)
             added == Added(r, review)
             stage1 == Stage1Of(r)
             output == r.output
  <2>1. review.verdict \in {"pass", "mask", "drop"}
    BY <1>2, InspectorAssumption
  <2>2. CASE review.verdict = "drop"
    <3>1. \E rule : outcome = Dropped(rule)
      BY <1>2, <2>2 DEF Reconciled, Reconcile
    <3> QED
      BY <3>1 DEF Dropped
  <2>3. CASE review.verdict = "pass"
    <3>1. outcome = Lifted(output, kept, stage1)
      BY <1>2, <2>3 DEF Reconciled, Reconcile, Standing
    <3> HIDE DEF kept, stage1
    <3>2. CASE stage1.verdict = "drop"
      BY <3>1, <3>2 DEF Lifted, Dropped
    <3>3. CASE stage1.verdict # "drop"
      BY <2>3, <3>1, <3>3 DEF Lifted, stage1, kept
    <3> QED
      BY <3>2, <3>3
  <2>4. CASE review.verdict = "mask" /\ added # <<>>
    BY <1>2, <2>4 DEF Reconciled, Reconcile, Standing, Added
  <2>5. CASE review.verdict = "mask" /\ added = <<>>
    BY <1>2, <2>5 DEF Reconciled, Reconcile, Added
  <2> QED
    BY <2>1, <2>2, <2>3, <2>4, <2>5
<1> QED
  BY <1>1, <1>2 DEF Lawful

\* A redaction that is certain stands in every verdict.
LEMMA CertainStands ==
  ASSUME NEW r \in Requests, NEW outcome, NEW review, Lawful(r, outcome, review),
         NEW n \in DOMAIN r.output, NEW f \in Stage1Findings(Len(r.output)),
         Member(FindingsOf(r), f), Certain(f), Covers(f, n)
  PROVE  Shows(outcome, n) \notin {"raw", "cleaned"}
<1>1. /\ r.output \in Seq(Line) /\ FindingsOf(r) \in Seq(Findable)
  BY RequestFindings
<1>2. f \in Findable /\ f.action = "redact" /\ ~f.candidate /\ f.rule \notin LiftableRules
  BY DEF Stage1Findings, Certain, LiftableRules
<1>3. \A findings \in Seq(Findable) : Member(findings, f) =>
        Shows(Apply(r.output, findings), n) \notin {"raw", "cleaned"}
  BY <1>1, <1>2, AppliedText
<1>4. Member(Standing(r, review), f) /\ Member(Unlifted(Standing(r, review)), f)
  BY <1>2, StandingFindings DEF Released
<1>5. CASE outcome = Stage1Of(r)
  BY <1>1, <1>3, <1>5 DEF Stage1Of
<1>6. CASE outcome.verdict = "drop"
  BY <1>6 DEF Shows
<1>7. CASE outcome = Apply(r.output, Unlifted(Standing(r, review)))
  BY <1>3, <1>4, <1>7, StandingFindings
<1>8. CASE review \in Answers(r.output) /\ outcome = Apply(r.output, Standing(r, review) \o Added(r, review))
  BY <1>3, <1>4, <1>8, AddedFindings
<1> QED
  BY <1>5, <1>6, <1>7, <1>8, LawfulCases

LEMMA LiftedLines ==
  ASSUME NEW r \in Requests, NEW outcome, NEW review, Lawful(r, outcome, review),
         NEW n \in DOMAIN r.output, Shows(outcome, n) = "raw",
         NEW f, Member(FindingsOf(r), f), Covers(f, n)
  PROVE  Released(review, f) \/ (f.rule \in LiftableRules /\ review.verdict = "pass")
<1>1. r.output \in Seq(Line) /\ FindingsOf(r) \in Seq(Findable)
  BY RequestFindings
<1>2. f \in Findable
  BY <1>1 DEF Member
<1>3. \A findings \in Seq(Findable) : Shows(Apply(r.output, findings), n) = "raw" => ~Member(findings, f)
  BY <1>1, <1>2, AppliedText DEF Touches
<1>4. CASE outcome = Stage1Of(r)
  BY <1>1, <1>3, <1>4 DEF Stage1Of
<1>5. CASE outcome.verdict = "drop"
  BY <1>5 DEF Shows
<1>6. CASE review.verdict = "pass" /\ outcome = Apply(r.output, Unlifted(Standing(r, review)))
  <2>1. ~Member(Unlifted(Standing(r, review)), f)
    BY <1>3, <1>6, StandingFindings
  <2> QED
    BY <1>6, <2>1, StandingFindings
<1>7. CASE review \in Answers(r.output) /\ outcome = Apply(r.output, Standing(r, review) \o Added(r, review))
  <2>1. ~Member(Standing(r, review), f)
    BY <1>3, <1>7, AddedFindings
  <2> QED
    BY <2>1, StandingFindings
<1> QED
  BY <1>4, <1>5, <1>6, <1>7, LawfulCases

LEMMA DropStands ==
  ASSUME NEW r \in Requests, NEW outcome, NEW review, Lawful(r, outcome, review),
         Stage1Of(r).verdict = "drop"
  PROVE  outcome.verdict = "drop"
<1> DEFINE F == FindingsOf(r)
           more == Standing(r, review) \o Added(r, review)
<1>1. /\ r.output \in Seq(Line) /\ Len(r.output) \in Nat /\ F \in Seq(Findable)
      /\ F \in Seq(Stage1Findings(Len(r.output)))
  BY RequestFindings
<1>2. ASSUME review \in Answers(r.output), Added(r, review) # <<>>
      PROVE  Apply(r.output, more).verdict = "drop"
  <2>1. /\ more \in Seq(Findable)
        /\ \A f : Member(more, f) <=> (Member(F, f) /\ ~Released(review, f)) \/ Member(Added(r, review), f)
    BY <1>2, StandingFindings, AddedFindings
  <2>2. more # <<>>
    <3>1. \E f : Member(Added(r, review), f)
      <4>1. Added(r, review) \in Seq(Findable)
        BY <1>2, AddedFindings
      <4>2. 1 \in DOMAIN Added(r, review)
        BY <1>2, <4>1
      <4> QED
        BY <4>2 DEF Member
    <3> HIDE DEF more
    <3>2. \E f : Member(more, f)
      BY <2>1, <3>1
    <3> QED
      BY <3>2 DEF Member
  <2> HIDE DEF more
  <2>3. \A f : Member(F, f) => f \in Stage1Findings(Len(r.output))
    BY <1>1 DEF Member
  <2>4. \A f : Member(F, f) => /\ f.line \in 1..Len(r.output) /\ f.last \in 1..Len(r.output)
                               /\ f.action = "mask" => ~f.candidate
    BY <2>3 DEF Stage1Findings
  <2>5. \A f : Member(Added(r, review), f) =>
          f.line \in 1..Len(r.output) /\ f.last \in 1..Len(r.output) /\ f.action = "mask"
    BY <1>2, AddedFindings DEF ModelFindings
  <2>6. Removable(F) \subseteq Nat
    <3>1. Removable(F) \subseteq 1..Len(r.output)
      BY <1>1, <2>4, RemovableInside
    <3> QED
      BY <1>1, <3>1
  <2> HIDE DEF F
  <2>7. \A f \in Findable : Member(F, f) /\ f.action = "mask" => Member(more, f)
    BY <2>1, <2>4 DEF Released
  <2>8. \A f \in Findable : Member(more, f) => Member(F, f) \/ f.action = "mask"
    BY <2>1, <2>5
  <2>9. \A f \in Findable : Member(more, f) => f.line \in 1..Len(r.output) /\ f.last \in 1..Len(r.output)
    BY <2>1, <2>4, <2>5
  <2>10. Apply(r.output, F).verdict = "drop"
    BY DEF Stage1Of, F
  <2> QED
    BY <1>1, <2>1, <2>2, <2>6, <2>7, <2>8, <2>9, <2>10, DropGrows
<1> QED
  BY <1>2, LawfulCases

LEMMA ModelSpansAreShown ==
  ASSUME NEW r \in Requests, NEW outcome, NEW review, Lawful(r, outcome, review),
         NEW span \in outcome.spans, span.source = "model"
  PROVE  span.start .. span.end \subseteq Shown(SegmentsOf(r))
<1>1. r.output \in Seq(Line) /\ FindingsOf(r) \in Seq(Findable)
  BY RequestFindings
<1>2. \A f : Member(FindingsOf(r), f) => f.rule # "inspect.semantic"
  <2>1. FindingsOf(r) \in Seq(Stage1Findings(Len(r.output)))
    BY RequestFindings
  <2>2. \A f : Member(FindingsOf(r), f) => f \in Stage1Findings(Len(r.output))
    BY <2>1 DEF Member
  <2>3. \A f \in Stage1Findings(Len(r.output)) : f.rule # "inspect.semantic"
    BY DEF Stage1Findings
  <2> QED
    BY <2>2, <2>3
<1>3. \A f : span = Span(f) => f.rule = "inspect.semantic" /\ span.start = f.line /\ span.end = f.last
  BY DEF Span
<1>4. ASSUME NEW findings \in Seq(Findable), outcome = Apply(r.output, findings)
      PROVE  \E f \in Findable : Member(findings, f) /\ span = Span(f)
  BY <1>4, AppliedSpans
<1>5. CASE outcome = Stage1Of(r)
  BY <1>1, <1>2, <1>3, <1>4, <1>5 DEF Stage1Of
<1>6. CASE outcome.spans = {}
  BY <1>6
<1>7. CASE outcome = Apply(r.output, Unlifted(Standing(r, review)))
  BY <1>2, <1>3, <1>4, <1>7, StandingFindings
<1>8. CASE review \in Answers(r.output) /\ outcome = Apply(r.output, Standing(r, review) \o Added(r, review))
  <2>1. PICK f \in Findable : Member(Standing(r, review) \o Added(r, review), f) /\ span = Span(f)
    BY <1>4, <1>8, AddedFindings
  <2>2. f \in ModelFindings(Len(r.output), Shown(SegmentsOf(r)))
    BY <1>2, <1>3, <1>8, <2>1, StandingFindings, AddedFindings
  <2> QED
    BY <1>3, <2>1, <2>2 DEF ModelFindings
<1> QED
  BY <1>5, <1>6, <1>7, <1>8, LawfulCases

-----------------------------------------------------------------------------
(***************************************************************************)
(* What the agent, the classifier and the record get to see.               *)
(***************************************************************************)

\* What a call was judged on, and how.
LEMMA JudgedLawfully ==
  ASSUME IInv, NEW c \in Judgements
  PROVE  /\ c \in Calls /\ call[c].request \in Requests
         /\ call[c].record = RedactedOf(call[c].request)
         /\ Lawful(call[c].request, call[c].outcome, call[c].review)
<1>1. c \in Calls /\ call[c].phase = "done" /\ Judgement(call[c])
  BY DEF Judgements, Done, Judgement
<1>2. Ended(call[c], clock)
  BY <1>1, DoneEnded
<1> QED
  BY <1>1, <1>2 DEF Ended

LEMMA TextShown ==
  ASSUME NEW c, NEW n
  PROVE  Text(c, n) = Shows(call[c].outcome, n)
  BY DEF Text, Shows

\* A line that stage 1 redacts for certain is not in what the classifier or the
\* record gets.
LEMMA CertainRedacted ==
  ASSUME NEW r \in Requests, Settings(r.profile).secrets,
         NEW n \in DOMAIN r.output, r.output[n].secret = "form" \/ InKey(r.output, n)
  PROVE  /\ RedactedOf(r)[n] # "raw"
         /\ \A outcome, review : Lawful(r, outcome, review) => Shows(outcome, n) \notin {"raw", "cleaned"}
<1>1. r.output \in Seq(Line) /\ FindingsOf(r) \in Seq(Findable)
  BY RequestFindings
<1>2. PICK f \in Stage1Findings(Len(r.output)) :
        Member(ScanSecrets(r.output, r.candidates), f) /\ Certain(f) /\ Covers(f, n)
  BY <1>1, SecretsAreFound
<1>3. Member(FindingsOf(r), f)
  BY <1>1, <1>2, FindingsType DEF FindingsOf
<1>4. f \in Findable /\ f.action = "redact"
  BY <1>2 DEF Certain, Stage1Findings
<1>5. RedactedLines(r.output, FindingsOf(r))[n] # "raw"
  BY <1>1, <1>2, <1>3, <1>4, RedactedText
<1>6. ASSUME NEW outcome, NEW review, Lawful(r, outcome, review)
      PROVE  Shows(outcome, n) \notin {"raw", "cleaned"}
  BY <1>2, <1>3, <1>6, CertainStands
<1> QED
  BY <1>5, <1>6 DEF RedactedOf

\* A secret recognized by its form, and every line of a private key, reaches
\* neither the agent nor the classifier nor the stored record, whatever the
\* classifier answers (inspect/secrets.py, mask.py, reconcile.py).
THEOREM SecretsAreHidden == Spec => []SecretsStayHidden
<1>1. IInv => SecretsStayHidden
  <2> SUFFICES ASSUME IInv, NEW c \in Judgements \cup InReview,
                      Settings(call[c].request.profile).secrets,
                      NEW n \in DOMAIN call[c].request.output,
                      call[c].request.output[n].secret = "form" \/ InKey(call[c].request.output, n)
               PROVE  IF c \in InReview
                      THEN n \in DOMAIN call[c].prompt.lines => call[c].prompt.lines[n] # "raw"
                      ELSE Text(c, n) \notin {"raw", "cleaned"} /\ call[c].record[n] # "raw"
    BY DEF SecretsStayHidden
  <2> DEFINE r == call[c].request
  <2>1. CASE c \in InReview
    <3>1. r \in Requests /\ InReviewOf(call[c], r)
      BY <2>1, AtClassifier DEF InReview
    <3>2. call[c].prompt.lines = [m \in Shown(SegmentsOf(r)) |-> RedactedOf(r)[m]]
      BY <3>1 DEF InReviewOf, Prompt
    <3>3. RedactedOf(r)[n] # "raw"
      BY <3>1, CertainRedacted
    <3> QED
      BY <2>1, <3>2, <3>3
  <2>2. CASE c \notin InReview
    <3>1. r \in Requests /\ call[c].record = RedactedOf(r) /\ Lawful(r, call[c].outcome, call[c].review)
      BY <2>2, JudgedLawfully
    <3>2. RedactedOf(r)[n] # "raw" /\ Shows(call[c].outcome, n) \notin {"raw", "cleaned"}
      BY <3>1, CertainRedacted
    <3> QED
      BY <2>2, <3>1, <3>2, TextShown
  <2> QED
    BY <2>1, <2>2
<1> QED
  BY <1>1, InspectorInvariant, PTL

\* A result stage 1 drops stays dropped whatever the classifier answers
\* (inspect/reconcile.py): what it may release is redacted, never among the
\* lines a drop counts, and what it adds only counts more.
THEOREM DropsStand == Spec => []StageOneDropStands
<1>1. IInv => StageOneDropStands
  <2> SUFFICES ASSUME IInv, NEW c \in Reviewed, Stage1Of(call[c].request).verdict = "drop"
               PROVE  call[c].outcome.verdict = "drop"
    BY DEF StageOneDropStands
  <2>1. c \in Judgements
    BY DEF Reviewed
  <2>2. call[c].request \in Requests /\ Lawful(call[c].request, call[c].outcome, call[c].review)
    BY <2>1, JudgedLawfully
  <2> QED
    BY <2>2, DropStands
<1> QED
  BY <1>1, InspectorInvariant, PTL

\* A flagged line reaches the agent as it was only if the classifier released
\* its value, or passed the result and nothing but a liftable finding stood
\* against it (inspect/reconcile.py).
THEOREM OnlyLiftableLifted == Spec => []OnlyTheLiftableIsLifted
<1>1. IInv => OnlyTheLiftableIsLifted
  <2> SUFFICES ASSUME IInv, NEW c \in Judgements, NEW n \in DOMAIN call[c].request.output,
                      Text(c, n) = "raw",
                      NEW f \in ToSet(FindingsOf(call[c].request)), Covers(f, n)
               PROVE  \/ f.candidate /\ f.line \in call[c].review.unredact
                      \/ f.rule \in LiftableRules /\ call[c].review.verdict = "pass"
    BY DEF OnlyTheLiftableIsLifted
  <2>1. call[c].request \in Requests /\ Lawful(call[c].request, call[c].outcome, call[c].review)
    BY JudgedLawfully
  <2>2. Member(FindingsOf(call[c].request), f)
    BY DEF ToSet, Member
  <2>3. Shows(call[c].outcome, n) = "raw"
    BY TextShown
  <2> QED
    BY <2>1, <2>2, <2>3, LiftedLines DEF Released
<1> QED
  BY <1>1, InspectorInvariant, PTL

\* Every span of the classifier's that is applied lies within the lines it was
\* shown (inspect/spans.py).
THEOREM MasksWereShown == Spec => []ModelMasksWhatItSaw
<1>1. IInv => ModelMasksWhatItSaw
  <2> SUFFICES ASSUME IInv, NEW c \in Reviewed, NEW s \in call[c].outcome.spans, s.source = "model"
               PROVE  s.start .. s.end \subseteq Shown(SegmentsOf(call[c].request))
    BY DEF ModelMasksWhatItSaw
  <2>1. c \in Judgements
    BY DEF Reviewed
  <2>2. call[c].request \in Requests /\ Lawful(call[c].request, call[c].outcome, call[c].review)
    BY <2>1, JudgedLawfully
  <2> QED
    BY <2>2, ModelSpansAreShown
<1> QED
  BY <1>1, InspectorInvariant, PTL
-----------------------------------------------------------------------------
(***************************************************************************)
(* The segments of a prompt, as sequences of intervals of lines.           *)
(***************************************************************************)

Pairs == Nat \X Nat

Proper(q) == \A i \in DOMAIN q : q[i][1] <= q[i][2]

\* Of two items the earlier one stands in R to the later one.
InOrder(R, q) == \A i, j \in DOMAIN q : i < j => <<q[i], q[j]>> \in R

\* An interval ends before another begins.
Before == {p \in Pairs \X Pairs : p[1][2] < p[2][1]}

\* Intervals that do not overlap, in line order.
Apart(q) == q \in Seq(Pairs) /\ Proper(q) /\ InOrder(Before, q)

\* The lines of the first n intervals.
LinesTo(q, n) == UNION {q[i][1] .. q[i][2] : i \in 1..n}

Lines(q) == UNION {q[i][1] .. q[i][2] : i \in DOMAIN q}

\* Two sequences in order are so one after the other, if every item of the
\* first stands in R to every item of the second.
LEMMA ConcatInOrder ==
  ASSUME NEW T, NEW R, NEW s \in Seq(T), NEW t \in Seq(T), InOrder(R, s), InOrder(R, t),
         \A i \in DOMAIN s, j \in DOMAIN t : <<s[i], t[j]>> \in R
  PROVE  InOrder(R, s \o t)
<1> DEFINE q == s \o t
           m == Len(s)
<1>1. /\ m \in Nat /\ Len(t) \in Nat /\ DOMAIN s = 1..m /\ DOMAIN t = 1..Len(t)
      /\ DOMAIN q = 1..m + Len(t)
      /\ \A i \in 1..m : q[i] = s[i]
      /\ \A i \in 1..Len(t) : q[m + i] = t[i]
  OBVIOUS
<1> HIDE DEF q, m
<1>2. \A i \in DOMAIN q : i \in 1..m \/ (i - m \in 1..Len(t) /\ m + (i - m) = i)
  BY <1>1
<1>3. ASSUME NEW i \in DOMAIN q, NEW j \in DOMAIN q, i < j PROVE <<q[i], q[j]>> \in R
  <2>1. CASE i \in 1..m /\ j \in 1..m
    BY <1>1, <1>3, <2>1 DEF InOrder
  <2>2. CASE i \in 1..m /\ j - m \in 1..Len(t) /\ m + (j - m) = j
    <3>1. q[i] = s[i] /\ q[j] = t[j - m]
      BY <1>1, <2>2
    <3> QED
      BY <1>1, <2>2, <3>1
  <2>3. CASE i - m \in 1..Len(t) /\ m + (i - m) = i /\ j - m \in 1..Len(t) /\ m + (j - m) = j
    <3>1. q[i] = t[i - m] /\ q[j] = t[j - m] /\ i - m < j - m
      BY <1>1, <1>3, <2>3
    <3> QED
      BY <1>1, <2>3, <3>1 DEF InOrder
  <2>4. ~(i - m \in 1..Len(t) /\ m + (i - m) = i /\ j \in 1..m)
    BY <1>1, <1>3
  <2> QED
    BY <1>2, <2>1, <2>2, <2>3, <2>4
<1> QED
  BY <1>3 DEF InOrder, q

\* One item is in any order.
LEMMA SingleInOrder ==
  ASSUME NEW R, NEW x
  PROVE  InOrder(R, <<x>>)
<1>1. \A i, j \in DOMAIN <<x>> : ~(i < j)
  OBVIOUS
<1> QED
  BY <1>1 DEF InOrder

\* What comes in an order of what was in order is in order.
LEMMA AscendingInOrder ==
  ASSUME NEW R, NEW before, NEW after, Ascends(before, after), InOrder(R, before)
  PROVE  InOrder(R, after)
  BY DEF Ascends, InOrder

-----------------------------------------------------------------------------
\* Sorting.

NotLater(items) == {p \in (DOMAIN items) \X (DOMAIN items) : ~Precedes(items[p[2]], items[p[1]])}

\* The order sorted goes by.
LEMMA PrecedesOrders ==
  ASSUME NEW a \in Pairs, NEW b \in Pairs, NEW c \in Pairs
  PROVE  /\ Precedes(a, b) => ~Precedes(b, a)
         /\ ~Precedes(b, a) /\ Precedes(b, c) => ~Precedes(c, a)
         /\ ~Precedes(b, a) => a[1] <= b[1]
  BY DEF Precedes, Pairs

\* An item put behind those that do not come later.
LEMMA PutInOrder ==
  ASSUME NEW items \in Seq(Pairs), NEW q \in Seq(DOMAIN items), NEW n \in DOMAIN items,
         InOrder(NotLater(items), q),
         NEW L, L = {i \in DOMAIN q : Precedes(items[n], items[q[i]])}
  PROVE  LET p == Picked(q, DOMAIN q \ L) \o <<n>> \o Picked(q, L)
         IN /\ p \in Seq(DOMAIN items)
            /\ InOrder(NotLater(items), p)
            /\ Member(p, n)
            /\ \A x : Member(q, x) => Member(p, x)
<1> DEFINE D == DOMAIN items
           R == NotLater(items)
           a == Picked(q, DOMAIN q \ L)
           b == Picked(q, L)
           an == a \o <<n>>
<1>1. /\ \A k \in D : items[k] \in Pairs
      /\ q \in Seq(D) /\ n \in D /\ \A i \in DOMAIN q : q[i] \in D
  OBVIOUS
<1>2. \A j, k \in D : <<j, k>> \in R <=> ~Precedes(items[k], items[j])
  BY DEF NotLater
<1> HIDE DEF D, R
<1>12. ASSUME NEW I
       PROVE  \A k \in DOMAIN Picked(q, I) : \E i \in DOMAIN q : i \in I /\ Picked(q, I)[k] = q[i]
  BY <1>1, PickedItems
<1>3. /\ a \in Seq(D) /\ b \in Seq(D)
      /\ \A x : Member(q, x) => Member(a, x) \/ Member(b, x)
  <2>1. a \in Seq(D) /\ b \in Seq(D)
    BY <1>1, PickedType
  <2>2. ASSUME NEW i \in DOMAIN q PROVE Member(a, q[i]) \/ Member(b, q[i])
    BY <1>1, PickedMembers
  <2> QED
    BY <2>1, <2>2 DEF Member
<1>4. InOrder(R, a) /\ InOrder(R, b)
  BY <1>1, PickedAscends, AscendingInOrder DEF R
<1>5. \A j \in DOMAIN a : a[j] \in D /\ <<a[j], n>> \in R
  <2> SUFFICES ASSUME NEW j \in DOMAIN a PROVE a[j] \in D /\ <<a[j], n>> \in R
    OBVIOUS
  <2>1. PICK i \in DOMAIN q : i \notin L /\ a[j] = q[i]
    BY <1>12
  <2> HIDE DEF a
  <2>2. ~Precedes(items[n], items[q[i]])
    BY <2>1
  <2> QED
    BY <1>1, <1>2, <2>1, <2>2
<1>6. \A j \in DOMAIN b : b[j] \in D /\ Precedes(items[n], items[b[j]])
  <2> SUFFICES ASSUME NEW j \in DOMAIN b PROVE b[j] \in D /\ Precedes(items[n], items[b[j]])
    OBVIOUS
  <2>1. PICK i \in DOMAIN q : i \in L /\ b[j] = q[i]
    BY <1>12
  <2> HIDE DEF b
  <2> QED
    BY <1>1, <2>1
<1> HIDE DEF a, b
<1>7. an \in Seq(D) /\ \A x : Member(an, x) <=> Member(a, x) \/ x = n
  <2>1. <<n>> \in Seq(D) /\ \A x : Member(<<n>>, x) <=> x = n
    BY <1>1 DEF Member
  <2> QED
    BY <1>3, <2>1, ConcatMembers
<1>8. InOrder(R, an)
  <2>1. <<n>> \in Seq(D) /\ InOrder(R, <<n>>)
    BY <1>1, SingleInOrder
  <2>2. \A i \in DOMAIN a, j \in DOMAIN <<n>> : <<a[i], <<n>>[j]>> \in R
    BY <1>5
  <2> QED
    BY <1>3, <1>4, <2>1, <2>2, ConcatInOrder
<1> HIDE DEF an
<1>9. \A i \in DOMAIN an, j \in DOMAIN b : <<an[i], b[j]>> \in R
  <2> SUFFICES ASSUME NEW i \in DOMAIN an, NEW j \in DOMAIN b PROVE <<an[i], b[j]>> \in R
    OBVIOUS
  <2>1. b[j] \in D /\ Precedes(items[n], items[b[j]])
    BY <1>6
  <2>2. Member(an, an[i])
    BY DEF Member
  <2>3. an[i] \in D /\ ~Precedes(items[n], items[an[i]])
    <3>1. CASE an[i] = n
      BY <1>1, <3>1, PrecedesOrders
    <3>2. CASE Member(a, an[i])
      BY <1>1, <1>2, <1>5, <3>2 DEF Member
    <3> QED
      BY <1>7, <2>2, <3>1, <3>2
  <2>4. ~Precedes(items[b[j]], items[an[i]])
    BY <1>1, <2>1, <2>3, PrecedesOrders
  <2> QED
    BY <1>2, <2>1, <2>3, <2>4
<1>10. InOrder(R, an \o b)
  BY <1>3, <1>4, <1>7, <1>8, <1>9, ConcatInOrder
<1>11. an \o b \in Seq(D) /\ \A x : Member(an \o b, x) <=> Member(an, x) \/ Member(b, x)
  BY <1>3, <1>7, ConcatMembers
<1> QED
  BY <1>3, <1>7, <1>10, <1>11 DEF D, R, a, b, an

\* What sorted returns of pairs sorted by themselves: the same pairs, the
\* smaller first elements first.
LEMMA SortedPairs ==
  ASSUME NEW items \in Seq(Pairs)
  PROVE  /\ Sorted(items, items) \in Seq(Pairs)
         /\ \A x : Member(Sorted(items, items), x) <=> Member(items, x)
         /\ \A i, j \in DOMAIN Sorted(items, items) :
              i < j => Sorted(items, items)[i][1] <= Sorted(items, items)[j][1]
<1> DEFINE N == Len(items)
           E == DOMAIN items
           S == {q \in Seq(E) : InOrder(NotLater(items), q)}
           Later(before, n) == {i \in DOMAIN before : Precedes(items[n], items[before[i]])}
           Put(before, n) == Picked(before, DOMAIN before \ Later(before, n)) \o <<n>>
                               \o Picked(before, Later(before, n))
           Body(f) == [n \in 0..N |-> IF n = 0 THEN <<>> ELSE Put(f[n - 1], n)]
           step == [p \in S \X (1..N) |-> Put(p[1], p[2])]
           g == CHOOSE f : f = Body(f)
           Knows(n, q) == \A k \in 1..n : Member(q, k)
<1>1. /\ N \in Nat /\ E = 1..N /\ <<>> \in S
      /\ \A n \in E : items[n] \in Pairs
  BY DEF InOrder
<1>2. \A q \in S, n \in E : Put(q, n) \in S /\ Member(Put(q, n), n) /\ \A x : Member(q, x) => Member(Put(q, n), x)
  BY PutInOrder
<1>3. Sorted(items, items) = [i \in DOMAIN g[N] |-> items[g[N][i]]]
  BY DEF Sorted
<1> HIDE DEF Put
<1>4. \A q \in S, n \in 1..N : step[<<q, n>>] = Put(q, n)
  OBVIOUS
<1>5. Stays(N, S, step)
  BY <1>1, <1>2, <1>4 DEF Stays
<1> HIDE DEF N, E, S, step, g
<1>6. Recursion(N, S, <<>>, step) # {}
  BY <1>1, <1>5, BoundedRecursion
<1>7. PICK f \in [0..N -> S] : f[0] = <<>> /\ \A n \in 1..N : f[n] = step[<<f[n - 1], n>>]
  BY <1>6 DEF Recursion
<1>8. f = Body(f)
  <2>1. \A n \in 0..N : n # 0 => n \in 1..N /\ f[n - 1] \in S
    BY <1>1, <1>7
  <2>2. \A n \in 0..N : f[n] = Body(f)[n]
    BY <1>4, <1>7, <2>1
  <2> QED
    BY <1>7, <2>2
<1>9. g = Body(g)
  BY <1>8 DEF g
<1> DEFINE P == {n \in 0..N : g[n] \in S /\ Knows(n, g[n])}
<1>10. 0 \in P
  <2>1. g[0] = <<>> /\ 0 \in 0..N /\ 1..0 = {}
    BY <1>1, <1>9
  <2> QED
    BY <1>1, <2>1
<1>11. ASSUME NEW n \in P, n < N PROVE n + 1 \in P
  <2>1. /\ n \in Nat /\ n + 1 \in 1..N /\ (n + 1) - 1 = n /\ n + 1 # 0 /\ n + 1 \in 0..N
        /\ g[n] \in S /\ Knows(n, g[n])
    BY <1>1, <1>11
  <2>2. g[n + 1] = Put(g[n], n + 1)
    BY <1>9, <2>1
  <2>3. \A k \in 1..n + 1 : k \in 1..n \/ k = n + 1
    BY <2>1
  <2>4. g[n + 1] \in S /\ Knows(n + 1, g[n + 1])
    BY <1>1, <1>2, <2>1, <2>2, <2>3
  <2> QED
    BY <2>1, <2>4
<1>12. P \in SUBSET (0..N) /\ N \in 0..N
  BY <1>1
<1> HIDE DEF P
<1>13. P = 0..N
  BY <1>1, <1>10, <1>11, <1>12, BoundedInduction
<1> DEFINE o == g[N]
           sorted == [i \in DOMAIN o |-> items[o[i]]]
<1>14. o \in S /\ Knows(N, o)
  BY <1>12, <1>13 DEF P
<1> HIDE DEF o
<1>15. o \in Seq(E) /\ InOrder(NotLater(items), o)
  BY <1>14 DEF S
<1>16. /\ Len(o) \in Nat /\ DOMAIN o = 1..Len(o) /\ \A i \in 1..Len(o) : o[i] \in E
  BY <1>15
<1>17. sorted \in Seq(Pairs)
  BY <1>1, <1>16
<1>18. ASSUME NEW x PROVE Member(sorted, x) <=> Member(items, x)
  <2>1. ASSUME Member(sorted, x) PROVE Member(items, x)
    BY <1>16, <2>1 DEF Member, E
  <2>2. ASSUME Member(items, x) PROVE Member(sorted, x)
    <3>1. PICK k \in E : items[k] = x
      BY <2>2 DEF Member, E
    <3>2. PICK i \in DOMAIN o : o[i] = k
      BY <1>1, <1>14, <3>1 DEF Member
    <3> QED
      BY <3>1, <3>2 DEF Member
  <2> QED
    BY <2>1, <2>2
<1>19. ASSUME NEW i \in DOMAIN o, NEW j \in DOMAIN o, i < j
       PROVE  items[o[i]][1] <= items[o[j]][1]
  <2>1. ~Precedes(items[o[j]], items[o[i]])
    BY <1>15, <1>19 DEF InOrder, NotLater
  <2>2. items[o[i]] \in Pairs /\ items[o[j]] \in Pairs
    BY <1>1, <1>16
  <2> QED
    BY <2>1, <2>2, PrecedesOrders
<1>20. Sorted(items, items) = sorted /\ DOMAIN sorted = DOMAIN o /\ \A i \in DOMAIN o : sorted[i] = items[o[i]]
  BY <1>3 DEF o
<1> HIDE DEF sorted
<1> QED
  BY <1>17, <1>18, <1>19, <1>20

-----------------------------------------------------------------------------
\* Intervals.
\* What is in a sequence of intervals.
LEMMA PairParts ==
  ASSUME NEW q \in Seq(Pairs)
  PROVE  /\ Len(q) \in Nat /\ DOMAIN q = 1..Len(q)
         /\ \A i \in DOMAIN q : q[i] \in Pairs /\ q[i][1] \in Nat /\ q[i][2] \in Nat
<1>1. Len(q) \in Nat /\ DOMAIN q = 1..Len(q) /\ \A i \in DOMAIN q : q[i] \in Pairs
  OBVIOUS
<1> QED
  BY <1>1 DEF Pairs

\* A line is in one of the intervals.
LEMMA LineIsIn ==
  ASSUME NEW q, NEW n
  PROVE  n \in Lines(q) <=> \E i \in DOMAIN q : n \in q[i][1] .. q[i][2]
  BY DEF Lines

\* One more interval.
LEMMA AppendLines ==
  ASSUME NEW q \in Seq(Pairs), NEW w \in Pairs
  PROVE  Lines(Append(q, w)) = Lines(q) \cup (w[1] .. w[2])
<1> DEFINE t == Append(q, w)
<1>1. /\ Len(q) \in Nat /\ DOMAIN q = 1..Len(q) /\ DOMAIN t = 1..Len(q) + 1
      /\ t[Len(q) + 1] = w /\ \A i \in 1..Len(q) : t[i] = q[i]
  OBVIOUS
<1> HIDE DEF t
<1>2. \A i \in DOMAIN t : i \in DOMAIN q \/ i = Len(q) + 1
  BY <1>1
<1>3. \A i \in DOMAIN q : i \in DOMAIN t /\ t[i] = q[i]
  BY <1>1
<1>4. Len(q) + 1 \in DOMAIN t
  BY <1>1
<1>5. ASSUME NEW n PROVE n \in Lines(t) <=> n \in Lines(q) \/ n \in w[1] .. w[2]
  BY <1>1, <1>2, <1>3, <1>4, LineIsIn
<1> QED
  BY <1>5 DEF t

\* An interval after the others.
LEMMA AppendApart ==
  ASSUME NEW q, Apart(q), NEW w \in Pairs, w[1] <= w[2], \A i \in DOMAIN q : q[i][2] < w[1]
  PROVE  Apart(Append(q, w))
<1>1. q \in Seq(Pairs) /\ Proper(q) /\ InOrder(Before, q)
  BY DEF Apart
<1>2. \A i \in DOMAIN q : q[i] \in Pairs
  BY <1>1
<1>3. \A i \in DOMAIN q, j \in DOMAIN <<w>> : <<q[i], <<w>>[j]>> \in Before
  BY <1>2 DEF Before
<1>8. <<w>> \in Seq(Pairs) /\ InOrder(Before, <<w>>)
  BY SingleInOrder
<1>4. InOrder(Before, q \o <<w>>)
  BY <1>1, <1>3, <1>8, ConcatInOrder
<1>5. q \o <<w>> = Append(q, w) /\ Append(q, w) \in Seq(Pairs)
  BY <1>1
<1>6. \A i \in DOMAIN Append(q, w) : Append(q, w)[i] = w \/ (i \in DOMAIN q /\ Append(q, w)[i] = q[i])
  BY <1>1
<1>7. Proper(Append(q, w))
  BY <1>1, <1>6 DEF Proper
<1> QED
  BY <1>4, <1>5, <1>7 DEF Apart

\* Intervals after others.
LEMMA ConcatApart ==
  ASSUME NEW q, Apart(q), NEW t, Apart(t), \A i \in DOMAIN q, j \in DOMAIN t : q[i][2] < t[j][1]
  PROVE  /\ Apart(q \o t)
         /\ Lines(q \o t) = Lines(q) \cup Lines(t)
         /\ \A x : Member(q \o t, x) <=> Member(q, x) \/ Member(t, x)
<1>1. q \in Seq(Pairs) /\ Proper(q) /\ InOrder(Before, q) /\ t \in Seq(Pairs) /\ Proper(t) /\ InOrder(Before, t)
  BY DEF Apart
<1>2. \A i \in DOMAIN q, j \in DOMAIN t : <<q[i], t[j]>> \in Before
  BY <1>1, PairParts DEF Before
<1>3. InOrder(Before, q \o t)
  BY <1>1, <1>2, ConcatInOrder
<1>4. q \o t \in Seq(Pairs) /\ \A x : Member(q \o t, x) <=> Member(q, x) \/ Member(t, x)
  BY <1>1, ConcatMembers
<1>5. Proper(q \o t)
  BY <1>1, <1>4 DEF Proper, Member
<1>6. ASSUME NEW s
      PROVE  \A n : n \in Lines(s) <=> \E x : Member(s, x) /\ n \in x[1] .. x[2]
  BY LineIsIn DEF Member
<1>7. Lines(q \o t) = Lines(q) \cup Lines(t)
  BY <1>4, <1>6
<1> QED
  BY <1>3, <1>4, <1>5, <1>7 DEF Apart

\* A window put to those that began no later.
LEMMA MergeWindowKnows ==
  ASSUME NEW m, Apart(m), NEW w \in Pairs, w[1] <= w[2],
         m # <<>> => m[Len(m)][1] <= w[1]
  PROVE  LET t == MergeWindow(m, w)
         IN /\ Apart(t) /\ t # <<>> /\ t[Len(t)][1] <= w[1]
            /\ Lines(t) = Lines(m) \cup (w[1] .. w[2])
<1> DEFINE k == Len(m)
<1>1. /\ m \in Seq(Pairs) /\ k \in Nat /\ DOMAIN m = 1..k
      /\ \A i \in DOMAIN m : m[i] \in Pairs /\ m[i][1] \in Nat /\ m[i][2] \in Nat /\ m[i][1] <= m[i][2]
      /\ \A i, j \in DOMAIN m : i < j => m[i][2] < m[j][1]
      /\ w[1] \in Nat /\ w[2] \in Nat
  BY PairParts DEF Apart, Proper, InOrder, Before, Pairs
<1>2. CASE m # <<>> /\ w[1] <= m[k][2] + 1
  <2> DEFINE u == <<m[k][1], Most(m[k][2], w[2])>>
             t == [m EXCEPT ![k] = u]
  <2>1. k \in DOMAIN m
    BY <1>1, <1>2
  <2>2. u \in Pairs /\ u[1] = m[k][1] /\ u[2] \in Nat /\ m[k][2] <= u[2] /\ w[2] <= u[2]
        /\ (u[2] = m[k][2] \/ u[2] = w[2])
    BY <1>1, <2>1 DEF Most, Pairs
  <2>3. MergeWindow(m, w) = t
    BY <1>2 DEF MergeWindow, Last
  <2> HIDE DEF u
  <2>4. /\ t \in Seq(Pairs) /\ Len(t) = k /\ DOMAIN t = DOMAIN m /\ t[k] = u
        /\ \A i \in DOMAIN m : i # k => t[i] = m[i]
    BY <1>1, <2>1, <2>2
  <2> HIDE DEF t, k
  <2>5. Proper(t)
    <3>1. u[1] <= u[2]
      BY <1>1, <2>1, <2>2
    <3> QED
      BY <1>1, <2>4, <3>1 DEF Proper
  <2>6. InOrder(Before, t)
    <3>1. \A i \in DOMAIN t : t[i] \in Pairs
      BY <1>1, <2>2, <2>4
    <3>2. ASSUME NEW i \in DOMAIN m, NEW j \in DOMAIN m, i < j PROVE t[i][2] < t[j][1]
      <4>1. i # k
        BY <1>1, <2>1, <3>2
      <4>2. t[i] = m[i] /\ m[i][2] < m[j][1]
        BY <1>1, <2>4, <3>2, <4>1
      <4>3. t[j][1] = m[j][1]
        BY <2>2, <2>4
      <4> QED
        BY <4>2, <4>3
    <3> QED
      BY <2>4, <3>1, <3>2 DEF InOrder, Before
  <2>7. ASSUME NEW n PROVE n \in Lines(t) <=> n \in Lines(m) \/ n \in w[1] .. w[2]
    <3>1. n \in u[1] .. u[2] <=> n \in m[k][1] .. m[k][2] \/ n \in w[1] .. w[2]
      BY <1>1, <1>2, <2>1, <2>2
    <3> QED
      BY <2>1, <2>4, <3>1, LineIsIn
  <2>8. t # <<>> /\ t[Len(t)][1] <= w[1]
    BY <1>2, <2>1, <2>2, <2>4 DEF k
  <2>9. Lines(t) = Lines(m) \cup (w[1] .. w[2])
    BY <2>7
  <2>10. Apart(t)
    BY <2>4, <2>5, <2>6 DEF Apart
  <2> QED
    BY <2>3, <2>8, <2>9, <2>10
<1>3. CASE ~(m # <<>> /\ w[1] <= m[k][2] + 1)
  <2>1. MergeWindow(m, w) = Append(m, w)
    BY <1>3 DEF MergeWindow, Last
  <2>2. \A i \in DOMAIN m : m[i][2] < w[1]
    <3> SUFFICES ASSUME NEW i \in DOMAIN m PROVE m[i][2] < w[1]
      OBVIOUS
    <3>1. k \in DOMAIN m /\ m # <<>> /\ (i = k \/ i < k)
      BY <1>1
    <3>2. m[k][2] < w[1]
      BY <1>1, <1>3, <3>1
    <3>3. m[i][2] <= m[k][2]
      BY <1>1, <3>1
    <3> QED
      BY <1>1, <3>1, <3>2, <3>3
  <2>3. Apart(Append(m, w)) /\ Lines(Append(m, w)) = Lines(m) \cup (w[1] .. w[2])
    BY <1>1, <2>2, AppendApart, AppendLines
  <2>4. Append(m, w) # <<>> /\ Append(m, w)[Len(Append(m, w))] = w
    BY <1>1
  <2>5. w[1] <= w[1]
    BY <1>1
  <2> QED
    BY <2>1, <2>3, <2>4, <2>5
<1> QED
  BY <1>2, <1>3

-----------------------------------------------------------------------------
\* Windows cut to pieces.
\* A product grows with its factor.
LEMMA Times ==
  ASSUME NEW x \in Nat, NEW y \in Nat, NEW m \in Nat
  PROVE  /\ x * m \in Nat
         /\ x <= y => x * m <= y * m
         /\ x < y => x * m + m <= y * m
<1>1. x * m \in Nat /\ y * m \in Nat
  OBVIOUS
<1>2. ASSUME x <= y PROVE x * m <= y * m
  <2>1. (y - x) * m \in Nat /\ y - x \in Nat
    BY <1>2
  <2>2. (y - x) * m = y * m - x * m
    OBVIOUS
  <2> QED
    BY <1>1, <2>1, <2>2
<1>3. ASSUME x < y PROVE x * m + m <= y * m
  <2>1. (y - x - 1) * m \in Nat /\ y - x - 1 \in Nat
    BY <1>3
  <2>2. (y - x - 1) * m = y * m - x * m - m
    OBVIOUS
  <2> QED
    BY <1>1, <2>1, <2>2
<1> QED
  BY <1>1, <1>2, <1>3

\* Whole parts of a number.
LEMMA Divided ==
  ASSUME NEW x \in Nat, NEW m \in Nat \ {0}
  PROVE  LET q == x \div m IN q \in Nat /\ q * m <= x /\ x < q * m + m
<1>1. x \div m \in Nat
  OBVIOUS
<1>2. x = m * (x \div m) + (x % m) /\ x % m \in 0..m - 1
  OBVIOUS
<1> QED
  BY <1>1, <1>2

\* The pieces of a window are its lines, in order.
LEMMA CutKnows ==
  ASSUME NEW w \in Pairs, w[1] <= w[2], NEW m \in Nat \ {0}
  PROVE  /\ Apart(Cut(w, m))
         /\ Lines(Cut(w, m)) = w[1] .. w[2]
         /\ \A i \in DOMAIN Cut(w, m) : w[1] <= Cut(w, m)[i][1] /\ Cut(w, m)[i][2] <= w[2]
<1> DEFINE a == w[1]
           b == w[2]
           p == (b - a) \div m
           From(i) == a + (i - 1) * m
           Till(i) == Least(b, From(i) + m - 1)
           c == [i \in 1..p + 1 |-> <<From(i), Till(i)>>]
<1>1. a \in Nat /\ b \in Nat /\ a <= b /\ b - a \in Nat /\ m \in Nat /\ m >= 1
  BY DEF Pairs
<1>2. p \in Nat /\ p * m <= b - a /\ b - a < p * m + m
  BY <1>1, Divided
<1>3. Cut(w, m) = c
  BY DEF Cut
<1> HIDE DEF a, b, p
<1>4. \A i \in 1..p + 1 : From(i) \in Nat /\ a <= From(i) /\ From(i) <= b
  <2> SUFFICES ASSUME NEW i \in 1..p + 1 PROVE From(i) \in Nat /\ a <= From(i) /\ From(i) <= b
    OBVIOUS
  <2>1. i - 1 \in Nat /\ i - 1 <= p
    BY <1>2
  <2>2. (i - 1) * m \in Nat /\ (i - 1) * m <= p * m /\ p * m \in Nat
    BY <1>1, <1>2, <2>1, Times
  <2> QED
    BY <1>1, <1>2, <2>2
<1>5. \A i \in 1..p + 1 : /\ Till(i) \in Nat /\ From(i) <= Till(i) /\ Till(i) <= b
                          /\ Till(i) <= From(i) + m - 1
                          /\ Till(i) = b \/ Till(i) = From(i) + m - 1
  BY <1>1, <1>4 DEF Least
<1>6. \A i, j \in 1..p + 1 : i < j => From(i) + m <= From(j)
  <2> SUFFICES ASSUME NEW i \in 1..p + 1, NEW j \in 1..p + 1, i < j PROVE From(i) + m <= From(j)
    OBVIOUS
  <2>1. i - 1 \in Nat /\ j - 1 \in Nat /\ i - 1 < j - 1
    BY <1>2
  <2>2. (i - 1) * m \in Nat /\ (j - 1) * m \in Nat /\ (i - 1) * m + m <= (j - 1) * m
    BY <1>1, <2>1, Times
  <2> QED
    BY <1>1, <2>2
<1>7. ASSUME NEW n \in a..b PROVE \E i \in 1..p + 1 : From(i) <= n /\ n <= Till(i)
  <2> DEFINE q == (n - a) \div m
  <2>1. n \in Nat /\ n - a \in Nat /\ n - a <= b - a /\ a <= n /\ n <= b
    BY <1>1
  <2>2. q \in Nat /\ q * m <= n - a /\ n - a < q * m + m
    BY <1>1, <2>1, Divided
  <2> HIDE DEF q
  <2>3. q <= p
    <3> SUFFICES ASSUME p < q PROVE FALSE
      BY <1>2, <2>2
    <3>1. p * m + m <= q * m /\ p * m \in Nat /\ q * m \in Nat
      BY <1>1, <1>2, <2>2, Times
    <3> QED
      BY <1>1, <1>2, <2>1, <2>2, <3>1
  <2>4. q + 1 \in 1..p + 1 /\ (q + 1) - 1 = q
    BY <1>2, <2>2, <2>3
  <2>5. From(q + 1) = a + q * m
    BY <2>4
  <2>6. q * m \in Nat
    BY <1>1, <2>2, Times
  <2>7. From(q + 1) <= n /\ n <= From(q + 1) + m - 1
    BY <1>1, <2>1, <2>2, <2>5, <2>6
  <2>8. n <= Till(q + 1)
    BY <1>5, <2>1, <2>4, <2>7
  <2> QED
    BY <2>4, <2>7, <2>8
<1> HIDE DEF From, Till
<1>8. /\ DOMAIN c = 1..p + 1 /\ \A i \in DOMAIN c : c[i][1] = From(i) /\ c[i][2] = Till(i) /\ c[i] \in Pairs
  BY <1>4, <1>5 DEF Pairs
<1>9. c \in Seq(Pairs)
  <2>1. p + 1 \in Nat
    BY <1>2
  <2> QED
    BY <1>8, <2>1
<1> HIDE DEF c
<1>10. Proper(c)
  BY <1>5, <1>8 DEF Proper
<1>11. \A i, j \in DOMAIN c : i < j => c[i][2] < c[j][1]
  <2> SUFFICES ASSUME NEW i \in DOMAIN c, NEW j \in DOMAIN c, i < j PROVE c[i][2] < c[j][1]
    OBVIOUS
  <2>1. /\ i \in 1..p + 1 /\ j \in 1..p + 1 /\ c[i][2] = Till(i) /\ c[j][1] = From(j)
        /\ From(i) \in Nat /\ From(j) \in Nat /\ Till(i) \in Nat
    BY <1>4, <1>5, <1>8
  <2>2. Till(i) <= From(i) + m - 1 /\ From(i) + m <= From(j)
    BY <1>5, <1>6, <2>1
  <2> QED
    BY <1>1, <2>1, <2>2
<1>12. InOrder(Before, c)
  BY <1>8, <1>11 DEF InOrder, Before
<1>13. ASSUME NEW n PROVE n \in Lines(c) <=> n \in a..b
  <2>1. ASSUME n \in Lines(c) PROVE n \in a..b
    <3>1. PICK i \in DOMAIN c : n \in c[i][1] .. c[i][2]
      BY <2>1, LineIsIn
    <3>2. i \in 1..p + 1 /\ n \in From(i) .. Till(i)
      BY <1>8, <3>1
    <3> QED
      BY <1>1, <1>4, <1>5, <3>2
  <2>2. ASSUME n \in a..b PROVE n \in Lines(c)
    <3>1. PICK i \in 1..p + 1 : From(i) <= n /\ n <= Till(i)
      BY <1>7, <2>2
    <3>2. n \in From(i) .. Till(i)
      BY <1>1, <1>4, <1>5, <2>2, <3>1
    <3> QED
      BY <1>8, <3>1, <3>2, LineIsIn
  <2> QED
    BY <2>1, <2>2
<1>14. \A i \in DOMAIN c : a <= c[i][1] /\ c[i][2] <= b
  BY <1>4, <1>5, <1>8
<1> QED
  BY <1>3, <1>9, <1>10, <1>12, <1>13, <1>14 DEF Apart, a, b

\* A window put to any sequence of intervals gives one.
LEMMA MergeWindowType ==
  ASSUME NEW m \in Seq(Pairs), NEW w \in Pairs
  PROVE  MergeWindow(m, w) \in Seq(Pairs)
<1>1. /\ Len(m) \in Nat /\ DOMAIN m = 1..Len(m)
      /\ \A i \in DOMAIN m : m[i][1] \in Nat /\ m[i][2] \in Nat
  BY PairParts
<1>2. CASE m # <<>> /\ w[1] <= m[Len(m)][2] + 1
  <2> DEFINE u == <<m[Len(m)][1], Most(m[Len(m)][2], w[2])>>
  <2>1. Len(m) \in DOMAIN m
    BY <1>1, <1>2
  <2>2. u \in Pairs
    BY <1>1, <2>1 DEF Most, Pairs
  <2>3. MergeWindow(m, w) = [m EXCEPT ![Len(m)] = u]
    BY <1>2 DEF MergeWindow, Last
  <2> HIDE DEF u
  <2> DEFINE t == [m EXCEPT ![Len(m)] = u]
  <2>4. t \in Seq(Pairs)
    BY <1>1, <2>1, <2>2
  <2> QED
    BY <2>3, <2>4
<1>3. CASE ~(m # <<>> /\ w[1] <= m[Len(m)][2] + 1)
  <2>1. MergeWindow(m, w) = Append(m, w)
    BY <1>3 DEF MergeWindow, Last
  <2> QED
    BY <2>1
<1> QED
  BY <1>2, <1>3

\* The lines of one interval more.
LEMMA LinesToNext ==
  ASSUME NEW q, NEW n \in Nat
  PROVE  /\ LinesTo(q, 0) = {}
         /\ LinesTo(q, n + 1) = LinesTo(q, n) \cup (q[n + 1][1] .. q[n + 1][2])
<1>1. 1..0 = {} /\ 1..n + 1 = (1..n) \cup {n + 1}
  OBVIOUS
<1> QED
  BY <1>1 DEF LinesTo

\* Windows in the order of their first lines, merged: the same lines, apart.
LEMMA MergedWindows ==
  ASSUME NEW windows \in Seq(Pairs), windows # <<>>, Proper(windows),
         \A i, j \in DOMAIN windows : i < j => windows[i][1] <= windows[j][1]
  PROVE  /\ Apart(MergeWindows(windows))
         /\ MergeWindows(windows) # <<>>
         /\ Lines(MergeWindows(windows)) = Lines(windows)
<1> DEFINE N == Len(windows)
           S == Seq(Pairs)
           Put(q, n) == MergeWindow(q, windows[n])
           Body(f) == [n \in 0..N |-> IF n = 0 THEN <<>> ELSE Put(f[n - 1], n)]
           step == [p \in S \X (1..N) |-> Put(p[1], p[2])]
           g == CHOOSE f : f = Body(f)
           Knows(n, q) == /\ Apart(q)
                          /\ Lines(q) = LinesTo(windows, n)
                          /\ (q # <<>>) = (n # 0)
                          /\ n # 0 => q[Len(q)][1] <= windows[n][1]
<1>1. /\ N \in Nat /\ N # 0 /\ DOMAIN windows = 1..N /\ <<>> \in S
      /\ \A n \in 1..N : /\ windows[n] \in Pairs
                         /\ windows[n][1] \in Nat /\ windows[n][2] \in Nat
                         /\ windows[n][1] <= windows[n][2]
  BY PairParts DEF Proper
<1>2. \A q \in S, n \in 1..N : Put(q, n) \in S
  BY <1>1, MergeWindowType
<1>3. MergeWindows(windows) = g[N]
  BY DEF MergeWindows
<1> HIDE DEF N
<1>4. Knows(0, <<>>)
  <2>1. DOMAIN <<>> = {}
    OBVIOUS
  <2>2. Apart(<<>>)
    BY <2>1 DEF Apart, Proper, InOrder
  <2>3. Lines(<<>>) = {}
    BY <2>1 DEF Lines
  <2> QED
    BY <2>2, <2>3, LinesToNext
<1>5. ASSUME NEW n \in Nat, n < N, NEW q \in S, Knows(n, q)
      PROVE  Knows(n + 1, Put(q, n + 1))
  <2> DEFINE w == windows[n + 1]
  <2>1. n + 1 \in 1..N /\ n + 1 # 0 /\ (n # 0 => n \in 1..N /\ n < n + 1)
    BY <1>1, <1>5
  <2>2. w \in Pairs /\ w[1] \in Nat /\ w[1] <= w[2]
    BY <1>1, <2>1
  <2>3. q # <<>> => q[Len(q)][1] <= w[1]
    <3> SUFFICES ASSUME q # <<>> PROVE q[Len(q)][1] <= w[1]
      OBVIOUS
    <3>1. n # 0 /\ q[Len(q)][1] <= windows[n][1]
      BY <1>5
    <3>2. windows[n][1] <= w[1] /\ windows[n][1] \in Nat
      BY <1>1, <2>1, <3>1
    <3>3. q[Len(q)][1] \in Nat
      <4>1. Len(q) \in DOMAIN q
        OBVIOUS
      <4> QED
        BY <4>1, PairParts
    <3> QED
      BY <2>2, <3>1, <3>2, <3>3
  <2> HIDE DEF w
  <2> DEFINE t == MergeWindow(q, w)
  <2>4. Apart(t) /\ t # <<>> /\ t[Len(t)][1] <= w[1] /\ Lines(t) = Lines(q) \cup (w[1] .. w[2])
    BY <1>5, <2>2, <2>3, MergeWindowKnows
  <2> HIDE DEF t
  <2>5. Lines(t) = LinesTo(windows, n + 1)
    BY <1>5, <2>4, LinesToNext DEF w
  <2>6. Put(q, n + 1) = t
    BY DEF t, w
  <2> QED
    BY <2>1, <2>4, <2>5, <2>6 DEF w
<1> HIDE DEF Put, Knows
<1>6. \A q \in S, n \in 1..N : step[<<q, n>>] = Put(q, n)
  OBVIOUS
<1>7. Stays(N, S, step)
  BY <1>2, <1>6 DEF Stays
<1> HIDE DEF S, step, g
<1>8. Recursion(N, S, <<>>, step) # {}
  BY <1>1, <1>7, BoundedRecursion
<1>9. PICK f \in [0..N -> S] : f[0] = <<>> /\ \A n \in 1..N : f[n] = step[<<f[n - 1], n>>]
  BY <1>8 DEF Recursion
<1>10. f = Body(f)
  <2>1. \A n \in 0..N : n # 0 => n \in 1..N /\ f[n - 1] \in S
    BY <1>1, <1>9
  <2>2. \A n \in 0..N : f[n] = Body(f)[n]
    BY <1>6, <1>9, <2>1
  <2> QED
    BY <1>9, <2>2
<1>11. g = Body(g)
  BY <1>10 DEF g
<1> DEFINE P == {n \in 0..N : g[n] \in S /\ Knows(n, g[n])}
<1>12. 0 \in P
  <2>1. g[0] = <<>> /\ 0 \in 0..N
    BY <1>1, <1>11
  <2> QED
    BY <1>1, <1>4, <2>1
<1>13. ASSUME NEW n \in P, n < N PROVE n + 1 \in P
  <2>1. /\ n \in Nat /\ n + 1 \in 1..N /\ (n + 1) - 1 = n /\ n + 1 # 0 /\ n + 1 \in 0..N
        /\ g[n] \in S /\ Knows(n, g[n])
    BY <1>1, <1>13
  <2>2. g[n + 1] = Put(g[n], n + 1)
    BY <1>11, <2>1
  <2>3. Knows(n + 1, Put(g[n], n + 1))
    BY <1>5, <1>13, <2>1
  <2> QED
    BY <1>2, <2>1, <2>2, <2>3
<1>14. P \in SUBSET (0..N) /\ N \in 0..N
  BY <1>1
<1> HIDE DEF P
<1>15. P = 0..N
  BY <1>1, <1>12, <1>13, <1>14, BoundedInduction
<1>16. Knows(N, g[N])
  BY <1>14, <1>15 DEF P
<1>17. LinesTo(windows, N) = Lines(windows)
  BY <1>1 DEF LinesTo, Lines
<1> QED
  BY <1>1, <1>3, <1>16, <1>17 DEF Knows

\* The windows cut to chunks: the same lines, apart.
LEMMA ChunkedWindows ==
  ASSUME NEW windows, Apart(windows), NEW maxLines \in Nat \ {0}
  PROVE  /\ Apart(Chunks(windows, maxLines))
         /\ Lines(Chunks(windows, maxLines)) = Lines(windows)
<1> DEFINE N == Len(windows)
           S == Seq(Pairs)
           Pieces(n) == Cut(windows[n], maxLines)
           Body(f) == [n \in 0..N |-> IF n = 0 THEN <<>> ELSE f[n - 1] \o Pieces(n)]
           step == [p \in S \X (1..N) |-> p[1] \o Pieces(p[2])]
           g == CHOOSE f : f = Body(f)
           Knows(n, q) == /\ Apart(q)
                          /\ Lines(q) = LinesTo(windows, n)
                          /\ \A i \in DOMAIN q : n # 0 /\ q[i][2] <= windows[n][2]
<1>1. /\ N \in Nat /\ DOMAIN windows = 1..N /\ <<>> \in S
      /\ \A n \in 1..N : /\ windows[n] \in Pairs
                         /\ windows[n][1] \in Nat /\ windows[n][2] \in Nat
                         /\ windows[n][1] <= windows[n][2]
      /\ \A i, j \in 1..N : i < j => windows[i][2] < windows[j][1]
  <2>1. windows \in Seq(Pairs) /\ Proper(windows) /\ InOrder(Before, windows)
    BY DEF Apart
  <2>2. /\ N \in Nat /\ DOMAIN windows = 1..N /\ <<>> \in S
        /\ \A n \in 1..N : windows[n] \in Pairs /\ windows[n][1] \in Nat /\ windows[n][2] \in Nat
    BY <2>1, PairParts
  <2>3. \A n \in 1..N : windows[n][1] <= windows[n][2]
    BY <2>1, <2>2 DEF Proper
  <2>4. \A i, j \in 1..N : i < j => windows[i][2] < windows[j][1]
    BY <2>1, <2>2 DEF InOrder, Before
  <2> QED
    BY <2>2, <2>3, <2>4
<1>2. \A n \in 1..N : /\ Apart(Pieces(n)) /\ Pieces(n) \in S
                      /\ Lines(Pieces(n)) = windows[n][1] .. windows[n][2]
                      /\ \A i \in DOMAIN Pieces(n) : windows[n][1] <= Pieces(n)[i][1] /\ Pieces(n)[i][2] <= windows[n][2]
  BY <1>1, CutKnows DEF Apart
<1>3. Chunks(windows, maxLines) = g[N]
  BY DEF Chunks
<1> HIDE DEF N, Pieces
<1>4. Knows(0, <<>>)
  <2>1. DOMAIN <<>> = {}
    OBVIOUS
  <2>2. Apart(<<>>)
    BY <2>1 DEF Apart, Proper, InOrder
  <2>3. Lines(<<>>) = {}
    BY <2>1 DEF Lines
  <2> QED
    BY <2>1, <2>2, <2>3, LinesToNext
<1>5. ASSUME NEW n \in Nat, n < N, NEW q \in S, Knows(n, q)
      PROVE  Knows(n + 1, q \o Pieces(n + 1))
  <2> DEFINE w == windows[n + 1]
             c == Pieces(n + 1)
             t == q \o c
  <2>1. n + 1 \in 1..N /\ n + 1 # 0 /\ (n # 0 => n \in 1..N /\ n < n + 1)
    BY <1>1, <1>5
  <2>2. w[1] \in Nat /\ w[2] \in Nat /\ w[1] <= w[2]
    BY <1>1, <2>1
  <2>3. /\ Apart(c) /\ c \in Seq(Pairs) /\ Lines(c) = w[1] .. w[2]
        /\ \A i \in DOMAIN c : w[1] <= c[i][1] /\ c[i][2] <= w[2]
    BY <1>2, <2>1
  <2>4. \A i \in DOMAIN q : q[i][2] \in Nat /\ q[i][2] < w[1]
    <3> SUFFICES ASSUME NEW i \in DOMAIN q PROVE q[i][2] \in Nat /\ q[i][2] < w[1]
      OBVIOUS
    <3>1. n # 0 /\ q[i][2] <= windows[n][2]
      BY <1>5
    <3>2. windows[n][2] < w[1] /\ windows[n][2] \in Nat
      BY <1>1, <2>1, <3>1
    <3>3. q[i][2] \in Nat
      BY PairParts
    <3> QED
      BY <2>2, <3>1, <3>2, <3>3
  <2>5. \A i \in DOMAIN q, j \in DOMAIN c : q[i][2] < c[j][1]
    <3>1. \A j \in DOMAIN c : c[j][1] \in Nat
      BY <2>3, PairParts
    <3> QED
      BY <2>2, <2>3, <2>4, <3>1
  <2>6. Apart(q)
    BY <1>5
  <2> HIDE DEF c, w
  <2>7. Apart(t) /\ Lines(t) = Lines(q) \cup Lines(c) /\ \A x : Member(t, x) <=> Member(q, x) \/ Member(c, x)
    BY <2>3, <2>5, <2>6, ConcatApart
  <2> HIDE DEF t
  <2>8. Lines(t) = LinesTo(windows, n + 1)
    BY <1>5, <2>3, <2>7, LinesToNext DEF w
  <2>9. \A x : Member(t, x) => x[2] <= w[2]
    <3>1. \A x : Member(q, x) => x[2] <= w[2]
      BY <2>2, <2>4 DEF Member
    <3>2. \A x : Member(c, x) => x[2] <= w[2]
      BY <2>3 DEF Member
    <3> QED
      BY <2>7, <3>1, <3>2
  <2>10. \A i \in DOMAIN t : t[i][2] <= w[2]
    BY <2>9 DEF Member
  <2>11. q \o Pieces(n + 1) = t
    BY DEF t, c
  <2> QED
    BY <2>1, <2>7, <2>8, <2>10, <2>11 DEF w
<1> HIDE DEF Knows
<1>6. \A q \in S, n \in 1..N : step[<<q, n>>] = q \o Pieces(n)
  OBVIOUS
<1>7. Stays(N, S, step)
  <2>1. \A q \in S, n \in 1..N : q \o Pieces(n) \in S
    BY <1>2
  <2> QED
    BY <1>6, <2>1 DEF Stays
<1> HIDE DEF S, step, g
<1>8. Recursion(N, S, <<>>, step) # {}
  BY <1>1, <1>7, BoundedRecursion
<1>9. PICK f \in [0..N -> S] : f[0] = <<>> /\ \A n \in 1..N : f[n] = step[<<f[n - 1], n>>]
  BY <1>8 DEF Recursion
<1>10. f = Body(f)
  <2>1. \A n \in 0..N : n # 0 => n \in 1..N /\ f[n - 1] \in S
    BY <1>1, <1>9
  <2>2. \A n \in 0..N : f[n] = Body(f)[n]
    BY <1>6, <1>9, <2>1
  <2> QED
    BY <1>9, <2>2
<1>11. g = Body(g)
  BY <1>10 DEF g
<1> DEFINE P == {n \in 0..N : g[n] \in S /\ Knows(n, g[n])}
<1>12. 0 \in P
  <2>1. g[0] = <<>> /\ 0 \in 0..N
    BY <1>1, <1>11
  <2> QED
    BY <1>1, <1>4, <2>1
<1>13. ASSUME NEW n \in P, n < N PROVE n + 1 \in P
  <2>1. /\ n \in Nat /\ n + 1 \in 1..N /\ (n + 1) - 1 = n /\ n + 1 # 0 /\ n + 1 \in 0..N
        /\ g[n] \in S /\ Knows(n, g[n])
    BY <1>1, <1>13
  <2>2. g[n + 1] = g[n] \o Pieces(n + 1)
    BY <1>11, <2>1
  <2>3. Knows(n + 1, g[n] \o Pieces(n + 1))
    BY <1>5, <1>13, <2>1
  <2>4. g[n] \o Pieces(n + 1) \in S
    BY <1>2, <2>1 DEF S
  <2> QED
    BY <2>1, <2>2, <2>3, <2>4
<1>14. P \in SUBSET (0..N) /\ N \in 0..N
  BY <1>1
<1> HIDE DEF P
<1>15. P = 0..N
  BY <1>1, <1>12, <1>13, <1>14, BoundedInduction
<1>16. Knows(N, g[N])
  BY <1>14, <1>15 DEF P
<1>17. LinesTo(windows, N) = Lines(windows)
  BY <1>1 DEF LinesTo, Lines
<1> QED
  BY <1>3, <1>16, <1>17 DEF Knows

-----------------------------------------------------------------------------
\* Chunks fitted to the budget.

FitStates == [items : Seq(Pairs), chars : Nat, omittedLines : Nat]

\* A line costs a natural number of characters, and so do several.
LEMMA CharsType ==
  ASSUME NEW output \in Seq(Line), NEW text, NEW from \in 1..Len(output), NEW to \in from..Len(output)
  PROVE  Chars(output, text, from, to) \in Nat
<1> DEFINE k == to - from + 1
           costs == [i \in 1..k |-> Cost(output, text, from + i - 1)]
<1>1. k \in Nat /\ Len(output) \in Nat /\ DOMAIN output = 1..Len(output) /\ from \in Nat /\ to \in Nat
  OBVIOUS
<1>2. \A n \in 1..Len(output) : output[n].width \in Nat
  <2>1. \A line \in Line : line.width \in Nat
    BY DEF Line
  <2> QED
    BY <1>1, <2>1
<1>3. \A i \in 1..k : from + i - 1 \in 1..Len(output)
  BY <1>1
<1>4. \A i \in 1..k : Cost(output, text, from + i - 1) \in Nat
  <2> SUFFICES ASSUME NEW i \in 1..k PROVE Cost(output, text, from + i - 1) \in Nat
    OBVIOUS
  <2> DEFINE n == from + i - 1
  <2>1. output[n].width \in Nat
    BY <1>2, <1>3
  <2> HIDE DEF n
  <2>2. Cost(output, text, n) \in Nat
    BY <2>1 DEF Cost
  <2> QED
    BY <2>2 DEF n
<1>5. costs \in Seq(Nat)
  <2> HIDE DEF k
  <2> QED
    BY <1>1, <1>4
<1>6. Chars(output, text, from, to) = Total(costs)
  BY DEF Chars
<1> HIDE DEF costs
<1> QED
  BY <1>5, <1>6, TotalType

\* A chunk is left out and counted, or shown from its first line to one of its
\* lines and the rest counted.
Takes(before, chunk, after) ==
  \/ /\ after.items = before.items
     /\ after.omittedLines = before.omittedLines + (chunk[2] - chunk[1] + 1)
  \/ \E last \in chunk[1]..chunk[2] :
       /\ after.items = Append(before.items, <<chunk[1], last>>)
       /\ after.omittedLines = before.omittedLines + (chunk[2] - last)

LEMMA FitChunkCases ==
  ASSUME NEW output \in Seq(Line), NEW text, NEW budget, NEW fitted \in FitStates,
         NEW chunk \in Pairs, chunk[1] \in 1..Len(output), chunk[2] \in chunk[1]..Len(output)
  PROVE  /\ FitChunk(output, text, budget, fitted, chunk) \in FitStates
         /\ Takes(fitted, chunk, FitChunk(output, text, budget, fitted, chunk))
<1> DEFINE a == chunk[1]
           b == chunk[2]
           fitting == {to \in a..b : FitsBudget(fitted.chars + Chars(output, text, a, to), budget)}
           last == Max(fitting)
           t == FitChunk(output, text, budget, fitted, chunk)
<1>1. /\ a \in Nat /\ b \in Nat /\ a <= b /\ Len(output) \in Nat /\ b <= Len(output)
      /\ fitted.items \in Seq(Pairs) /\ fitted.chars \in Nat /\ fitted.omittedLines \in Nat
  BY DEF FitStates
<1>2. CASE Len(fitted.items) >= budget.maxSegments \/ fitting = {}
  <2>1. t = [fitted EXCEPT !.omittedLines = @ + (b - a + 1)]
    BY <1>2 DEF FitChunk
  <2>2. fitted.omittedLines + (b - a + 1) \in Nat
    BY <1>1
  <2> HIDE DEF t, a, b
  <2>3. t \in FitStates /\ t.items = fitted.items /\ t.omittedLines = fitted.omittedLines + (b - a + 1)
    BY <2>1, <2>2 DEF FitStates
  <2> QED
    BY <2>3 DEF t, a, b, Takes
<1>3. CASE ~(Len(fitted.items) >= budget.maxSegments \/ fitting = {})
  <2>1. t = [items |-> Append(fitted.items, <<a, last>>),
             chars |-> fitted.chars + Chars(output, text, a, last),
             omittedLines |-> fitted.omittedLines + (b - last)]
    BY <1>3 DEF FitChunk
  <2>2. fitting # {} /\ fitting \in SUBSET (0..b) /\ fitting \subseteq a..b
    BY <1>1, <1>3
  <2> HIDE DEF fitting
  <2>3. PICK m \in fitting : \A k \in fitting : k <= m
    BY <1>1, <2>2, GreatestNatural
  <2>4. last \in fitting
    <3>1. \A k \in fitting : m >= k
      BY <1>1, <2>2, <2>3
    <3> QED
      BY <2>3, <3>1 DEF Max
  <2>5. last \in a..b
    BY <2>2, <2>4
  <2> HIDE DEF last, a, b
  <2>6. last \in Nat /\ b - last \in Nat /\ last \in a..Len(output)
    BY <1>1, <2>5
  <2> USE DEF a, b
  <2>7. Chars(output, text, a, last) \in Nat
    BY <1>1, <2>6, CharsType
  <2>8. <<a, last>> \in Pairs
    BY <1>1, <2>6 DEF Pairs
  <2>9. Append(fitted.items, <<a, last>>) \in Seq(Pairs)
    BY <1>1, <2>8
  <2> HIDE DEF t, a, b
  <2>10. fitted.chars + Chars(output, text, a, last) \in Nat /\ fitted.omittedLines + (b - last) \in Nat
    BY <1>1, <2>6, <2>7
  <2>11. /\ t \in FitStates /\ t.items = Append(fitted.items, <<a, last>>)
         /\ t.omittedLines = fitted.omittedLines + (b - last)
    BY <2>1, <2>9, <2>10 DEF FitStates
  <2> QED
    BY <2>5, <2>11 DEF t, a, b, Takes
<1> QED
  BY <1>2, <1>3

\* Lines that were not among others add to their number.
LEMMA MoreLines ==
  ASSUME NEW X, IsFiniteSet(X), NEW a \in Nat, NEW b \in Nat, a <= b, X \cap (a..b) = {}
  PROVE  /\ IsFiniteSet(X \cup (a..b)) /\ Cardinality(X) \in Nat
         /\ Cardinality(X \cup (a..b)) = Cardinality(X) + (b - a + 1)
<1>1. IsFiniteSet(a..b) /\ Cardinality(a..b) = b - a + 1
  BY FS_Interval
<1>2. Cardinality(X) \in Nat
  BY FS_CardinalityType
<1>3. Cardinality(X \cap (a..b)) = 0
  BY FS_EmptySet
<1>4. /\ IsFiniteSet(X \cup (a..b))
      /\ Cardinality(X \cup (a..b)) = Cardinality(X) + Cardinality(a..b) - Cardinality(X \cap (a..b))
  BY <1>1, FS_Union
<1> QED
  BY <1>1, <1>2, <1>3, <1>4

\* What is shown of a line set and what is omitted of it make the whole.
Accounts(shown, omitted, all) ==
  /\ shown \subseteq all /\ IsFiniteSet(all)
  /\ omitted \in Nat
  /\ Cardinality(shown) + omitted = Cardinality(all)

\* A chunk more.
LEMMA ChunkAccounts ==
  ASSUME NEW shown, NEW omitted, NEW all, Accounts(shown, omitted, all),
         NEW a \in Nat, NEW b \in Nat, a <= b, all \cap (a..b) = {}
  PROVE  /\ Accounts(shown, omitted + (b - a + 1), all \cup (a..b))
         /\ \A last \in a..b : Accounts(shown \cup (a..last), omitted + (b - last), all \cup (a..b))
<1>1. /\ shown \subseteq all /\ IsFiniteSet(all) /\ omitted \in Nat
      /\ Cardinality(shown) + omitted = Cardinality(all)
  BY DEF Accounts
<1>2. IsFiniteSet(shown) /\ Cardinality(shown) \in Nat
  BY <1>1, FS_Subset, FS_CardinalityType
<1>3. /\ IsFiniteSet(all \cup (a..b)) /\ Cardinality(all) \in Nat
      /\ Cardinality(all \cup (a..b)) = Cardinality(all) + (b - a + 1)
  BY <1>1, MoreLines
<1>4. Accounts(shown, omitted + (b - a + 1), all \cup (a..b))
  <2>1. omitted + (b - a + 1) \in Nat
    BY <1>1
  <2>2. Cardinality(shown) + (omitted + (b - a + 1)) = Cardinality(all \cup (a..b))
    BY <1>1, <1>2, <1>3
  <2> QED
    BY <1>1, <1>3, <2>1, <2>2 DEF Accounts
<1>5. ASSUME NEW last \in a..b PROVE Accounts(shown \cup (a..last), omitted + (b - last), all \cup (a..b))
  <2>1. last \in Nat /\ a <= last /\ b - last \in Nat /\ (a..last) \subseteq (a..b)
    OBVIOUS
  <2>2. shown \cap (a..last) = {}
    BY <1>1, <2>1
  <2>3. Cardinality(shown \cup (a..last)) = Cardinality(shown) + (last - a + 1)
    BY <1>2, <2>1, <2>2, MoreLines
  <2>4. Cardinality(shown \cup (a..last)) + (omitted + (b - last)) = Cardinality(all \cup (a..b))
    BY <1>1, <1>2, <1>3, <2>1, <2>3
  <2>5. omitted + (b - last) \in Nat
    BY <1>1, <2>1
  <2>6. shown \cup (a..last) \subseteq all \cup (a..b)
    BY <1>1, <2>1
  <2> QED
    BY <1>3, <2>4, <2>5, <2>6 DEF Accounts
<1> QED
  BY <1>4, <1>5


\* Chunks of a text fitted: what is shown and what is omitted make all of them.
LEMMA FittedAccounts ==
  ASSUME NEW output \in Seq(Line), NEW text, NEW budget, NEW chunks, Apart(chunks),
         Lines(chunks) \subseteq 1..Len(output)
  PROVE  LET t == Fit(output, text, chunks, budget)
         IN t \in FitStates /\ Accounts(Lines(t.items), t.omittedLines, Lines(chunks))
<1> DEFINE N == Len(chunks)
           S == FitStates
           base == [items |-> <<>>, chars |-> 0, omittedLines |-> 0]
           Put(t, n) == FitChunk(output, text, budget, t, chunks[n])
           Body(f) == [n \in 0..N |-> IF n = 0 THEN base ELSE Put(f[n - 1], n)]
           step == [p \in S \X (1..N) |-> Put(p[1], p[2])]
           g == CHOOSE f : f = Body(f)
           Knows(n, t) == Accounts(Lines(t.items), t.omittedLines, LinesTo(chunks, n))
<1>1. /\ N \in Nat /\ DOMAIN chunks = 1..N
      /\ \A n \in 1..N : /\ chunks[n] \in Pairs /\ chunks[n][1] \in Nat /\ chunks[n][2] \in Nat
                         /\ chunks[n][1] <= chunks[n][2]
      /\ \A i, j \in 1..N : i < j => chunks[i][2] < chunks[j][1]
  <2>1. chunks \in Seq(Pairs) /\ Proper(chunks) /\ InOrder(Before, chunks)
    BY DEF Apart
  <2>2. /\ N \in Nat /\ DOMAIN chunks = 1..N
        /\ \A n \in 1..N : chunks[n] \in Pairs /\ chunks[n][1] \in Nat /\ chunks[n][2] \in Nat
    BY <2>1, PairParts
  <2>3. \A n \in 1..N : chunks[n][1] <= chunks[n][2]
    BY <2>1, <2>2 DEF Proper
  <2>4. \A i, j \in 1..N : i < j => chunks[i][2] < chunks[j][1]
    BY <2>1, <2>2 DEF InOrder, Before
  <2> QED
    BY <2>2, <2>3, <2>4
<1>2. ASSUME NEW n \in 1..N
      PROVE  chunks[n][1] \in 1..Len(output) /\ chunks[n][2] \in chunks[n][1]..Len(output)
  <2>1. n \in DOMAIN chunks /\ chunks[n][1] \in chunks[n][1] .. chunks[n][2] /\ chunks[n][2] \in chunks[n][1] .. chunks[n][2]
    BY <1>1
  <2>2. chunks[n][1] \in Lines(chunks) /\ chunks[n][2] \in Lines(chunks)
    BY <2>1, LineIsIn
  <2>3. chunks[n][1] \in 1..Len(output) /\ chunks[n][2] \in 1..Len(output) /\ Len(output) \in Nat
    BY <2>2
  <2> QED
    BY <1>1, <2>3
<1>3. base \in S /\ base.items = <<>> /\ base.omittedLines = 0
  BY DEF FitStates
<1>4. ASSUME NEW t \in S, NEW n \in 1..N
      PROVE  Put(t, n) \in S /\ Takes(t, chunks[n], Put(t, n))
  <2> DEFINE chunk == chunks[n]
  <2>1. chunk \in Pairs /\ chunk[1] \in 1..Len(output) /\ chunk[2] \in chunk[1]..Len(output)
    BY <1>1, <1>2
  <2> HIDE DEF chunk, S
  <2>2. t \in FitStates
    BY DEF S
  <2>3. /\ FitChunk(output, text, budget, t, chunk) \in FitStates
        /\ Takes(t, chunk, FitChunk(output, text, budget, t, chunk))
    BY <2>1, <2>2, FitChunkCases
  <2> QED
    BY <2>3 DEF chunk, S
<1>5. Fit(output, text, chunks, budget) = g[N]
  BY DEF Fit
<1> HIDE DEF N, base, Put
<1>6. Knows(0, base)
  <2>1. Lines(<<>>) = {}
    <3>1. DOMAIN <<>> = {}
      OBVIOUS
    <3> QED
      BY <3>1 DEF Lines
  <2>2. IsFiniteSet({}) /\ Cardinality({}) = 0
    BY FS_EmptySet
  <2>3. LinesTo(chunks, 0) = {}
    BY LinesToNext
  <2>4. Accounts({}, 0, {})
    BY <2>2 DEF Accounts
  <2> QED
    BY <1>3, <2>1, <2>3, <2>4
<1>7. ASSUME NEW n \in Nat, n < N, NEW t \in S, Knows(n, t)
      PROVE  Knows(n + 1, Put(t, n + 1))
  <2> DEFINE a == chunks[n + 1][1]
             b == chunks[n + 1][2]
             u == Put(t, n + 1)
             all == LinesTo(chunks, n)
  <2>1. n + 1 \in 1..N
    BY <1>1, <1>7
  <2>2. a \in Nat /\ b \in Nat /\ a <= b
    BY <1>1, <2>1
  <2>3. all \cap (a..b) = {}
    <3> SUFFICES ASSUME NEW x \in all, x \in a..b PROVE FALSE
      OBVIOUS
    <3>1. PICK i \in 1..n : x \in chunks[i][1] .. chunks[i][2]
      BY DEF LinesTo
    <3>2. i \in 1..N /\ i < n + 1
      BY <1>1, <1>7
    <3>3. chunks[i][2] < a /\ chunks[i][2] \in Nat
      BY <1>1, <2>1, <3>2
    <3> QED
      BY <2>2, <3>1, <3>3
  <2>4. LinesTo(chunks, n + 1) = all \cup (a..b)
    BY LinesToNext
  <2>5. Accounts(Lines(t.items), t.omittedLines, all)
    BY <1>7
  <2>6. /\ Accounts(Lines(t.items), t.omittedLines + (b - a + 1), all \cup (a..b))
        /\ \A last \in a..b : Accounts(Lines(t.items) \cup (a..last), t.omittedLines + (b - last), all \cup (a..b))
    <3> HIDE DEF a, b, all
    <3> QED
      BY <2>2, <2>3, <2>5, ChunkAccounts
  <2>7. \/ u.items = t.items /\ u.omittedLines = t.omittedLines + (b - a + 1)
        \/ \E last \in a..b : /\ u.items = Append(t.items, <<a, last>>)
                              /\ u.omittedLines = t.omittedLines + (b - last)
    BY <1>4, <2>1 DEF Takes
  <2> HIDE DEF a, b, u, all
  <2>8. CASE u.items = t.items /\ u.omittedLines = t.omittedLines + (b - a + 1)
    <3>1. Accounts(Lines(u.items), u.omittedLines, all \cup (a..b))
      BY <2>6, <2>8
    <3> QED
      BY <2>4, <3>1 DEF u
  <2>9. ASSUME NEW last \in a..b, u.items = Append(t.items, <<a, last>>),
               u.omittedLines = t.omittedLines + (b - last)
        PROVE  Knows(n + 1, u)
    <3> DEFINE w == <<a, last>>
    <3>1. w \in Pairs /\ w[1] = a /\ w[2] = last
      BY <2>2 DEF Pairs
    <3>2. t.items \in Seq(Pairs)
      BY DEF FitStates
    <3> HIDE DEF w
    <3>3. Lines(Append(t.items, w)) = Lines(t.items) \cup (a..last)
      BY <3>1, <3>2, AppendLines
    <3>4. Lines(u.items) = Lines(t.items) \cup (a..last)
      BY <2>9, <3>3 DEF w
    <3>5. Accounts(Lines(u.items), u.omittedLines, all \cup (a..b))
      BY <2>6, <2>9, <3>4
    <3> QED
      BY <2>4, <3>5
  <2> QED
    BY <2>7, <2>8, <2>9 DEF u
<1> HIDE DEF Knows
<1>8. \A t \in S, n \in 1..N : step[<<t, n>>] = Put(t, n)
  OBVIOUS
<1>9. Stays(N, S, step)
  BY <1>4, <1>8 DEF Stays
<1> HIDE DEF S, step, g
<1>10. Recursion(N, S, base, step) # {}
  BY <1>1, <1>3, <1>9, BoundedRecursion
<1>11. PICK f \in [0..N -> S] : f[0] = base /\ \A n \in 1..N : f[n] = step[<<f[n - 1], n>>]
  BY <1>10 DEF Recursion
<1>12. f = Body(f)
  <2>1. N \in Nat
    BY <1>1
  <2>2. \A n \in 0..N : n # 0 => n \in 1..N /\ f[n - 1] \in S
    BY <1>11, <2>1
  <2>3. \A n \in 0..N : f[n] = Body(f)[n]
    BY <1>8, <1>11, <2>2
  <2> QED
    BY <1>11, <2>3
<1>13. g = Body(g)
  BY <1>12 DEF g
<1> DEFINE P == {n \in 0..N : g[n] \in S /\ Knows(n, g[n])}
<1>14. 0 \in P
  <2>1. g[0] = base /\ 0 \in 0..N
    BY <1>1, <1>13
  <2> QED
    BY <1>3, <1>6, <2>1
<1>15. ASSUME NEW n \in P, n < N PROVE n + 1 \in P
  <2>1. /\ n \in Nat /\ n + 1 \in 1..N /\ (n + 1) - 1 = n /\ n + 1 # 0 /\ n + 1 \in 0..N
        /\ g[n] \in S /\ Knows(n, g[n])
    BY <1>1, <1>15
  <2>2. g[n + 1] = Put(g[n], n + 1)
    BY <1>13, <2>1
  <2>3. Knows(n + 1, Put(g[n], n + 1))
    BY <1>7, <1>15, <2>1
  <2> QED
    BY <1>4, <2>1, <2>2, <2>3
<1>16. P \in SUBSET (0..N) /\ N \in 0..N
  BY <1>1
<1> HIDE DEF P
<1>17. P = 0..N
  BY <1>1, <1>14, <1>15, <1>16, BoundedInduction
<1>18. g[N] \in S /\ Knows(N, g[N])
  BY <1>16, <1>17 DEF P
<1>19. LinesTo(chunks, N) = Lines(chunks)
  BY <1>1 DEF LinesTo, Lines
<1> QED
  BY <1>5, <1>18, <1>19 DEF Knows, S

-----------------------------------------------------------------------------
\* The windows of a result.

\* The lines that are within reach of a finding.
Near(count, findings, reach) ==
  {n \in 1..count : \E f \in ToSet(findings) : f.line - reach <= n /\ n <= f.last + reach}

\* The windows around findings are the lines within their reach, in the order
\* of their first lines.
LEMMA FlaggedWindows ==
  ASSUME NEW count \in Nat, NEW findings \in Seq(Stage1Findings(count)), findings # <<>>,
         NEW budget, budget.windowLines \in Nat
  PROVE  LET w == Windows(count, findings, budget)
         IN /\ w \in Seq(Pairs) /\ w # <<>> /\ Proper(w)
            /\ \A i, j \in DOMAIN w : i < j => w[i][1] <= w[j][1]
            /\ Lines(w) = Near(count, findings, budget.windowLines)
<1> DEFINE reach == budget.windowLines
           From(f) == Most(1, f.line - reach)
           Till(f) == Least(count, f.last + reach)
           around == [i \in DOMAIN findings |-> <<From(findings[i]), Till(findings[i])>>]
           w == Sorted(around, around)
<1>1. reach \in Nat
  OBVIOUS
<1>2. Windows(count, findings, budget) = w
  BY DEF Windows
<1> HIDE DEF reach
<1>3. /\ Len(findings) \in Nat /\ DOMAIN findings = 1..Len(findings) /\ 1 \in DOMAIN findings
      /\ \A i \in DOMAIN findings : findings[i] \in Stage1Findings(count)
  OBVIOUS
<1>4. \A f \in Stage1Findings(count) : f.line \in Nat /\ f.last \in Nat /\ 1 <= f.line /\ f.line <= f.last /\ f.last <= count
  BY DEF Stage1Findings, Findable
<1>5. ASSUME NEW f \in Stage1Findings(count)
      PROVE  /\ From(f) \in Nat /\ Till(f) \in Nat /\ From(f) <= Till(f)
             /\ \A n : n \in From(f) .. Till(f) <=> n \in 1..count /\ f.line - reach <= n /\ n <= f.last + reach
  BY <1>1, <1>4 DEF Most, Least
<1> HIDE DEF From, Till
<1>6. /\ DOMAIN around = DOMAIN findings
      /\ \A i \in DOMAIN findings : /\ around[i] \in Pairs
                                    /\ around[i][1] = From(findings[i]) /\ around[i][2] = Till(findings[i])
  BY <1>3, <1>5 DEF Pairs
<1>7. around \in Seq(Pairs)
  BY <1>3, <1>6
<1> HIDE DEF around
<1>8. /\ w \in Seq(Pairs)
      /\ \A x : Member(w, x) <=> Member(around, x)
      /\ \A i, j \in DOMAIN w : i < j => w[i][1] <= w[j][1]
  BY <1>7, SortedPairs
<1> HIDE DEF w
<1>9. w # <<>>
  <2>1. Member(around, around[1])
    BY <1>3, <1>6 DEF Member
  <2>2. Member(w, around[1])
    BY <1>8, <2>1
  <2>3. DOMAIN <<>> = {}
    OBVIOUS
  <2> QED
    BY <2>2, <2>3 DEF Member
<1>10. Proper(w)
  <2> SUFFICES ASSUME NEW i \in DOMAIN w PROVE w[i][1] <= w[i][2]
    BY DEF Proper
  <2>1. Member(around, w[i])
    BY <1>8 DEF Member
  <2>2. PICK j \in DOMAIN findings : around[j] = w[i]
    BY <1>6, <2>1 DEF Member
  <2> QED
    BY <1>3, <1>5, <1>6, <2>2
<1>11. ASSUME NEW n PROVE n \in Lines(w) <=> n \in Near(count, findings, reach)
  <2>1. n \in Lines(w) <=> \E x : Member(w, x) /\ n \in x[1] .. x[2]
    BY LineIsIn DEF Member
  <2>2. n \in Lines(w) <=> \E x : Member(around, x) /\ n \in x[1] .. x[2]
    BY <1>8, <2>1
  <2>3. n \in Lines(w) <=> \E i \in DOMAIN around : n \in around[i][1] .. around[i][2]
    BY <2>2 DEF Member
  <2>4. n \in Lines(w) <=> \E i \in DOMAIN findings : n \in From(findings[i]) .. Till(findings[i])
    BY <1>6, <2>3
  <2>5. n \in Lines(w) <=> \E i \in DOMAIN findings :
                             n \in 1..count /\ findings[i].line - reach <= n /\ n <= findings[i].last + reach
    BY <1>3, <1>5, <2>4
  <2> QED
    BY <2>5 DEF Near, ToSet
<1> QED
  BY <1>2, <1>8, <1>9, <1>10, <1>11 DEF reach

\* With no finding, the head of the text.
LEMMA HeadWindow ==
  ASSUME NEW count \in Nat \ {0}, NEW budget,
         budget.maxSegments \in Nat \ {0}, budget.segmentMaxLines \in Nat \ {0}
  PROVE  \E head \in 1..count : Windows(count, <<>>, budget) = <<<<1, head>>>>
<1> DEFINE fits == budget.maxSegments * budget.segmentMaxLines
<1>1. ASSUME NEW x \in Nat \ {0}, NEW y \in Nat \ {0} PROVE x * y \in Nat \ {0}
  <2>1. 1 * y <= x * y /\ x * y \in Nat /\ 1 * y = y
    BY Times
  <2> QED
    BY <2>1
<1>2. fits \in Nat \ {0}
  BY <1>1
<1> HIDE DEF fits
<1>3. Least(count, fits) \in 1..count
  BY <1>2 DEF Least
<1>4. Windows(count, <<>>, budget) = <<<<1, Least(count, fits)>>>>
  BY DEF Windows, fits
<1> QED
  BY <1>3, <1>4

\* Of intervals apart the last one ends with the last line.
LEMMA LastEnds ==
  ASSUME NEW q, Apart(q), q # <<>>, NEW head \in Nat \ {0}, Lines(q) = 1..head
  PROVE  Last(q)[2] = head
<1> DEFINE k == Len(q)
<1>1. /\ q \in Seq(Pairs) /\ k \in Nat /\ DOMAIN q = 1..k
      /\ \A i \in DOMAIN q : q[i][1] \in Nat /\ q[i][2] \in Nat
  BY PairParts DEF Apart
<1>2. /\ \A i \in DOMAIN q : q[i][1] <= q[i][2]
      /\ \A i, j \in DOMAIN q : i < j => q[i][2] < q[j][1]
  BY DEF Apart, Proper, InOrder, Before
<1>3. k \in DOMAIN q
  BY <1>1
<1>4. q[k][2] <= head
  <2>1. q[k][2] \in q[k][1] .. q[k][2]
    BY <1>1, <1>2, <1>3
  <2>2. q[k][2] \in Lines(q)
    BY <1>3, <2>1, LineIsIn
  <2> QED
    BY <2>2
<1>5. head <= q[k][2]
  <2>1. head \in Lines(q)
    OBVIOUS
  <2>2. PICK i \in DOMAIN q : head \in q[i][1] .. q[i][2]
    BY <2>1, LineIsIn
  <2>3. head <= q[i][2]
    BY <1>1, <2>2
  <2>4. i = k \/ q[i][2] < q[k][1]
    BY <1>1, <1>2, <1>3
  <2> QED
    BY <1>1, <1>2, <1>3, <2>3, <2>4
<1> QED
  BY <1>1, <1>3, <1>4, <1>5 DEF Last

\* The segments of a result account for its windows, or for the whole of it.
LEMMA SegmentsAccount ==
  ASSUME NEW r \in Requests, Known(r.profile)
  PROVE  Accounts(Shown(SegmentsOf(r)), SegmentsOf(r).omittedLines,
                  IF FindingsOf(r) = <<>> THEN 1..Len(r.output)
                  ELSE Near(Len(r.output), FindingsOf(r), Settings(r.profile).budget.windowLines))
<1> DEFINE output == r.output
           count == Len(output)
           findings == FindingsOf(r)
           budget == Settings(r.profile).budget
           windows == Windows(count, findings, budget)
           merged == MergeWindows(windows)
           chunks == Chunks(merged, budget.segmentMaxLines)
           fitted == Fit(output, RedactedOf(r), chunks, budget)
           beyond == IF findings = <<>> THEN count - Last(merged)[2] ELSE 0
<1>1. output \in Seq(Line) /\ findings \in Seq(Stage1Findings(count))
  BY RequestFindings
<1>2. count \in Nat \ {0}
  <2>1. output # <<>>
    BY InspectorAssumption
  <2> QED
    BY <1>1, <2>1
<1>3. /\ budget.segmentMaxLines \in Nat \ {0} /\ budget.maxSegments \in Nat \ {0}
      /\ budget.windowLines \in Nat
  BY InspectorAssumption
<1>4. SegmentsOf(r) = [fitted EXCEPT !.omittedLines = @ + beyond]
  BY DEF SegmentsOf, BuildSegments
<1> HIDE DEF output, count, findings, budget, windows, merged, chunks, fitted, beyond
<1>5. CASE findings # <<>>
  <2> DEFINE near == Near(count, findings, budget.windowLines)
  <2>1. /\ windows \in Seq(Pairs) /\ windows # <<>> /\ Proper(windows)
        /\ \A i, j \in DOMAIN windows : i < j => windows[i][1] <= windows[j][1]
        /\ Lines(windows) = near
    BY <1>1, <1>2, <1>3, <1>5, FlaggedWindows DEF windows
  <2>2. Apart(merged) /\ Lines(merged) = near
    BY <2>1, MergedWindows DEF merged
  <2>3. Apart(chunks) /\ Lines(chunks) = near
    BY <1>3, <2>2, ChunkedWindows DEF chunks
  <2>4. near \subseteq 1..count
    BY DEF Near
  <2>5. fitted \in FitStates /\ Accounts(Lines(fitted.items), fitted.omittedLines, near)
    BY <1>1, <2>3, <2>4, FittedAccounts DEF fitted, count
  <2>6. beyond = 0
    BY <1>5 DEF beyond
  <2> HIDE DEF near
  <2>7. SegmentsOf(r).items = fitted.items /\ SegmentsOf(r).omittedLines = fitted.omittedLines
    BY <1>4, <2>5, <2>6 DEF FitStates
  <2>8. Shown(SegmentsOf(r)) = Lines(fitted.items)
    BY <2>7 DEF Shown, Lines
  <2> QED
    BY <1>5, <2>5, <2>7, <2>8 DEF near, count, findings, output, budget
<1>6. CASE findings = <<>>
  <2>1. PICK head \in 1..count : windows = <<<<1, head>>>>
    BY <1>2, <1>3, <1>6, HeadWindow DEF windows
  <2>2. /\ windows \in Seq(Pairs) /\ windows # <<>> /\ Proper(windows)
        /\ \A i, j \in DOMAIN windows : i < j => windows[i][1] <= windows[j][1]
    <3>1. head \in Nat /\ 1 <= head /\ <<1, head>> \in Pairs
      BY <1>2 DEF Pairs
    <3>2. DOMAIN windows = {1} /\ windows[1] = <<1, head>>
      BY <2>1
    <3>3. windows \in Seq(Pairs) /\ windows # <<>>
      BY <2>1, <3>1
    <3> QED
      BY <3>1, <3>2, <3>3 DEF Proper
  <2>3. Lines(windows) = 1..head
    <3>1. DOMAIN windows = {1} /\ windows[1][1] = 1 /\ windows[1][2] = head
      BY <2>1
    <3>2. \A n : n \in Lines(windows) <=> n \in 1..head
      BY <3>1, LineIsIn
    <3> QED
      BY <3>2
  <2>4. Apart(merged) /\ merged # <<>> /\ Lines(merged) = 1..head
    BY <2>2, <2>3, MergedWindows DEF merged
  <2>5. Apart(chunks) /\ Lines(chunks) = 1..head
    BY <1>3, <2>4, ChunkedWindows DEF chunks
  <2>6. head \in Nat \ {0} /\ head <= count /\ 1..head \subseteq 1..count
    BY <1>2
  <2>7. fitted \in FitStates /\ Accounts(Lines(fitted.items), fitted.omittedLines, 1..head)
    BY <1>1, <2>5, <2>6, FittedAccounts DEF fitted, count
  <2>8. beyond = count - head
    BY <1>6, <2>4, <2>6, LastEnds DEF beyond
  <2>9. /\ SegmentsOf(r).items = fitted.items
        /\ SegmentsOf(r).omittedLines = fitted.omittedLines + (count - head)
    BY <1>4, <2>7, <2>8 DEF FitStates
  <2>10. Shown(SegmentsOf(r)) = Lines(fitted.items)
    BY <2>9 DEF Shown, Lines
  <2>11. IsFiniteSet(1..count) /\ Cardinality(1..count) = count /\ Cardinality(1..head) = head
    BY <1>2, <2>6, FS_Interval
  <2>12. /\ Lines(fitted.items) \subseteq 1..head /\ fitted.omittedLines \in Nat
         /\ Cardinality(Lines(fitted.items)) + fitted.omittedLines = head
    BY <2>7, <2>11 DEF Accounts
  <2>13. IsFiniteSet(Lines(fitted.items)) /\ Cardinality(Lines(fitted.items)) \in Nat
    BY <2>6, <2>11, <2>12, FS_Subset, FS_CardinalityType
  <2>14. fitted.omittedLines + (count - head) \in Nat
    BY <1>2, <2>6, <2>12
  <2>15. Cardinality(Lines(fitted.items)) + (fitted.omittedLines + (count - head)) = count
    BY <1>2, <2>6, <2>12, <2>13
  <2>16. Accounts(Lines(fitted.items), fitted.omittedLines + (count - head), 1..count)
    BY <2>6, <2>11, <2>12, <2>14, <2>15 DEF Accounts
  <2> QED
    BY <1>6, <2>9, <2>10, <2>16 DEF count, findings, output
<1> QED
  BY <1>5, <1>6

\* The lines of the windows, or all of a result when nothing was found in it,
\* are shown to the classifier or counted as omitted, each once; when none is
\* omitted every flagged line is shown (inspect/segments.py).
THEOREM WindowsAreCounted == Spec => []WindowedLinesAreCounted
<1>1. IInv => WindowedLinesAreCounted
  <2> SUFFICES ASSUME IInv, NEW c \in InReview
               PROVE  LET r        == call[c].request
                          findings == FindingsOf(r)
                          near     == Settings(r.profile).budget.windowLines
                          windowed == {n \in DOMAIN r.output : \E f \in ToSet(findings) :
                                         f.line - near <= n /\ n <= f.last + near}
                          segments == SegmentsOf(r)
                      IN /\ Cardinality(Shown(segments)) + segments.omittedLines
                              = IF findings = <<>> THEN Len(r.output) ELSE Cardinality(windowed)
                         /\ segments.omittedLines = 0 => Covered(findings) \subseteq Shown(segments)
    BY DEF WindowedLinesAreCounted
  <2> DEFINE r == call[c].request
             findings == FindingsOf(r)
             count == Len(r.output)
             near == Settings(r.profile).budget.windowLines
             windowed == {n \in DOMAIN r.output : \E f \in ToSet(findings) :
                            f.line - near <= n /\ n <= f.last + near}
             shown == Shown(SegmentsOf(r))
             omitted == SegmentsOf(r).omittedLines
  <2>1. r \in Requests /\ Known(r.profile)
    BY AtClassifier DEF InReview
  <2>2. /\ r.output \in Seq(Line) /\ count \in Nat
        /\ findings \in Seq(Stage1Findings(count))
    BY <2>1, RequestFindings
  <2>3. near \in Nat
    BY <2>1, InspectorAssumption
  <2>4. windowed = Near(count, findings, near)
    <3>1. DOMAIN r.output = 1..count
      BY <2>2
    <3> QED
      BY <3>1 DEF Near
  <2>5. Accounts(shown, omitted, IF findings = <<>> THEN 1..count ELSE windowed)
    BY <2>1, <2>4, SegmentsAccount
  <2> HIDE DEF findings, count, near, windowed, shown, omitted
  <2>6. Cardinality(shown) + omitted = IF findings = <<>> THEN count ELSE Cardinality(windowed)
    <3>1. Cardinality(1..count) = count
      BY <2>2, FS_Interval
    <3> QED
      BY <2>5, <3>1 DEF Accounts
  <2>7. ASSUME omitted = 0 PROVE Covered(findings) \subseteq shown
    <3>1. CASE findings = <<>>
      <4>1. Covered(findings) = {}
        BY <3>1 DEF Covered, ToSet
      <4> QED
        BY <4>1
    <3>2. CASE findings # <<>>
      <4>1. /\ shown \subseteq windowed /\ IsFiniteSet(windowed)
            /\ Cardinality(shown) + omitted = Cardinality(windowed)
        BY <2>5, <3>2 DEF Accounts
      <4>2. Cardinality(shown) \in Nat
        BY <4>1, FS_Subset, FS_CardinalityType
      <4>3. Cardinality(windowed) = Cardinality(shown)
        BY <2>7, <4>1, <4>2
      <4>4. shown = windowed
        BY <4>1, <4>3, FS_Subset
      <4>5. Covered(findings) \subseteq Near(count, findings, near)
        <5> SUFFICES ASSUME NEW n \in Covered(findings) PROVE n \in Near(count, findings, near)
          OBVIOUS
        <5>1. PICK f \in ToSet(findings) : n \in f.line .. f.last
          BY DEF Covered
        <5>2. f \in Stage1Findings(count)
          BY <2>2 DEF ToSet
        <5>3. f.line \in Nat /\ f.last \in Nat /\ 1 <= f.line /\ f.last <= count
          BY <5>2 DEF Stage1Findings, Findable
        <5>4. n \in 1..count /\ f.line - near <= n /\ n <= f.last + near
          BY <2>2, <2>3, <5>1, <5>3
        <5> QED
          BY <5>1, <5>4 DEF Near
      <4> QED
        BY <2>4, <4>4, <4>5
    <3> QED
      BY <3>1, <3>2
  <2> QED
    BY <2>6, <2>7 DEF findings, count, near, windowed, shown, omitted
<1> QED
  BY <1>1, InspectorInvariant, PTL
=============================================================================
