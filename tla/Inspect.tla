------------------------------ MODULE Inspect ------------------------------
(***************************************************************************)
(* The pure half of the inspect pipeline: what stage 1 finds in a tool     *)
(* result, what the classifier is shown of it, and what its answer may     *)
(* change (inspect/secrets.py, detectors.py, mask.py, segments.py,         *)
(* spans.py, reconcile.py).                                                *)
(*                                                                         *)
(* A result is a sequence of lines, and a line is what the detectors and   *)
(* the secret scanner see in it: the patterns themselves are left out.     *)
(* Lines are numbered from 1.  The text an agent, the classifier or the    *)
(* stored record gets is, per line, what became of the line.               *)
(***************************************************************************)
EXTENDS Integers, Sequences, FiniteSets, SequencesExt, Lists

LiftableRules == {"inspect.injection", "inspect.pipe-exec"}

DetectorRules == LiftableRules \cup {"inspect.encoded", "inspect.invisible"}

\* rule: the first detector that matches.  secret: a recognized form, a value
\* that only looks random, or a fence of a private key ("block" opens and closes
\* one).  width: the characters it costs.
Line == [rule : DetectorRules \cup {"none"},
         secret : {"none", "form", "candidate", "begin", "end", "block"},
         width : Nat]

\* A trailing newline leaves an empty last element that is not counted.
LineCount(output) ==
  IF Len(output) > 1 /\ output[Len(output)].width = 0 THEN Len(output) - 1 ELSE Len(output)

-----------------------------------------------------------------------------
(***************************************************************************)
(* Stage 1: one finding per line or private key, the secrets first.        *)
(***************************************************************************)

Finding(line, last, rule, action, candidate, kind) ==
  [line |-> line, last |-> last, rule |-> rule, action |-> action,
   candidate |-> candidate, kind |-> kind]

Redact(line, last, candidate) ==
  Finding(line, last, "inspect.secret", "redact", candidate, "secret")

PemEndsAtNextLine(output, n) == IF n < Len(output) THEN n + 1 ELSE n

\* A private key runs to its closing fence, or to the end of the output.
PemEnd(output, n) ==
  LET fences == {m \in n..Len(output) : output[m].secret \in {"end", "block"}}
  IN IF fences = {} THEN Len(output) ELSE Min(fences)

\* One line, unless the finding before it has taken it.
ScanLine(output, entropyCandidates, n, scanned) ==
  LET Found(last, candidate) ==
        [findings |-> Append(scanned.findings, Redact(n, last, candidate)), skipThrough |-> last]
  IN IF n <= scanned.skipThrough THEN scanned
     ELSE CASE output[n].secret \in {"begin", "block"} -> Found(PemEnd(output, n), FALSE)
            [] output[n].secret = "form" -> Found(n, FALSE)
            [] output[n].secret = "candidate" /\ entropyCandidates -> Found(n, TRUE)
            [] OTHER -> scanned

ScanSecrets(output, entropyCandidates) ==
  LET scanned[n \in 0..Len(output)] ==
        IF n = 0 THEN [findings |-> <<>>, skipThrough |-> 0]
        ELSE ScanLine(output, entropyCandidates, n, scanned[n - 1])
  IN scanned[Len(output)].findings

\* Invisible characters are cleaned off their line, anything else masks it.
ScanDetectors(output) ==
  LET Flag(n) == Finding(n, n, output[n].rule,
                         IF output[n].rule = "inspect.invisible" THEN "clean" ELSE "mask",
                         FALSE, output[n].rule)
  IN Picked([n \in DOMAIN output |-> Flag(n)], {n \in DOMAIN output : output[n].rule # "none"})

Findings(output, secrets, entropyCandidates) ==
  (IF secrets THEN ScanSecrets(output, entropyCandidates) ELSE <<>>) \o ScanDetectors(output)

-----------------------------------------------------------------------------
(***************************************************************************)
(* mask.py: from findings to a verdict and a rewrite.                      *)
(***************************************************************************)

Precedence == [redact |-> 0, clean |-> 1, mask |-> 2]

Covers(f, n) == f.line <= n /\ n <= f.last

Covered(findings) == UNION {f.line .. f.last : f \in ToSet(findings)}

\* The position of the finding a line goes to: by precedence, then by order.
Winner(findings, n) ==
  LET on == {i \in DOMAIN findings : Covers(findings[i], n)}
  IN CHOOSE i \in on : \A j \in on \ {i} :
       \/ Precedence[findings[i].action] < Precedence[findings[j].action]
       \/ Precedence[findings[i].action] = Precedence[findings[j].action] /\ i < j

ByLine(findings) == [n \in Covered(findings) |-> findings[Winner(findings, n)]]

\* The findings that keep at least one line, in line order.
Resolve(findings) ==
  LET won  == {Winner(findings, n) : n \in Covered(findings)}
      kept == Picked(findings, won)
  IN Sorted(kept, [i \in DOMAIN kept |-> <<kept[i].line, Precedence[kept[i].action]>>])

Lead(kept) ==
  LET masks == {i \in DOMAIN kept : kept[i].action = "mask"}
  IN IF masks = {} THEN kept[1].rule ELSE kept[Min(masks)].rule

\* What becomes of line n under finding f: a redacted range collapses to its
\* first line.
Rewritten(f, n) ==
  CASE f.action = "clean" -> "cleaned"
    [] f.action = "mask" -> "removed"
    [] f.action = "redact" -> IF n = f.line THEN "redacted" ELSE "gone"

Rewrite(output, findings) ==
  LET byLine == ByLine(findings)
  IN [n \in DOMAIN output |-> IF n \in DOMAIN byLine THEN Rewritten(byLine[n], n) ELSE "raw"]

Raw(output) == [n \in DOMAIN output |-> "raw"]

Span(f) == [start |-> f.line, end |-> f.last, kind |-> f.kind,
            source |-> IF f.rule = "inspect.semantic" THEN "model" ELSE "detector"]

Removable(findings) ==
  {n \in Covered(findings) : findings[Winner(findings, n)].action = "mask"}

Passed == [verdict |-> "pass", text |-> <<>>, rule |-> "none", spans |-> {}, redacted |-> 0]

Dropped(rule) == [verdict |-> "drop", text |-> <<>>, rule |-> rule, spans |-> {}, redacted |-> 0]

\* A mask rewrites the flagged lines; a result more than half of which would go
\* is dropped.
Apply(output, findings) ==
  IF findings = <<>> THEN Passed
  ELSE LET kept == Resolve(findings)
       IN IF 2 * Cardinality(Removable(findings)) > LineCount(output)
          THEN Dropped(Lead(kept))
          ELSE [verdict |-> "mask", text |-> Rewrite(output, findings), rule |-> Lead(kept),
                spans |-> {Span(f) : f \in ToSet(kept)},
                redacted |-> Cardinality({i \in DOMAIN kept : kept[i].action = "redact"})]

\* The lines with only the redactions applied: what the prompt and the stored
\* record are made of, line by line.
RedactedLines(output, findings) ==
  LET redactions == Picked(findings, {i \in DOMAIN findings : findings[i].action = "redact"})
      byLine == ByLine(redactions)
  IN [n \in DOMAIN output |->
        IF n \notin DOMAIN byLine THEN "raw"
        ELSE IF n = byLine[n].line THEN "redacted" ELSE "empty"]

-----------------------------------------------------------------------------
(***************************************************************************)
(* segments.py: the numbered windows the classifier is shown.              *)
(***************************************************************************)

Least(a, b) == IF a < b THEN a ELSE b
Most(a, b) == IF a < b THEN b ELSE a

\* A window around every finding; with none, as much of the head as can fit.
Windows(count, findings, budget) ==
  LET around == [i \in DOMAIN findings |->
                   <<Most(1, findings[i].line - budget.windowLines),
                     Least(count, findings[i].last + budget.windowLines)>>]
  IN IF findings = <<>> THEN <<<<1, Least(count, budget.maxSegments * budget.segmentMaxLines)>>>>
     ELSE Sorted(around, around)

MergeToLaterEnd(merged, w) ==
  IF merged # <<>> /\ w[1] <= Last(merged)[2] + 1
  THEN [merged EXCEPT ![Len(merged)] = <<@[1], w[2]>>]
  ELSE Append(merged, w)

\* A window that overlaps or touches the one before it becomes one with it.
MergeWindow(merged, w) ==
  IF merged # <<>> /\ w[1] <= Last(merged)[2] + 1
  THEN [merged EXCEPT ![Len(merged)] = <<@[1], Most(@[2], w[2])>>]
  ELSE Append(merged, w)

MergeWindows(windows) ==
  LET merged[n \in 0..Len(windows)] ==
        IF n = 0 THEN <<>> ELSE MergeWindow(merged[n - 1], windows[n])
  IN merged[Len(windows)]

Cut(window, maxLines) ==
  LET pieces == (window[2] - window[1]) \div maxLines + 1
      From(i) == window[1] + (i - 1) * maxLines
  IN [i \in 1..pieces |-> <<From(i), Least(window[2], From(i) + maxLines - 1)>>]

Chunks(windows, maxLines) ==
  LET chunks[n \in 0..Len(windows)] ==
        IF n = 0 THEN <<>> ELSE chunks[n - 1] \o Cut(windows[n], maxLines)
  IN chunks[Len(windows)]

\* What a line of the redacted text costs, its newline included.  A rewritten
\* line is taken to keep its width.
Cost(output, text, n) == (IF text[n] = "empty" THEN 0 ELSE output[n].width) + 1

Chars(output, text, from, to) == Total([i \in 1..(to - from + 1) |-> Cost(output, text, from + i - 1)])

FitsBudget(chars, budget) == chars <= budget.maxChars

\* A chunk that does not fit whole keeps the lines that do; one that comes after
\* the last segment, or of which no line fits, is left out.
FitChunk(output, text, budget, fitted, chunk) ==
  LET fitting == {to \in chunk[1]..chunk[2] :
                    FitsBudget(fitted.chars + Chars(output, text, chunk[1], to), budget)}
      last    == Max(fitting)
  IN IF Len(fitted.items) >= budget.maxSegments \/ fitting = {}
     THEN [fitted EXCEPT !.omittedLines = @ + (chunk[2] - chunk[1] + 1)]
     ELSE [items |-> Append(fitted.items, <<chunk[1], last>>),
           chars |-> fitted.chars + Chars(output, text, chunk[1], last),
           omittedLines |-> fitted.omittedLines + (chunk[2] - last)]

\* The chunks in line order until the segments or the characters run out.
Fit(output, text, chunks, budget) ==
  LET fitted[n \in 0..Len(chunks)] ==
        IF n = 0 THEN [items |-> <<>>, chars |-> 0, omittedLines |-> 0]
        ELSE FitChunk(output, text, budget, fitted[n - 1], chunks[n])
  IN fitted[Len(chunks)]

BuildSegments(output, text, findings, budget) ==
  LET windows == MergeWindows(Windows(Len(output), findings, budget))
      fitted  == Fit(output, text, Chunks(windows, budget.segmentMaxLines), budget)
      beyond  == IF findings = <<>> THEN Len(output) - Last(windows)[2] ELSE 0
  IN [fitted EXCEPT !.omittedLines = @ + beyond]

Shown(segments) == UNION {segments.items[i][1] .. segments.items[i][2] : i \in DOMAIN segments.items}

-----------------------------------------------------------------------------
(***************************************************************************)
(* spans.py: what a span of the model must satisfy to be applied.          *)
(***************************************************************************)

ModelSpanKinds == {"instruction", "pipe-exec", "encoded", "invisible"}

WellFormedAnywhere(span, count, segments, budget) ==
  /\ 1 <= span.start /\ span.start <= span.end /\ span.end <= count
  /\ span.end - span.start + 1 <= budget.segmentMaxLines
  /\ span.kind \in ModelSpanKinds

WellFormed(span, count, segments, budget) ==
  /\ 1 <= span.start /\ span.start <= span.end /\ span.end <= count
  /\ span.end - span.start + 1 <= budget.segmentMaxLines
  /\ span.kind \in ModelSpanKinds
  /\ span.start .. span.end \subseteq Shown(segments)

\* Overlaps of one kind merge; of different kinds, the later one is dropped.
MergeSpan(kept, span) ==
  IF kept = <<>> THEN <<span>>
  ELSE LET last == kept[Len(kept)]
       IN IF span.start > last.end THEN Append(kept, span)
          ELSE IF span.kind = last.kind
          THEN [kept EXCEPT ![Len(kept)].end = Most(@, span.end)]
          ELSE kept

MergeSpans(spans) ==
  LET merged[n \in 0..Len(spans)] ==
        IF n = 0 THEN <<>> ELSE MergeSpan(merged[n - 1], spans[n])
  IN merged[Len(spans)]

\* The model's spans as findings; one that fails a condition is discarded.
Validate(spans, count, segments, budget) ==
  LET accepted == Picked(spans, {i \in DOMAIN spans : WellFormed(spans[i], count, segments, budget)})
      merged   == MergeSpans(Sorted(accepted,
                    [i \in DOMAIN accepted |-> <<accepted[i].start, accepted[i].end>>]))
  IN [i \in DOMAIN merged |->
        Finding(merged[i].start, merged[i].end, "inspect.semantic", "mask", FALSE, merged[i].kind)]

-----------------------------------------------------------------------------
(***************************************************************************)
(* reconcile.py: what the classifier's answer may change.                  *)
(***************************************************************************)

UnreleasedAny(findings, unredact) ==
  Picked(findings, {i \in DOMAIN findings :
                      ~(findings[i].action = "redact" /\ findings[i].line \in unredact)})

\* unredact releases a line that was hidden by its entropy alone.
Unreleased(findings, unredact) ==
  Picked(findings, {i \in DOMAIN findings : ~(findings[i].candidate /\ findings[i].line \in unredact)})

Unlifted(kept) == Picked(kept, {i \in DOMAIN kept : kept[i].rule \notin LiftableRules})

LiftsAnything(output, kept, stage1) == Apply(output, Unlifted(kept))

\* A pass leaves stage 1's drop alone; it lifts the findings a detector can get
\* wrong and no others.
Lifted(output, kept, stage1) ==
  IF stage1.verdict = "drop" THEN Dropped(stage1.rule)
  ELSE Apply(output, Unlifted(kept))

\* What stage 2 makes of an answer, or that it cannot be used: a mask without a
\* usable span is an error.
Reconcile(output, findings, stage1, answer, segments, budget) ==
  LET kept  == Unreleased(findings, answer.unredact)
      added == Validate(answer.spans, Len(output), segments, budget)
      Usable(outcome) == [outcome |-> outcome, error |-> FALSE]
  IN CASE answer.verdict = "drop" ->
            Usable(Dropped(IF stage1.rule = "none" THEN "inspect.semantic" ELSE stage1.rule))
       [] answer.verdict = "pass" -> Usable(Lifted(output, kept, stage1))
       [] answer.verdict = "mask" /\ added # <<>> -> Usable(Apply(output, kept \o added))
       [] answer.verdict = "mask" /\ added = <<>> -> [outcome |-> stage1, error |-> TRUE]
=============================================================================
