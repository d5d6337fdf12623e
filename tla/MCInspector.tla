---------------------------- MODULE MCInspector ----------------------------
(***************************************************************************)
(* The inspect route on short outputs that combine every kind of line, and *)
(* on a few outputs inspected at the same time.                            *)
(***************************************************************************)
EXTENDS Inspector

CONSTANTS c1, c2, c3

MCCalls == {c1, c2, c3}
Symmetry == Permutations({c2, c3})

LineOf(rule, secret) == [rule |-> rule, secret |-> secret, width |-> 1]

Blank == [rule |-> "none", secret |-> "none", width |-> 0]
Plain == LineOf("none", "none")
Injected == LineOf("inspect.injection", "none")
Random == LineOf("none", "candidate")

Kinds == {Blank, Plain, Injected, LineOf("inspect.encoded", "none"),
          LineOf("inspect.invisible", "none"), LineOf("none", "form"), Random,
          LineOf("inspect.injection", "candidate"), LineOf("none", "begin"), LineOf("none", "end")}

Request(profile, output, context, candidates) ==
  [profile |-> profile, output |-> output, context |-> context, candidates |-> candidates]

\* Every output of one or two lines, of three lines of seven kinds, and longer
\* ones for the windows.
MCOutputs ==
  [1..1 -> Kinds] \cup [1..2 -> Kinds] \cup [1..5 -> {Plain, Injected}]
  \cup [1..3 -> Kinds \ {Blank, LineOf("inspect.injection", "candidate"), LineOf("inspect.invisible", "none")}]

MCLoneRequests ==
  {Request("always", output, "task", TRUE) : output \in MCOutputs}
  \cup {Request(profile, output, "task", FALSE) :
          profile \in {"tight", "flag", "off"}, output \in [1..2 -> Kinds] \cup [1..5 -> {Plain, Injected}]}

Budget(window, segments, lines, chars) ==
  [windowLines |-> window, maxSegments |-> segments, segmentMaxLines |-> lines, maxChars |-> chars]

MCKnown(profile) == profile # "missing"

MCSettings(profile) ==
  CASE profile = "always" ->
         [secrets |-> TRUE, classifier |-> "always", hasModel |-> TRUE, budget |-> Budget(0, 2, 2, 6)]
    [] profile = "tight" ->
         [secrets |-> TRUE, classifier |-> "always", hasModel |-> TRUE, budget |-> Budget(1, 2, 2, 5)]
    [] profile = "flag" ->
         [secrets |-> FALSE, classifier |-> "on-flag", hasModel |-> FALSE, budget |-> Budget(1, 2, 2, 6)]
    [] profile = "off" ->
         [secrets |-> TRUE, classifier |-> "off", hasModel |-> TRUE, budget |-> Budget(1, 2, 2, 6)]

ModelSpan(start, end, kind) == [start |-> start, end |-> end, kind |-> kind]

Ranges(output) == {p \in (1..3) \X (1..4) : p[1] <= p[2] /\ p[2] <= Len(output) + 1}

\* The results inspected at the same time: one from two contexts, a clean one,
\* one that no model judges and one under an unknown profile.
Wide(line) == [line EXCEPT !.width = 2]
Shared == <<Wide(Injected), Plain>>

MCSharedRequests ==
  {Request("always", Shared, context, TRUE) : context \in {"task", "other"}}
  \cup {Request("off", <<Wide(Plain)>>, "task", FALSE), Request("flag", Shared, "task", FALSE),
        Request("missing", <<Wide(Plain)>>, "task", FALSE)}

MCRequests == MCLoneRequests \cup MCSharedRequests

MCSharedAnswers ==
  {[verdict |-> "pass", spans |-> <<>>, unredact |-> {}],
   [verdict |-> "mask", spans |-> <<ModelSpan(1, 1, "instruction")>>, unredact |-> {}],
   [verdict |-> "mask", spans |-> <<>>, unredact |-> {}]}

MCAnswers(output) ==
  LET spans == {ModelSpan(p[1], p[2], "instruction") : p \in Ranges(output)}
      pairs == {<<ModelSpan(p[1], p[2], "instruction"), ModelSpan(q[1], q[2], kind)>> :
                  p \in Ranges(output), q \in {<<1, 1>>, <<2, 3>>}, kind \in {"instruction", "encoded"}}
  IN IF output = Shared THEN MCSharedAnswers
     ELSE [verdict : {"pass", "drop"}, spans : {<<>>}, unredact : {{}, 1..Len(output)}]
          \cup [verdict : {"mask"}, spans : {<<>>} \cup {<<s>> : s \in spans} \cup pairs,
                unredact : {{}, 1..Len(output)}]

\* A result that is not shared is inspected alone, at one instant.
Alone == /\ call[c1].phase # "new"
         /\ call[c1].request \in MCLoneRequests

MCNext ==
  \/ \E r \in MCLoneRequests :
       clock = 0 /\ call = [c \in Calls |-> NoCall] /\ Begin(c1, r)
  \/ ~Alone /\ \E c \in Calls, r \in MCSharedRequests : Begin(c, r)
  \/ \E c \in Calls : ClassifierAnswers(c) \/ ClassifierFails(c)
  \/ ~Alone /\ Tick

MCSpec == Init /\ [][MCNext]_vars
=============================================================================
