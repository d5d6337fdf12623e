---------------------------- MODULE MCNormalize ----------------------------
(***************************************************************************)
(* Every small script: commands behind wrappers, heredocs into shells and  *)
(* into readers, substitutions, pipelines, groups, variables, nested one   *)
(* level past the bound, and commands in the places the walk leaves aside. *)
(* Each command node carries, as "runs", the argv that gets to run, which  *)
(* the walker never looks at and the properties compare its findings with. *)
(***************************************************************************)
EXTENDS Normalize

MCOptions == {"-i", "-n", "-k", "-u", "-S", "-c"}
MCAssignments == {"A=1"}
MCDurations == {"30", "5"}
MCUnresolved == {"$(..)", "$X", "$X/f", "{a,b}"}
MCDevices == {"/dev/null"}
MCPathLike == {"./a", "b/c", "/w/a", "/w/b/c", "/dev/null"}
MCBaseName(t) == IF t = "/bin/bash" THEN "bash" ELSE t
MCPathOf(t) ==
  CASE t \in {"./a", "a"} -> "/w/a"
    [] t \in {"b/c"} -> "/w/b/c"
    [] OTHER -> IF t \in MCPathLike THEN t ELSE "/w/" \o t

-----------------------------------------------------------------------------
Literal(t) == [kind |-> "literal", token |-> t]
Variable == [kind |-> "variable", token |-> "$X", name |-> "X"]
Embedded(t) == [kind |-> "embedded", token |-> t]
Substitution(script) == [kind |-> "substitution", token |-> "$(..)", inner |-> script]

Word(w) == [kind |-> "word", word |-> w]
Words(argv) == [i \in DOMAIN argv |-> Word(Literal(argv[i]))]
Heredoc(script) == [kind |-> "heredoc", body |-> script, quoted |-> TRUE]
Unquoted(script) == [kind |-> "heredoc", body |-> script, quoted |-> FALSE]
Redirect(op, w) == [kind |-> "redirect", op |-> op, word |-> w]
Assign(w) == [kind |-> "assignment", name |-> "X", word |-> w]

Wrapped(prefix, argv) ==
  [kind |-> "command", parts |-> Words(prefix \o argv), runs |-> argv]
Plain(argv) == Wrapped(<<>>, argv)
With(node, parts) ==
  LET words == SelectSeq(parts, LAMBDA q : q.kind = "word")
  IN [node EXCEPT !.parts = @ \o parts,
                  !.runs = @ \o [i \in DOMAIN words |-> words[i].word.token]]
Before(parts, node) == [node EXCEPT !.parts = parts \o @]

Pipeline(nodes) == [kind |-> "pipeline", nodes |-> nodes]
Sequence(nodes) == [kind |-> "sequence", nodes |-> nodes]
GroupTo(nodes, redirects) == [kind |-> "compound", nodes |-> nodes, redirects |-> redirects]
Group(nodes) == GroupTo(nodes, <<>>)
For(words, nodes) == [kind |-> "for", words |-> words, nodes |-> nodes]
Garbage == [kind |-> "garbage"]

-----------------------------------------------------------------------------
\* What may stand before a command and hand it the line's standard input, and
\* one that hides it inside an option.
Invocations ==
  {<<"env">>, <<"env", "A=1">>, <<"env", "-i", "-u", "a", "A=1">>, <<"nice", "-n", "5">>,
   <<"timeout", "30">>, <<"timeout", "-k", "5", "30">>, <<"nohup">>, <<"sudo", "-u", "a">>}

Chained == Invocations \cup {p \o q : p, q \in Invocations}
           \cup {<<"env", "nice", "-n", "5", "timeout", "30">>}

Hidden == [kind |-> "command", parts |-> Words(<<"env", "-S", "rm a">>), runs |-> <<"rm a">>]
Bare == [kind |-> "command", parts |-> Words(<<"env", "-i", "A=1">>), runs |-> <<>>]

Leaf == {Plain(<<"cat", "a">>), Plain(<<"rm", "b/c">>), Plain(<<"curl", "u">>)}
Shells == {Plain(<<"bash">>), Plain(<<"/bin/bash">>), Plain(<<"xargs", "bash">>),
           Wrapped(<<"env", "A=1">>, <<"bash">>),
           Wrapped(<<"timeout", "-k", "5", "30">>, <<"bash">>),
           Wrapped(<<"nice", "-n", "5", "env", "A=1">>, <<"sh">>)}
Python == Plain(<<"python">>)

Alone(S) == {<<node>> : node \in S}
Carries(readers, scripts) == {With(r, <<Heredoc(b)>>) : r \in readers, b \in scripts}
Echoes(scripts) == {With(Plain(<<"echo">>), <<Word(Substitution(b))>>) : b \in scripts}
WritesTo(scripts) == {With(Plain(<<"cat">>), <<Redirect(">", Substitution(b))>>) : b \in scripts}

Level1 ==
  Carries(Shells \cup {Plain(<<"cat", "a">>)}, Alone(Leaf) \cup {<<Garbage>>})
  \cup Echoes(Alone(Leaf)) \cup WritesTo(Alone({Plain(<<"rm", "b/c">>)}))

Piped(S, T) == {Pipeline(<<x, y>>) : x \in S, y \in T}

Inner == Level1 \cup Piped(Leaf \cup Level1, {Plain(<<"bash">>), Plain(<<"cat">>)})

\* Two levels deep, and three, which is past the bound.
Level2 == Carries({Plain(<<"bash">>), Plain(<<"cat">>)}, Alone(Inner)) \cup Echoes(Alone(Inner))
Level3 ==
  LET some == Echoes(Alone(Level1)) IN
    Carries({Plain(<<"bash">>), Plain(<<"cat">>)}, Alone(some)) \cup Echoes(Alone(some))

Elements == Leaf \cup Level1 \cup {Python, Group(<<Plain(<<"bash">>)>>)}
            \cup Shells

Chains == {Wrapped(p, <<c>>) : p \in Chained, c \in {"bash", "rm"}} \cup {Hidden, Bare}

Pipelines ==
  Piped(Elements, Elements)
  \cup {Pipeline(<<x, y, z>>) : x \in Leaf \cup Carries({Plain(<<"cat">>)}, Alone(Leaf)),
                                y \in {Plain(<<"cat">>), Group(<<Plain(<<"cat">>)>>)},
                                z \in Shells \cup {Python}}
  \cup {Pipeline(<<Plain(<<"curl", "u">>), c>>) : c \in Chains}

\* What stands around a script.
Around(S) ==
  {<<Sequence(<<x, Plain(<<"ls">>)>>)>> : x \in S}
  \cup {<<Group(<<x>>), Plain(<<"ls">>)>> : x \in S}
  \cup {<<For(<<Literal("a")>>, <<x>>)>> : x \in S}

\* Lines that assign and use a variable, redirect, and quote a marker.
Values == {Literal("a"), Literal("bash"), Variable, Literal("/dev/null"),
           Substitution(<<Plain(<<"rm", "b/c">>)>>)}
Uses ==
  {With(Plain(<<"cat">>), <<Word(w)>>) :
     w \in {Variable, Embedded("$X/f"), Embedded("{a,b}"), Literal("$X"), Literal("-n")}}
  \cup {With(Plain(<<c, "./a">>), <<Redirect(op, w)>>) :
          c \in {"cat", "echo"}, op \in {"<", ">"},
          w \in {Variable, Embedded("$X/f"), Literal("$X"), Literal("b/c"),
                 Literal("/dev/null")}}
Lines ==
  {<<u>> : u \in Uses} \cup {<<Before(<<Assign(v)>>, u)>> : u \in Uses, v \in Values}
  \cup {<<[kind |-> "command", parts |-> <<Assign(v)>>, runs |-> <<>>], u>> :
           u \in Uses, v \in Values}

\* Scripts with a command, or a target, where the walk does not look.
Removes == <<Plain(<<"rm", "b/c">>)>>
Hiding ==
  {GroupTo(<<x>>, <<r>>) :
     x \in {Plain(<<"echo", "a">>), Plain(<<"bash">>)},
     r \in {Redirect(">", Literal("b/c")), Redirect(">", Substitution(Removes)), Heredoc(Removes)}}
  \cup {For(<<Literal("a"), Substitution(Removes)>>, <<x>>) : x \in Leaf}
  \cup {With(x, <<Unquoted(Echoed)>>) :
          x \in {Plain(<<"bash">>), Plain(<<"cat">>)}, Echoed \in Alone(Echoes({Removes}))}
  \cup {Group(<<x>>) : x \in Carries({Plain(<<"cat">>)}, {Removes})}
Hidings == Alone(Hiding \cup Piped(Hiding, {Plain(<<"bash">>), Plain(<<"cat">>)}))
           \cup Alone(Echoes(Alone(Hiding)))

Scripts ==
  Alone(Level1 \cup Level2 \cup Level3 \cup Chains \cup Pipelines \cup {Garbage})
  \cup Around(Level1 \cup Piped(Level1, Shells)) \cup Lines \cup Hidings
  \cup {<<With(c, <<Heredoc(<<Plain(<<"rm", "b/c">>)>>)>>)>> : c \in Chains}

MCRequests ==
  [tool : {"shell"}, script : Scripts]
  \cup [tool : {"file_read", "file_write"},
        paths : (SUBSET {"./a", "b/c", "$X/f", "{a,b}"}) \ {{}}]

-----------------------------------------------------------------------------
\* The reference reading of a script, from the nodes themselves.  Commands the
\* shell runs stand also in places the walk leaves aside, and the reading takes
\* a set of them along:
\*   "assignment"        a substitution in the word a variable is given
\*   "loop words"        a substitution in the words of a for
\*   "compound redirect" substitutions and bodies in the redirects of a compound
\*   "through compound"  a body that reaches a shell in, or from, a compound
\*   "expanded body"     a substitution in a body with an unquoted delimiter
Places == {"assignment", "loop words", "compound redirect", "through compound", "expanded body"}

\* The shells, and what downloads or interprets, among the commands above.
ShellNames == {"bash", "sh"}
Downloaders == {"curl"}
Interpreters == ShellNames \cup {"python"}

IsCommand(node) == node.kind = "command"
ReadsCode(node) == IsCommand(node) /\ node.runs # <<>> /\ MCBaseName(node.runs[1]) \in ShellNames

RECURSIVE HasShell(_)
HasShell(node) ==
  IF node.kind \in {"command", "garbage"} THEN ReadsCode(node)
  ELSE \E i \in DOMAIN node.nodes : HasShell(node.nodes[i])

OfKind(parts, kind) == {parts[i] : i \in {j \in DOMAIN parts : parts[j].kind = kind}}
InnerOf(words) == {w.inner : w \in {v \in words : v.kind = "substitution"}}
WordsOf(parts, kinds) == {p.word : p \in UNION {OfKind(parts, kind) : kind \in kinds}}
Inside(parts) == InnerOf(WordsOf(parts, {"word", "redirect"}))
Expanded(body) == UNION {Inside(node.parts) : node \in {n \in Range(body) : IsCommand(n)}}

\* The scripts one level below a command's parts, given whether a shell reads
\* its bodies.
Below(parts, read, places) ==
  Inside(parts)
  \cup (IF read THEN {p.body : p \in OfKind(parts, "heredoc")} ELSE {})
  \cup (IF "assignment" \in places THEN InnerOf(WordsOf(parts, {"assignment"})) ELSE {})
  \cup (IF "expanded body" \in places
        THEN UNION {Expanded(p.body) : p \in {q \in OfKind(parts, "heredoc") : ~q.quoted}}
        ELSE {})

RECURSIVE PipelinesOf(_, _, _)

\* The pipelines the shell runs, each a sequence of nodes (a command alone is
\* one of length one), whether they stand on the line, in a substitution or in
\* a body a shell of the same pipeline reads; and those of the given places.
\* piped: a shell stands in the pipeline these nodes are a compound's part of.
PipelinesOf(nodes, piped, places) ==
  LET all(scripts) == UNION {PipelinesOf(b, FALSE, places) : b \in scripts}
      of(node) ==
        IF node.kind = "garbage" THEN {}
        ELSE IF node.kind \in {"command", "pipeline"}
        THEN LET line == IF IsCommand(node) THEN <<node>> ELSE node.nodes
                 through == "through compound" \in places
                 read == \/ piped
                         \/ \E i \in DOMAIN line :
                              IF through THEN HasShell(line[i]) ELSE ReadsCode(line[i])
                 own  == {i \in DOMAIN line : IsCommand(line[i])}
             IN {line}
                \cup UNION {PipelinesOf(<<line[i]>>, through /\ read, places) : i \in DOMAIN line \ own}
                \cup UNION {all(Below(line[i].parts, read, places)) : i \in own}
        ELSE PipelinesOf(node.nodes, piped, places)
             \cup (IF node.kind = "for" /\ "loop words" \in places
                   THEN all(InnerOf(Range(node.words))) ELSE {})
             \cup (IF node.kind = "compound" /\ "compound redirect" \in places
                   THEN all(Below(node.redirects, piped \/ HasShell(node), places)) ELSE {})
  IN UNION {of(nodes[i]) : i \in DOMAIN nodes}

\* The reading of what the walk looks at.
ReadPipelines(nodes) == PipelinesOf(nodes, FALSE, {})

RECURSIVE ReadDepth(_)

\* How deep the bodies and substitutions that are read nest.
ReadDepth(nodes) ==
  LET of(node) ==
        IF node.kind = "garbage" THEN 0
        ELSE IF node.kind \in {"command", "pipeline"}
        THEN LET line == IF IsCommand(node) THEN <<node>> ELSE node.nodes
                 read == \E i \in DOMAIN line : ReadsCode(line[i])
                 own  == {i \in DOMAIN line : IsCommand(line[i])}
             IN Max({0} \cup {ReadDepth(<<line[i]>>) : i \in DOMAIN line \ own}
                        \cup UNION {{1 + ReadDepth(b) : b \in Below(line[i].parts, read, {})} : i \in own})
        ELSE ReadDepth(node.nodes)
  IN Max({0} \cup {of(nodes[i]) : i \in DOMAIN nodes})

RECURSIVE ReadsGarbage(_)
ReadsGarbage(nodes) ==
  \/ \E i \in DOMAIN nodes : nodes[i].kind = "garbage"
  \/ \E i \in DOMAIN nodes :
       LET node == nodes[i] IN
         IF node.kind \in {"command", "pipeline"}
         THEN LET line == IF IsCommand(node) THEN <<node>> ELSE node.nodes
                  read == \E k \in DOMAIN line : ReadsCode(line[k])
              IN \E k \in DOMAIN line :
                   IF IsCommand(line[k]) THEN \E b \in Below(line[k].parts, read, {}) : ReadsGarbage(b)
                   ELSE ReadsGarbage(<<line[k]>>)
         ELSE node.kind # "garbage" /\ ReadsGarbage(node.nodes)

CommandsIn(lines) == UNION {{n \in Range(line) : IsCommand(n)} : line \in lines}
ReadCommands(nodes) == CommandsIn(ReadPipelines(nodes))

Answered == request.tool = "shell" /\ action # NotYet
Understood == Answered /\ ~action.unparseable

\* Stage 1 says of some command that it cannot be unwrapped, or that it
\* escalates: either way the line is not let through unread.
Reported ==
  \E i \in DOMAIN action.commands :
    LET argv == action.commands[i].argv
    IN \/ ChainUnresolved(argv, EFFECTIVE_WRAPPERS) # "none"
       \/ EffectiveArgv(argv) # <<>>
          /\ EffectiveArgv(argv)[1] \in CommandsWithRole("escalator")

\* A walked argv is the node's words, a variable standing for any value.
IsWalkOf(argv, node) ==
  LET words == PeekWords(node)
  IN Len(argv) = Len(words) /\ \A i \in DOMAIN words : words[i] \in {argv[i], "$X"}

\* The normal form names every command that stands where the walk looks, and no
\* other: on the line, in a substitution among a command's words and redirects,
\* and in a body exactly when a shell stands directly in its pipeline
\* (normalize/shell.py, _Walker.walk).  What runs from an assignment is only
\* announced by has_env_assign, and what runs from a body through a compound, or
\* because the delimiter is not quoted, only by has_heredoc.  What runs from the
\* words of a for or the redirects of a compound is neither named nor announced.
NormalFormIsTheScript ==
  Understood /\ ~Reported =>
    LET run(places) == {n \in CommandsIn(PipelinesOf(request.script, FALSE, places)) :
                          PeekWords(n) # <<>>}
        read == run({})
        more(places) == run(places) \ read
    IN /\ \A n \in read : \E c \in Range(action.commands) : IsWalkOf(c.argv, n)
       /\ \A c \in Range(action.commands) : \E n \in read : IsWalkOf(c.argv, n)
       /\ more({"assignment"}) # {} => "env-assign" \in action.flags
       /\ more({"through compound", "expanded body"}) # {} => "heredoc" \in action.flags

\* An action that could not be read to the end, because a text does not parse
\* or nests past the bound, keeps nothing of what was read before, and nothing
\* else is refused (normalize_shell: no partial result survives a failure).
FailsAsAWhole ==
  /\ Answered /\ ~Reported =>
       (action.unparseable <=> \/ ReadsGarbage(request.script)
                               \/ ReadDepth(request.script) > MaxNestingDepth)
  /\ Answered /\ action.unparseable =>
       action.commands = <<>> /\ action.paths = {} /\ action.flags = {}

\* Two commands carry one number exactly when they stand directly in one
\* pipeline, also when bodies and substitutions between them are numbered
\* (normalize/shell.py, _next_pipeline; what by_pipeline relies on).
OnePipelineOneNumber ==
  Understood /\ ~Reported =>
    LET group(p) == SelectSeq(action.commands, LAMBDA c : c.pipeline = p)
        own(line) == SelectSeq(line, LAMBDA n : IsCommand(n) /\ PeekWords(n) # <<>>)
        isWalk(g, line) == Len(g) = Len(line) /\ \A i \in DOMAIN g : IsWalkOf(g[i].argv, line[i])
        groups == {group(c.pipeline) : c \in Range(action.commands)}
        lines  == {own(line) : line \in ReadPipelines(request.script)} \ {<<>>}
    IN /\ \A g \in groups : \E line \in lines : isWalk(g, line)
       /\ \A line \in lines : \E g \in groups : isWalk(g, line)

\* A file a command is told to read or write, by its arguments or its own
\* redirects, is among the paths, or the action says that something could not be
\* resolved; a variable may stand for the file it was given on the line, and the
\* action says so (normalize/shell.py, _collect_paths; normalize/__init__.py,
\* _file_action).  The redirects of a compound are not a command's: they are
\* neither listed nor announced.
DroppedPathsAreFlagged ==
  LET given == UNION {WordsOf(n.parts, {"assignment"}) : n \in ReadCommands(request.script)}
      lists(token) == token \in Devices \cup Options \/ PathOf(token) \in action.paths
      listed(w) ==
        \/ "unresolved" \in action.flags
        \/ w.kind = "literal" /\ lists(w.token)
        \/ /\ w.kind = "variable" /\ "env-assign" \in action.flags
           /\ \E v \in given : lists(v.token)
      args(n) == LET words == SelectSeq(n.parts, LAMBDA p : p.kind = "word")
                 IN {words[i].word : i \in 2 .. Len(words)}
  IN /\ Understood => \A n \in ReadCommands(request.script) :
          /\ \A w \in WordsOf(n.parts, {"redirect"}) : listed(w)
          /\ PeekWords(n) # <<>> /\ PeekWords(n)[1] = "cat" => \A w \in args(n) : listed(w)
     /\ action # NotYet /\ request.tool # "shell" =>
          \/ "unresolved" \in action.flags
          \/ {PathOf(t) : t \in request.paths} = action.paths

\* Looking past the wrappers finds the command that runs, or says that it
\* cannot: it never takes another token for the command (shell/wrappers.py).
UnwrappingFindsTheCommand ==
  Understood => \A n \in ReadCommands(request.script) :
    \/ ResolveEffectiveArgv(PeekWords(n), WRAPPER_COMMANDS) = n.runs
    \/ ChainUnresolved(PeekWords(n), WRAPPER_COMMANDS) # "none"

\* A download piped into an interpreter further down the same pipeline reaches
\* stage 1, through any wrappers and at any level that is read, where both stand
\* directly in the pipeline and are called by their bare names
\* (rules/hard_deny/pipe_exec.py over normalize/shell.py and shell/wrappers.py).
\* An interpreter called by its path, or standing in a compound, is not seen.
PipedDownloadIsCaught ==
  LET runs(n, names) == IsCommand(n) /\ n.runs # <<>> /\ n.runs[1] \in names
  IN Understood /\ (\E line \in ReadPipelines(request.script) :
                      \E i \in DOMAIN line : \E j \in i + 1 .. Len(line) :
                        runs(line[i], Downloaders) /\ runs(line[j], Interpreters))
       => PipeExecMatches(action) \/ Reported
=============================================================================
