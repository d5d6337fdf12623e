------------------------------ MODULE Normalize ------------------------------
(***************************************************************************)
(* From a shell line to the facts the rules reason about                   *)
(* (normalize/shell.py).  The parser is outside: a line is the tree it     *)
(* returns, and the walk over that tree is modelled branch by branch.      *)
(*                                                                         *)
(* A script is a sequence of nodes.  A node is a command, a pipeline, a    *)
(* compound (a group or subshell with its redirects), a sequence (list,    *)
(* if, while, until, function), a for with its word list, or garbage, which*)
(* no parse returns: a text that holds it fails to parse.                  *)
(*                                                                         *)
(* A command's parts are assignments, words and redirects, and so are the  *)
(* redirects of a compound.  An assignment holds a word.  A word is a      *)
(* token and how it came to be: literal (quotes keep a marker literal),    *)
(* variable ($NAME alone), embedded (a marker inside a longer token, a     *)
(* ~user or a brace expansion), or a substitution with the script in it.   *)
(* A heredoc's body is a script, with its delimiter quoted or not, and so  *)
(* is a here-string, whose own substitutions are left out.                 *)
(***************************************************************************)
EXTENDS Wrappers, SequencesExt

CONSTANTS MaxNestingDepth,  \* bound on the descent into bodies and substitutions
          Unresolved,       \* tokens with a $, ~user or {a,b} in them
          Devices,          \* tokens under /dev/
          PathLike,         \* tokens that look like a path
          Globs,            \* tokens that start with *
          PathOf(_),        \* the absolute, normalized path of a token
          Requests          \* the calls to normalize

VARIABLES request, action

vars == <<request, action>>

EvalLike == {"eval", "exec", "source", "."}

\* The walker: what it remembers and what it has collected so far.
NewWalker ==
  [assignments |-> <<>>, depth |-> 0, commands |-> <<>>, pipelines |-> 0,
   flags |-> {}, failed |-> FALSE]

Flag(s, f) == [s EXCEPT !.flags = @ \cup {f}]

\* The literal words of a command that has not been walked yet.
PeekWords(node) ==
  LET words == SelectSeq(node.parts, LAMBDA p : p.kind = "word")
  IN [i \in DOMAIN words |-> words[i].word.token]

\* Whether an argv names a shell once its wrappers are looked past.
ShellAfterWrappers(argv) ==
  LET resolved == ResolveEffectiveArgv(argv, WRAPPER_COMMANDS)
  IN resolved # <<>> /\ BaseName(resolved[1]) \in CommandsWithRole("shell")

LooksOnlyAtTheFirst(nodes) == nodes[1].kind = "command" /\ ShellAfterWrappers(PeekWords(nodes[1]))

\* Only the commands standing directly in the pipeline are looked at.
PipelineHasShell(nodes) ==
  \E i \in DOMAIN nodes : nodes[i].kind = "command" /\ ShellAfterWrappers(PeekWords(nodes[i]))

RECURSIVE Walk(_, _, _), WalkAll(_, _), WalkParts(_, _, _), CommandParts(_, _),
          ParseAndWalkBodies(_, _)

WalkAll(nodes, s) ==
  IF nodes = <<>> THEN s ELSE WalkAll(Tail(nodes), Walk(Head(nodes), 0, s))

\* The descent does not count its levels.
NestedWithoutBound(nodes, s) == WalkAll(nodes, s)

\* One level of our own descent: past the bound the whole action fails.
Nested(nodes, s) ==
  IF s.depth + 1 > MaxNestingDepth THEN [s EXCEPT !.depth = @ + 1, !.failed = TRUE]
  ELSE [WalkAll(nodes, [s EXCEPT !.depth = @ + 1]) EXCEPT !.depth = s.depth]

\* Each body is parsed and walked as a script of its own.
ParseAndWalkBodies(bodies, s) ==
  IF bodies = <<>> THEN s ELSE ParseAndWalkBodies(Tail(bodies), Nested(Head(bodies), s))

Assigned(s, name) == name \in DOMAIN s.assignments

\* The value of a word and the walker after it: a substitution is walked like
\* any command, a variable takes the value assigned on the same line.
WordValue(word, s) ==
  CASE word.kind = "substitution" ->
         [token |-> word.token, s |-> Nested(word.inner, Flag(s, "subst"))]
    [] word.kind = "variable" /\ Assigned(s, word.name) ->
         [token |-> s.assignments[word.name], s |-> Flag(s, "env-assign")]
    [] word.kind = "variable" \/ word.kind = "embedded" ->
         [token |-> word.token, s |-> Flag(s, "unresolved")]
    [] OTHER -> [token |-> word.token, s |-> s]

\* One part of a command into the command being built.  An assigned word is
\* taken as it is written: what a substitution in it runs is not walked.  A
\* body goes to the caller, who knows whether a shell will read it.
CommandPart(c, part) ==
  CASE part.kind = "assignment" ->
         [c EXCEPT !.s = [Flag(c.s, "env-assign") EXCEPT !.assignments =
                            (part.name :> part.word.token) @@ @]]
    [] part.kind = "word" ->
         LET value == WordValue(part.word, c.s)
         IN [c EXCEPT !.s = value.s, !.argv = Append(@, value.token)]
    [] part.kind = "heredoc" ->
         [c EXCEPT !.s = Flag(@, "heredoc"), !.bodies = Append(@, part.body)]
    [] part.kind = "redirect" ->
         LET value  == WordValue(part.word, c.s)
             target == IF value.token \in Devices \cup Unresolved THEN value.token
                       ELSE PathOf(value.token)
         IN [c EXCEPT !.s = IF value.token \in Unresolved \ Devices
                            THEN Flag(value.s, "unresolved") ELSE value.s,
                      !.redirects = Append(@, [op |-> part.op, target |-> target])]
    [] part.kind = "duplicate" -> c

CommandParts(parts, c) ==
  IF parts = <<>> THEN c ELSE CommandParts(Tail(parts), CommandPart(c, Head(parts)))

\* One command from its node: the walker after it, its bodies and its argv.
Command(node, pid, s) ==
  LET built == CommandParts(node.parts,
                            [s |-> s, argv |-> <<>>, redirects |-> <<>>, bodies |-> <<>>])
      flagged == IF built.argv # <<>> /\ built.argv[1] \in EvalLike
                 THEN Flag(built.s, "eval") ELSE built.s
      simple == [argv |-> built.argv, redirects |-> built.redirects, pipeline |-> pid,
                 bodies |-> built.bodies]
  IN [s |-> IF built.argv = <<>> THEN flagged
            ELSE [flagged EXCEPT !.commands = Append(@, simple)],
      bodies |-> built.bodies, argv |-> built.argv]

\* A part of a pipeline: a direct command has its number, and its bodies wait;
\* any other is walked on its own.
PipelinePart(part, pid, sofar) ==
  IF part.kind = "command"
  THEN LET c == Command(part, pid, sofar.s)
       IN [s |-> c.s, pending |-> sofar.pending \o c.bodies]
  ELSE [sofar EXCEPT !.s = Walk(part, pid, @)]

WalkParts(parts, pid, sofar) ==
  IF parts = <<>> THEN sofar
  ELSE WalkParts(Tail(parts), pid, PipelinePart(Head(parts), pid, sofar))

\* The bodies are read only if one of the direct commands is a shell.
WalkPipeline(node, s) ==
  LET pid == s.pipelines + 1
      end == WalkParts(node.nodes, pid, [s |-> [s EXCEPT !.pipelines = pid], pending |-> <<>>])
  IN IF PipelineHasShell(node.nodes) THEN ParseAndWalkBodies(end.pending, end.s) ELSE end.s

\* A command of its own is given the number of the pipeline before it.
TakesTheLastNumber(node, pid, s) ==
  LET c == Command(node, IF pid # 0 THEN pid ELSE s.pipelines, s)
  IN IF ShellAfterWrappers(c.argv) THEN ParseAndWalkBodies(c.bodies, c.s) ELSE c.s

\* A command on its own is a pipeline of one.
WalkCommand(node, pid, s) ==
  LET own == IF pid # 0 THEN pid ELSE s.pipelines + 1
      c   == Command(node, own, IF pid # 0 THEN s ELSE [s EXCEPT !.pipelines = own])
  IN IF ShellAfterWrappers(c.argv) THEN ParseAndWalkBodies(c.bodies, c.s) ELSE c.s

\* A for is walked like any list: its body's commands are, the words it runs
\* over are not, and neither are the redirects of a compound.
Walk(node, pid, s) ==
  CASE node.kind = "pipeline" -> WalkPipeline(node, s)
    [] node.kind = "command"  -> WalkCommand(node, pid, s)
    [] node.kind = "garbage"  -> [s EXCEPT !.failed = TRUE]
    [] OTHER                  -> WalkAll(node.nodes, s)

-----------------------------------------------------------------------------
\* The path argument i of the command names, or {}.
ArgumentPath(argv, i) ==
  LET spec == SpecFor(argv[1])
  IN IF spec.paths = "undeclared"
     THEN IF argv[i] \in PathLike THEN {PathOf(argv[i])} ELSE {}
     ELSE IF \/ argv[i] \in Options
             \/ i > 2 /\ argv[i - 1] \in spec.valueFlags
             \/ spec.paths = "search-roots" /\ argv[i] \in Globs
     THEN {} ELSE {PathOf(argv[i])}

\* The redirect targets a path policy needs to see.
Targets(c) == {r.target : r \in Range(c.redirects)} \ Devices

\* Every path the commands name.
NamedPaths(commands) ==
  LET args(c) == {i \in 2..Len(c.argv) : c.argv[i] \notin Unresolved}
  IN UNION {UNION {ArgumentPath(c.argv, i) : i \in args(c)} \cup (Targets(c) \ Unresolved) :
              c \in Range(commands)}

LooksAtTargetsOnly(commands) == \E c \in Range(commands) : Targets(c) \cap Unresolved # {}

\* Whether a path had to be dropped because it needs the running shell's state.
DropsAPath(commands) ==
  \E c \in Range(commands) :
    \/ \E i \in 2..Len(c.argv) : c.argv[i] \in Unresolved
    \/ Targets(c) \cap Unresolved # {}

\* A failure anywhere fails the whole action: no partial result survives it.
NormalizeShell(script) ==
  LET s == WalkAll(script, NewWalker)
  IN IF s.failed
     THEN [unparseable |-> TRUE, commands |-> <<>>, paths |-> {}, flags |-> {}]
     ELSE [unparseable |-> FALSE, commands |-> s.commands,
           paths |-> NamedPaths(s.commands),
           flags |-> s.flags \cup (IF DropsAPath(s.commands) THEN {"unresolved"} ELSE {})]

\* A file call: a path that needs runtime state is dropped and flagged.
NormalizeFiles(tokens) ==
  [unparseable |-> FALSE, commands |-> <<>>,
   paths |-> {PathOf(t) : t \in tokens \ Unresolved},
   flags |-> IF tokens \cap Unresolved # {} THEN {"unresolved"} ELSE {}]

NotYet == [unparseable |-> FALSE, commands |-> <<>>, paths |-> {}, flags |-> {"pending"}]

Init == request \in Requests /\ action = NotYet

Normalize ==
  /\ action = NotYet
  /\ action' = IF request.tool = "shell" THEN NormalizeShell(request.script)
               ELSE NormalizeFiles(request.paths)
  /\ UNCHANGED request

Next == Normalize

Spec == Init /\ [][Next]_vars

-----------------------------------------------------------------------------
\* What the pipe-exec rule looks for: in one pipeline a downloader and, behind
\* it, an interpreter; or a shell -c line whose substitution downloads.
PipeExecMatches(n) ==
  LET exe(c) == LET argv == EffectiveArgv(c.argv) IN IF argv = <<>> THEN "" ELSE argv[1]
      at(i)  == n.commands[i]
      downloads(c) == exe(c) \in CommandsWithRole("downloader")
  IN \/ \E i \in DOMAIN n.commands : \E j \in i + 1 .. Len(n.commands) :
          /\ at(i).pipeline = at(j).pipeline
          /\ downloads(at(i))
          /\ exe(at(j)) \in CommandsWithRole("interpreter")
     \/ /\ "subst" \in n.flags
        /\ \E i, j \in DOMAIN n.commands :
             /\ exe(at(i)) \in CommandsWithRole("shell")
             /\ "-c" \in Range(EffectiveArgv(at(i).argv))
             /\ downloads(at(j))
=============================================================================
