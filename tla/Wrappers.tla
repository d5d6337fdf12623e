------------------------------ MODULE Wrappers ------------------------------
(***************************************************************************)
(* What a wrapper command does to the argv behind it (shell/wrappers.py,   *)
(* rules/hard_deny/shared.py): env, sudo, timeout, nice and their like run *)
(* something else, and the rules have to look at that.                     *)
(*                                                                         *)
(* A token is a word of the command line.  The patterns a token is matched *)
(* against are sets of tokens, given by the instance.                      *)
(***************************************************************************)
EXTENDS Naturals, Sequences, CommandTable

CONSTANTS MaxWrapperChain,  \* wrapper levels peeled before giving up
          BaseName(_),      \* the last component of a token
          Options,          \* tokens that start with a dash
          InlineOptions,    \* options that carry "=value" in the token
          Assignments,      \* tokens NAME=VALUE
          Durations         \* tokens that look like a duration of timeout

ASSUME WrapperAssumption ==
  /\ MaxWrapperChain \in Nat
  /\ InlineOptions \subseteq Options
  /\ Options \cap (Assignments \cup Durations) = {}

WRAPPER_COMMANDS == CommandsWithRole("wrapper")

\* Stage 1 stops at an escalator, which is what it denies, and looks through
\* xargs, which the normalizer may not.
EFFECTIVE_WRAPPERS == (WRAPPER_COMMANDS \ {"sudo", "doas"}) \cup {"xargs"}

IsWrapped(argv, wrappers) == argv # <<>> /\ BaseName(argv[1]) \in wrappers

\* An option is skipped, but never the token behind it.
SkipsNoValue(argv, name) ==
  LET after[i \in 2..(Len(argv) + 1)] ==
        IF i > Len(argv) \/ argv[i] \notin Options THEN i ELSE after[i + 1]
  IN after[2]

\* Where the wrapper's own options and their separate values end.
AfterOptions(argv, name) ==
  LET after[i \in 2..(Len(argv) + 1)] ==
        IF i > Len(argv) \/ argv[i] \notin Options THEN i
        ELSE IF argv[i] \in SpecFor(name).valueFlags /\ i < Len(argv) THEN after[i + 2]
        ELSE after[i + 1]
  IN after[2]

AfterDuration(argv, name, i) ==
  IF name = "timeout" /\ i <= Len(argv) /\ argv[i] \in Durations THEN i + 1 ELSE i

AfterAssignments(argv, name, i) ==
  IF name # "env" THEN i
  ELSE CHOOSE k \in i..(Len(argv) + 1) :
         /\ \A j \in i..(k - 1) : argv[j] \in Assignments
         /\ k <= Len(argv) => argv[k] \notin Assignments

\* One wrapper level off the argv; nothing when the wrapper names no command.
Peel(argv) ==
  LET name  == BaseName(argv[1])
      start == AfterAssignments(argv, name, AfterDuration(argv, name, AfterOptions(argv, name)))
  IN SubSeq(argv, start, Len(argv))

\* The argv of whatever argv executes, as far as the bound reaches.
ResolveEffectiveArgv(argv, wrappers) ==
  LET tokens[level \in 0..MaxWrapperChain] ==
        IF level = 0 THEN argv
        ELSE IF IsWrapped(tokens[level - 1], wrappers) THEN Peel(tokens[level - 1])
        ELSE tokens[level - 1]
  IN tokens[MaxWrapperChain]

\* Whether a token behind the wrapper could have carried the wrapped command.
ConsumedAPossibleCommand(argv) ==
  LET name == BaseName(argv[1])
  IN \E i \in 2..Len(argv) :
       \/ argv[i] \notin Options /\ ~(name = "env" /\ argv[i] \in Assignments)
       \/ argv[i] \in InlineOptions
       \/ argv[i] \in SpecFor(name).valueFlags

\* Why no rule can evaluate the command, or none.
ChainUnresolved(argv, wrappers) ==
  LET effective == ResolveEffectiveArgv(argv, wrappers)
  IN IF ~IsWrapped(argv, wrappers) THEN "none"
     ELSE IF effective # <<>>
     THEN IF IsWrapped(effective, wrappers) THEN "depth" ELSE "none"
     ELSE IF ConsumedAPossibleCommand(argv) THEN "opaque" ELSE "none"

EffectiveArgv(argv) == ResolveEffectiveArgv(argv, EFFECTIVE_WRAPPERS)
=============================================================================
