---------------------------- MODULE MCRuleChain ----------------------------
(***************************************************************************)
(* Stage 1 as the service assembles it: the chain of Stage1.tla run by the *)
(* loop of RuleChain.tla over every action of one or two parts.            *)
(***************************************************************************)
EXTENDS RuleChain, Stage1Actions

\* The commands of a shell line.  A command that stays wrapped shows the
\* hard-deny rules nothing, but its redirects and the user's patterns do see it.
Command ==
  {[Plain EXCEPT !.shape = s] : s \in HardShape}
  \cup {[Plain EXCEPT !.push = b] : b \in {"ambiguous", "protected"}}
  \cup {[Plain EXCEPT !.wrapper = w, !.outside = o, !.writes = o] :
           w \in {"depth", "opaque"}, o \in BOOLEAN}
  \cup {[Plain EXCEPT !.writes = TRUE, !.outside = o] : o \in BOOLEAN}
  \cup {[Plain EXCEPT !.host = h, !.read = r] :
           h \in {"listed", "unlisted"}, r \in {"no", "network", "prefix"}}
  \cup {[Plain EXCEPT !.read = r] : r \in {"no", "readonly", "prefix"}}

\* The user's patterns a command of a longer line matches.
UserPatterns == {{}, {"deny"}, {"ask"}, {"allow"}, {"ask", "allow"}}

ClientMatched(S, patterns) == {[c EXCEPT !.client = k] : c \in S, k \in patterns}

Pairs(S, T) == {<<x, y>> : x \in S, y \in T}
Singles(S) == {<<x>> : x \in S}

\* One command under any patterns; two where only one of the five equal
\* unconditional shapes occurs and the user's patterns match the second, or
\* allow both.
Lines ==
  LET twice == {c \in Command : c.shape \in {"none", "privilege"} /\ c.wrapper # "opaque"}
  IN Singles(ClientMatched(Command, SUBSET {"deny", "ask", "allow"}))
     \cup Pairs(twice, ClientMatched(twice, UserPatterns))
     \cup Pairs(ClientMatched(twice, {{"allow"}}), ClientMatched(twice, {{"allow"}}))

ShellLines ==
  [tool : {"shell"}, parsed : {TRUE}, subst : BOOLEAN, parts : Lines]
  \cup [tool : {"shell"}, parsed : {FALSE}, subst : {FALSE}, parts : {<<>>}]

Path == {[Plain EXCEPT !.shape = s, !.outside = o, !.read = r] :
           s \in {"none", "protected-write"}, o \in BOOLEAN, r \in {"no", "readonly"}}

\* A safe read is a path inside the allowed paths and not a protected one; a
\* read is never caught writing.
FileCalls ==
  LET paths == {c \in Path : c.read = "readonly" => c.shape = "none" /\ ~c.outside}
  IN {a \in [tool : {"file_read", "file_write"}, parsed : {TRUE}, subst : {FALSE},
              parts : {<<>>} \cup Pairs(paths, ClientMatched(paths, UserPatterns))
                      \cup Singles(ClientMatched(paths, SUBSET {"deny", "ask", "allow"}))] :
        a.tool = "file_read" => \A c \in Parts(a) : c.shape = "none"}

Host == {[Plain EXCEPT !.host = h, !.read = r] :
           h \in {"listed", "unlisted"}, r \in {"no", "network"}}

\* The method belongs to the call, so every domain of it reads or none does.
NetworkCalls ==
  {a \in [tool : {"network"}, parsed : {TRUE}, subst : {FALSE},
          parts : Singles(ClientMatched(Host, SUBSET {"deny", "ask", "allow"}))
                  \cup Pairs(ClientMatched(Host, {{}, {"allow"}}),
                             ClientMatched(Host, UserPatterns))] :
     \A c, d \in Parts(a) : c.read = d.read}

McpCalls ==
  [tool : {"mcp_call"}, parsed : {TRUE}, subst : {FALSE},
   parts : {<<[Plain EXCEPT !.client = k, !.mcp = m]>> :
              k \in SUBSET {"deny", "ask", "allow"},
              m \in SUBSET {"deny", "ask", "allow", "readonly"}}]

MCActions == ShellLines \cup FileCalls \cup NetworkCalls \cup McpCalls
MCPolicies == Policy

\* A line that cannot be parsed has no commands (normalize/shell.py).
ASSUME UnparsedIsEmpty == \A a \in MCActions : ~a.parsed => a.parts = <<>>
=============================================================================
