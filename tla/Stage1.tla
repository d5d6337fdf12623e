------------------------------- MODULE Stage1 -------------------------------
(***************************************************************************)
(* The stage 1 rules of the service and the order they run in              *)
(* (rules/chain.py, rules/*.py, rules/hard_deny/*.py).                     *)
(*                                                                         *)
(* An action is a tool and its parts: the commands of a shell line, the    *)
(* paths of a file call, the domains of a network call, the name of an MCP *)
(* call.  A part carries the facts the rules' matchers establish, each     *)
(* standing for the parsing and pattern matching of one rule; how the      *)
(* rules combine those facts (any part, every part, a scan that holds an   *)
(* ask back) is kept.                                                      *)
(***************************************************************************)
EXTENDS Verdicts, Sequences, SequencesExt

Tool == {"shell", "file_read", "file_write", "network", "mcp_call"}

\* The shapes the unconditional hard-deny rules recognize.
HardShape == {"exfil", "pipe-exec", "destructive", "protected-write", "privilege"}

Part == [shape   : HardShape \cup {"none"},              \* what it is caught doing
         push    : {"none", "ambiguous", "protected"},   \* the branch it forces
         wrapper : {"none", "depth", "opaque"},          \* why it stays wrapped
         outside : BOOLEAN,                     \* writes outside the allowed paths
         writes  : BOOLEAN,                     \* redirects into a file
         host    : {"none", "listed", "unlisted"},
         read    : {"no", "readonly", "prefix", "network"}, \* why it is a safe read
         client  : SUBSET {"deny", "ask", "allow"},    \* the user's patterns it matches
         mcp     : SUBSET {"deny", "ask", "allow", "readonly"}] \* the operator's

\* The network section of the profile.  Mode closed is off and allowlist.
Policy == [network : {"closed", "ask", "open"}, trusted : BOOLEAN]

Parts(a) == Range(a.parts)
Some(a, P(_)) == \E part \in Parts(a) : P(part)
Every(a, P(_)) == a.parts # <<>> /\ \A part \in Parts(a) : P(part)

-----------------------------------------------------------------------------
UnparseableRule(a) ==
  IF a.parsed THEN Silent ELSE Ask("unparseable", 1, FALSE)

\* One command or path of the shape denies the whole action, for good.
DeniesShape(a, rule, shape) ==
  IF Some(a, LAMBDA c : c.shape = shape) THEN Deny(rule, 1, TRUE) ELSE Silent

ExfilRule(a)          == DeniesShape(a, "hard-deny.exfil", "exfil")
PipeExecRule(a)       == DeniesShape(a, "hard-deny.pipe-exec", "pipe-exec")
DestructiveRule(a)    == DeniesShape(a, "hard-deny.destructive", "destructive")
ProtectedWriteRule(a) == DeniesShape(a, "hard-deny.protected-write", "protected-write")
PrivilegeRule(a)      == DeniesShape(a, "hard-deny.privilege", "privilege")

\* A protected branch anywhere in the line outranks an ambiguous push.
GitForceRule(a) ==
  IF Some(a, LAMBDA c : c.push = "protected") THEN Deny("hard-deny.git-force", 1, TRUE)
  ELSE IF Some(a, LAMBDA c : c.push = "ambiguous") THEN Ask("ambiguous.git-force", 1, FALSE)
  ELSE Silent

\* The first command that cannot be unwrapped names the reason.
WrapperUnresolvedRule(a) ==
  LET wrapped == SelectSeq(a.parts, LAMBDA c : c.wrapper # "none")
  IN IF wrapped = <<>> THEN Silent
     ELSE IF wrapped[1].wrapper = "depth" THEN Ask("ambiguous.wrapper-depth", 1, FALSE)
     ELSE Ask("ambiguous.wrapper-opaque", 1, FALSE)

ClientDenyRule(a) ==
  IF Some(a, LAMBDA c : "deny" \in c.client) THEN Deny("client.deny", 1, FALSE) ELSE Silent

ClientAskRule(a) ==
  IF Some(a, LAMBDA c : "ask" \in c.client) THEN Ask("client.ask", 1, TRUE) ELSE Silent

\* An allow is a promise about the whole line: every unit matches, and a shell
\* line neither substitutes nor redirects into a file.
ClientAllowRule(a) ==
  IF /\ Every(a, LAMBDA c : "allow" \in c.client)
     /\ a.tool = "shell" => a.parsed /\ ~a.subst /\ ~Some(a, LAMBDA c : c.writes)
  THEN Allow("client.allow", 1) ELSE Silent

ProfilePathRule(a) ==
  IF a.tool \in {"shell", "file_write"} /\ Some(a, LAMBDA c : c.outside)
  THEN Deny("profile.path", 1, FALSE) ELSE Silent

ProfileDomainRule(a, p) ==
  IF p.network = "open" \/ ~Some(a, LAMBDA c : c.host = "unlisted") THEN Silent
  ELSE IF p.network = "ask" THEN Ask("profile.domain", 1, FALSE)
  ELSE Deny("profile.domain", 1, FALSE)

\* The operator's deny settles, the operator's ask is a floor.
ProfileMcpRefuseRule(a) ==
  IF Some(a, LAMBDA c : "deny" \in c.mcp) THEN Deny("profile.mcp-deny", 1, FALSE)
  ELSE IF Some(a, LAMBDA c : "ask" \in c.mcp) THEN Ask("profile.mcp-ask", 1, TRUE)
  ELSE Silent

ProfileMcpAllowRule(a) ==
  IF Some(a, LAMBDA c : "allow" \in c.mcp) THEN Allow("profile.mcp-allow", 1) ELSE Silent

\* Every command is a known read or a safe prefix, inside the workspace and
\* away from protected paths; file calls are allowed on the same terms.
AllowlistRule(a) ==
  IF a.tool \in {"file_read", "file_write"}
  THEN IF Every(a, LAMBDA c : c.read = "readonly")
       THEN Allow("allowlist." \o a.tool, 1) ELSE Silent
  ELSE IF a.tool # "shell" \/ ~a.parsed \/ a.subst THEN Silent
  ELSE IF Every(a, LAMBDA c : c.read = "prefix") THEN Allow("allowlist.prefix", 1)
  ELSE IF Every(a, LAMBDA c : c.read \in {"prefix", "readonly"})
  THEN Allow("allowlist.readonly", 1)
  ELSE Silent

McpReadonlyRule(a) ==
  IF Some(a, LAMBDA c : "readonly" \in c.mcp) THEN Allow("allowlist.mcp-readonly", 1) ELSE Silent

\* The allowlist extended to reads of listed domains, when the operator turned
\* it on and the mode makes the list a considered choice.
ProfileDomainTrustedRule(a, p) ==
  IF /\ p.trusted
     /\ p.network # "open"
     /\ Some(a, LAMBDA c : c.host # "none")
     /\ ~Some(a, LAMBDA c : c.host = "unlisted")
     /\ \/ a.tool = "network"
        \/ a.tool = "shell" /\ a.parsed /\ ~a.subst /\ ~Some(a, LAMBDA c : c.writes)
     /\ Every(a, LAMBDA c : c.read # "no")
  THEN Allow("profile.domain-trusted", 1) ELSE Silent

-----------------------------------------------------------------------------
HARD_DENY_RULES ==
  <<"hard-deny.exfil", "hard-deny.pipe-exec", "hard-deny.destructive",
    "hard-deny.protected-write", "hard-deny.privilege", "hard-deny.git-force">>

WrapperBeforeHardDeny ==
  <<"unparseable", "ambiguous.wrapper">> \o HARD_DENY_RULES \o
  <<"client.deny", "profile.path", "profile.domain",
    "profile.mcp-refuse", "client.ask", "client.allow", "profile.mcp-allow",
    "allowlist", "allowlist.mcp-readonly", "profile.domain-trusted", "packages">>

STAGE1 ==
  <<"unparseable">> \o HARD_DENY_RULES \o
  <<"ambiguous.wrapper", "client.deny", "profile.path", "profile.domain",
    "profile.mcp-refuse", "client.ask", "client.allow", "profile.mcp-allow",
    "allowlist", "allowlist.mcp-readonly", "profile.domain-trusted", "packages">>

\* What the rule of that id answers; packages is a slot that is always silent.
EvaluateRule(rule, a, p) ==
  CASE rule = "unparseable"               -> UnparseableRule(a)
    [] rule = "hard-deny.exfil"           -> ExfilRule(a)
    [] rule = "hard-deny.pipe-exec"       -> PipeExecRule(a)
    [] rule = "hard-deny.destructive"     -> DestructiveRule(a)
    [] rule = "hard-deny.protected-write" -> ProtectedWriteRule(a)
    [] rule = "hard-deny.privilege"       -> PrivilegeRule(a)
    [] rule = "hard-deny.git-force"       -> GitForceRule(a)
    [] rule = "ambiguous.wrapper"         -> WrapperUnresolvedRule(a)
    [] rule = "client.deny"               -> ClientDenyRule(a)
    [] rule = "profile.path"              -> ProfilePathRule(a)
    [] rule = "profile.domain"            -> ProfileDomainRule(a, p)
    [] rule = "profile.mcp-refuse"        -> ProfileMcpRefuseRule(a)
    [] rule = "client.ask"                -> ClientAskRule(a)
    [] rule = "client.allow"              -> ClientAllowRule(a)
    [] rule = "profile.mcp-allow"         -> ProfileMcpAllowRule(a)
    [] rule = "allowlist"                 -> AllowlistRule(a)
    [] rule = "allowlist.mcp-readonly"    -> McpReadonlyRule(a)
    [] rule = "profile.domain-trusted"    -> ProfileDomainTrustedRule(a, p)
    [] OTHER                              -> Silent
=============================================================================
