--------------------------- MODULE Stage1Actions ---------------------------
(***************************************************************************)
(* The rule ids of stage 1 and the part nothing was found in, which the    *)
(* model-checked instances of the chain and of the gate share.             *)
(***************************************************************************)
EXTENDS Stage1

MCRuleId ==
  {"none", "api.unknown-profile", "api.unknown-model", "cache", "escalation", "unparseable", "ambiguous.git-force", "ambiguous.wrapper",
   "ambiguous.wrapper-depth", "ambiguous.wrapper-opaque",
   "client.deny", "client.ask", "client.allow", "profile.path", "profile.domain",
   "profile.mcp-deny", "profile.mcp-ask", "profile.mcp-allow", "profile.mcp-refuse",
   "profile.domain-trusted", "packages", "allowlist", "allowlist.file_read",
   "allowlist.file_write", "allowlist.prefix", "allowlist.readonly",
   "allowlist.mcp-readonly"}
  \cup Range(HARD_DENY_RULES)

\* A part about which the matchers found nothing.
Plain == [shape |-> "none", push |-> "none", wrapper |-> "none", outside |-> FALSE,
          writes |-> FALSE, host |-> "none", read |-> "no", client |-> {}, mcp |-> {}]
=============================================================================
