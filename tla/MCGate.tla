------------------------------- MODULE MCGate -------------------------------
(***************************************************************************)
(* The gate with the service's own stage 1 chain, on a handful of requests *)
(* that tell its cases apart.                                              *)
(***************************************************************************)
EXTENDS Gate, Stage1Actions

CONSTANTS c1, c2, c3, c4, c5

MCCalls == {c1, c2, c3}
MCFourCalls == {c1, c2, c3, c4}
Symmetry == Permutations(Calls)

MCWorkspaces == {"w1", "w2"}
MCDetect(cwd) == IF cwd = "/w1/src" THEN "w1" ELSE "w2"
MCKnown(profile, model) == profile = "coding" /\ model \in {"default", "other"}

\* What the matchers find in a request's action once the policy is bound to w:
\* reads and writes concern a file of w1.
PartAt(r, w) ==
  [Plain EXCEPT !.client = IF r.rules = "none" THEN {} ELSE {r.rules},
                !.push = IF r.action = "push" THEN "protected" ELSE "none",
                !.read = IF r.action = "read" /\ w = "w1" THEN "readonly" ELSE "no",
                !.outside = r.action = "write" /\ w # "w1"]

MCAction(r, w) ==
  [tool |-> "shell", parsed |-> TRUE, subst |-> FALSE, parts |-> <<PartAt(r, w)>>]

MCPolicy == [network |-> "closed", trusted |-> FALSE]

Rules == INSTANCE Chains WITH Chain <- STAGE1, Evaluate <- EvaluateRule,
                              Actions <- {MCAction(r, w) : r \in Requests, w \in Workspaces},
                              Policies <- {MCPolicy}

MCOutcomes ==
  [p \in Requests \X Workspaces |-> Rules!RunOutcome(MCAction(p[1], p[2]), MCPolicy)]

MCStage1(r, w) == MCOutcomes[r, w]

Request(s, action, cwd, rules) ==
  [session |-> s, profile |-> "coding", model |-> "default", cwd |-> cwd,
   action |-> action, rules |-> rules, context |-> "task"]

\* Reads and writes from both workspaces, a read and a write the user wants to
\* confirm, one the user forbids, a hard denial, a call under another model, one
\* without a session, and one under an unknown profile.
MCRequests ==
  {Request("s1", action, cwd, "none") : action \in {"read", "write"}, cwd \in {"/w1/src", "/w2"}}
  \cup {Request("s1", action, "/w1/src", "ask") : action \in {"read", "write"}}
  \cup {Request("s1", "write", "/w1/src", "deny"),
        Request("s1", "push", "/w1/src", "none"),
        Request("none", "write", "/w1/src", "ask"),
        [Request("s1", "write", "/w1/src", "none") EXCEPT !.model = "other"],
        [Request("s1", "read", "/w1/src", "none") EXCEPT !.profile = "missing"]}

\* One session whose calls reach the classifier or are denied, by the profile
\* when the session was opened at w2.
MCDenyingRequests ==
  {Request("s1", "write", "/w1/src", "none"), Request("s1", "write", "/w1/src", "deny"),
   Request("s1", "push", "/w1/src", "none"), Request("s1", "read", "/w2", "none")}
=============================================================================
