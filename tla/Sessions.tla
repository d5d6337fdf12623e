------------------------------ MODULE Sessions ------------------------------
(***************************************************************************)
(* A session's counters and its window of recent decisions, and the rule   *)
(* that reads them (domain/session.py, session/escalation.py).             *)
(***************************************************************************)
EXTENDS Naturals, Sequences, FiniteSets

CONSTANTS DenyConsecutive,   \* denials in a row that escalate
          WindowCount,       \* denials in the window that escalate
          WindowOfLast,      \* length of that window
          RecentMax,         \* decisions a session remembers
          NoWorkspace        \* the workspace of a session nobody opened

\* DenyWindow's bounds (profiles/schema.py).  deny_consecutive has none there;
\* zero would escalate every call.
ASSUME EscalationAssumption ==
  /\ DenyConsecutive \in Nat \ {0}
  /\ WindowCount \in Nat \ {0}
  /\ WindowOfLast \in Nat \ {0}
  /\ WindowCount <= WindowOfLast
  /\ RecentMax \in Nat \ {0}

RecentDecision == {"allow", "ask", "deny"}

\* What a session remembers of its latest decisions.
Window == {s \in Seq(RecentDecision) : Len(s) <= RecentMax}

\* The state of one session, over the workspaces W a session may be pinned to.
SessionState(W) ==
  [workspace : W \cup {NoWorkspace}, denyConsecutive : Nat, denyTotal : Nat,
   decisionsTotal : Nat, recent : Window]

NewSession(workspace) ==
  [workspace |-> workspace, denyConsecutive |-> 0, denyTotal |-> 0,
   decisionsTotal |-> 0, recent |-> <<>>]

Unopened == NewSession(NoWorkspace)

\* The last n elements of s, or all of it.
LastOf(s, n) == IF Len(s) <= n THEN s ELSE SubSeq(s, Len(s) - n + 1, Len(s))

Denials(s) == {i \in DOMAIN s : s[i] = "deny"}

\* A deque of bounded length drops its oldest element.
AppendRecent(recent, decision) == LastOf(Append(recent, decision), RecentMax)

StreakEndedByAsk(streak, decision) == IF decision = "deny" THEN streak + 1 ELSE 0

\* An ask leaves the streak of denials alone.
Streak(streak, decision) ==
  CASE decision = "deny"  -> streak + 1
    [] decision = "allow" -> 0
    [] OTHER              -> streak

Record(s, decision) ==
  [s EXCEPT !.decisionsTotal = @ + 1,
            !.denyTotal = IF decision = "deny" THEN @ + 1 ELSE @,
            !.denyConsecutive = Streak(@, decision),
            !.recent = AppendRecent(@, decision)]

\* Start counting afresh once a human has been asked.
ResetAfterEscalation(s) == [s EXCEPT !.denyConsecutive = 0, !.recent = <<>>]

EscalatesOneLate(s) ==
  \/ s.denyConsecutive > DenyConsecutive
  \/ Cardinality(Denials(LastOf(s.recent, WindowOfLast))) >= WindowCount

\* Whether the session's history should send the next decision to a human.
ShouldEscalate(s) ==
  \/ s.denyConsecutive >= DenyConsecutive
  \/ Cardinality(Denials(LastOf(s.recent, WindowOfLast))) >= WindowCount
=============================================================================
