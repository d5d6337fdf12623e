----------------------------- MODULE MCAdapters -----------------------------
(* Instances of Adapters for TLC: two calls of one session, the second by  *)
(* a tool with a long name, that may return the same text, and a human who *)
(* speaks once.  The limits are such that all of the turns are too many,   *)
(* too long for the wire and too long for the prompt; the second call alone*)
(* is longer than its role's share of the prompt and too long for the wire,*)
(* but for Codex, which cuts the name so that it just fits.                *)
EXTENDS Adapters, TLC

CONSTANTS c1, c2, t, m, s1

MCCalls == {c1, c2}
MCTexts == {t}
MCMessages == {m}
MCSessions == {s1}
MCSessionOf(c) == s1
MCSize(x) == IF x = t THEN 3 ELSE IF x = c2 THEN 7 ELSE 1
MCNameOf(c) == IF c = c2 THEN 2 ELSE 1
MCTurnChars(role) == IF role = "toolresult" THEN 3 ELSE 2
=============================================================================
