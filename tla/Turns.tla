------------------------------- MODULE Turns -------------------------------
(***************************************************************************)
(* The dialogue that travels with a request: how an adapter keeps the turns*)
(* of a session and clamps them (core/src/history.ts), what of them the    *)
(* service's schema accepts (api/schemas.py), and what of them the prompt  *)
(* of stage 2 shows (domain/dialogue.py).                                  *)
(*                                                                         *)
(* A turn is [role, author, content, size, name]: size stands for the bytes*)
(* and for the characters of its content, 0 if it is blank, and name for   *)
(* the characters and bytes of the tool's name and the call's id.          *)
(***************************************************************************)
EXTENDS Naturals, Sequences, FiniteSetsExt, Lists

CONSTANTS HistoryTurns,   \* HISTORY_LIMITS.turns, HISTORY_MAX_TURNS
          HistoryBytes,   \* HISTORY_LIMITS.bytes, HISTORY_MAX_BYTES
          Markup,         \* bytes the JSON of a turn adds to it
          NameChars,      \* TURN_TOOL_MAX_CHARS and InspectRequest.tool_name
          BudgetChars,    \* profile: history.budget_chars
          TurnChars(_)    \* profile: history.per_turn_chars, by role

ASSUME TurnLimits ==
    /\ HistoryTurns \in Nat \ {0} /\ HistoryBytes \in Nat /\ Markup \in Nat
    /\ NameChars \in Nat /\ BudgetChars \in Nat \ {0}
    /\ \A role \in {"human", "assistant", "toolcall", "toolresult"} : TurnChars(role) \in Nat \ {0}

Turn(role, author, content, size, name) ==
    [role |-> role, author |-> author, content |-> content, size |-> size, name |-> name]

Newest(turns, n) == SubSeq(turns, Len(turns) - n + 1, Len(turns))

Contents(turns) == [i \in DOMAIN turns |-> turns[i].content]

(* What the turns measure to the prompt, to the schema and as JSON.        *)
Content(turns) == [i \in DOMAIN turns |-> turns[i].size]
Named(turns) == [i \in DOMAIN turns |-> turns[i].size + turns[i].name]
Json(turns) == [i \in DOMAIN turns |-> turns[i].size + turns[i].name + Markup]

----------------------------------------------------------------------------
(* core/src/history.ts                                                     *)

(* History.record: a blank turn is not one, and the oldest turns go.       *)
Recorded(turns, turn) ==
    LET longer == Append(turns, turn)
    IN  IF turn.size = 0 THEN turns ELSE Newest(longer, Min({Len(longer), HistoryTurns}))

(* Mutant: the bytes are counted as the service counts them, of what the   *)
(* cap by turns would keep, and not at all beyond it.                      *)
ClampsByTurnsOnly(turns) == Newest(turns, Min({Len(turns), HistoryTurns}))

(* clampHistory: whole turns are dropped from the front until the rest fits*)
(* as JSON.  One turn that does not fit takes all the older ones along.    *)
Clamped(turns) ==
    Newest(turns, Max({n \in 0 .. Min({Len(turns), HistoryTurns}) :
                          Total(Json(Newest(turns, n))) <= HistoryBytes}))

----------------------------------------------------------------------------
(* api/schemas.py: what makes a request's history invalid.  The service    *)
(* counts content and names, and no JSON around them.                      *)

HistoryErrors(turns) ==
    (IF Len(turns) > HistoryTurns \/ Total(Named(turns)) > HistoryBytes THEN {"history"} ELSE {})
    \cup (IF \E i \in DOMAIN turns : turns[i].name > NameChars THEN {"turn"} ELSE {})

----------------------------------------------------------------------------
(* domain/dialogue.py                                                      *)

(* Mutant: a long history is cut at the wrong end.                         *)
FitsTheOldest(turns) ==
    SubSeq(turns, 1, Max({n \in 0 .. Len(turns) :
                             n <= 1 \/ Total(Content(SubSeq(turns, 1, n))) <= BudgetChars}))

Capped(turn) == [turn EXCEPT !.size = Min({@, TurnChars(turn.role)})]

(* Dialogue.fit: the newest turn is never dropped.                         *)
Fit(turns) ==
    LET kept == [i \in DOMAIN turns |-> Capped(turns[i])]
    IN  Newest(kept, Max({n \in 0 .. Len(kept) : n <= 1 \/ Total(Content(Newest(kept, n))) <= BudgetChars}))

(* The last thing a human wrote: none, or one in a set.                    *)
LastHumanRequest(turns) ==
    LET human == {i \in DOMAIN turns : turns[i].role = "human" /\ turns[i].author = "human"}
    IN  IF human = {} THEN {} ELSE {turns[Max(human)].content}
=============================================================================
