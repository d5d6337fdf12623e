------------------------------ MODULE Adapters ------------------------------
(***************************************************************************)
(* The adapters that have no prompt of their own to answer: opencode 2.0   *)
(* (plugin-v2), Pi (plugin-pi), the DeepSeek harness (plugin-dsh) and the  *)
(* Codex CLI (plugin-codex).  They share AdapterCore and differ in what    *)
(* their harness lets a hook say: opencode 2.0 can only throw, Pi shows a  *)
(* dialog of the plugin's, the DeepSeek harness takes all three answers,   *)
(* and Codex takes a denial in one hook and the rest in another, which it  *)
(* runs only where it would have prompted.                                 *)
(*                                                                         *)
(* The harness is external: it decides about a call the hooks hand back,   *)
(* runs the tool and shows the prompts.  The first three keep one process  *)
(* and one History for all calls; every hook of Codex is a process of its  *)
(* own and takes the turns from Codex's transcript.                        *)
(*                                                                         *)
(* The mode is what readMode returns; PluginV1 has its file and its cache. *)
(* The guard answers as it likes what its schema accepts.  Left out: the   *)
(* rules file, the log, and what a harness does with an exception no       *)
(* adapter catches.                                                        *)
(***************************************************************************)
EXTENDS AdapterCore, Turns

CONSTANTS Calls,          \* tool calls
          Texts,          \* what tools return
          Secrets,        \* those that are secrets to the service
          NoOutput,       \* the empty output
          Messages,       \* what the human may say, each once
          Sessions, NoSession,
          SessionOf(_),   \* the session of a call
          Size(_),        \* the size of a call, a text or a message, 0: blank
          NameOf(_),      \* the characters of a call's tool name
          OutputBytes,    \* OUTPUT_MAX_BYTES
          MaxWrites       \* bound on the changes of the mode

ASSUME AdaptersBounds ==
    /\ Secrets \subseteq Texts /\ NoOutput \notin Texts /\ MaxWrites \in Nat /\ OutputBytes \in Nat
    /\ NoSession \notin Sessions
    /\ \A c \in Calls : SessionOf(c) \in Sessions /\ NameOf(c) \in Nat
    /\ \A x \in Calls \cup Texts \cup Messages : Size(x) \in Nat

VARIABLES
    adapter,        \* which of the four
    hasUI,          \* ctx.hasUI: can Pi show its dialog
    onUnavailable,  \* config.onUnavailable
    mode,
    history,        \* history.ts: bySession; for Codex, the transcripts
    pendingSession, \* plugin-pi: the first session a call came from
    userRequest,    \* plugin-pi: lastUserRequest, none or one
    inspectCache,   \* the inspection cache of opencode 2.0 and Pi
    call,           \* id |-> where the call is, see NewCall
    writes,         \* how often the mode has been written
    unsaid,         \* the messages the human has not sent yet
    past,           \* all the turns of each session: a history
    cleared         \* the texts the guard has let pass unchanged: a history

vars == <<adapter, hasUI, onUnavailable, mode, history, pendingSession, userRequest,
          inspectCache, call, writes, unsaid, past, cleared>>
config == <<adapter, hasUI, onUnavailable>>
modeVars == <<mode, writes>>
dialogue == <<history, past, pendingSession, userRequest, unsaid>>

AllAdapters == {"opencode2", "pi", "dsh", "codex"}

(* stage: "new"; "deciding" and "permitting" at the guard; "handed" to the *)
(* harness's own rules; "prompted" at the human; "passed", "ran" and       *)
(* "inspecting" on the way of the result; "blocked" and "told" at the end. *)
(* mode is the one the hook under way has read, request what it has sent.  *)
(* The rest is history: the modes the outgoing hooks read, what the guard  *)
(* said in mode "auto", who let the call pass, and why an incoming hook    *)
(* ended without an answer; it is forgotten with the call that cannot use  *)
(* it any more.                                                            *)
NoRequest == [intent |-> {}, turns |-> <<>>, upto |-> 0]
NewCall == [stage |-> "new", mode |-> "none", request |-> NoRequest,
            modes |-> {}, heard |-> {}, threw |-> FALSE,
            by |-> "nobody", text |-> NoOutput, told |-> "nothing", met |-> "nothing"]

Init ==
    /\ adapter \in AllAdapters
    /\ hasUI \in IF adapter = "pi" THEN BOOLEAN ELSE {FALSE}
    /\ onUnavailable \in OnUnavailables
    /\ mode \in Modes
    /\ history = [s \in Sessions |-> <<>>]
    /\ past = [s \in Sessions |-> <<>>]
    /\ pendingSession = NoSession
    /\ userRequest = {}
    /\ inspectCache = <<>>
    /\ call = [c \in Calls |-> NewCall]
    /\ writes = 0
    /\ unsaid = Messages
    /\ cleared = {}

Becomes(c, r) == call' = [call EXCEPT ![c] = r]

----------------------------------------------------------------------------
(* The dialogue.                                                           *)

(* Codex's transcript reader cuts the names, the other adapters do not.    *)
NameInTurn(c) == IF adapter = "codex" THEN Min({NameOf(c), NameChars}) ELSE NameOf(c)

CallTurn(c) == Turn("toolcall", "agent", c, Size(c), NameInTurn(c))
ResultTurn(c, text) == Turn("toolresult", "system", text, Size(text), NameInTurn(c))
HumanTurn(m) == Turn("human", "human", m, Size(m), 0)

(* The transcript keeps everything; the adapter clamps what it reads.      *)
Kept(turns, turn) ==
    IF adapter = "codex"
    THEN (IF turn.size = 0 THEN turns ELSE Append(turns, turn))
    ELSE Recorded(turns, turn)

(* A turn without a session is dropped.                                    *)
Records(s, turn) ==
    IF s = NoSession THEN UNCHANGED <<history, past>>
    ELSE /\ history' = [history EXCEPT ![s] = Kept(@, turn)]
         /\ past' = [past EXCEPT ![s] = IF turn.size = 0 THEN @ ELSE Append(@, turn)]

(* contextFor and buildDecideRequest: the turns there are after the hook   *)
(* has recorded its own.  Only Pi and Codex know what the human asked for; *)
(* the service falls back on the last human turn it is sent.               *)
RequestIn(s, turns, length) ==
    LET sent == Clamped(turns)
    IN  [intent |-> IF userRequest # {} THEN userRequest ELSE LastHumanRequest(sent),
         turns |-> sent, upto |-> length]

Sends(c) == RequestIn(SessionOf(c), history'[SessionOf(c)], Len(past'[SessionOf(c)]))

(* What the prompt of stage 2 shows.                                       *)
Shown(c) == Fit(call[c].request.turns)

(* Which limits of the schema the request that is under way breaks.        *)
DecideErrors(c) ==
    HistoryErrors(call[c].request.turns) \cup (IF Size(c) = 0 THEN {"raw"} ELSE {})
InspectErrors(c) ==
    HistoryErrors(call[c].request.turns)
    \cup (IF Size(call[c].text) > OutputBytes THEN {"output"} ELSE {})
    \cup (IF NameOf(c) > NameChars THEN {"tool_name"} ELSE {})

(* An invalid request is answered too, as HTTP 200: by a question, and a   *)
(* result is dropped.                                                      *)
Decisions(c) == Failures \cup (IF DecideErrors(c) = {} THEN OutStatus ELSE {"ask"})
Inspections(c) == Failures \cup (IF InspectErrors(c) = {} THEN InspectAnswers ELSE {"drop"})

(* Pi's "input" event, which carries no session, and Codex's transcript.   *)
(* The other two are not told what the human says.                         *)
HumanSays(m, s) ==
    /\ adapter \in {"pi", "codex"} /\ m \in unsaid
    /\ unsaid' = unsaid \ {m}
    /\ userRequest' = IF adapter = "pi" THEN {m} ELSE userRequest
    /\ Records(IF adapter = "pi" THEN pendingSession ELSE s, HumanTurn(m))
    /\ UNCHANGED <<config, modeVars, pendingSession, inspectCache, call, cleared>>

----------------------------------------------------------------------------
(* What a hook tells its harness.                                          *)

Blocked(r) == [NewCall EXCEPT !.stage = "blocked"]
Prompted(r) == [r EXCEPT !.stage = "prompted", !.mode = "none"]
HandedBack(r) == [r EXCEPT !.stage = "handed", !.mode = "none"]
PassedBy(r, who) == [r EXCEPT !.stage = "passed", !.mode = "none", !.by = who]

(* resolveOut, with who decided.                                           *)
ResolveOut(m, result, rule) ==
    IF m # "auto" THEN [status |-> ResolveLocally(m), source |-> "mode"]
    ELSE [status |-> ResolveAnswer(result, onUnavailable, rule),
          source |-> IF result \in OutStatus THEN "guard" ELSE "unavailable"]

(* plugin-v2: there is no prompt to show, so a question blocks.            *)
EndsOnOpencode2(r, decided) ==
    IF decided.status = "allow" THEN PassedBy(r, "gate") ELSE Blocked(r)

(* plugin-pi: a question is asked where there is a dialog to ask it in.    *)
EndsOnPi(r, decided) ==
    CASE decided.status = "allow"          -> PassedBy(r, "gate")
      [] decided.status = "ask" /\ hasUI   -> Prompted(r)
      [] OTHER                             -> Blocked(r)

(* Mutant: a baseline of "allow" is given to the harness as a verdict.     *)
NeverHandsBack(r, decided) ==
    CASE decided.status = "deny"           -> Blocked(r)
      [] decided.status = "ask"            -> Prompted(r)
      [] OTHER                             -> PassedBy(r, "gate")

(* plugin-dsh: to allow skips the harness's own approval.                  *)
EndsOnDsh(r, decided) ==
    CASE decided.status = "deny"           -> Blocked(r)
      [] decided.status = "ask"            -> Prompted(r)
      [] decided.status = "allow"          ->
            IF decided.source = "unavailable" THEN HandedBack(r) ELSE PassedBy(r, "gate")

(* pre.mjs: only a denial is understood, and a question about an absent    *)
(* guard is one, since no later event would show it.                       *)
EndsOnCodex(r, decided) ==
    IF decided.status = "deny" \/ (decided.status = "ask" /\ decided.source = "unavailable")
    THEN Blocked(r) ELSE HandedBack(r)

Ends(r, decided) ==
    CASE adapter = "opencode2" -> EndsOnOpencode2(r, decided)
      [] adapter = "pi"        -> EndsOnPi(r, decided)
      [] adapter = "dsh"       -> EndsOnDsh(r, decided)
      [] adapter = "codex"     -> EndsOnCodex(r, decided)

----------------------------------------------------------------------------
(* Outgoing calls.                                                         *)

(* The rule resolveOut may inherit.                                        *)
Baseline == IF adapter = "dsh" THEN "allow" ELSE "ask"

(* The modes in which the outgoing hook asks the guard.  The DeepSeek      *)
(* harness and Codex ask in mode "ask" too, and do not use the answer.     *)
AsksIn == IF adapter \in {"dsh", "codex"} THEN {"auto", "ask"} ELSE {"auto"}

(* The outgoing hook up to its first await: mode "off" records nothing.    *)
(* In mode "allow" resolveOut allows, except that pre.mjs says nothing at  *)
(* all.                                                                    *)
Pre(c) ==
    LET r == [call[c] EXCEPT !.mode = mode, !.modes = {mode}]
    IN  /\ call[c].stage = "new"
        /\ IF mode = "off" /\ adapter # "codex" THEN UNCHANGED <<history, past>>
           ELSE Records(SessionOf(c), CallTurn(c))
        /\ pendingSession' = IF adapter = "pi" /\ mode # "off" /\ pendingSession = NoSession
                             THEN SessionOf(c) ELSE pendingSession
        /\ Becomes(c, CASE mode \in AsksIn -> [r EXCEPT !.stage = "deciding", !.request = Sends(c)]
                        [] mode = "off"                        -> HandedBack(r)
                        [] mode = "allow" /\ adapter = "codex" -> HandedBack(r)
                        [] OTHER -> Ends(r, ResolveOut(mode, "unreachable", Baseline)))
        /\ UNCHANGED <<config, modeVars, userRequest, unsaid, inspectCache, cleared>>

(* Only in mode "auto" does the answer count.                              *)
Heard(r, result) ==
    [r EXCEPT !.heard = IF r.mode = "auto" THEN @ \cup {result} ELSE @, !.request = NoRequest]

GuardDecides(c, result) ==
    /\ call[c].stage = "deciding" /\ result \in Decisions(c)
    /\ Becomes(c, Ends(Heard(call[c], result), ResolveOut(call[c].mode, result, Baseline)))
    /\ UNCHANGED <<config, modeVars, dialogue, inspectCache, cleared>>

(* plugin-dsh: "A broken gate must never break the agent".  The hook may   *)
(* break before it has recorded the call and after.                        *)
PreThrows(c) ==
    /\ adapter = "dsh" /\ call[c].stage = "new" /\ mode # "off"
    /\ Records(SessionOf(c), CallTurn(c)) \/ UNCHANGED <<history, past>>
    /\ Becomes(c, HandedBack([call[c] EXCEPT !.threw = TRUE, !.modes = {mode}]))
    /\ UNCHANGED <<config, modeVars, pendingSession, userRequest, unsaid, inspectCache, cleared>>

(* The harness's own rules let the call run: all there is on opencode 2.0  *)
(* and Pi, which have none.                                                *)
HarnessAllows(c) ==
    /\ call[c].stage = "handed"
    /\ Becomes(c, PassedBy(call[c], "harness"))
    /\ UNCHANGED <<config, modeVars, dialogue, inspectCache, cleared>>

DshPrompts(c) ==
    /\ adapter = "dsh" /\ call[c].stage = "handed"
    /\ Becomes(c, Prompted(call[c]))
    /\ UNCHANGED <<config, modeVars, dialogue, inspectCache, cleared>>

(* perm.mjs, where Codex would prompt: the same key, the turns of by now.  *)
Perm(c) ==
    LET r == [call[c] EXCEPT !.mode = mode, !.modes = @ \cup {mode}]
    IN  /\ adapter = "codex" /\ call[c].stage = "handed"
        /\ UNCHANGED dialogue
        /\ Becomes(c, CASE mode = "auto"  -> [r EXCEPT !.stage = "permitting", !.request = Sends(c)]
                        [] mode = "allow" -> PassedBy(r, "gate")
                        [] OTHER          -> Prompted(r))
        /\ UNCHANGED <<config, modeVars, inspectCache, cleared>>

GuardPermits(c, result) ==
    LET r == Heard(call[c], result)
        decided == ResolveOut("auto", result, Baseline)
    IN  /\ call[c].stage = "permitting" /\ result \in Decisions(c)
        /\ Becomes(c, CASE decided.status = "allow" -> PassedBy(r, "gate")
                        [] decided.status = "deny"  -> Blocked(r)
                        [] OTHER                    -> Prompted(r))
        /\ UNCHANGED <<config, modeVars, dialogue, inspectCache, cleared>>

HumanAnswers(c) ==
    /\ call[c].stage = "prompted"
    /\ Becomes(c, PassedBy(call[c], "human")) \/ Becomes(c, Blocked(call[c]))
    /\ UNCHANGED <<config, modeVars, dialogue, inspectCache, cleared>>

----------------------------------------------------------------------------
(* Tool results.                                                           *)

(* Codex writes the result to its transcript.                              *)
ToolRuns(c, text) ==
    /\ call[c].stage = "passed"
    /\ Becomes(c, [NewCall EXCEPT !.stage = "ran", !.text = text])
    /\ IF adapter = "codex" /\ text # NoOutput
       THEN Records(SessionOf(c), ResultTurn(c, text)) ELSE UNCHANGED <<history, past>>
    /\ UNCHANGED <<config, modeVars, pendingSession, userRequest, unsaid, inspectCache, cleared>>

Told(r, as) == [(IF as = "raw" THEN r ELSE NewCall) EXCEPT
                   !.stage = "told", !.told = as, !.request = NoRequest]

(* The incoming hook up to its first await: the result is recorded as the  *)
(* tool gave it, before the guard has seen it.                             *)
Inspect(c) ==
    LET r == call[c]
        inert == mode = "off" \/ r.text = NoOutput
    IN  /\ r.stage = "ran"
        /\ IF inert \/ adapter = "codex" THEN UNCHANGED <<history, past>>
           ELSE Records(SessionOf(c), ResultTurn(c, r.text))
        /\ IF inert
           THEN Becomes(c, [Told(r, "raw") EXCEPT !.met = IF mode = "off" THEN "off" ELSE @])
           ELSE \/ \E answer \in Cached(inspectCache, r.text) :
                        Becomes(c, Told(r, ResolveIn(answer, onUnavailable)))
                \/ /\ Cached(inspectCache, r.text) = {}
                   /\ Becomes(c, [r EXCEPT !.stage = "inspecting", !.request = Sends(c)])
        /\ UNCHANGED <<config, modeVars, pendingSession, userRequest, unsaid, inspectCache, cleared>>

InspectThrows(c) ==
    LET r == call[c]
    IN  /\ adapter = "dsh" /\ r.stage = "ran" /\ mode # "off" /\ r.text # NoOutput
        /\ Records(SessionOf(c), ResultTurn(c, r.text)) \/ UNCHANGED <<history, past>>
        /\ Becomes(c, [Told(r, "raw") EXCEPT !.met = "exception"])
        /\ UNCHANGED <<config, modeVars, pendingSession, userRequest, unsaid, inspectCache, cleared>>

(* Mutant: whatever came of the request is remembered.                     *)
RemembersFailures(cache, text, result) ==
    IF adapter \in {"opencode2", "pi"} THEN Keep(cache, text, result) ELSE cache

(* `if (result.ok && !cached)`; the other two keep no inspections.         *)
Remembered(cache, text, result) ==
    IF adapter \in {"opencode2", "pi"} /\ result \in InspectAnswers
    THEN Keep(cache, text, result) ELSE cache

GuardInspects(c, result) ==
    LET r == [call[c] EXCEPT !.met = IF result \in Failures THEN result ELSE @]
    IN  /\ r.stage = "inspecting" /\ result \in Inspections(c)
        /\ inspectCache' = Remembered(inspectCache, r.text, result)
        /\ cleared' = IF result \in {"pass", "mask_without_text"}
                      THEN cleared \cup {r.text} ELSE cleared
        /\ Becomes(c, Told(r, ResolveIn(result, onUnavailable)))
        /\ UNCHANGED <<config, modeVars, dialogue>>

----------------------------------------------------------------------------
(* Pi's /gate command and its shortcuts, the TUI and the CLI.              *)

ModeIsWritten(m) ==
    /\ writes < MaxWrites
    /\ mode' = m
    /\ writes' = writes + 1
    /\ UNCHANGED <<config, dialogue, inspectCache, call, cleared>>

Outgoing(c) ==
    \/ Pre(c) \/ PreThrows(c)
    \/ HarnessAllows(c) \/ DshPrompts(c)
    \/ Perm(c)
    \/ \E result \in DecideResults : GuardDecides(c, result) \/ GuardPermits(c, result)
    \/ HumanAnswers(c)

Incoming(c) ==
    \/ \E text \in Texts \cup {NoOutput} : ToolRuns(c, text)
    \/ Inspect(c) \/ InspectThrows(c)
    \/ \E result \in InspectResults : GuardInspects(c, result)

Next ==
    \/ \E c \in Calls : Outgoing(c) \/ Incoming(c)
    \/ \E m \in Messages, s \in Sessions : HumanSays(m, s)
    \/ \E m \in Modes : ModeIsWritten(m)

Spec == Init /\ [][Next]_vars

----------------------------------------------------------------------------
(* When the gate stands aside for the harness's own rules: on the DeepSeek *)
(* harness if its hook broke or the guard is gone and the policy is to fail*)
(* open; on Codex, which knows no other answer to its first hook, if the   *)
(* guard allowed or asked, or nobody was to decide but the human.          *)
LeftToTheHarness(r) ==
    CASE adapter = "dsh"   -> r.threw \/ (onUnavailable = "allow" /\ r.heard = {"unreachable"})
      [] adapter = "codex" -> "ask" \in r.modes \/ r.heard \cap {"allow", "ask"} # {}
      [] OTHER             -> FALSE

(* A call passes without a human only for a reason: a hook of it ran in    *)
(* mode "allow" or "off", or the guard allowed it, or the harness's own    *)
(* rules, to which the gate had handed it back, let it run.  In particular *)
(* a guard that is gone or answers badly never skips a harness's approval, *)
(* and only on the DeepSeek harness, which has one to go back to, does a   *)
(* call then run unasked at all.                                           *)
SilentRunIsEarned ==
    \A c \in Calls : LET r == call[c] IN
        /\ r.stage = "passed" /\ r.by = "gate" => "allow" \in r.heard \cup r.modes
        /\ r.stage = "passed" /\ r.by = "harness" =>
              r.modes \cap {"allow", "off"} # {} \/ LeftToTheHarness(r)

(* Unfiltered text reaches the model only if the gate is off, or the guard *)
(* has passed this very text, or it does not inspect, or it is absent and  *)
(* the policy is not to deny, or the hook of the DeepSeek harness broke.   *)
RawTextWasCleared ==
    \A c \in Calls : LET r == call[c] IN
        r.stage = "told" /\ r.told = "raw" /\ r.text # NoOutput =>
            \/ r.text \in cleared
            \/ r.met \in {"off", "not_implemented"}
            \/ r.met = "unreachable" /\ onUnavailable # "deny"
            \/ r.met = "exception" /\ adapter = "dsh"

(* The classifier is shown the recent past as it was: what the prompt of a *)
(* request that is under way shows are turns of the call's session without *)
(* a gap, up to the newest there was, each once and in order, however often*)
(* they were clamped on the way; none at all only if the newest alone is   *)
(* too much for the wire.                                                  *)
PromptIsTheRecentPast ==
    \A c \in Calls : LET q == call[c].request
                        ended == SubSeq(past[SessionOf(c)], 1, q.upto) IN
        call[c].stage \in {"deciding", "permitting", "inspecting"} =>
            /\ Contents(Shown(c)) = Contents(Newest(ended, Len(Shown(c))))
            /\ Shown(c) = <<>> => ended = <<>> \/ Total(Json(Newest(ended, 1))) > HistoryBytes

(* limits.ts and history.ts promise to clamp what is sent to what the      *)
(* service accepts: the dialogue is never what it refuses a request for,   *)
(* only what no adapter clamps is, a tool's name, an empty command or a    *)
(* long result.                                                            *)
DialogueIsNeverRefused ==
    \A c \in Calls : "history" \notin HistoryErrors(call[c].request.turns)

(* engine/inspector.py: "A value recognized as a secret is therefore never *)
(* in the prompt": a result that is one is not shown to the classifier     *)
(* whole, with the request to inspect it or any other.                     *)
SecretsStayOutOfThePrompt ==
    \A c \in Calls : \A i \in DOMAIN Shown(c) :
        Shown(c)[i].content \in Secrets => Shown(c)[i].size < Size(Shown(c)[i].content)
=============================================================================
