------------------------------ MODULE PluginV1 ------------------------------
(***************************************************************************)
(* adapters/packages/plugin-v1/src/index.ts: the plugin's hooks, as        *)
(* opencode 1.x and Kilo call them.  One process serves all tool calls of  *)
(* all sessions; a hook suspends where it looks the session up and where   *)
(* it waits for the guard, and the hooks of other calls run meanwhile.     *)
(*                                                                         *)
(* The harness is external: a tool call passes tool.execute.before, any    *)
(* number of permission checks, and then runs.  On the patched build each  *)
(* check calls permission.ask, also before tool.execute.before; on the     *)
(* stock build only the prompt's event reaches the plugin.  A permission   *)
(* request without a tool is to the plugin a call whose first check comes  *)
(* and whose tool.execute.before never does.                               *)
(*                                                                         *)
(* Left out: the history of turns, which only fills the request, and the   *)
(* log.                                                                    *)
(***************************************************************************)
EXTENDS AdapterCore

CONSTANTS Calls,          \* call ids of tool calls
          Texts,          \* what tools return, or throw as an error
          OwnMessages,    \* policy.ts: isOwnMessage, the texts that begin as the plugin's own
          NoOutput,       \* the empty output
          InitialModes,   \* bound on the modes the state file starts with
          MaxClock,       \* bound on the clock
          MaxWrites,      \* bound on the changes of the mode
          MaxChecks,      \* bound on the permission checks of each call
          Outputs         \* bound on what the tool of each call may give back

ASSUME PluginBounds ==
    /\ NoOutput \notin Texts /\ OwnMessages \subseteq Texts
    /\ InitialModes \subseteq Modes
    /\ MaxClock \in Nat /\ MaxWrites \in Nat
    /\ MaxChecks \in [Calls -> Nat]
    /\ Outputs \in [Calls -> SUBSET [text : Texts \cup {NoOutput}, threw : BOOLEAN]]

VARIABLES
    build,          \* "patched" or "stock": does permission.ask ever fire
    onUnavailable,  \* config.onUnavailable
    file,           \* the state file shared with the TUI and the CLI
    modeCache,      \* mode.ts: cache
    patched,        \* harness.ts: HarnessState.patched
    verdicts,       \* the verdict book
    inspectCache,   \* the inspection cache
    call,           \* id |-> where the call is, see NewCall
    clock,
    writes,         \* how often the mode has been written
    lastTick,       \* the modes written in the tick of the last write: a history
    cleared         \* the texts the guard has let pass unchanged: a history

vars == <<build, onUnavailable, file, modeCache, patched, verdicts,
          inspectCache, call, clock, writes, lastTick, cleared>>

modeVars == <<file, writes, lastTick>>
config == <<build, onUnavailable>>

(* stage: "idle" between two hooks; "looking" and "asking" in an outgoing  *)
(* hook; "prompted" at the human; "ran" with a result; "fetching" and      *)
(* "inspecting" in an incoming hook; "told" and "blocked" at the end.      *)
(* hook, rule: the outgoing hook under way and what the harness's rules    *)
(* say to its check.  The rest is history, of the outgoing hooks until the *)
(* call runs or is blocked: how often the guard was asked (asks), what it  *)
(* answered and which modes other than "auto" decided (heard), when the    *)
(* first verdict was given (since), and who was asked about each check     *)
(* that passed (checks); and of the incoming hook: did the tool throw its  *)
(* text (threw), and why the hook ended without an answer (met).           *)
NewCall == [stage |-> "idle", hook |-> "none", rule |-> "ask", begun |-> FALSE,
            asks |-> 0, heard |-> {}, since |-> {}, checks |-> <<>>,
            text |-> NoOutput, threw |-> FALSE, told |-> "nothing", met |-> "nothing"]

Init ==
    /\ build \in {"patched", "stock"}
    /\ onUnavailable \in OnUnavailables
    /\ \/ file = Missing /\ lastTick = {}
       \/ \E m \in InitialModes : file = StateFile(m, 0) /\ lastTick = {m}
    /\ writes = 0
    /\ modeCache = Unread
    /\ patched = FALSE
    /\ verdicts = [c \in {} |-> [status |-> "ask", at |-> 0]]
    /\ inspectCache = <<>>
    /\ call = [c \in Calls |-> NewCall]
    /\ clock = 0
    /\ cleared = {}

Mode == ReadMode(file, modeCache)
ReadsMode == modeCache' = AfterRead(file, modeCache)

Becomes(c, r) == call' = [call EXCEPT ![c] = r]

----------------------------------------------------------------------------
(* Outgoing calls.                                                         *)

(* How a hook ends that has decided: `before` throws on a denial and else  *)
(* returns; permission.ask hands its status to the harness, which passes,  *)
(* prompts or blocks.                                                      *)
Passed(r, asked) == [r EXCEPT !.stage = "idle", !.hook = "none", !.rule = "ask",
                           !.checks = Append(@, [rule |-> r.rule, asked |-> asked])]
Blocked(r) == [NewCall EXCEPT !.stage = "blocked", !.begun = r.begun]
Prompted(r) == [r EXCEPT !.stage = "prompted", !.hook = "none"]

Ended(r, status) ==
    IF status = "deny" THEN Blocked(r)
    ELSE CASE r.hook = "before" -> [r EXCEPT !.stage = "idle", !.hook = "none"]
           [] r.hook = "permission" /\ status = "allow" -> Passed(r, "nobody")
           [] OTHER -> Prompted(r)

LeftToRules(r) == IF r.rule = "allow" THEN Passed(r, "nobody") ELSE Prompted(r)

(* What decided, for the history: the answers policy.ts tells apart.       *)
Heard(r, what) ==
    [r EXCEPT !.heard = @ \cup {IF what \in {"refused", "not_implemented"} THEN "ask" ELSE what},
              !.since = IF @ = {} THEN {clock} ELSE @]

(* decideOutgoing up to its first await, and the whole of it in the modes  *)
(* that do not ask the guard.                                              *)
Decide(c, r, mode) ==
    IF mode = "auto"
    THEN Becomes(c, [r EXCEPT !.stage = "looking"]) /\ UNCHANGED verdicts
    ELSE /\ verdicts' = Enter(verdicts, c, ResolveLocally(mode), clock)
         /\ Becomes(c, Ended(Heard(r, mode), ResolveLocally(mode)))

(* "tool.execute.before"                                                   *)
Before(c) ==
    LET r == [call[c] EXCEPT !.hook = "before", !.begun = TRUE]
    IN  /\ call[c].stage = "idle" /\ ~call[c].begun
        /\ ReadsMode
        /\ IF Mode = "off" \/ (patched /\ c \in DOMAIN verdicts)
           THEN Becomes(c, [r EXCEPT !.hook = "none"]) /\ UNCHANGED verdicts
           ELSE Decide(c, r, Mode)
        /\ UNCHANGED <<config, modeVars, patched, inspectCache, clock, cleared>>

MayCheck(c) ==
    /\ call[c].stage = "idle" /\ Len(call[c].checks) < MaxChecks[c]
    /\ build = "stock" => call[c].begun

(* "permission.ask": a check of the patched build, with what the harness's *)
(* own rules say.                                                          *)
PermissionAsk(c, rule) ==
    LET r == [call[c] EXCEPT !.hook = "permission", !.rule = rule]
    IN  /\ build = "patched" /\ MayCheck(c)
        /\ patched' = TRUE
        /\ ReadsMode
        /\ IF Mode = "off"
           THEN /\ Becomes(c, LeftToRules(r))
                /\ UNCHANGED verdicts
           ELSE \/ /\ c \in DOMAIN verdicts
                   /\ \E status \in Peek(verdicts, c) : Becomes(c, Ended(r, status))
                   /\ UNCHANGED verdicts
                \/ c \notin DOMAIN verdicts /\ Decide(c, r, Mode)
        /\ UNCHANGED <<config, modeVars, inspectCache, clock, cleared>>

(* A check of the stock build never reaches the plugin, but its prompt     *)
(* does, as an event.                                                      *)
StockCheck(c, rule) ==
    LET r == [call[c] EXCEPT !.rule = rule]
    IN  /\ build = "stock" /\ MayCheck(c)
        /\ Becomes(c, LeftToRules(r))
        /\ UNCHANGED <<config, modeVars, modeCache, patched, verdicts, inspectCache, clock, cleared>>

(* contextFor is done: it reads the mode again for the request's metadata. *)
SendDecide(c) ==
    /\ call[c].stage = "looking"
    /\ ReadsMode
    /\ Becomes(c, [call[c] EXCEPT !.stage = "asking", !.asks = @ + 1])
    /\ UNCHANGED <<config, modeVars, patched, verdicts, inspectCache, clock, cleared>>

(* The rule a hook passes to resolveOut: `before` has none to inherit.     *)
Inherited(r) == IF r.hook = "before" THEN "ask" ELSE r.rule

GuardDecides(c, result) ==
    LET status == ResolveAnswer(result, onUnavailable, Inherited(call[c]))
    IN  /\ call[c].stage = "asking"
        /\ verdicts' = Enter(verdicts, c, status, clock)
        /\ Becomes(c, Ended(Heard(call[c], result), status))
        /\ UNCHANGED <<config, modeVars, modeCache, patched, inspectCache, clock, cleared>>

(* event "permission.asked", answered once; the request that answers it    *)
(* may fail, and then nothing changes.                                     *)
AutoApprove(c) ==
    /\ call[c].stage = "prompted" /\ ~patched
    /\ "allow" \in Peek(verdicts, c)
    /\ Becomes(c, Passed(call[c], "nobody"))
    /\ UNCHANGED <<config, modeVars, modeCache, patched, verdicts, inspectCache, clock, cleared>>

HumanAnswers(c) ==
    /\ call[c].stage = "prompted"
    /\ Becomes(c, Passed(call[c], "human")) \/ Becomes(c, Blocked(call[c]))
    /\ UNCHANGED <<config, modeVars, modeCache, patched, verdicts, inspectCache, clock, cleared>>

----------------------------------------------------------------------------
(* Tool results.                                                           *)

(* It returns a text, or throws one as its error.                          *)
ToolRuns(c, output) ==
    /\ call[c].stage = "idle" /\ call[c].begun
    /\ Becomes(c, [NewCall EXCEPT !.begun = TRUE, !.stage = "ran",
                                  !.text = output.text, !.threw = output.threw])
    /\ UNCHANGED <<config, modeVars, modeCache, patched, verdicts, inspectCache, clock, cleared>>

(* The text and why it was let through stay on record only if it was.      *)
Told(r, as) == [(IF as = "raw" THEN r ELSE NewCall) EXCEPT !.begun = TRUE, !.stage = "told", !.told = as]

(* An error that begins as the plugin's own messages do.                   *)
IsOwnMessage(r) == r.threw /\ r.text \in OwnMessages

(* "tool.execute.after" for a result and the messages transform for an     *)
(* error, up to the first await of inspectIncoming.  Only the transform    *)
(* skips the plugin's own messages.                                        *)
Inspect(c) ==
    LET r == call[c]
    IN  /\ r.stage = "ran"
        /\ ReadsMode
        /\ IF Mode = "off" \/ r.text = NoOutput \/ IsOwnMessage(r)
           THEN Becomes(c, [Told(r, "raw") EXCEPT !.met = IF Mode = "off" THEN "off" ELSE @])
           ELSE \/ \E answer \in Cached(inspectCache, r.text) :
                        Becomes(c, Told(r, ResolveIn(answer, onUnavailable)))
                \/ /\ Cached(inspectCache, r.text) = {}
                   /\ Becomes(c, [r EXCEPT !.stage = "fetching"])
        /\ UNCHANGED <<config, modeVars, patched, verdicts, inspectCache, clock, cleared>>

SendInspect(c) ==
    /\ call[c].stage = "fetching"
    /\ ReadsMode
    /\ Becomes(c, [call[c] EXCEPT !.stage = "inspecting"])
    /\ UNCHANGED <<config, modeVars, patched, verdicts, inspectCache, clock, cleared>>

(* Mutant: what came of the request is remembered, whatever it was.        *)
RemembersFailures(cache, text, result) == Keep(cache, text, result)

(* Only an answer is remembered, a failure never.                          *)
Remembered(cache, text, result) ==
    IF result \in InspectAnswers THEN Keep(cache, text, result) ELSE cache

GuardInspects(c, result) ==
    LET r == [call[c] EXCEPT !.met = IF result \in Failures THEN result ELSE @]
    IN  /\ r.stage = "inspecting"
        /\ inspectCache' = Remembered(inspectCache, r.text, result)
        /\ cleared' = IF result \in {"pass", "mask_without_text"}
                      THEN cleared \cup {r.text} ELSE cleared
        /\ Becomes(c, Told(r, ResolveIn(result, onUnavailable)))
        /\ UNCHANGED <<config, modeVars, modeCache, patched, verdicts, clock>>

----------------------------------------------------------------------------
(* The mode, and time.                                                     *)

Written(mode) ==
    /\ writes < MaxWrites
    /\ file' = StateFile(mode, clock)
    /\ writes' = writes + 1
    /\ lastTick' = {mode} \cup (IF file.exists /\ file.mtime = clock THEN lastTick ELSE {})

(* The TUI and the CLI are other processes: this one's cache stays.        *)
OtherProcessWrites(mode) ==
    /\ Written(mode)
    /\ UNCHANGED <<config, modeCache, patched, verdicts, inspectCache, call, clock, cleared>>

(* "command.execute.before": /gate <mode>; /gate cycle is one of these.    *)
SlashCommand(mode) ==
    /\ Written(mode)
    /\ modeCache' = Unread
    /\ UNCHANGED <<config, patched, verdicts, inspectCache, call, clock, cleared>>

Tick ==
    /\ clock < MaxClock
    /\ clock' = clock + 1
    /\ UNCHANGED <<config, modeVars, modeCache, patched, verdicts, inspectCache, call, cleared>>

Outgoing(c) ==
    \/ Before(c)
    \/ \E rule \in {"allow", "ask"} : PermissionAsk(c, rule) \/ StockCheck(c, rule)
    \/ SendDecide(c)
    \/ \E result \in DecideResults : GuardDecides(c, result)
    \/ AutoApprove(c)
    \/ HumanAnswers(c)

Incoming(c) ==
    \/ \E output \in Outputs[c] : ToolRuns(c, output)
    \/ Inspect(c)
    \/ SendInspect(c)
    \/ \E result \in InspectResults : GuardInspects(c, result)

Next ==
    \/ \E c \in Calls : Outgoing(c) \/ Incoming(c)
    \/ \E m \in Modes : OtherProcessWrites(m) \/ SlashCommand(m)
    \/ Tick

Spec == Init /\ [][Next]_vars

----------------------------------------------------------------------------
(* The plugin weakens the harness's own rules only for a reason: where     *)
(* they ask for the human and nobody asks him, the guard has allowed this  *)
(* very call, or a hook of this call ran in mode "allow", or, failing      *)
(* open, the call inherits what the rules said to its first check.  An     *)
(* answer that is no answer, the verdict of another call, or one that has  *)
(* outlived its place in the book never answers a prompt.                  *)
SilentPassHasAReason ==
    \A c \in Calls : \A i \in DOMAIN call[c].checks :
        LET check == call[c].checks[i]
            inherits == /\ onUnavailable = "allow" /\ "unreachable" \in call[c].heard
                        /\ \E j \in 1 .. i - 1 : call[c].checks[j].rule = "allow"
        IN  check.rule = "ask" /\ check.asked = "nobody" =>
                "allow" \in call[c].heard \/ inherits

(* docs/ARCHITECTURE.md says that to fail open is to let the harness's own *)
(* rules decide, and not to let the call through: a check nobody but an    *)
(* absent guard was asked about passes in silence only where the rules let *)
(* it.                                                                     *)
FailOpenLeavesItToTheRules ==
    \A c \in Calls : \A i \in DOMAIN call[c].checks :
        LET check == call[c].checks[i]
        IN  call[c].heard = {"unreachable"} /\ check.asked = "nobody" =>
                check.rule = "allow"

(* index.ts, "Decide once per callID and reuse it": however many checks a  *)
(* call raises and whichever hook comes first, the guard is asked about it *)
(* again only when its first verdict is older than the book's time to live.*)
AskedAgainOnlyWhenOld ==
    \A c \in Calls : call[c].asks > 1 =>
        \E t \in call[c].since : t + VerdictTtl < clock

(* Unfiltered text reaches the model only if the plugin is off, or the     *)
(* guard has passed this text (or masked it without a replacement), or the *)
(* guard does not inspect, or it is absent and the policy is not to deny,  *)
(* or a tool threw it and it begins as the plugin's own messages do        *)
(* (index.ts, isOwnMessage; plugin.test.ts, "does not send its own deny    *)
(* text back to the guard").  The same text as a result is no exception.   *)
RawTextWasCleared ==
    \A c \in Calls : call[c].told = "raw" /\ call[c].text # NoOutput =>
        \/ IsOwnMessage(call[c])
        \/ call[c].text \in cleared
        \/ call[c].met \in {"off", "not_implemented"}
        \/ call[c].met = "unreachable" /\ onUnavailable # "deny"

(* A switch of the mode takes effect at the next hook, from whichever      *)
(* process it comes, up to the grain of the time stamps: the mode a hook   *)
(* would read now was written in the tick of the last write.               *)
ModeIsOfTheLastTick ==
    IF file.exists THEN Mode \in lastTick ELSE Mode = "auto"
=============================================================================
