----------------------------- MODULE MCPluginV1 -----------------------------
(* Instances of PluginV1 for TLC: a tool call with up to two permission    *)
(* checks and one without any; two texts, one of which begins as the       *)
(* plugin's own messages do.                                               *)
EXTENDS PluginV1, TLC

CONSTANTS c1, c2, t, own

MCCalls == {c1, c2}
MCTexts == {t, own}
MCOwnMessages == {own}
MCInitialModes == {"auto"}
MCMaxChecks == c1 :> 2 @@ c2 :> 0
MCOutputs ==
    LET Returned(text) == [text |-> text, threw |-> FALSE]
        Thrown(text) == [text |-> text, threw |-> TRUE]
    IN  c1 :> {Returned(own), Thrown(own), Thrown(t), Returned(NoOutput)} @@
        c2 :> {Thrown(t)}
=============================================================================
