---------------------------- MODULE MCModeration ----------------------------
(* The parts of moderation, each on its own: part says which one this       *)
(* behaviour exercises.                                                     *)
EXTENDS Moderation, Reputation, SpamDetector, RateLimiter, TextLayers, LayerBoot

VARIABLE part

mcVars == <<dbVars, modVars, repVars, sdVars, rlVars, txVars, lbVars, part>>

Quiet == [a \in Axes |-> 0]
MCMessages ==
    {[scores |-> Quiet, vec |-> "hello"],
     [scores |-> [Quiet EXCEPT !["slurs"] = 100], vec |-> "slur"]}
MCHeatCfg ==
    [floor |-> [a \in Axes |-> IF a = "hate" THEN 85 ELSE 0],
     weight |-> [a \in Axes |-> CASE a = "slurs" -> 6 [] a = "hate" -> 10 [] a = "link_risk" -> 5
                                  [] a = "semantic_echo" -> 2 [] OTHER -> 1],
     censor |-> 10000, drop |-> 30000, mute |-> 60000, kick |-> 100000, ban |-> 150000, perma |-> 250000,
     mute_duration |-> 2, prune_below |-> 500, sweep_idle |-> 1]
MCNetOf == [h \in Hosts |-> "net"]
MCHostOf == [v \in Visitors |-> "h1"]
MCLines == {[words |-> "buy", style |-> "plain"], [words |-> "buy", style |-> "spaced"]}
MCRules == {[rate |-> 1, burst |-> 2], [rate |-> 2, burst |-> 4]}
MCListed == {<<"b", "a", "c">>, <<"h", "o", "o", "t">>}
MCExempt == {<<"b", "a", "c", "e", "s">>}
MCEndings == {<<"s">>, <<"e", "r", "s">>}
MCSymmetry == Permutations(Speakers) \cup Permutations(Details) \cup Permutations(Visitors)

Parts == <<"content", "reputation", "spam", "rate", "text", "boot">>

MCInit ==
    /\ part \in Range(Parts)
    /\ DbInit /\ ModInit /\ RepInit /\ SdInit /\ RlInit /\ LbInit
    /\ IF part = "text" THEN TxInit ELSE message = <<>> /\ link = {} /\ claim = "other" /\ edits = 0

Others(p) ==
    /\ p \notin {"content"} => UNCHANGED <<dbVars, modVars>>
    /\ p # "reputation" => UNCHANGED repVars
    /\ p # "spam" => UNCHANGED sdVars
    /\ p # "rate" => UNCHANGED rlVars
    /\ p # "text" => UNCHANGED txVars
    /\ p # "boot" => UNCHANGED lbVars

MCNext ==
    /\ UNCHANGED part
    /\ \/ part = "content" /\ ModNext
       \/ part = "reputation" /\ RepNext
       \/ part = "spam" /\ SdNext
       \/ part = "rate" /\ RlNext
       \/ part = "text" /\ TxNext
       \/ part = "boot" /\ LbNext
    /\ Others(part)

MCSpec == MCInit /\ [][MCNext]_mcVars
=============================================================================
