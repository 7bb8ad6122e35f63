------------------------------ MODULE MCTrading ------------------------------
(* A small instance of Trading for TLC.                                    *)
EXTENDS Trading

Ema(side, options, ratio) ==
    [family |-> "ema", side |-> side, options |-> options, ratio |-> ratio]
Orb(options, ratio) ==
    [family |-> "orb", side |-> "long", options |-> options, ratio |-> ratio]

\* Each option is on in one config and off in another; a ratio of 1 is half of one.
MCConfigs ==
    {Ema("long", {}, 1), Ema("short", {"trail"}, 2),
     Orb({"one_entry", "failed_breakout", "skip_outside"}, 1),
     Orb({"opposite_break", "follow_through", "conservative"}, 1),
     Orb({"long_only"}, 3)}
==============================================================================
