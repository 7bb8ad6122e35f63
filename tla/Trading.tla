------------------------------ MODULE Trading ------------------------------
(***************************************************************************)
(* The trades of a backtest in one symbol, for the two strategy families:  *)
(* strategies/ema (ema_alert_carry, simulate_trades) and strategies/orb    *)
(* (generate_orb_signals, simulate_trades).  Both go over a frame of bars, *)
(* signals first and exits then; what they do at a bar depends on it and   *)
(* on earlier bars alone, so an action here is one bar: the entry it       *)
(* brings, then the exit.  Where orb lets trades overlap they do not       *)
(* affect each other, and the open trade here is any one of them.          *)
(*                                                                         *)
(* Prices are ticks, fine enough for the reward of any risk to be a tick:  *)
(* ratios are counted in Unit-ths, prices and slippage in Units of ticks.  *)
(* A ratio may be below 1 (validate_orb_runtime_config: 0.5).  Whether a   *)
(* bar lies wholly beyond the moving average, whether the filters of the   *)
(* runtime config let a signal pass, and whether the cutoff time or the    *)
(* volatility trail closes a trade are inputs.  Bars without a price are   *)
(* left out.                                                               *)
(***************************************************************************)
EXTENDS Integers

CONSTANTS
    Unit,           \* the ticks of a unit
    MaxPrice,       \* bound: prices are 1 .. MaxPrice units
    Slippage,       \* slippage_pct, in units
    MaxHold,        \* max_hold_bars
    OrBars,         \* or_minutes \div timeframe_minutes, at least one
    Configs,        \* the runtime configs
    None            \* no alert, no signal, no position, no trade, no bar

Sides == {"long", "short"}
Options == {"trail", "one_entry", "long_only", "skip_outside", "follow_through",
            "failed_breakout", "opposite_break", "conservative"}

ASSUME ConstantsAssumption ==
    /\ Unit \in Nat \ {0} /\ MaxPrice \in Nat \ {0} /\ Slippage \in Nat
    /\ MaxHold \in Nat \ {0} /\ OrBars \in Nat \ {0}
    /\ Configs \subseteq [family : {"ema", "orb"}, side : Sides, options : SUBSET Options,
                          ratio : Nat \ {0}]     \* rr_ratio, or trail_after_r where that is set

VARIABLES
    config,         \* the runtime config
    prev,           \* the last bar
    alert,          \* ema: the armed alert bar's two extremes, and whether its session is over
    session,        \* orb: the opening range and the signal of the last bar
    position,       \* the open trade
    trade           \* the trade this bar closed

vars == <<config, prev, alert, session, position, trade>>

-----------------------------------------------------------------------------
Prices == {Unit * units : units \in 1 .. MaxPrice}

\* The last bar of a session, or of the data, is marked.
Bars ==
    {b \in [open : Prices, high : Prices, low : Prices, close : Prices,
            beyond : BOOLEAN, last : BOOLEAN] :
        b.low <= b.open /\ b.open <= b.high /\ b.low <= b.close /\ b.close <= b.high}

ASSUME NoneIsNoBar == None \notin Bars

With(option) == option \in config.options
Sign(side) == IF side = "long" THEN 1 ELSE -1
Favourable(side, bar) == IF side = "long" THEN bar.high ELSE bar.low
Adverse(side, bar) == IF side = "long" THEN bar.low ELSE bar.high
Reaches(side, x, y) == Sign(side) * x >= Sign(side) * y     \* x is y or better
Passes(side, x, y) == Sign(side) * x > Sign(side) * y
Distance(x, y) == IF x > y THEN x - y ELSE y - x

NoSession == [seen |-> 0, high |-> Unit, low |-> Unit * MaxPrice, skip |-> FALSE, spent |-> FALSE,
              signal |-> None]

Init ==
    /\ config \in Configs
    /\ prev = None /\ alert = None /\ session = NoSession /\ position = None /\ trade = None

Slipped(side, price) == price + Sign(side) * (Unit * Slippage)
Reward(risk) == (config.ratio * risk) \div Unit

NewSession == prev = None \/ prev.last

NewPosition(side, entry, stop, target) ==
    [side |-> side, entry |-> entry, initial |-> stop, stop |-> stop, target |-> target,
     trailing |-> FALSE, stopped |-> FALSE, held |-> 0]

-----------------------------------------------------------------------------
(* ema: signals.                                                           *)

\* The alert a bar finds armed: the previous bar where that was beyond the average,
\* else the alert carried so far, which a new session drops.
Carried == IF NewSession THEN None ELSE alert
Armed ==
    IF prev # None /\ prev.beyond
    THEN [entry |-> Favourable(config.side, prev), stop |-> Adverse(config.side, prev)]
    ELSE Carried

Breaks(bar) == Armed # None /\ Passes(config.side, Favourable(config.side, bar), Armed.entry)

\* A signal enters at the alert's extreme, unless its risk is none.
EmaEntry(bar, passed) ==
    LET entry == Slipped(config.side, Armed.entry)
        reward == Reward(Distance(entry, Armed.stop))
    IN IF Breaks(bar) /\ passed /\ Passes(config.side, entry, Armed.stop)
       THEN NewPosition(config.side, entry, Armed.stop, entry + Sign(config.side) * reward)
       ELSE None

AlertAfter(bar) == IF Breaks(bar) THEN None ELSE Armed

-----------------------------------------------------------------------------
(* orb: signals.                                                           *)

Session == IF NewSession THEN NoSession ELSE session

InRange(s) == s.seen < OrBars
Widened(s, bar) ==
    [s EXCEPT !.seen = @ + 1, !.high = IF bar.high > @ THEN bar.high ELSE @,
              !.low = IF bar.low < @ THEN bar.low ELSE @]

Level(s, side) == IF side = "long" THEN s.high ELSE s.low
FarLevel(s, side) == IF side = "long" THEN s.low ELSE s.high

Outside(s, bar) == With("skip_outside") /\ bar.high > s.high /\ bar.low < s.low
Breakout(s, side, bar) ==
    /\ Passes(side, bar.close, Level(s, side))
    /\ With("follow_through") => Passes(side, prev.close, Level(s, side))
    /\ side = "long" \/ ~With("long_only")

\* The side on which a bar closes beyond the range, if the filters let it pass.
Signal(s, bar, passed) ==
    IF s.skip \/ Outside(s, bar) \/ ~passed \/ (With("one_entry") /\ s.spent) THEN None
    ELSE IF Breakout(s, "long", bar) THEN "long"
    ELSE IF Breakout(s, "short", bar) THEN "short"
    ELSE None

SessionAfter(bar, passed) ==
    LET s == Session
        signal == Signal(s, bar, passed)
    IN IF InRange(s) THEN Widened(s, bar)
       ELSE [s EXCEPT !.skip = @ \/ Outside(s, bar), !.signal = signal,
                      !.spent = @ \/ signal # None]

\* A signal enters at the open of the next bar of its session, whose stop is the far
\* side of the range even where the bar opens beyond it: the target then lies beyond
\* the open, and with a ratio below 1 it is the nearer of the two.
OrbEntry(bar) ==
    LET s == Session
        side == s.signal
        stop == FarLevel(s, side)
    IN IF side = None THEN None
       ELSE NewPosition(side, Slipped(side, bar.open), stop,
                        bar.open + Reward(bar.open - stop))

-----------------------------------------------------------------------------
(* Exits.                                                                  *)

StopHit(p, bar) == Reaches(p.side, p.stop, Adverse(p.side, bar))
TargetHit(p, bar) == Reaches(p.side, Favourable(p.side, bar), p.target)

\* Variants: a position is held for the session; over the night.
SessionEnds(p, bar) == bar.last
HoldEnds(p, bar) == p.held = MaxHold
Deadline(p, bar) == SessionEnds(p, bar) \/ p.held = MaxHold

\* Where a bar reaches both the stop and the target, the nearer to its open was first.
StopFirst(p, bar) == Distance(bar.open, p.stop) <= Distance(bar.open, p.target)
Stops(p, bar) == StopHit(p, bar) /\ (~TargetHit(p, bar) \/ StopFirst(p, bar))

NoExit == <<0, "none">>

\* _exit_fixed_target.
FixedExit(p, bar) ==
    IF Stops(p, bar) THEN <<p.stop, "stop_loss">>
    ELSE IF TargetHit(p, bar) THEN <<p.target, "target">>
    ELSE IF Deadline(p, bar) THEN <<bar.close, "close">>
    ELSE NoExit

\* _exit_trail_after_r: the stop in force before the bar, then the deadline.
TrailExit(p, bar) ==
    IF StopHit(p, bar) THEN <<p.stop, IF p.trailing THEN "trail_stop" ELSE "stop_loss">>
    ELSE IF Deadline(p, bar) THEN <<bar.close, "close">>
    ELSE NoExit

\* The kernel of orb: stop and target, then what a close may bring, then the deadline.
\* A conservative stop is filled at the open of the session's next bar.
CloseExit(p, bar, cut) ==
    LET failed == With("failed_breakout") /\ Passes(p.side, Level(Session, p.side), bar.close)
        opposite == With("opposite_break") /\ Passes(p.side, FarLevel(Session, p.side), bar.close)
    IN IF cut \/ failed THEN <<bar.close, "close">>
       ELSE IF opposite THEN <<bar.close, "opposite_break">>
       ELSE IF Deadline(p, bar) THEN <<bar.close, "close">>
       ELSE NoExit
StopFill(p, bar) ==
    IF ~With("conservative") THEN <<p.stop, "stop_loss">>
    ELSE IF bar.last THEN <<bar.close, "stop_loss">>
    ELSE NoExit
\* Variant: what the close brings comes first.
OrbCloseFirst(p, bar, cut) ==
    IF CloseExit(p, bar, cut) # NoExit THEN CloseExit(p, bar, cut)
    ELSE IF Stops(p, bar) THEN StopFill(p, bar)
    ELSE NoExit
OrbExit(p, bar, cut) ==
    IF p.stopped THEN <<bar.open, "stop_loss">>
    ELSE IF Stops(p, bar) THEN StopFill(p, bar)
    ELSE IF TargetHit(p, bar) THEN <<p.target, "target">>
    ELSE CloseExit(p, bar, cut)

Exit(p, bar, cut) ==
    IF config.family = "orb" THEN OrbExit(p, bar, cut)
    ELSE IF With("trail") THEN TrailExit(p, bar) ELSE FixedExit(p, bar)

\* The bar before is the candidate for the trailing stop, the entry bar on itself.
Tightened(p, candidate) == IF Passes(p.side, candidate, p.stop) THEN candidate ELSE p.stop
Trailed(p, bar) ==
    LET trailing == p.trailing \/ TargetHit(p, bar)
        candidate == Adverse(p.side, IF p.held = 0 THEN bar ELSE prev)
    IN IF With("trail") /\ trailing
       THEN [p EXCEPT !.trailing = TRUE, !.stop = Tightened(p, candidate)] ELSE p
Held(p, bar) ==
    [Trailed(p, bar) EXCEPT !.held = @ + 1,
                            !.stopped = With("conservative") /\ Stops(p, bar)]

-----------------------------------------------------------------------------
Entry(bar, passed) == IF config.family = "ema" THEN EmaEntry(bar, passed) ELSE OrbEntry(bar)

\* Variant: the bar of the entry itself brings no exit.
ScansLater(p) == p.held > 0
Scans(p) == TRUE

NewTrade(p, bar, exit) ==
    [side |-> p.side, initial |-> p.initial, stop |-> p.stop, exit |-> exit[1],
     reason |-> exit[2], gap |-> prev # None /\ bar.open # prev.close]

Bar(bar, passed, cut) ==
    /\ prev' = bar
    /\ IF config.family = "ema" THEN /\ ~cut /\ alert' = AlertAfter(bar)
                                     /\ UNCHANGED session
       ELSE ~bar.beyond /\ session' = SessionAfter(bar, passed) /\ UNCHANGED alert
    /\ LET p == IF position = None THEN Entry(bar, passed) ELSE position
           exit == Exit(p, bar, cut)
       IN IF p = None THEN UNCHANGED position /\ trade' = None
          ELSE IF exit = NoExit \/ ~Scans(p) THEN position' = Held(p, bar) /\ trade' = None
          ELSE position' = None /\ trade' = NewTrade(p, bar, exit)
    /\ UNCHANGED config

Next == \E bar \in Bars, passed, cut \in BOOLEAN : Bar(bar, passed, cut)
Spec == Init /\ [][Next]_vars

-----------------------------------------------------------------------------
(* Type invariant of the frame's last bar, the signals and the trades.  No *)
(* trade ends as an "opposite_break": at the far side is the stop.         *)
TypeOK ==
    /\ config \in Configs
    /\ prev = None \/ prev \in Bars
    /\ alert = None \/ alert \in [entry : Prices, stop : Prices]
    /\ session \in [seen : 0 .. OrBars, high : Prices, low : Prices, skip : BOOLEAN,
                    spent : BOOLEAN, signal : Sides \union {None}]
    /\ position = None \/ position \in
         [side : Sides, entry : Int, initial : Prices, stop : Prices, target : Int,
          trailing : BOOLEAN, stopped : BOOLEAN, held : 0 .. MaxHold + 1]
    /\ trade = None \/
         /\ trade.side \in Sides /\ trade.gap \in BOOLEAN
         /\ trade.initial \in Prices /\ trade.stop \in Prices /\ trade.exit \in Int
         /\ trade.reason \in {"stop_loss", "trail_stop", "target", "close"}

(* No trade is open between two sessions, whatever bar it was entered on   *)
(* and however it is to be closed (strategies/contract.py,                 *)
(* eod_exit_policy "force_exit_same_session").                             *)
FlatOvernight == position # None => ~prev.last

(* Before its slippage a trade loses no more than the risk it was entered  *)
(* with, however it ends, unless its last bar opened beyond the stop: a    *)
(* bar that closes beyond the stop has hit it.  Where the last bar did     *)
(* open beyond it, the code still fills at the stop, or at the target of   *)
(* a trade entered there, though the contract says open_when_gapped        *)
(* (strategies/contract.py).  A conservative stop is filled at an open,    *)
(* which may be anywhere.                                                  *)
LossIsBounded ==
    trade # None /\ Reaches(trade.side, prev.open, trade.stop) =>
        \/ trade.reason = "stop_loss" /\ With("conservative")
        \/ Reaches(trade.side, trade.exit, trade.initial)

(* A trade that is entered beyond its stop, its target on the far side of  *)
(* both, does not stay open: the bar it is entered on closes it, or has    *)
(* it closed at the next open where stops are conservative.                *)
InvertedTradesEnd ==
    position # None =>
        position.stopped \/ Reaches(position.side, position.target, position.initial)

(* Where a bar opens at the close of the last one, a trade is closed at a  *)
(* price the bar traded at, trailing stops apart.                          *)
FillsAreInBar ==
    trade # None /\ ~trade.gap /\ trade.reason # "trail_stop" =>
        trade.exit \in prev.low .. prev.high
=============================================================================
