--------------------------- MODULE StrategyProofs ---------------------------
(***************************************************************************)
(* Strategies as they trade and as they are built.  The first part is of   *)
(* the trades: for any prices, configs, slippage and ratio of reward to    *)
(* risk, none is open over a night, none loses more than it risked unless  *)
(* its last bar opens beyond its stop, one that is entered beyond its stop *)
(* does not stay open, and in a bar without a gap each is closed at a      *)
(* price of that bar.  The second part is of the builder: what a completed *)
(* build is worth, for any theses, any retry limit, any number of builds   *)
(* and whatever agents, seeds and earlier builds left in the two trees.    *)
(***************************************************************************)
EXTENDS Trading, Builder, TLAPS

-----------------------------------------------------------------------------
(* Prices and sides.                                                       *)

\* What is better is more on the long side and less on the short one.
LEMMA SideOrder ==
    ASSUME NEW x \in Int, NEW y \in Int
    PROVE  /\ Reaches("long", x, y) <=> x >= y
           /\ Reaches("short", x, y) <=> x <= y
           /\ Passes("long", x, y) <=> x > y
           /\ Passes("short", x, y) <=> x < y
  BY DEF Reaches, Passes, Sign

\* Prices are whole ticks.
LEMMA PricesAreInt ==
    /\ Prices \subseteq Int
    /\ Unit \in Prices /\ Unit * MaxPrice \in Prices
<1>1. Unit \in Int /\ MaxPrice \in Nat \ {0} /\ Unit * 1 = Unit
  BY ConstantsAssumption
<1>2. \A units \in 1 .. MaxPrice : Unit * units \in Int
  BY <1>1
<1>3. 1 \in 1 .. MaxPrice /\ MaxPrice \in 1 .. MaxPrice
  BY <1>1
<1> QED
  BY <1>1, <1>2, <1>3 DEF Prices

\* A reward lies on its risk's side of the entry, whatever the ratio.
LEMMA RewardKeepsItsSign ==
    ASSUME config.ratio \in Nat \ {0}, NEW risk \in Int
    PROVE  /\ Reward(risk) \in Int
           /\ risk >= 0 => Reward(risk) >= 0
           /\ risk <= 0 => Reward(risk) <= 0
<1> DEFINE product == config.ratio * risk
<1>1. Unit \in Nat \ {0}
  BY ConstantsAssumption
<1>2. product \in Int /\ (risk >= 0 => product >= 0) /\ (risk <= 0 => product <= 0)
  OBVIOUS
<1> HIDE DEF product
<1>3. /\ product \div Unit \in Int
      /\ product >= 0 => product \div Unit >= 0
      /\ product <= 0 => product \div Unit <= 0
  BY <1>1, <1>2
<1> QED
  BY <1>2, <1>3 DEF Reward, product

LEMMA SlippedIsInt ==
    ASSUME NEW side \in Sides, NEW price \in Int
    PROVE  /\ Slipped(side, price) \in Int
           /\ Reaches(side, Slipped(side, price), price)
<1>1. Unit * Slippage \in Nat
  BY ConstantsAssumption
<1> DEFINE slip == Unit * Slippage
<1>2. Slipped(side, price) = price + Sign(side) * slip
  BY DEF Slipped
<1> HIDE DEF slip
<1>3. slip \in Nat
  BY <1>1 DEF slip
<1>4. CASE side = "long"
  BY <1>2, <1>3, <1>4, SideOrder DEF Sign
<1>5. CASE side = "short"
  BY <1>2, <1>3, <1>5, SideOrder DEF Sign
<1> QED
  BY <1>4, <1>5 DEF Sides

LEMMA BarPrices ==
    ASSUME NEW bar \in Bars
    PROVE  /\ bar.open \in Int /\ bar.high \in Int /\ bar.low \in Int /\ bar.close \in Int
           /\ bar.low <= bar.open /\ bar.open <= bar.high
           /\ bar.low <= bar.close /\ bar.close <= bar.high
           /\ bar.last \in BOOLEAN /\ bar.beyond \in BOOLEAN
  BY PricesAreInt DEF Bars

-----------------------------------------------------------------------------
(* The invariant.                                                          *)

Positions == [side : Sides, entry : Int, initial : Int, stop : Int, target : Int,
              trailing : BOOLEAN, stopped : BOOLEAN, held : Int]

\* A stop never falls behind the initial one.  Only a conservative position of
\* orb waits for its fill, and one trails that is of ema or waits.
Sound(p) ==
    /\ p \in Positions
    /\ Reaches(p.side, p.stop, p.initial)
    /\ p.stopped => config.family = "orb" /\ With("conservative")
    /\ p.trailing => With("trail") /\ (config.family = "ema" \/ p.stopped)

\* A target lies beyond the initial stop, and the last close was between the two
\* levels, unless the position only waits for its fill or has begun to trail.
Between(p) ==
    /\ p.stopped \/ Reaches(p.side, p.target, p.initial)
    /\ \/ p.stopped \/ p.trailing
       \/ Passes(p.side, prev.close, p.stop) /\ Passes(p.side, p.target, prev.close)

PositionHolds == position # None => prev \in Bars /\ Sound(position) /\ Between(position)

\* An armed alert is one that the last bar did not break.
AlertHolds ==
    alert # None =>
        /\ prev \in Bars /\ alert.entry \in Int /\ alert.stop \in Int
        /\ Reaches(config.side, alert.entry, Favourable(config.side, prev))
        /\ Reaches(config.side, alert.entry, alert.stop)

\* A signal is a close of the last bar beyond a range that is complete.
SessionHolds ==
    /\ session \in [seen : Nat, high : Int, low : Int, skip : BOOLEAN, spent : BOOLEAN,
                    signal : Sides \cup {None}]
    /\ session.seen >= 1 => session.low <= session.high
    /\ session.signal # None =>
          /\ session.seen >= OrBars /\ prev \in Bars
          /\ Passes(session.signal, prev.close, Level(session, session.signal))

\* Each family has its own signals.
FamilyHolds == IF config.family = "ema" THEN session = NoSession ELSE alert = None

Inv ==
    /\ config \in Configs
    /\ prev = None \/ prev \in Bars
    /\ FamilyHolds /\ AlertHolds /\ SessionHolds /\ PositionHolds

-----------------------------------------------------------------------------
(* The position that a bar finds or brings.                                *)

Gap(bar) == prev # None /\ bar.open # prev.close

OpensBeyond(p, bar) == Passes(p.side, p.stop, bar.open)

\* What is known of a position when a bar scans it: its target is behind its
\* initial stop only if the bar opens beyond the stop, and in a bar without a
\* gap it is stopped, or closed at its target, inside the bar.
Ready(p, bar) ==
    /\ Sound(p)
    /\ p.stopped \/ OpensBeyond(p, bar) \/ Reaches(p.side, p.target, p.initial)
    /\ \/ Gap(bar) \/ p.stopped \/ p.trailing
       \/ /\ StopHit(p, bar) => p.stop \in bar.low .. bar.high
          /\ TargetHit(p, bar) => p.target \in bar.low .. bar.high

LEMMA OpenPositionIsReady ==
    ASSUME Inv, position # None, NEW bar \in Bars
    PROVE  Ready(position, bar)
<1> DEFINE p == position
<1>1. prev \in Bars /\ Sound(p) /\ Between(p)
  BY DEF Inv, PositionHolds
<1>2. prev.close \in Int /\ p.stop \in Int /\ p.target \in Int /\ p.side \in Sides
  BY <1>1, BarPrices DEF Sound, Positions
<1> HIDE DEF p
<1>3. ASSUME Passes(p.side, prev.close, p.stop), Passes(p.side, p.target, prev.close),
             bar.open = prev.close
      PROVE  /\ StopHit(p, bar) => p.stop \in bar.low .. bar.high
             /\ TargetHit(p, bar) => p.target \in bar.low .. bar.high
  <2>1. CASE p.side = "long"
    BY <1>2, <1>3, <2>1, BarPrices, SideOrder DEF StopHit, TargetHit, Adverse, Favourable
  <2>2. CASE p.side = "short"
    BY <1>2, <1>3, <2>2, BarPrices, SideOrder DEF StopHit, TargetHit, Adverse, Favourable
  <2> QED
    BY <1>2, <2>1, <2>2 DEF Sides
<1>4. Gap(bar) \/ bar.open = prev.close \/ prev = None
  BY DEF Gap
<1>7. p.stopped \/ Reaches(p.side, p.target, p.initial)
  BY <1>1 DEF Between
<1>5. prev # None
  BY <1>1, NoneIsNoBar
<1>6. \/ Gap(bar) \/ p.stopped \/ p.trailing
      \/ /\ StopHit(p, bar) => p.stop \in bar.low .. bar.high
         /\ TargetHit(p, bar) => p.target \in bar.low .. bar.high
  BY <1>1, <1>3, <1>4, <1>5 DEF Between
<1> QED
  BY <1>1, <1>6, <1>7 DEF Ready, p

\* A position as it is entered.
LEMMA NewPositionIsSound ==
    ASSUME NEW side \in Sides, NEW entry \in Int, NEW stop \in Int, NEW target \in Int
    PROVE  LET p == NewPosition(side, entry, stop, target)
           IN  /\ Sound(p) /\ p.side = side /\ p.stop = stop /\ p.initial = stop
               /\ p.target = target /\ ~p.stopped /\ ~p.trailing
<1> DEFINE p == NewPosition(side, entry, stop, target)
<1>1. /\ p.side = side /\ p.stop = stop /\ p.initial = stop
      /\ p.target = target /\ ~p.stopped /\ ~p.trailing
      /\ p \in Positions
  BY DEF NewPosition, Positions
<1> HIDE DEF p
<1>2. Reaches(p.side, p.stop, p.initial)
  BY <1>1, SideOrder DEF Sides
<1> QED
  BY <1>1, <1>2 DEF Sound, p

LEMMA DistanceIsNat ==
    ASSUME NEW x \in Int, NEW y \in Int
    PROVE  Distance(x, y) \in Nat
  BY DEF Distance

\* The alert that a bar breaks was beyond the last close, and its stop on the
\* other side.
LEMMA BrokenAlert ==
    ASSUME Inv, config.family = "ema", NEW bar \in Bars, Breaks(bar)
    PROVE  /\ Armed.entry \in Int /\ Armed.stop \in Int /\ prev \in Bars
           /\ Reaches(config.side, Armed.entry, Armed.stop)
           /\ Reaches(config.side, Armed.entry, Favourable(config.side, prev))
<1>1. config.side \in Sides
  BY ConstantsAssumption DEF Inv
<1>2. Armed # None
  BY DEF Breaks
<1>3. CASE prev # None /\ prev.beyond
  <2>1. prev \in Bars
    BY <1>3 DEF Inv
  <2>2. Armed.entry = Favourable(config.side, prev) /\ Armed.stop = Adverse(config.side, prev)
    BY <1>3 DEF Armed
  <2> QED
    BY <1>1, <2>1, <2>2, BarPrices, SideOrder DEF Favourable, Adverse, Sides
<1>4. CASE ~(prev # None /\ prev.beyond)
  <2>1. Armed = alert /\ alert # None
    BY <1>2, <1>4 DEF Armed, Carried
  <2> QED
    BY <2>1 DEF Inv, AlertHolds
<1> QED
  BY <1>3, <1>4

LEMMA EmaEntryIsReady ==
    ASSUME Inv, config.family = "ema", NEW bar \in Bars, NEW passed, EmaEntry(bar, passed) # None
    PROVE  Ready(EmaEntry(bar, passed), bar)
<1> DEFINE side == config.side
           sign == Sign(side)
           entry == Slipped(side, Armed.entry)
           reward == Reward(Distance(entry, Armed.stop))
           target == entry + sign * reward
           p == NewPosition(side, entry, Armed.stop, target)
<1>1. /\ EmaEntry(bar, passed) = p /\ Breaks(bar) /\ Passes(side, entry, Armed.stop)
  BY DEF EmaEntry
<1>2. /\ Armed.entry \in Int /\ Armed.stop \in Int /\ prev \in Bars /\ prev # None
      /\ Reaches(side, Armed.entry, Armed.stop)
      /\ Reaches(side, Armed.entry, Favourable(side, prev))
      /\ Passes(side, Favourable(side, bar), Armed.entry)
  BY <1>1, BrokenAlert, NoneIsNoBar DEF Breaks
<1>3. side \in Sides /\ sign \in {1, -1} /\ (side = "long" => sign = 1)
      /\ (side = "short" => sign = -1) /\ config.ratio \in Nat \ {0}
  BY ConstantsAssumption DEF Inv, Sign, Sides
<1> HIDE DEF side, sign
<1>4. entry \in Int /\ Reaches(side, entry, Armed.entry)
  BY <1>2, <1>3, SlippedIsInt
<1> HIDE DEF entry
<1>5. reward \in Nat
  <2>1. Distance(entry, Armed.stop) \in Nat
    BY <1>2, <1>4, DistanceIsNat
  <2> QED
    BY <1>3, <2>1, RewardKeepsItsSign
<1> HIDE DEF reward
<1>6. target \in Int
  BY <1>3, <1>4, <1>5
<1>7. /\ Sound(p) /\ p.side = side /\ p.stop = Armed.stop /\ p.initial = Armed.stop
      /\ p.target = target /\ ~p.stopped /\ ~p.trailing
  BY <1>2, <1>3, <1>4, <1>6, NewPositionIsSound
<1> HIDE DEF p
<1>8. Reaches(side, target, Armed.stop) /\ Reaches(side, target, entry)
      /\ Reaches(side, entry, Armed.entry)
  <2>1. CASE side = "long"
    BY <1>1, <1>2, <1>3, <1>4, <1>5, <2>1, SideOrder
  <2>2. CASE side = "short"
    BY <1>1, <1>2, <1>3, <1>4, <1>5, <2>2, SideOrder
  <2> QED
    BY <1>3, <2>1, <2>2 DEF Sides
<1> HIDE DEF target
<1>9. ASSUME bar.open = prev.close
      PROVE  /\ StopHit(p, bar) => p.stop \in bar.low .. bar.high
             /\ TargetHit(p, bar) => p.target \in bar.low .. bar.high
  <2>1. CASE side = "long"
    BY <1>2, <1>4, <1>6, <1>7, <1>8, <1>9, <2>1, BarPrices, SideOrder
    DEF StopHit, TargetHit, Adverse, Favourable
  <2>2. CASE side = "short"
    BY <1>2, <1>4, <1>6, <1>7, <1>8, <1>9, <2>2, BarPrices, SideOrder
    DEF StopHit, TargetHit, Adverse, Favourable
  <2> QED
    BY <1>3, <2>1, <2>2 DEF Sides
<1>10. Gap(bar) \/ bar.open = prev.close
  BY <1>2 DEF Gap
<1> QED
  BY <1>1, <1>7, <1>8, <1>9, <1>10 DEF Ready

\* Where a bar opens on the good side of the stop the target is beyond its open.
LEMMA OrbEntryIsReady ==
    ASSUME Inv, NEW bar \in Bars, OrbEntry(bar) # None
    PROVE  Ready(OrbEntry(bar), bar)
<1> DEFINE s == Session
           side == s.signal
           stop == FarLevel(s, side)
           reward == Reward(bar.open - stop)
           target == bar.open + reward
           entry == Slipped(side, bar.open)
           p == NewPosition(side, entry, stop, target)
<1>1. side # None /\ OrbEntry(bar) = p
  BY DEF OrbEntry
<1>2. s = session
  BY <1>1 DEF Session, NoSession
<1>3. /\ side \in Sides /\ prev \in Bars /\ prev # None
      /\ Passes(side, prev.close, Level(s, side))
      /\ s.low \in Int /\ s.high \in Int /\ s.low <= s.high
      /\ config.ratio \in Nat \ {0}
  BY <1>1, <1>2, NoneIsNoBar, ConstantsAssumption DEF Inv, SessionHolds
<1>4. stop \in Int /\ entry \in Int
  BY <1>3, BarPrices, SlippedIsInt DEF FarLevel
<1> HIDE DEF s, side, entry
<1>5. /\ target \in Int
      /\ bar.open >= stop => target >= bar.open
      /\ bar.open <= stop => target <= bar.open
  <2>1. bar.open \in Int /\ bar.open - stop \in Int
    BY <1>4, BarPrices
  <2>2. /\ reward \in Int
        /\ bar.open - stop >= 0 => reward >= 0
        /\ bar.open - stop <= 0 => reward <= 0
    BY <1>3, <2>1, RewardKeepsItsSign
  <2> HIDE DEF reward, stop
  <2> QED
    BY <1>4, <2>1, <2>2
<1>6. /\ Sound(p) /\ p.side = side /\ p.stop = stop /\ p.initial = stop
      /\ p.target = target /\ ~p.stopped /\ ~p.trailing
  BY <1>3, <1>4, <1>5, NewPositionIsSound
<1> HIDE DEF p, target
<1>7. OpensBeyond(p, bar) \/ Reaches(p.side, p.target, p.initial)
  <2> HIDE DEF stop
  <2>1. CASE side = "long"
    BY <1>4, <1>5, <1>6, <2>1, BarPrices, SideOrder DEF OpensBeyond
  <2>2. CASE side = "short"
    BY <1>4, <1>5, <1>6, <2>2, BarPrices, SideOrder DEF OpensBeyond
  <2> QED
    BY <1>3, <2>1, <2>2 DEF Sides
<1>8. ASSUME bar.open = prev.close
      PROVE  /\ StopHit(p, bar) => p.stop \in bar.low .. bar.high
             /\ TargetHit(p, bar) => p.target \in bar.low .. bar.high
  <2>1. CASE side = "long"
    <3>1. bar.open > stop
      BY <1>3, <1>8, <2>1, BarPrices, SideOrder DEF Level, FarLevel
    <3> HIDE DEF stop
    <3> QED
      BY <1>4, <1>5, <1>6, <2>1, <3>1, BarPrices, SideOrder
      DEF StopHit, TargetHit, Adverse, Favourable
  <2>2. CASE side = "short"
    <3>1. bar.open < stop
      BY <1>3, <1>8, <2>2, BarPrices, SideOrder DEF Level, FarLevel
    <3> HIDE DEF stop
    <3> QED
      BY <1>4, <1>5, <1>6, <2>2, <3>1, BarPrices, SideOrder
      DEF StopHit, TargetHit, Adverse, Favourable
  <2> QED
    BY <1>3, <2>1, <2>2 DEF Sides
<1>9. Gap(bar) \/ bar.open = prev.close
  BY <1>3 DEF Gap
<1> QED
  BY <1>1, <1>6, <1>7, <1>8, <1>9 DEF Ready

-----------------------------------------------------------------------------
(* What a bar does to the position.                                        *)

LEMMA IsAnExit ==
    ASSUME NEW price, NEW reason, reason # "none"
    PROVE  <<price, reason>> # NoExit
  BY DEF NoExit

\* A bar that does not hit the stop closes on the good side of it.
LEMMA CloseIsBeyondStop ==
    ASSUME NEW p, Sound(p), NEW bar \in Bars, ~StopHit(p, bar)
    PROVE  /\ Passes(p.side, bar.close, p.stop)
           /\ Reaches(p.side, bar.close, p.initial)
<1>1. p.side \in Sides /\ p.stop \in Int /\ p.initial \in Int
  BY DEF Sound, Positions
<1>2. CASE p.side = "long"
  BY <1>1, <1>2, BarPrices, SideOrder DEF Sound, StopHit, Adverse
<1>3. CASE p.side = "short"
  BY <1>1, <1>3, BarPrices, SideOrder DEF Sound, StopHit, Adverse
<1> QED
  BY <1>1, <1>2, <1>3 DEF Sides

\* A bar that does not hit the target closes on the near side of it.
LEMMA CloseIsBeforeTarget ==
    ASSUME NEW p, Sound(p), NEW bar \in Bars, ~TargetHit(p, bar)
    PROVE  Passes(p.side, p.target, bar.close)
<1>1. p.side \in Sides /\ p.target \in Int
  BY DEF Sound, Positions
<1>2. CASE p.side = "long"
  BY <1>1, <1>2, BarPrices, SideOrder DEF TargetHit, Favourable
<1>3. CASE p.side = "short"
  BY <1>1, <1>3, BarPrices, SideOrder DEF TargetHit, Favourable
<1> QED
  BY <1>1, <1>2, <1>3 DEF Sides

\* An exit is one of five: the stop hit, the fill of a conservative stop, the
\* target hit before the stop, or the close of a bar that hit neither.
LEMMA ExitCases ==
    ASSUME config.family \in {"ema", "orb"}, NEW p, Sound(p), NEW bar \in Bars, NEW cut,
           Exit(p, bar, cut) # NoExit
    PROVE  LET exit == Exit(p, bar, cut)
               reason == exit[2]
           IN  \/ /\ exit[1] = p.stop /\ StopHit(p, bar) /\ ~p.stopped
                  /\ p.trailing => reason = "trail_stop"
               \/ /\ reason = "stop_loss" /\ With("conservative")
                  /\ exit[1] \in {bar.open, bar.close}
               \/ /\ exit[1] = p.target /\ TargetHit(p, bar) /\ ~Stops(p, bar)
                  /\ ~p.stopped /\ ~p.trailing
               \/ exit[1] = bar.close /\ ~StopHit(p, bar)
<1>1. CASE config.family = "orb"
  <2>1. Exit(p, bar, cut) = OrbExit(p, bar, cut)
    BY <1>1 DEF Exit
  <2>2. p.trailing => p.stopped
    BY <1>1 DEF Sound
  <2>3. CASE p.stopped
    BY <2>1, <2>3 DEF OrbExit, Sound
  <2>4. CASE ~p.stopped /\ Stops(p, bar)
    BY <2>1, <2>2, <2>4 DEF OrbExit, StopFill, Stops
  <2>5. CASE ~p.stopped /\ ~Stops(p, bar) /\ TargetHit(p, bar)
    BY <2>1, <2>2, <2>5 DEF OrbExit
  <2>6. CASE ~p.stopped /\ ~Stops(p, bar) /\ ~TargetHit(p, bar)
    <3>1. Exit(p, bar, cut) = CloseExit(p, bar, cut) /\ ~StopHit(p, bar)
      BY <2>1, <2>6 DEF OrbExit, Stops
    <3>2. CloseExit(p, bar, cut)[1] = bar.close
      BY <3>1 DEF CloseExit
    <3> QED
      BY <3>1, <3>2
  <2> QED
    BY <2>3, <2>4, <2>5, <2>6
<1>2. CASE config.family # "orb" /\ With("trail")
  <2>1. Exit(p, bar, cut) = TrailExit(p, bar) /\ ~p.stopped
    BY <1>2 DEF Exit, Sound
  <2> QED
    BY <2>1 DEF TrailExit
<1>3. CASE config.family # "orb" /\ ~With("trail")
  <2>1. Exit(p, bar, cut) = FixedExit(p, bar) /\ ~p.stopped /\ ~p.trailing
    BY <1>3 DEF Exit, Sound
  <2> QED
    BY <2>1 DEF FixedExit, Stops
<1> QED
  BY <1>1, <1>2, <1>3

LEMMA ExitIsGood ==
    ASSUME config.family \in {"ema", "orb"}, NEW p, NEW bar \in Bars, Ready(p, bar), NEW cut,
           Exit(p, bar, cut) # NoExit
    PROVE  LET exit == Exit(p, bar, cut)
           IN  /\ \/ exit[2] = "stop_loss" /\ With("conservative")
                  \/ OpensBeyond(p, bar) \/ Reaches(p.side, exit[1], p.initial)
               /\ Gap(bar) \/ exit[2] = "trail_stop" \/ exit[1] \in bar.low .. bar.high
<1> DEFINE price == Exit(p, bar, cut)[1]
           reason == Exit(p, bar, cut)[2]
           fills == bar.low .. bar.high
           Good == /\ \/ reason = "stop_loss" /\ With("conservative")
                      \/ OpensBeyond(p, bar) \/ Reaches(p.side, price, p.initial)
                   /\ Gap(bar) \/ reason = "trail_stop" \/ price \in fills
<1>1. Sound(p)
  BY DEF Ready
<1>2. bar.open \in fills /\ bar.close \in fills
  BY BarPrices
<1>3. \/ /\ price = p.stop /\ StopHit(p, bar) /\ ~p.stopped
         /\ p.trailing => reason = "trail_stop"
      \/ reason = "stop_loss" /\ With("conservative") /\ price \in {bar.open, bar.close}
      \/ /\ price = p.target /\ TargetHit(p, bar) /\ ~Stops(p, bar)
         /\ ~p.stopped /\ ~p.trailing
      \/ price = bar.close /\ ~StopHit(p, bar)
  BY <1>1, ExitCases
<1>4. /\ p.stopped \/ OpensBeyond(p, bar) \/ Reaches(p.side, p.target, p.initial)
      /\ \/ Gap(bar) \/ p.stopped \/ p.trailing
         \/ /\ StopHit(p, bar) => p.stop \in fills
            /\ TargetHit(p, bar) => p.target \in fills
      /\ Reaches(p.side, p.stop, p.initial)
  BY <1>1 DEF Ready, Sound
<1>5. ~StopHit(p, bar) => Reaches(p.side, bar.close, p.initial)
  BY <1>1, CloseIsBeyondStop
<1> HIDE DEF price, reason, fills
<1>6. ASSUME price = p.stop, StopHit(p, bar), ~p.stopped, p.trailing => reason = "trail_stop"
      PROVE  Good
  BY <1>4, <1>6
<1>7. ASSUME reason = "stop_loss", With("conservative"), price \in {bar.open, bar.close}
      PROVE  Good
  BY <1>2, <1>7
<1>8. ASSUME price = p.target, TargetHit(p, bar), ~Stops(p, bar), ~p.stopped, ~p.trailing
      PROVE  Good
  BY <1>4, <1>8
<1>9. ASSUME price = bar.close, ~StopHit(p, bar)
      PROVE  Good
  BY <1>2, <1>5, <1>9
<1>10. Good
  BY <1>3, <1>6, <1>7, <1>8, <1>9
<1> QED
  BY <1>10 DEF Good, price, reason, fills

\* A bar that opens beyond the stop hits it.
LEMMA OpenHitsStop ==
    ASSUME NEW p, Sound(p), NEW bar \in Bars, OpensBeyond(p, bar)
    PROVE  StopHit(p, bar)
<1>1. p.side \in Sides /\ p.stop \in Int
  BY DEF Sound, Positions
<1>2. CASE p.side = "long"
  BY <1>1, <1>2, BarPrices, SideOrder DEF OpensBeyond, StopHit, Adverse
<1>3. CASE p.side = "short"
  BY <1>1, <1>3, BarPrices, SideOrder DEF OpensBeyond, StopHit, Adverse
<1> QED
  BY <1>1, <1>2, <1>3 DEF Sides

\* A position that a bar leaves open: the session goes on, and no level was hit,
\* but for a stop that is to be filled and a trail that goes on or begins.
LEMMA NoExitCases ==
    ASSUME config.family \in {"ema", "orb"}, NEW p, Sound(p), NEW bar \in Bars, NEW cut,
           Exit(p, bar, cut) = NoExit
    PROVE  /\ ~bar.last /\ ~p.stopped
           /\ \/ config.family = "orb" /\ With("conservative") /\ Stops(p, bar)
              \/ ~StopHit(p, bar) /\ ~TargetHit(p, bar)
              \/ ~StopHit(p, bar) /\ config.family = "ema" /\ With("trail")
<1>1. CASE config.family = "orb"
  <2>1. OrbExit(p, bar, cut) = NoExit
    BY <1>1 DEF Exit
  <2>2. ~p.stopped
    BY <2>1, IsAnExit DEF OrbExit
  <2>3. CASE Stops(p, bar)
    <3>1. StopFill(p, bar) = NoExit
      BY <2>1, <2>2, <2>3 DEF OrbExit
    <3>2. With("conservative") /\ ~bar.last
      BY <3>1, IsAnExit DEF StopFill
    <3> QED
      BY <1>1, <2>2, <2>3, <3>2
  <2>4. CASE ~Stops(p, bar)
    <3>1. ~TargetHit(p, bar) /\ CloseExit(p, bar, cut) = NoExit
      BY <2>1, <2>2, <2>4, IsAnExit DEF OrbExit
    <3>2. ~Deadline(p, bar)
      BY <3>1, IsAnExit DEF CloseExit
    <3> QED
      BY <2>2, <2>4, <3>1, <3>2 DEF Stops, Deadline, SessionEnds
  <2> QED
    BY <2>3, <2>4
<1>2. CASE config.family # "orb" /\ With("trail")
  <2>1. TrailExit(p, bar) = NoExit /\ ~p.stopped
    BY <1>2 DEF Exit, Sound
  <2>2. ~StopHit(p, bar) /\ ~Deadline(p, bar)
    BY <2>1, IsAnExit DEF TrailExit
  <2> QED
    BY <1>2, <2>1, <2>2 DEF Deadline, SessionEnds
<1>3. CASE config.family # "orb" /\ ~With("trail")
  <2>1. FixedExit(p, bar) = NoExit /\ ~p.stopped
    BY <1>3 DEF Exit, Sound
  <2>2. ~Stops(p, bar) /\ ~TargetHit(p, bar) /\ ~Deadline(p, bar)
    BY <2>1, IsAnExit DEF FixedExit
  <2> QED
    BY <2>1, <2>2 DEF Stops, Deadline, SessionEnds
<1> QED
  BY <1>1, <1>2, <1>3

\* A stop only tightens.
LEMMA TightenedIsTighter ==
    ASSUME NEW p, Sound(p), NEW candidate \in Int
    PROVE  Tightened(p, candidate) \in Int /\ Reaches(p.side, Tightened(p, candidate), p.initial)
<1>1. p.side \in Sides /\ p.stop \in Int /\ p.initial \in Int
  BY DEF Sound, Positions
<1>2. CASE p.side = "long"
  BY <1>1, <1>2, SideOrder DEF Sound, Tightened
<1>3. CASE p.side = "short"
  BY <1>1, <1>3, SideOrder DEF Sound, Tightened
<1> QED
  BY <1>1, <1>2, <1>3 DEF Sides

LEMMA HeldIsGood ==
    ASSUME config.family \in {"ema", "orb"}, NEW p, NEW bar \in Bars, Ready(p, bar),
           p.held = 0 \/ prev \in Bars, NEW cut, Exit(p, bar, cut) = NoExit
    PROVE  LET h == Held(p, bar)
           IN  /\ Sound(h)
               /\ h.stopped \/ Reaches(h.side, h.target, h.initial)
               /\ \/ h.stopped \/ h.trailing
                  \/ Passes(h.side, bar.close, h.stop) /\ Passes(h.side, h.target, bar.close)
<1> DEFINE candidate == Adverse(p.side, IF p.held = 0 THEN bar ELSE prev)
           trails == With("trail") /\ (p.trailing \/ TargetHit(p, bar))
           stop == IF trails THEN Tightened(p, candidate) ELSE p.stop
           waits == With("conservative") /\ Stops(p, bar)
           h == Held(p, bar)
<1>1. Sound(p) /\ p \in Positions /\ p.side \in Sides
  BY DEF Ready, Sound, Positions
<1>2. candidate \in Int
  BY <1>1, BarPrices DEF Adverse, Sides
<1>3. stop \in Int /\ Reaches(p.side, stop, p.initial)
  BY <1>1, <1>2, TightenedIsTighter DEF Sound, Positions
<1>4. Trailed(p, bar) = IF trails THEN [p EXCEPT !.trailing = TRUE, !.stop = stop] ELSE p
  BY DEF Trailed
<1> HIDE DEF candidate
<1>5. /\ h.side = p.side /\ h.initial = p.initial /\ h.target = p.target /\ h.stop = stop
      /\ h.stopped = waits /\ h.trailing = (p.trailing \/ trails)
  BY <1>1, <1>4 DEF Held, Positions
<1>6. h \in Positions
  <2>1. waits \in BOOLEAN /\ p.held + 1 \in Int
    BY <1>1 DEF Positions, With, Stops
  <2>2. Trailed(p, bar) \in Positions /\ Trailed(p, bar).held = p.held
    BY <1>1, <1>3, <1>4 DEF Positions
  <2> HIDE DEF waits
  <2>3. h = [Trailed(p, bar) EXCEPT !.held = p.held + 1, !.stopped = waits]
    BY <2>2 DEF Held, waits
  <2> QED
    BY <2>1, <2>2, <2>3 DEF Positions
<1>7. /\ ~p.stopped
      /\ \/ config.family = "orb" /\ With("conservative") /\ Stops(p, bar)
         \/ ~StopHit(p, bar) /\ ~TargetHit(p, bar)
         \/ ~StopHit(p, bar) /\ config.family = "ema" /\ With("trail")
  BY <1>1, NoExitCases
<1>8. waits => config.family = "orb"
  BY <1>7 DEF Stops
<1>9. h.trailing => With("trail") /\ (config.family = "ema" \/ h.stopped)
  BY <1>1, <1>5, <1>7 DEF Sound
<1>10. Sound(h)
  BY <1>3, <1>5, <1>6, <1>8, <1>9 DEF Sound
<1>11. h.stopped \/ Reaches(h.side, h.target, h.initial)
  <2>1. OpensBeyond(p, bar) => waits
    BY <1>1, <1>7, OpenHitsStop
  <2> QED
    BY <1>5, <1>7, <2>1 DEF Ready
<1>12. \/ h.stopped \/ h.trailing
       \/ Passes(h.side, bar.close, h.stop) /\ Passes(h.side, h.target, bar.close)
  <2>1. CASE ~waits /\ ~p.trailing /\ ~trails
    <3>1. ~StopHit(p, bar) /\ ~TargetHit(p, bar) /\ stop = p.stop
      BY <1>7, <2>1
    <3> QED
      BY <1>1, <1>5, <3>1, CloseIsBeyondStop, CloseIsBeforeTarget
  <2> QED
    BY <1>5, <2>1
<1> QED
  BY <1>10, <1>11, <1>12

-----------------------------------------------------------------------------
(* The steps.                                                              *)

LEMMA NoSessionHolds ==
    /\ NoSession \in [seen : Nat, high : Int, low : Int, skip : BOOLEAN, spent : BOOLEAN,
                      signal : Sides \cup {None}]
    /\ NoSession.seen = 0 /\ NoSession.signal = None
  BY ConstantsAssumption DEF NoSession

LEMMA InitInv == Init => Inv
  BY NoSessionHolds DEF Init, Inv, FamilyHolds, AlertHolds, SessionHolds, PositionHolds

\* An alert that is carried on was not broken.
LEMMA AlertStep ==
    ASSUME Inv, config.family = "ema", NEW bar \in Bars, prev' = bar, config' = config,
           alert' = AlertAfter(bar)
    PROVE  AlertHolds'
<1>1. SUFFICES ASSUME alert' # None
               PROVE  /\ alert'.entry \in Int /\ alert'.stop \in Int
                      /\ Reaches(config.side, alert'.entry, Favourable(config.side, bar))
                      /\ Reaches(config.side, alert'.entry, alert'.stop)
  BY DEF AlertHolds
<1>2. alert' = Armed /\ ~Breaks(bar) /\ Armed # None
  BY <1>1 DEF AlertAfter
<1>3. config.side \in Sides
  BY ConstantsAssumption DEF Inv
<1>4. /\ Armed.entry \in Int /\ Armed.stop \in Int
      /\ Reaches(config.side, Armed.entry, Armed.stop)
  <2>1. CASE prev # None /\ prev.beyond
    <3>1. prev \in Bars
      BY <2>1 DEF Inv
    <3>2. Armed.entry = Favourable(config.side, prev) /\ Armed.stop = Adverse(config.side, prev)
      BY <2>1 DEF Armed
    <3> QED
      BY <1>3, <3>1, <3>2, BarPrices, SideOrder DEF Favourable, Adverse, Sides
  <2>2. CASE ~(prev # None /\ prev.beyond)
    <3>1. Armed = alert /\ alert # None
      BY <1>2, <2>2 DEF Armed, Carried
    <3> QED
      BY <3>1 DEF Inv, AlertHolds
  <2> QED
    BY <2>1, <2>2
<1>5. ~Passes(config.side, Favourable(config.side, bar), Armed.entry)
  BY <1>2 DEF Breaks
<1>6. Reaches(config.side, Armed.entry, Favourable(config.side, bar))
  <2>1. Favourable(config.side, bar) \in Int
    BY BarPrices DEF Favourable
  <2> QED
    BY <1>3, <1>4, <1>5, <2>1, SideOrder DEF Sides
<1> QED
  BY <1>2, <1>4, <1>6

LEMMA SessionStep ==
    ASSUME Inv, NEW bar \in Bars, NEW passed, prev' = bar, session' = SessionAfter(bar, passed)
    PROVE  SessionHolds'
<1> DEFINE s == Session
           Shapes == [seen : Nat, high : Int, low : Int, skip : BOOLEAN, spent : BOOLEAN,
                      signal : Sides \cup {None}]
<1>1. /\ s \in Shapes
      /\ s.seen >= 1 => s.low <= s.high
      /\ s.signal # None => s.seen >= OrBars
  BY NoSessionHolds DEF Session, Inv, SessionHolds
<1> HIDE DEF s
<1>2. bar.open \in Int /\ bar.high \in Int /\ bar.low \in Int /\ bar.close \in Int
      /\ bar.low <= bar.high
  BY BarPrices
<1>3. CASE InRange(s)
  <2>1. session' = Widened(s, bar)
    BY <1>3 DEF SessionAfter, s
  <2>2. s.signal = None
    BY <1>1, <1>3, ConstantsAssumption DEF InRange
  <2>3. /\ session' \in Shapes /\ session'.signal = None
        /\ session'.low <= session'.high
    <3> DEFINE high == IF bar.high > s.high THEN bar.high ELSE s.high
               low == IF bar.low < s.low THEN bar.low ELSE s.low
    <3>1. session' = [s EXCEPT !.seen = s.seen + 1, !.high = high, !.low = low]
      BY <2>1 DEF Widened
    <3>2. high \in Int /\ low \in Int /\ low <= high /\ s.seen + 1 \in Nat
      BY <1>1, <1>2
    <3> HIDE DEF high, low
    <3> QED
      BY <1>1, <2>2, <3>1, <3>2
  <2> QED
    BY <2>3 DEF SessionHolds
<1>4. CASE ~InRange(s)
  <2> DEFINE signal == Signal(s, bar, passed)
             skip == s.skip \/ Outside(s, bar)
             spent == s.spent \/ signal # None
  <2>1. session' = [s EXCEPT !.skip = skip, !.signal = signal, !.spent = spent]
    BY <1>4 DEF SessionAfter, s
  <2>2. skip \in BOOLEAN /\ spent \in BOOLEAN
    BY <1>1, ConstantsAssumption DEF Outside, With
  <2>3. /\ signal \in Sides \cup {None}
        /\ signal # None => Passes(signal, bar.close, Level(s, signal))
    BY DEF Signal, Breakout, Sides
  <2>4. s.seen >= OrBars
    BY <1>1, <1>4, ConstantsAssumption DEF InRange
  <2> HIDE DEF signal, skip, spent
  <2>5. /\ session' \in Shapes /\ session'.seen = s.seen /\ session'.low = s.low
        /\ session'.high = s.high /\ session'.signal = signal
    BY <1>1, <2>1, <2>2, <2>3
  <2>6. session'.signal # None =>
            Passes(session'.signal, bar.close,
                   IF session'.signal = "long" THEN session'.high ELSE session'.low)
    BY <2>3, <2>5 DEF Level
  <2>7. session'.seen >= 1 => session'.low <= session'.high
    BY <1>1, <2>5
  <2> QED
    BY <2>4, <2>5, <2>6, <2>7 DEF SessionHolds, Level
<1> QED
  BY <1>3, <1>4

\* One bar: the signals and the position keep what is known of them, and what the
\* properties say of the position and the trade holds.
LEMMA BarStep ==
    ASSUME Inv, NEW bar \in Bars, NEW passed \in BOOLEAN, NEW cut \in BOOLEAN,
           Bar(bar, passed, cut)
    PROVE  Inv' /\ FlatOvernight' /\ LossIsBounded' /\ InvertedTradesEnd' /\ FillsAreInBar'
<1> DEFINE p == IF position = None THEN Entry(bar, passed) ELSE position
           exit == Exit(p, bar, cut)
<1>1. /\ prev' = bar /\ config' = config /\ config \in Configs
      /\ config.family \in {"ema", "orb"} /\ bar # None
  BY ConstantsAssumption, NoneIsNoBar DEF Bar, Inv
<1>2. AlertHolds' /\ SessionHolds' /\ FamilyHolds'
  <2>1. CASE config.family = "ema"
    <3>1. session' = session /\ alert' = AlertAfter(bar) /\ session = NoSession
      BY <2>1 DEF Bar, Inv, FamilyHolds
    <3> QED
      BY <1>1, <2>1, <3>1, AlertStep, NoSessionHolds DEF SessionHolds, FamilyHolds
  <2>2. CASE config.family # "ema"
    <3>1. session' = SessionAfter(bar, passed) /\ alert' = alert /\ alert = None
      BY <2>2 DEF Bar, Inv, FamilyHolds
    <3> QED
      BY <1>1, <2>2, <3>1, SessionStep DEF AlertHolds, FamilyHolds
  <2> QED
    BY <2>1, <2>2
<1>3. /\ p = None => position' = None /\ trade' = None
      /\ p # None /\ exit = NoExit => position' = Held(p, bar) /\ trade' = None
      /\ p # None /\ exit # NoExit => position' = None /\ trade' = NewTrade(p, bar, exit)
  BY DEF Bar, Scans
<1>4. ASSUME p # None
      PROVE  Ready(p, bar) /\ (p.held = 0 \/ prev \in Bars)
  <2>1. CASE position # None
    BY <2>1, OpenPositionIsReady DEF Inv, PositionHolds
  <2>2. CASE position = None /\ config.family = "ema"
    <3>1. p = EmaEntry(bar, passed)
      BY <2>2 DEF Entry
    <3>2. EmaEntry(bar, passed).held = 0
      BY <1>4, <3>1 DEF EmaEntry, NewPosition
    <3> QED
      BY <1>4, <2>2, <3>1, <3>2, EmaEntryIsReady
  <2>3. CASE position = None /\ config.family # "ema"
    <3>1. p = OrbEntry(bar)
      BY <2>3 DEF Entry
    <3>2. OrbEntry(bar).held = 0
      BY <1>4, <3>1 DEF OrbEntry, NewPosition
    <3> QED
      BY <1>4, <2>3, <3>1, <3>2, OrbEntryIsReady
  <2> QED
    BY <2>1, <2>2, <2>3
<1> HIDE DEF p
<1>5. PositionHolds' /\ FlatOvernight' /\ InvertedTradesEnd'
  <2>1. CASE position' = None
    BY <2>1 DEF PositionHolds, FlatOvernight, InvertedTradesEnd
  <2>2. CASE p # None /\ exit = NoExit
    <3> DEFINE h == Held(p, bar)
    <3>1. /\ Sound(h)
          /\ h.stopped \/ Reaches(h.side, h.target, h.initial)
          /\ \/ h.stopped \/ h.trailing
             \/ Passes(h.side, bar.close, h.stop) /\ Passes(h.side, h.target, bar.close)
      BY <1>1, <1>4, <2>2, HeldIsGood
    <3>2. ~bar.last
      BY <1>1, <1>4, <2>2, NoExitCases DEF Ready
    <3>3. position' = h
      BY <1>3, <2>2
    <3> HIDE DEF h
    <3>4. Sound(position)'
      BY <1>1, <3>1, <3>3 DEF Sound, With
    <3> QED
      BY <1>1, <3>1, <3>2, <3>3, <3>4
      DEF PositionHolds, Between, FlatOvernight, InvertedTradesEnd
  <2> QED
    BY <1>3, <2>1, <2>2
<1>6. LossIsBounded' /\ FillsAreInBar'
  <2>1. CASE trade' = None
    BY <2>1 DEF LossIsBounded, FillsAreInBar
  <2>2. CASE p # None /\ exit # NoExit
    <3>1. /\ \/ exit[2] = "stop_loss" /\ With("conservative")
             \/ OpensBeyond(p, bar) \/ Reaches(p.side, exit[1], p.initial)
          /\ Gap(bar) \/ exit[2] = "trail_stop" \/ exit[1] \in bar.low .. bar.high
      BY <1>1, <1>4, <2>2, ExitIsGood
    <3>2. /\ trade'.side = p.side /\ trade'.initial = p.initial /\ trade'.exit = exit[1]
          /\ trade'.stop = p.stop /\ trade'.reason = exit[2] /\ trade'.gap = Gap(bar)
      BY <1>3, <2>2 DEF NewTrade, Gap
    <3>3. Reaches(p.side, bar.open, p.stop) => ~OpensBeyond(p, bar)
      <4>1. p.side \in Sides /\ p.stop \in Int /\ bar.open \in Int
        BY <1>4, <2>2, BarPrices DEF Ready, Sound, Positions
      <4> QED
        BY <4>1, SideOrder DEF OpensBeyond, Sides
    <3> HIDE DEF exit
    <3> QED
      BY <1>1, <3>1, <3>2, <3>3 DEF LossIsBounded, FillsAreInBar, With
  <2> QED
    BY <1>3, <2>1, <2>2
<1> QED
  BY <1>1, <1>2, <1>5, <1>6 DEF Inv

\* A stutter changes nothing.
LEMMA StutterInv ==
    ASSUME Inv, UNCHANGED vars
    PROVE  Inv'
  BY DEF Inv, vars, FamilyHolds, AlertHolds, SessionHolds, PositionHolds, Sound, Between,
         Positions, With

-----------------------------------------------------------------------------
Inductive == Inv /\ FlatOvernight /\ LossIsBounded /\ InvertedTradesEnd /\ FillsAreInBar

LEMMA SpecInductive == Spec => []Inductive
<1>1. Init => Inductive
  BY InitInv DEF Init, Inductive, FlatOvernight, LossIsBounded, InvertedTradesEnd, FillsAreInBar
<1>2. Inductive /\ [Next]_vars => Inductive'
  <2>1. SUFFICES ASSUME Inductive, [Next]_vars PROVE Inductive'
    OBVIOUS
  <2>2. CASE Next
    BY <2>1, <2>2, BarStep DEF Next, Inductive
  <2>3. CASE UNCHANGED vars
    BY <2>1, <2>3, StutterInv
    DEF Inductive, vars, FlatOvernight, LossIsBounded, InvertedTradesEnd, FillsAreInBar, With
  <2> QED
    BY <2>1, <2>2, <2>3
<1> QED
  BY <1>1, <1>2, PTL DEF Spec

\* No trade is open between two sessions, however its strategy enters and leaves:
\* every scan of a session's last bar ends in an exit.
THEOREM FlatTheorem == Spec => []FlatOvernight
  BY SpecInductive, PTL DEF Inductive

\* For any ratio of reward to risk, one below 1 included, a trade whose last bar did not
\* open beyond its stop loses no more than the risk it was entered with, before
\* slippage, unless its stop is filled at an open.
THEOREM LossTheorem == Spec => []LossIsBounded
  BY SpecInductive, PTL DEF Inductive

\* A trade entered beyond its stop is closed by the bar it is entered on, or has its
\* stop to be filled at the next open: none stays open with its target behind its stop.
THEOREM InvertedTheorem == Spec => []InvertedTradesEnd
  BY SpecInductive, PTL DEF Inductive

\* A trade closed in a bar without a gap is closed at a price the bar traded at.
THEOREM FillTheorem == Spec => []FillsAreInBar
  BY SpecInductive, PTL DEF Inductive

-----------------------------------------------------------------------------
(* Types.                                                                  *)

TypedPositions ==
    [side : Sides, entry : Int, initial : Prices, stop : Prices, target : Int,
     trailing : BOOLEAN, stopped : BOOLEAN, held : 0 .. MaxHold + 1]
TypedTrade(t) ==
    /\ t.side \in Sides /\ t.gap \in BOOLEAN
    /\ t.initial \in Prices /\ t.stop \in Prices /\ t.exit \in Int
    /\ t.reason \in {"stop_loss", "trail_stop", "target", "close"}
TypedSession(s) ==
    s \in [seen : 0 .. OrBars, high : Prices, low : Prices, skip : BOOLEAN,
           spent : BOOLEAN, signal : Sides \union {None}]

\* The stop of an orb position is the far side of the range, which is complete, and a
\* position that does not wait for its fill is held no longer than it may be.
AtFarSide(p, s) ==
    /\ config.family = "orb" /\ ~p.stopped => s.seen >= OrBars /\ p.stop = FarLevel(s, p.side)
    /\ ~p.stopped => p.held <= MaxHold

Typed ==
    /\ Inv /\ FlatOvernight
    /\ alert = None \/ alert \in [entry : Prices, stop : Prices]
    /\ TypedSession(session)
    /\ position # None => position \in TypedPositions /\ AtFarSide(position, session)
    /\ trade # None => TypedTrade(trade)

LEMMA BarIsTyped ==
    ASSUME NEW bar \in Bars
    PROVE  /\ bar.open \in Prices /\ bar.high \in Prices /\ bar.low \in Prices
           /\ bar.close \in Prices
  BY DEF Bars

LEMMA ArmedIsTyped ==
    ASSUME Typed, Armed # None
    PROVE  Armed \in [entry : Prices, stop : Prices]
<1>1. CASE prev # None /\ prev.beyond
  BY <1>1, BarIsTyped DEF Typed, Inv, Armed, Favourable, Adverse
<1>2. CASE ~(prev # None /\ prev.beyond)
  BY <1>2 DEF Typed, Armed, Carried
<1> QED
  BY <1>1, <1>2

LEMMA EmaEntryIsTyped ==
    ASSUME Typed, config.family = "ema", NEW bar \in Bars, NEW passed,
           EmaEntry(bar, passed) # None
    PROVE  EmaEntry(bar, passed) \in TypedPositions /\ EmaEntry(bar, passed).held = 0
<1> DEFINE entry == Slipped(config.side, Armed.entry)
           target == entry + Sign(config.side) * Reward(Distance(entry, Armed.stop))
           p == NewPosition(config.side, entry, Armed.stop, target)
<1>1. EmaEntry(bar, passed) = p /\ Breaks(bar)
  BY DEF EmaEntry
<1>2. Armed.stop \in Prices /\ config.side \in Sides
  BY <1>1, ArmedIsTyped, ConstantsAssumption DEF Breaks, Typed, Inv
<1>3. p \in Positions /\ p.held = 0
  BY <1>1, EmaEntryIsReady DEF Typed, Ready, Sound, NewPosition
<1>4. entry \in Int /\ target \in Int
  <2>1. p.entry = entry /\ p.target = target
    BY DEF NewPosition
  <2> HIDE DEF entry, target, p
  <2> QED
    BY <1>3, <2>1 DEF Positions
<1> HIDE DEF entry, target
<1>5. p \in TypedPositions
  BY <1>2, <1>4, ConstantsAssumption DEF NewPosition, TypedPositions
<1> QED
  BY <1>1, <1>3, <1>5

LEMMA OrbEntryIsTyped ==
    ASSUME Typed, NEW bar \in Bars, OrbEntry(bar) # None
    PROVE  /\ OrbEntry(bar) \in TypedPositions /\ OrbEntry(bar).held = 0
           /\ Session = session /\ session.seen >= OrBars
           /\ OrbEntry(bar).stop = FarLevel(session, OrbEntry(bar).side)
<1> DEFINE side == session.signal
           stop == FarLevel(session, side)
           target == bar.open + Reward(bar.open - stop)
           entry == Slipped(side, bar.open)
           p == NewPosition(side, entry, stop, target)
<1>1. Session = session /\ side # None
  BY DEF OrbEntry, Session, NoSession
<1>2. OrbEntry(bar) = p
  BY <1>1 DEF OrbEntry
<1>3. /\ side \in Sides /\ session.seen >= OrBars
      /\ session.low \in Prices /\ session.high \in Prices
  BY <1>1 DEF Typed, TypedSession, Inv, SessionHolds
<1>4. stop \in Prices
  BY <1>3 DEF FarLevel
<1>5. p.side = side /\ p.stop = stop /\ p.held = 0
  BY DEF NewPosition
<1>6. entry \in Int /\ target \in Int
  <2>1. p \in Positions
    BY <1>2, OrbEntryIsReady DEF Typed, Ready, Sound
  <2>2. p.entry = entry /\ p.target = target
    BY DEF NewPosition
  <2> HIDE DEF entry, target, p
  <2> QED
    BY <2>1, <2>2 DEF Positions
<1> HIDE DEF side, stop, entry, target
<1>7. p \in TypedPositions
  BY <1>3, <1>4, <1>6, ConstantsAssumption DEF NewPosition, TypedPositions
<1> QED
  BY <1>1, <1>2, <1>3, <1>5, <1>7 DEF stop

\* No trade ends as an opposite break: a bar that closes beyond the far side of the
\* range has hit the stop, which is there.
LEMMA ExitReasons ==
    ASSUME config.family \in {"ema", "orb"}, NEW p, Sound(p), NEW bar \in Bars, NEW cut,
           config.family = "orb" /\ ~p.stopped => p.stop = FarLevel(Session, p.side),
           Exit(p, bar, cut) # NoExit
    PROVE  Exit(p, bar, cut)[2] \in {"stop_loss", "trail_stop", "target", "close"}
<1>1. CASE config.family # "orb"
  BY <1>1 DEF Exit, TrailExit, FixedExit
<1>2. CASE config.family = "orb"
  <2>1. Exit(p, bar, cut) = OrbExit(p, bar, cut)
    BY <1>2 DEF Exit
  <2>2. CASE p.stopped \/ Stops(p, bar) \/ TargetHit(p, bar)
    BY <2>1, <2>2 DEF OrbExit, StopFill
  <2>3. CASE ~p.stopped /\ ~Stops(p, bar) /\ ~TargetHit(p, bar)
    <3>1. OrbExit(p, bar, cut) = CloseExit(p, bar, cut) /\ ~StopHit(p, bar)
      BY <2>3 DEF OrbExit, Stops
    <3>2. Passes(p.side, bar.close, p.stop) /\ p.side \in Sides /\ p.stop \in Int
      BY <3>1, CloseIsBeyondStop DEF Sound, Positions
    <3>3. ~Passes(p.side, FarLevel(Session, p.side), bar.close)
      <4>1. bar.close \in Int /\ p.stop = FarLevel(Session, p.side)
        BY <1>2, <2>3, BarPrices
      <4>2. ~Passes(p.side, p.stop, bar.close)
        BY <3>2, <4>1, SideOrder DEF Sides
      <4> QED
        BY <4>1, <4>2
    <3> QED
      BY <2>1, <3>1, <3>3 DEF CloseExit
  <2> QED
    BY <2>2, <2>3
<1> QED
  BY <1>1, <1>2

\* A position is held past its deadline only while it waits for the fill of its stop.
LEMMA ExitsByDeadline ==
    ASSUME config.family \in {"ema", "orb"}, NEW p, Sound(p), NEW bar \in Bars, NEW cut,
           Exit(p, bar, cut) = NoExit, p.held = MaxHold
    PROVE  With("conservative") /\ Stops(p, bar)
<1>1. Deadline(p, bar)
  BY DEF Deadline
<1>2. CASE config.family = "orb"
  <2>1. OrbExit(p, bar, cut) = NoExit
    BY <1>2 DEF Exit
  <2>2. CloseExit(p, bar, cut) # NoExit
    BY <1>1, IsAnExit DEF CloseExit
  <2>3. Stops(p, bar) /\ StopFill(p, bar) = NoExit
    BY <2>1, <2>2, IsAnExit DEF OrbExit
  <2> QED
    BY <2>3, IsAnExit DEF StopFill
<1>3. CASE config.family # "orb"
  <2>1. Exit(p, bar, cut) # NoExit
    BY <1>1, <1>3, IsAnExit DEF Exit, TrailExit, FixedExit
  <2> QED
    BY <2>1
<1> QED
  BY <1>2, <1>3

LEMMA ExitPrices ==
    ASSUME config.family \in {"ema", "orb"}, NEW p \in TypedPositions, Sound(p), NEW bar \in Bars,
           NEW cut, Exit(p, bar, cut) # NoExit
    PROVE  Exit(p, bar, cut)[1] \in Int
<1>1. Exit(p, bar, cut)[1] \in {p.stop, p.target, bar.open, bar.close}
  BY ExitCases
<1>2. p.stop \in Int /\ p.target \in Int /\ bar.open \in Int /\ bar.close \in Int
  BY BarIsTyped, PricesAreInt DEF TypedPositions
<1> QED
  BY <1>1, <1>2

\* What a bar leaves open is of its type, at the stop it had on the orb side, and held
\* one bar longer.
LEMMA HeldIsTyped ==
    ASSUME config.family \in {"ema", "orb"}, NEW p \in TypedPositions, NEW bar \in Bars,
           Ready(p, bar), p.held = 0 \/ prev \in Bars, ~p.stopped => p.held <= MaxHold,
           NEW cut, Exit(p, bar, cut) = NoExit
    PROVE  LET h == Held(p, bar)
           IN  /\ h \in TypedPositions /\ h.side = p.side
               /\ ~h.stopped => h.held <= MaxHold
               /\ config.family = "orb" /\ ~h.stopped => h.stop = p.stop
<1> DEFINE candidate == Adverse(p.side, IF p.held = 0 THEN bar ELSE prev)
           trails == With("trail") /\ (p.trailing \/ TargetHit(p, bar))
           stop == IF trails THEN Tightened(p, candidate) ELSE p.stop
           waits == With("conservative") /\ Stops(p, bar)
           t == Trailed(p, bar)
           h == Held(p, bar)
<1>1. Sound(p)
  BY DEF Ready
<1>2. candidate \in Prices
  BY BarIsTyped DEF Adverse
<1>3. stop \in Prices
  BY <1>2 DEF Tightened, TypedPositions
<1>4. t = IF trails THEN [p EXCEPT !.trailing = TRUE, !.stop = stop] ELSE p
  BY DEF Trailed
<1> HIDE DEF candidate
<1>5. ~p.stopped /\ p.held <= MaxHold /\ p.held \in 0 .. MaxHold
  BY <1>1, NoExitCases, ConstantsAssumption DEF TypedPositions
<1>6. waits \in BOOLEAN /\ p.held + 1 \in 0 .. MaxHold + 1
  BY <1>5, ConstantsAssumption DEF With, Stops
<1>7. t \in TypedPositions /\ t.side = p.side /\ t.held = p.held /\ t.stop = stop
  BY <1>3, <1>4 DEF TypedPositions
<1> HIDE DEF waits, t, stop
<1>8. h = [t EXCEPT !.held = p.held + 1, !.stopped = waits]
  BY <1>7 DEF Held, waits, t
<1>9. h \in TypedPositions /\ h.side = p.side /\ h.stopped = waits /\ h.stop = stop
      /\ h.held = p.held + 1
  BY <1>6, <1>7, <1>8 DEF TypedPositions
<1>10. ~waits => p.held # MaxHold
  BY <1>1, ExitsByDeadline DEF waits
<1>11. config.family = "orb" /\ ~waits => stop = p.stop
  BY <1>1, <1>5, NoExitCases DEF waits, stop, Sound
<1> QED
  BY <1>5, <1>9, <1>10, <1>11, ConstantsAssumption DEF h

LEMMA InitTyped == Init => Typed
<1>1. Unit \in Prices /\ Unit * MaxPrice \in Prices /\ 0 \in 0 .. OrBars
  BY ConstantsAssumption, PricesAreInt
<1> QED
  BY <1>1, InitInv DEF Init, Typed, NoSession, TypedSession, FlatOvernight

\* The session of a bar, before and after it.
LEMMA SessionIsTyped ==
    ASSUME Typed, NEW bar \in Bars, NEW passed, session' = SessionAfter(bar, passed)
    PROVE  /\ TypedSession(session)'
           /\ Session = session /\ session.seen >= OrBars =>
                 session'.seen >= OrBars /\ session'.low = session.low
                                         /\ session'.high = session.high
<1> DEFINE s == Session
           Shapes == [seen : 0 .. OrBars, high : Prices, low : Prices, skip : BOOLEAN,
                      spent : BOOLEAN, signal : Sides \union {None}]
<1>1. s \in Shapes
  <2>1. Unit \in Prices /\ Unit * MaxPrice \in Prices /\ 0 \in 0 .. OrBars
    BY ConstantsAssumption, PricesAreInt
  <2> QED
    BY <2>1 DEF Typed, TypedSession, Session, NoSession
<1> HIDE DEF s
<1>2. CASE InRange(s)
  <2> DEFINE high == IF bar.high > s.high THEN bar.high ELSE s.high
             low == IF bar.low < s.low THEN bar.low ELSE s.low
  <2>1. session' = [s EXCEPT !.seen = s.seen + 1, !.high = high, !.low = low]
    BY <1>2 DEF SessionAfter, Widened, s
  <2>2. high \in Prices /\ low \in Prices
    BY <1>1, BarIsTyped
  <2>3. s.seen + 1 \in 0 .. OrBars /\ ~(s.seen >= OrBars)
    BY <1>1, <1>2, ConstantsAssumption DEF InRange
  <2> HIDE DEF high, low
  <2>4. session' \in Shapes
    BY <1>1, <2>1, <2>2, <2>3
  <2> QED
    BY <2>3, <2>4 DEF TypedSession, s
<1>3. CASE ~InRange(s)
  <2> DEFINE signal == Signal(s, bar, passed)
             skip == s.skip \/ Outside(s, bar)
             spent == s.spent \/ signal # None
  <2>1. session' = [s EXCEPT !.skip = skip, !.signal = signal, !.spent = spent]
    BY <1>3 DEF SessionAfter, s
  <2>2. skip \in BOOLEAN /\ spent \in BOOLEAN /\ signal \in Sides \cup {None}
    BY <1>1 DEF Outside, With, Signal, Sides
  <2> HIDE DEF signal, skip, spent
  <2>3. session' \in Shapes /\ session'.seen = s.seen /\ session'.low = s.low
        /\ session'.high = s.high
    BY <1>1, <2>1, <2>2
  <2> QED
    BY <2>3 DEF TypedSession, s
<1> QED
  BY <1>2, <1>3

LEMMA TypedStep ==
    ASSUME Typed, NEW bar \in Bars, NEW passed \in BOOLEAN, NEW cut \in BOOLEAN,
           Bar(bar, passed, cut)
    PROVE  Typed'
<1> DEFINE p == IF position = None THEN Entry(bar, passed) ELSE position
           exit == Exit(p, bar, cut)
<1>1. /\ prev' = bar /\ config' = config /\ Inv /\ Inv' /\ FlatOvernight'
      /\ config.family \in {"ema", "orb"}
  BY BarStep, ConstantsAssumption DEF Bar, Typed, Inv
<1>2. alert' = None \/ alert' \in [entry : Prices, stop : Prices]
  BY ArmedIsTyped DEF Bar, AlertAfter, Typed
<1>3. TypedSession(session)'
  <2>1. CASE config.family = "ema"
    BY <2>1 DEF Bar, Typed, TypedSession
  <2>2. CASE config.family # "ema"
    BY <2>2, SessionIsTyped DEF Bar
  <2> QED
    BY <2>1, <2>2
<1>4. /\ p = None => position' = None /\ trade' = None
      /\ p # None /\ exit = NoExit => position' = Held(p, bar) /\ trade' = None
      /\ p # None /\ exit # NoExit => position' = None /\ trade' = NewTrade(p, bar, exit)
  BY DEF Bar, Scans
<1>5. ASSUME p # None
      PROVE  /\ p \in TypedPositions /\ Ready(p, bar) /\ (p.held = 0 \/ prev \in Bars)
             /\ ~p.stopped => p.held <= MaxHold
             /\ config.family = "orb" /\ ~p.stopped =>
                   /\ Session = session /\ session.seen >= OrBars
                   /\ p.stop = FarLevel(session, p.side)
  <2>1. CASE position # None
    <3>1. prev \in Bars /\ ~prev.last /\ Session = session
      BY <2>1, <1>1, NoneIsNoBar
      DEF Inv, PositionHolds, Typed, FlatOvernight, Session, NewSession
    <3> QED
      BY <1>1, <2>1, <3>1, OpenPositionIsReady DEF Typed, AtFarSide
  <2>2. CASE position = None /\ config.family = "ema"
    <3>1. p = EmaEntry(bar, passed)
      BY <2>2 DEF Entry
    <3> HIDE DEF p
    <3>2. Ready(p, bar) /\ p \in TypedPositions /\ p.held = 0
      BY <1>1, <1>5, <2>2, <3>1, EmaEntryIsReady, EmaEntryIsTyped
    <3> QED
      BY <2>2, <3>2, ConstantsAssumption
  <2>3. CASE position = None /\ config.family # "ema"
    <3>1. p = OrbEntry(bar)
      BY <2>3 DEF Entry
    <3> HIDE DEF p
    <3>2. Ready(p, bar) /\ p \in TypedPositions /\ p.held = 0
      BY <1>1, <1>5, <2>3, <3>1, OrbEntryIsReady, OrbEntryIsTyped
    <3>3. /\ Session = session /\ session.seen >= OrBars
          /\ p.stop = FarLevel(session, p.side)
      BY <1>5, <3>1, OrbEntryIsTyped
    <3> QED
      BY <2>3, <3>2, <3>3, ConstantsAssumption
  <2> QED
    BY <2>1, <2>2, <2>3
<1> HIDE DEF p
<1>6. position' # None => position' \in TypedPositions /\ AtFarSide(position, session)'
  <2>1. SUFFICES ASSUME p # None, exit = NoExit
                 PROVE  position' \in TypedPositions /\ AtFarSide(position, session)'
    BY <1>4
  <2> DEFINE h == Held(p, bar)
  <2>2. /\ h \in TypedPositions /\ h.side = p.side
        /\ ~h.stopped => h.held <= MaxHold
        /\ config.family = "orb" /\ ~h.stopped => h.stop = p.stop
    BY <1>1, <1>5, <2>1, HeldIsTyped
  <2>3. position' = h /\ ~p.stopped
    BY <1>1, <1>4, <1>5, <2>1, NoExitCases DEF Ready
  <2> HIDE DEF h
  <2>4. ASSUME config.family = "orb", ~h.stopped
        PROVE  session'.seen >= OrBars /\ h.stop = FarLevel(session', h.side)
    <3>1. session' = SessionAfter(bar, passed)
      BY <2>4 DEF Bar
    <3>2. session'.seen >= OrBars /\ session'.low = session.low /\ session'.high = session.high
      BY <1>5, <2>1, <2>3, <2>4, <3>1, SessionIsTyped
    <3> QED
      BY <1>5, <2>1, <2>2, <2>3, <2>4, <3>2 DEF FarLevel
  <2> QED
    BY <1>1, <2>2, <2>3, <2>4 DEF AtFarSide, FarLevel
<1>7. trade' # None => TypedTrade(trade)'
  <2>1. SUFFICES ASSUME p # None, exit # NoExit PROVE TypedTrade(trade)'
    BY <1>4
  <2>2. exit[1] \in Int
    BY <1>1, <1>5, <2>1, ExitPrices DEF Ready
  <2>3. exit[2] \in {"stop_loss", "trail_stop", "target", "close"}
    BY <1>1, <1>5, <2>1, ExitReasons DEF Ready
  <2>4. /\ trade'.side = p.side /\ trade'.initial = p.initial /\ trade'.stop = p.stop
        /\ trade'.exit = exit[1] /\ trade'.reason = exit[2] /\ trade'.gap = Gap(bar)
    BY <1>4, <2>1 DEF NewTrade, Gap
  <2> HIDE DEF exit
  <2> QED
    BY <1>5, <2>1, <2>2, <2>3, <2>4 DEF TypedTrade, TypedPositions, Gap
<1> QED
  BY <1>1, <1>2, <1>3, <1>6, <1>7 DEF Typed

\* Stops stay at prices of the bars, no position is held past its deadline but one
\* that waits for its fill, and no trade ends as an opposite break.
THEOREM TradesAreTyped == Spec => []TypeOK
<1>1. Typed /\ [Next]_vars => Typed'
  <2>1. SUFFICES ASSUME Typed, [Next]_vars PROVE Typed'
    OBVIOUS
  <2>2. CASE Next
    BY <2>1, <2>2, TypedStep DEF Next
  <2>3. CASE UNCHANGED vars
    <3>1. Inv'
      BY <2>1, <2>3, StutterInv DEF Typed
    <3> QED
      BY <2>1, <2>3, <3>1
      DEF vars, Typed, FlatOvernight, TypedSession, TypedTrade, AtFarSide
  <2> QED
    BY <2>1, <2>2, <2>3
<1>2. Typed => TypeOK
  BY DEF Typed, Inv, TypeOK, TypedSession, TypedTrade, TypedPositions
<1> QED
  BY InitTyped, <1>1, <1>2, PTL DEF Spec

-----------------------------------------------------------------------------
(* The builder.                                                            *)

Exact(thesis) == [of |-> thesis, quality |-> "exact"]

Places == {"idle", "prepared", "attempt", "collect", "publish", "promote", "decide", "answered"}
Working == Places \ {"idle"}

\* The type invariant, with what it needs of the place: the attempts are within the limit.
TypedBuild ==
    /\ BuilderTypeOK
    /\ pc \in Working => build.thesis \in Theses
    /\ pc = "prepared" => build.attempt = 0
    /\ pc = "attempt" => build.attempt <= RetryLimit

LEMMA InitTypedBuild == BuilderInit => TypedBuild
BY BuilderAssumption
DEF BuilderInit, TypedBuild, BuilderTypeOK, Trees, EmptyTree, Results, Working, Places

\* A config in a tree is Nothing or has a thesis and a quality.
LEMMA ConfigsOfTrees ==
    ASSUME NEW file \in GeneratedConfigs, file.quality = "exact"
    PROVE  file = Exact(file.of)
BY DEF GeneratedConfigs, Exact

LEMMA VerdictIsTyped == ASSUME NEW tree, NEW thesis PROVE Verdict(tree, thesis) \in Results
BY DEF Verdict, Results

LEMMA SourceConfigIsTyped ==
    ASSUME BuilderTypeOK, NEW tree \in Trees
    PROVE  WithSourceConfig(tree) \in Trees /\ WithSourceConfig(tree).code = tree.code
BY DEF BuilderTypeOK, Trees, WithSourceConfig

LEMMA ChangedFilesAreTyped == ASSUME BuilderTypeOK PROVE ChangedFiles \in Theses \cup {Nothing}
BY DEF BuilderTypeOK, Trees, ChangedFiles

LEMMA LeftIsTyped ==
    ASSUME NEW tree \in Trees, NEW file \in GeneratedConfigs \cup {Nothing},
           NEW code \in Theses \cup {Nothing}
    PROVE  Left(tree, file, code) \in Trees
BY DEF Left, Trees

LEMMA StepTypedBuild == ASSUME TypedBuild, [BuilderNext]_builderVars PROVE TypedBuild'
<1> USE DEF TypedBuild, Working, Places
<1>1. CASE ResearchCompiles
  <2>1. PICK t \in Theses : source' = [source EXCEPT !.config = Exact(t)]
    BY <1>1 DEF ResearchCompiles, Exact
  <2>2. Exact(t) \in GeneratedConfigs
    BY DEF Exact, GeneratedConfigs
  <2>3. source' \in Trees
    BY <2>1, <2>2 DEF BuilderTypeOK, Trees
  <2> QED
    BY <1>1, <2>3, BuilderAssumption DEF ResearchCompiles, BuilderTypeOK
<1>2. ASSUME NEW t \in Theses, Refuse(t) PROVE TypedBuild'
  BY <1>2, BuilderAssumption DEF Refuse, BuilderTypeOK, Results
<1>3. ASSUME NEW t \in Theses, Dispatch(t) PROVE TypedBuild'
  <2>1. PICK code \in Seeds : workspace' = WithSourceConfig([config |-> Nothing, code |-> code])
    BY <1>3 DEF Dispatch
  <2>2. code \in Theses \cup {Nothing}
    BY DEF Seeds, BuilderTypeOK, Trees
  <2>3. workspace' \in Trees
    BY <2>1, <2>2, SourceConfigIsTyped DEF Trees
  <2> QED
    BY <1>3, <2>3, BuilderAssumption DEF Dispatch, BuilderTypeOK, Results
<1>4. CASE JudgeExisting
  <2>1. promotions' \in [Theses -> Theses \cup {Nothing}]
    BY <1>4, ChangedFilesAreTyped DEF JudgeExisting, Promote, BuilderTypeOK
  <2>2. build' = [build EXCEPT !.result = Verdict(workspace, build.thesis)]
        /\ pc' \in {"answered", "attempt"} /\ pc = "prepared"
    BY <1>4 DEF JudgeExisting
  <2>3. build' \in [thesis : Theses \cup {Nothing}, attempt : 0 .. RetryLimit + 1, result : Results]
        /\ build'.thesis = build.thesis /\ build'.attempt = build.attempt
    BY <2>2, VerdictIsTyped DEF BuilderTypeOK
  <2> QED
    BY <1>4, <2>1, <2>2, <2>3, BuilderAssumption DEF JudgeExisting, BuilderTypeOK
<1>5. CASE NothingExists
  BY <1>5, BuilderAssumption DEF NothingExists, BuilderTypeOK
<1>6. CASE NoCli
  BY <1>6 DEF NoCli, BuilderTypeOK, Results
<1>7. CASE AgentWorks
  <2>1. PICK file \in GeneratedConfigs \cup {Nothing}, code \in {build.thesis, Nothing},
             at \in {"workspace", "source"} :
          /\ written' = [config |-> file, code |-> code, at |-> at]
          /\ workspace' = IF at = "workspace" THEN Left(workspace, file, code) ELSE workspace
          /\ source' = IF at = "source" THEN Left(source, file, code) ELSE source
    BY <1>7 DEF AgentWorks
  <2>2. code \in Theses \cup {Nothing}
    BY DEF BuilderTypeOK
  <2>3. workspace' \in Trees /\ source' \in Trees
    BY <2>1, <2>2, LeftIsTyped DEF BuilderTypeOK
  <2>4. build' = [build EXCEPT !.attempt = build.attempt + 1] /\ pc = "attempt"
    BY <1>7 DEF AgentWorks, NextAttempt
  <2>5. build' \in [thesis : Theses \cup {Nothing}, attempt : 0 .. RetryLimit + 1, result : Results]
        /\ build'.thesis = build.thesis
    BY <2>4, BuilderAssumption DEF BuilderTypeOK
  <2> QED
    BY <1>7, <2>1, <2>2, <2>3, <2>5 DEF AgentWorks, BuilderTypeOK
<1>8. CASE Collect
  <2>1. SyncedWorkspace \in Trees
    BY DEF SyncedWorkspace, BuilderTypeOK, Trees
  <2>2. workspace' \in Trees
    BY <1>8, <2>1, SourceConfigIsTyped DEF Collect
  <2>3. build' = [build EXCEPT !.result = Verdict(workspace', build.thesis)]
        /\ pc' \in {"publish", "decide"} /\ pc = "collect"
    BY <1>8 DEF Collect
  <2>4. build' \in [thesis : Theses \cup {Nothing}, attempt : 0 .. RetryLimit + 1, result : Results]
        /\ build'.thesis = build.thesis
    BY <2>3, VerdictIsTyped DEF BuilderTypeOK
  <2> QED
    BY <1>8, <2>2, <2>3, <2>4 DEF Collect, BuilderTypeOK
<1>9. CASE Publish
  BY <1>9 DEF Publish, BuilderTypeOK, Trees
<1>10. CASE RecordPromotion
  BY <1>10, ChangedFilesAreTyped DEF RecordPromotion, Promote, BuilderTypeOK
<1>11. CASE Decide
  BY <1>11, BuilderAssumption DEF Decide, RetriesLeft, BuilderTypeOK
<1>12. CASE Return
  BY <1>12 DEF Return, BuilderTypeOK
<1>13. CASE Abort
  BY <1>13 DEF Abort, BuilderTypeOK, Results
<1>14. CASE UNCHANGED builderVars
  BY <1>14 DEF builderVars, BuilderTypeOK
<1> QED
  BY <1>1, <1>2, <1>3, <1>4, <1>5, <1>6, <1>7, <1>8, <1>9, <1>10, <1>11, <1>12, <1>13, <1>14
  DEF BuilderNext, Works

-----------------------------------------------------------------------------
(* Completed builds.                                                       *)

\* Where the call is decides what the trees hold.  A call that is to be judged or that
\* an agent is asked for has not completed; a verdict lasts until the answer.
Meets == MeetsContract(workspace, build.thesis)
Judged ==
    /\ pc = "prepared" => workspace.config = source.config
    /\ pc \in {"prepared", "attempt", "collect", "decide"} => build.result # "completed"
    /\ pc = "publish" => build.result = "completed" /\ workspace.config # Nothing /\ Meets
    /\ pc = "promote" =>
          /\ build.result = "completed" /\ workspace.config # Nothing /\ Meets
          /\ source.config = workspace.config
    /\ pc = "answered" /\ build.result = "completed" =>
          /\ workspace.config # Nothing /\ Meets /\ source.config = workspace.config
          /\ build.thesis \in {promotions[build.thesis], source.code}

\* What the agent wrote is in the tree it wrote it to.
WrittenIn(tree) ==
    /\ written.config # Nothing => tree.config = written.config
    /\ written.code # Nothing => tree.code = written.code
WorkIsThere ==
    pc = "collect" => WrittenIn(IF written.at = "workspace" THEN workspace ELSE source)

BuildInv == TypedBuild /\ Judged /\ WorkIsThere /\ OwnGoodWorkCompletes

LEMMA InitBuildInv == BuilderInit => BuildInv
BY InitTypedBuild
DEF BuilderInit, BuildInv, Judged, WorkIsThere, OwnGoodWorkCompletes, GoodWorkCompletes

\* A promotion and the source tree have the implementation between them.
LEMMA PromoteRecords ==
    ASSUME TypedBuild, pc \in Working, Promote, CodeMeets(workspace, build.thesis),
           source'.code = source.code
    PROVE  build.thesis \in {promotions'[build.thesis], source'.code}
BY DEF TypedBuild, BuilderTypeOK, Promote, ChangedFiles, CodeMeets

LEMMA CompletedMeets ==
    ASSUME NEW tree, NEW thesis, Verdict(tree, thesis) = "completed"
    PROVE  tree.config # Nothing /\ MeetsContract(tree, thesis)
BY DEF Verdict

LEMMA StepBuildInv == ASSUME BuildInv, [BuilderNext]_builderVars PROVE BuildInv'
<1>1. TypedBuild /\ TypedBuild'
  BY StepTypedBuild DEF BuildInv
<1>2. SUFFICES Judged' /\ WorkIsThere' /\ OwnGoodWorkCompletes'
  BY <1>1 DEF BuildInv
<1> USE DEF Judged, WorkIsThere, OwnGoodWorkCompletes, GoodWorkCompletes
<1>3. CASE ResearchCompiles
  BY <1>3 DEF ResearchCompiles
<1>4. ASSUME NEW t \in Theses, Refuse(t) PROVE Judged' /\ WorkIsThere' /\ OwnGoodWorkCompletes'
  BY <1>4 DEF Refuse
<1>5. ASSUME NEW t \in Theses, Dispatch(t)
      PROVE  Judged' /\ WorkIsThere' /\ OwnGoodWorkCompletes'
  BY <1>5 DEF Dispatch, WithSourceConfig
<1>6. CASE JudgeExisting
  <2>1. /\ pc = "prepared" /\ UNCHANGED <<source, workspace>>
        /\ build' = [build EXCEPT !.result = Verdict(workspace, build.thesis)]
        /\ pc' = IF Verdict(workspace, build.thesis) = "completed" THEN "answered" ELSE "attempt"
    BY <1>6 DEF JudgeExisting
  <2>2. build'.thesis = build.thesis /\ build'.result = Verdict(workspace, build.thesis)
    BY <1>1, <2>1 DEF TypedBuild, BuilderTypeOK
  <2>3. CASE Verdict(workspace, build.thesis) = "completed"
    <3>1. MeetsContract(workspace, build.thesis) /\ workspace.config # Nothing
      BY <2>3, CompletedMeets
    <3>2. Promote
      BY <1>6, <2>3 DEF JudgeExisting
    <3>3. build.thesis \in {promotions'[build.thesis], source'.code}
      BY <1>1, <2>1, <3>1, <3>2, PromoteRecords DEF MeetsContract, Working, Places
    <3> QED
      BY <2>1, <2>2, <2>3, <3>1, <3>3 DEF BuildInv, Meets, MeetsContract, ConfigMeets, CodeMeets
  <2>4. CASE Verdict(workspace, build.thesis) # "completed"
    BY <2>1, <2>2, <2>4
  <2> QED
    BY <2>3, <2>4
<1>7. CASE NothingExists
  BY <1>7 DEF NothingExists, BuildInv
<1>8. CASE NoCli
  BY <1>1, <1>8 DEF NoCli, BuildInv, TypedBuild, BuilderTypeOK
<1>9. CASE AgentWorks
  BY <1>1, <1>9 DEF AgentWorks, BuildInv, TypedBuild, BuilderTypeOK, WrittenIn, Left
<1>10. CASE Collect
  <2>1. /\ pc = "collect" /\ UNCHANGED <<source, written>>
        /\ workspace' = WithSourceConfig(SyncedWorkspace)
        /\ build' = [build EXCEPT !.result = Verdict(workspace', build.thesis)]
        /\ pc' = IF build'.result = "completed" THEN "publish" ELSE "decide"
    BY <1>10 DEF Collect
  <2>2. build'.thesis = build.thesis /\ build'.result = Verdict(workspace', build.thesis)
    BY <1>1, <2>1 DEF TypedBuild, BuilderTypeOK
  <2>3. Judged' /\ WorkIsThere'
    BY <2>1, <2>2, CompletedMeets DEF Meets, MeetsContract, ConfigMeets, CodeMeets
  <2>4. ASSUME source.config \in {Nothing, Exact(build.thesis)}, Delivered
        PROVE  Verdict(workspace', build.thesis) = "completed"
    <3>1. /\ written.config # Nothing /\ written.config.of = build.thesis
          /\ written.config.quality = "exact" /\ written.code = build.thesis
          /\ build.thesis # Nothing /\ written.at \in {"workspace", "source"}
      BY <1>1, <2>1, <2>4, BuilderAssumption
      DEF Delivered, ConfigMeets, TypedBuild, BuilderTypeOK, Working, Places
    <3>2. source \in Trees /\ workspace \in Trees
      BY <1>1 DEF TypedBuild, BuilderTypeOK
    <3>3. written.config = Exact(build.thesis)
      BY <1>1, <3>1, ConfigsOfTrees DEF TypedBuild, BuilderTypeOK
    <3>4. CASE written.at = "workspace"
      <4>1. workspace.config = written.config /\ workspace.code = build.thesis
        BY <2>1, <3>1, <3>4 DEF BuildInv, WrittenIn
      <4> QED
        BY <2>1, <2>4, <3>1, <3>2, <3>3, <3>4, <4>1
        DEF SyncedWorkspace, WithSourceConfig, Verdict, Loads, MeetsContract, ConfigMeets,
            CodeMeets, Trees
    <3>5. CASE written.at = "source"
      <4>1. source.config = written.config /\ source.code = build.thesis
        BY <2>1, <3>1, <3>5 DEF BuildInv, WrittenIn
      <4> QED
        BY <2>1, <3>1, <3>2, <3>5, <4>1
        DEF SyncedWorkspace, WithSourceConfig, Verdict, Loads, MeetsContract, ConfigMeets,
            CodeMeets, Trees
    <3> QED
      BY <3>1, <3>4, <3>5
  <2> QED
    BY <2>1, <2>2, <2>3, <2>4 DEF Delivered, ConfigMeets, Exact
<1>11. CASE Publish
  BY <1>1, <1>11
  DEF Publish, BuildInv, TypedBuild, BuilderTypeOK, Trees, Meets, MeetsContract, ConfigMeets,
      CodeMeets
<1>12. CASE RecordPromotion
  <2>1. build.thesis \in {promotions'[build.thesis], source'.code}
    BY <1>1, <1>12, PromoteRecords
    DEF RecordPromotion, BuildInv, Meets, MeetsContract, Working, Places
  <2> QED
    BY <1>12, <2>1 DEF RecordPromotion, BuildInv, Meets, MeetsContract, ConfigMeets, CodeMeets
<1>13. CASE Decide
  BY <1>13 DEF Decide, BuildInv
<1>14. CASE Return
  BY <1>14 DEF Return
<1>15. CASE Abort
  BY <1>15 DEF Abort
<1>16. CASE UNCHANGED builderVars
  BY <1>16
  DEF builderVars, BuildInv, Meets, MeetsContract, ConfigMeets, CodeMeets, WrittenIn, Delivered
<1> QED
  BY <1>3, <1>4, <1>5, <1>6, <1>7, <1>8, <1>9, <1>10, <1>11, <1>12, <1>13, <1>14, <1>15, <1>16
  DEF BuilderNext, Works

-----------------------------------------------------------------------------
\* The trees, the call and its counters keep their types; in particular no call makes
\* more attempts than the retry limit and one.
THEOREM BuildsAreTyped == BuilderSpec => []BuilderTypeOK
<1>1. TypedBuild => BuilderTypeOK
  BY DEF TypedBuild
<1> QED
  BY InitTypedBuild, StepTypedBuild, <1>1, PTL DEF BuilderSpec

\* A completed answer is a config of the thesis that was asked for, the same in both
\* places, with its implementation: the verdict of a tree lasts until the answer.
THEOREM CompletedTheorem == BuilderSpec => []CompletedIsBuilt
<1>1. BuildInv => CompletedIsBuilt
  BY ConfigsOfTrees
  DEF BuildInv, TypedBuild, BuilderTypeOK, Trees, Judged, Meets, MeetsContract, ConfigMeets,
      CodeMeets,
      CompletedIsBuilt, Exact
<1> QED
  BY InitBuildInv, StepBuildInv, <1>1, PTL DEF BuilderSpec

\* What a completed answer runs on can be reviewed: in the promotion or in the source.
THEOREM RecordTheorem == BuilderSpec => []ImplementationIsOnRecord
<1>1. BuildInv => ImplementationIsOnRecord
  BY DEF BuildInv, Judged, ImplementationIsOnRecord
<1> QED
  BY InitBuildInv, StepBuildInv, <1>1, PTL DEF BuilderSpec

\* An agent that delivers has completed its build, in whichever tree it worked.
THEOREM DeliveryTheorem == BuilderSpec => []OwnGoodWorkCompletes
<1>1. BuildInv => OwnGoodWorkCompletes
  BY DEF BuildInv
<1> QED
  BY InitBuildInv, StepBuildInv, <1>1, PTL DEF BuilderSpec
=============================================================================
