------------------------------ MODULE Features ------------------------------
(***************************************************************************)
(* The feature table of a backtest: one row per trade, of what was known   *)
(* when the trade was entered (build_feature_table and the extractors of   *)
(* the families).  The table is built after the fact, from the bars of the *)
(* whole period; a rule found on it is worth something only if no row      *)
(* holds anything of a later bar or label.  Each row keeps the columns of  *)
(* both families.                                                          *)
(*                                                                         *)
(* One symbol is followed bar by bar.  A trade is entered while its bar    *)
(* forms and keeps, in known, the row of that moment.  Percentages are     *)
(* fractions <<numerator, denominator>>; a NaN has the denominator 0.      *)
(***************************************************************************)
EXTENDS Integers, Sequences, FiniteSets, FiniteSetsExt

CONSTANTS
    DayShapes,      \* bound: the days there may be, each with its bars and its label
    MaxDays,        \* bound: days of the period
    MaxTrades,      \* bound: trades of the backtest
    Window,         \* days a percentile looks back, 20
    OrBars          \* bars of the opening range, or_minutes

ASSUME FeaturesAssumption ==
    /\ \A shape \in DayShapes :
          shape.bars \in Seq([open : Int, high : Int, low : Int, close : Int])
    /\ MaxDays \in Nat \ {0} /\ MaxTrades \in Nat
    /\ Window \in Nat \ {0} /\ OrBars \in Nat \ {0}

VARIABLES
    days,           \* shapes of the days that are over; their labels are published
    today,          \* shape of the day that trades
    bar,            \* its bars that are complete
    forming,        \* its next bar has opened
    trades,         \* the trades entered, each with its row of that moment
    table           \* the feature table: a row for every trade, once it is built

market == <<days, today, bar, forming, trades, table>>

-----------------------------------------------------------------------------
(* What there is to see: the bars so far, the one that forms by its open,  *)
(* and the labels of the days that are over.                               *)

PeriodOver == Len(days) = MaxDays

BarAt(day, slot, b) == [day |-> day, slot |-> slot, open |-> b.open, high |-> b.high,
                        low |-> b.low, close |-> b.close]
Opened(b) == [open |-> b.open, high |-> b.open, low |-> b.open, close |-> b.open]

BarsOf(day, shape, n) == {BarAt(day, s, shape.bars[s]) : s \in 1 .. n}
BarsOver == UNION {BarsOf(d, days[d], Len(days[d].bars)) : d \in 1 .. Len(days)}
BarsToday ==
    BarsOf(Len(days) + 1, today, bar)
    \cup {BarAt(Len(days) + 1, s, Opened(today.bars[s])) :
             s \in IF forming THEN {bar + 1} ELSE {}}

Bars == BarsOver \cup BarsToday
Labels == [d \in 1 .. Len(days) |-> days[d].label]

-----------------------------------------------------------------------------
(* Fractions and percentiles.                                              *)

NaN == <<0, 0>>
Pct(num, den) == IF den = 0 THEN NaN ELSE <<num, den>>
AtMost(x, y) == x[2] # 0 /\ y[2] # 0 /\ x[1] * y[2] <= y[1] * x[2]

\* The share of a window that a value reaches: NaN when the window is empty.
Share(current, values) == <<Cardinality({i \in DOMAIN values : AtMost(values[i], current)}),
                            Cardinality(DOMAIN values)>>

LastOf(set, n) == {d \in set : Cardinality({e \in set : e > d}) < n}

-----------------------------------------------------------------------------
(* The daily bars and the bars before an entry.                            *)

DayBars(bs, day) == {b \in bs : b.day = day}
Opening(bs) == CHOOSE b \in bs : \A c \in bs : b.slot <= c.slot
Closing(bs) == CHOOSE b \in bs : \A c \in bs : c.slot <= b.slot
Highest(bs) == Max({b.high : b \in bs})
Lowest(bs) == Min({b.low : b \in bs})

DailyBar(bs, day) == LET of == DayBars(bs, day) IN
    [open |-> Opening(of).open, high |-> Highest(of), low |-> Lowest(of),
     close |-> Closing(of).close]

Before(b, c) == b.day < c.day \/ (b.day = c.day /\ b.slot < c.slot)

\* Variant: the bar of the entry counts as seen.
EarlierOrAt(b, t) == ~Before(t, b)
Earlier(b, t) == Before(b, t)
PriorBars(bs, t) == {b \in bs : Earlier(b, t)}
PriorDays(bs, t) == {d \in {b.day : b \in bs} : d < t.day}

-----------------------------------------------------------------------------
(* The columns.                                                            *)

Gap(bs, t) ==
    LET prior == PriorDays(bs, t) IN
    IF prior = {} THEN NaN
    ELSE LET close == DailyBar(bs, Max(prior)).close IN
         Pct(DailyBar(bs, t.day).open - close, close)

DayRange(bs, day) == LET d == DailyBar(bs, day) IN Pct(d.high - d.low, d.close)
PriorDayRange(bs, t) ==
    LET prior == PriorDays(bs, t) IN
    IF prior = {} THEN NaN ELSE DayRange(bs, Max(prior))

\* The last day's range among those of the days before it.
VolPctile(bs, t) ==
    LET prior == PriorDays(bs, t) IN
    IF prior = {} THEN NaN
    ELSE Share(DayRange(bs, Max(prior)),
               [d \in LastOf(prior \ {Max(prior)}, Window) |-> DayRange(bs, d)])

BarsSinceOpen(bs, t) == Pct(Cardinality(DayBars(PriorBars(bs, t), t.day)), 1)

EntryBarRange(bs, t) ==
    LET prior == PriorBars(bs, t) IN
    IF prior = {} THEN NaN
    ELSE LET last == Closing(DayBars(prior, Max({b.day : b \in prior}))) IN
         Pct(last.high - last.low, last.close)

\* A label is of its day's whole session, so an entry may know the label of a
\* day strictly before its own.
LabelBefore(labels, t) == {d \in DOMAIN labels : d < t.day}
RegimeLabel(labels, t) ==
    LET before == LabelBefore(labels, t) IN
    IF before = {} THEN "" ELSE labels[Max(before)]

\* _ema_entry_features: the averages of all closes, once, and the one of the
\* last bar before the entry.  The average of length 3 halves with each close, so
\* the one of the first i closes is scaled by 2^(i-1).
Place(bs, b) == Cardinality({c \in bs : Before(c, b)})     \* from 0, as in an array
FirstBars(bs, n) == {b \in bs : Place(bs, b) < n}
Weight(i) == IF i = 0 THEN 1 ELSE 2 ^ (i - 1)
Average(bs) == MapThenSumSet(LAMBDA b : Weight(Place(bs, b)) * b.close, bs)
Ema(bs) == [n \in 1 .. Cardinality(bs) |-> Average(FirstBars(bs, n))]
DistToEma(bs, t) ==
    LET n == Cardinality(PriorBars(bs, t)) IN
    IF n = 0 THEN NaN
    ELSE LET scale == 2 ^ (n - 1) IN Pct(t.price * scale - Ema(bs)[n], t.price * scale)

\* _orb_entry_features: the opening range, of the entry's own day as far as it
\* had come, among those of the days before.
OrWidth(bs) ==
    LET opening == {b \in bs : b.slot <= OrBars} IN
    IF opening = {} THEN NaN ELSE <<Highest(opening) - Lowest(opening), 1>>

OrWidthPctile(bs, t) ==
    LET current == OrWidth(DayBars(PriorBars(bs, t), t.day))
        width == [d \in LastOf(PriorDays(bs, t), Window) |-> OrWidth(DayBars(bs, d))]
        finite == {d \in DOMAIN width : width[d] # NaN}
    IN  IF current = NaN THEN NaN ELSE Share(current, [d \in finite |-> width[d]])

Row(bs, labels, t) ==
    [gap_pct |-> Gap(bs, t),
     prior_day_range_pct |-> PriorDayRange(bs, t),
     vol_pctile_20d |-> VolPctile(bs, t),
     bars_since_open |-> BarsSinceOpen(bs, t),
     entry_bar_range_pct |-> EntryBarRange(bs, t),
     regime_label |-> RegimeLabel(labels, t),
     dist_to_ema_pct |-> DistToEma(bs, t),
     or_width_pctile |-> OrWidthPctile(bs, t)]

-----------------------------------------------------------------------------
(* The market goes on bar by bar, and a strategy enters while a bar forms. *)
(* The table is built when the period is over.                             *)

MarketInit ==
    /\ days = <<>> /\ today \in DayShapes
    /\ bar = 0 /\ forming = FALSE
    /\ trades = {} /\ table = <<>>

OpenBar ==
    /\ ~PeriodOver /\ ~forming /\ bar < Len(today.bars)
    /\ forming' = TRUE
    /\ UNCHANGED <<days, today, bar, trades, table>>

CloseBar ==
    /\ forming
    /\ bar' = bar + 1 /\ forming' = FALSE
    /\ UNCHANGED <<days, today, trades, table>>

Enter ==
    /\ forming
    /\ Cardinality(trades) < MaxTrades
    /\ ~\E t \in trades : t.day = Len(days) + 1 /\ t.slot = bar + 1
    /\ LET t == [day |-> Len(days) + 1, slot |-> bar + 1,
                 price |-> today.bars[bar + 1].open]
       IN  trades' = trades \cup {[day |-> t.day, slot |-> t.slot, price |-> t.price,
                                    known |-> Row(Bars, Labels, t)]}
    /\ UNCHANGED <<days, today, bar, forming, table>>

EndDay ==
    /\ ~PeriodOver /\ ~forming /\ bar = Len(today.bars)
    /\ days' = Append(days, today)
    /\ today' \in DayShapes
    /\ bar' = 0
    /\ UNCHANGED <<forming, trades, table>>

BuildTable ==
    /\ PeriodOver /\ DOMAIN table # trades
    /\ table' = [t \in trades |-> Row(Bars, Labels, t)]
    /\ UNCHANGED <<days, today, bar, forming, trades>>

Market == OpenBar \/ CloseBar \/ Enter \/ EndDay \/ BuildTable

-----------------------------------------------------------------------------
(* Property.                                                               *)

\* The row that build_feature_table makes of a trade, from the bars and labels
\* of the whole period, is the row that could have been made when the trade was
\* entered: no column of the table looks ahead.
NoLookAhead == \A t \in DOMAIN table : table[t] = t.known
=============================================================================
