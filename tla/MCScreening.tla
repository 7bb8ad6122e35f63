----------------------------- MODULE MCScreening -----------------------------
(* A small instance of Screening for TLC: days of two bars.                *)
EXTENDS Screening

Bar(open, high, low, close) == [open |-> open, high |-> high, low |-> low, close |-> close]

MCDayShapes ==
    {[bars |-> <<Bar(4, 6, 4, 5), Bar(5, 9, 5, 8)>>, label |-> "up"],
     [bars |-> <<Bar(6, 6, 3, 4), Bar(4, 5, 4, 4)>>, label |-> "down"]}

MCRules ==
    {[column |-> "gap_pct", value |-> <<1, 4>>],
     [column |-> "regime_label", value |-> "up"],
     [column |-> "out_is_loss", value |-> <<1, 1>>]}
==============================================================================
