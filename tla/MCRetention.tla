----------------------------- MODULE MCRetention -----------------------------
(* A small calendar for TLC: years of four, months of two and weeks of three *)
(* units of time, so that a week reaches over the end of the first year.     *)
EXTENDS Retention

SmallYear  == [x \in Time |-> (x - 1) \div 4]
SmallMonth == [x \in Time |-> (x - 1) \div 2]
SmallWeek  == [x \in Time |-> (x - 1) \div 3]
=============================================================================
