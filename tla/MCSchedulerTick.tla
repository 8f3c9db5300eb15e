--------------------------- MODULE MCSchedulerTick ---------------------------
(* TLC instances of SchedulerTick: time counts minutes. *)
EXTENDS SchedulerTick, TLC

Period   == [minutely |-> 1, other |-> 2]
MCOccurs == [c \in Crons |-> {n * Period[c] : n \in 1..(MaxTime + 1)}]
=============================================================================
