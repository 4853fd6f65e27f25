-------------------------- MODULE MCHourlyRotator --------------------------
(* Instances of HourlyRotator for TLC: files are named after the hour, and  *)
(* hour 1 may be the one that repeats the name of hour 0.                   *)
EXTENDS HourlyRotator, TLC

HourNames   == [h \in 0..LastHour |-> h]

RepeatNames == [h \in 0..LastHour |-> IF h = 0 THEN 0 ELSE h - 1]

WriterSymmetry == Permutations(Writer)

=============================================================================
