--------------------------- MODULE MCLogShipping ---------------------------
(* Instances of LogShipping for TLC: files are named after the hour, and    *)
(* hour 2 may be the one that repeats the name of hour 1.                   *)
EXTENDS LogShipping

HourNames   == [h \in 0..LastHour |-> h]

RepeatNames == [h \in 0..LastHour |-> IF h < 2 THEN h ELSE h - 1]

=============================================================================
