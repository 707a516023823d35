----------------------------- MODULE MCScheduler -----------------------------
(* Small instances of Scheduler.                                           *)
EXTENDS Scheduler

Of(kind, interval, nag) == [kind |-> kind, interval |-> interval, nag |-> nag]
Tasks         == {Of("custom", 0, 0), Of("reminder", 2, 1)}
=============================================================================
