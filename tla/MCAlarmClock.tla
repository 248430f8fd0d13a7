---------------------------- MODULE MCAlarmClock ----------------------------
(* Small instances of AlarmClock for TLC.                                  *)
EXTENDS AlarmClock

On(at, fade, duration) ==
    [at |-> at, action |-> "on", level |-> MaxLevel, fade |-> fade,
     duration |-> duration, web |-> TRUE]
Off(at) ==
    [at |-> at, action |-> "off", level |-> 0, fade |-> 0, duration |-> 0,
     web |-> FALSE]

\* One ramp follows another, and ends with its duration; of two rows of a
\* minute the first one counts.
WakeTables == {<<On(0, 2, 0), On(1, 2, 1), Off(1)>>, <<On(0, 0, 1), Off(2)>>}
=============================================================================
