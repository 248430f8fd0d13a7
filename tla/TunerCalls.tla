----------------------------- MODULE TunerCalls -----------------------------
(***************************************************************************)
(* What those who tune the radio assume of it: every call has one of the   *)
(* outcomes that Tuner gives.  Following is built on this; Reception shows *)
(* that the driver and the service implement it.                           *)
(***************************************************************************)
EXTENDS Tuner

CONSTANT Reach   \* the level of every ensemble and frequency

VARIABLE tuner

Init == /\ tuner \in TunerStates
        /\ tuner.failures = 0

Calls == UNION {UNION {TuneDab(tuner, e) : e \in Ensembles},
                UNION {TuneFm(tuner, f) : f \in Frequencies},
                UNION {PlayDab(tuner, s, Reach) : s \in Services},
                ListDab(tuner, Reach),
                UNION {SetVolume(tuner, m) : m \in BOOLEAN},
                ReadStatus(tuner)}

Next == \E r \in Calls : tuner' = r.t

Spec == Init /\ [][Next]_tuner

=============================================================================
