---------------------------- MODULE ProgramStore ----------------------------
(***************************************************************************)
(* What the DSP program store promises, without flash sectors, tasks or    *)
(* resets: it holds one whole program or none, the program it holds is     *)
(* replaced only by one that somebody is handing over, never by another    *)
(* one in a single step, and the radio starts with the program it holds or *)
(* with the embedded one.                                                  *)
(***************************************************************************)
CONSTANTS
    Embedded,   \* the program compiled into the firmware
    NoProgram   \* nothing that can be read back

VARIABLES
    stored,     \* the program a start would find, or NoProgram
    offers,     \* programs that writers are handing over
    running     \* the program the last start loaded, or NoProgram

Init == /\ stored = NoProgram
        /\ offers = {}
        /\ running = NoProgram

\* A writer comes, or leaves (done, failed, or cut by a reset).
Offer == /\ offers' # offers
         /\ UNCHANGED <<stored, running>>

\* The old program is gone before the new one is there; writers may leave.
Drop == /\ stored # NoProgram
        /\ stored' = NoProgram
        /\ offers' \subseteq offers
        /\ running' \in {running, NoProgram}

\* The last piece of an offered program arrives, and its writer leaves.
Put == /\ stored = NoProgram
       /\ stored' \in offers
       /\ offers' \subseteq offers
       /\ UNCHANGED running

\* A reset: every writer is gone.
Stop == /\ offers' = {}
        /\ running' = NoProgram
        /\ UNCHANGED stored

Start == /\ running = NoProgram
         /\ running' \in {Embedded} \cup ({stored} \ {NoProgram})
         /\ UNCHANGED <<stored, offers>>

Next == Offer \/ Drop \/ Put \/ Stop \/ Start

Spec == Init /\ [][Next]_<<stored, offers, running>>
=============================================================================
