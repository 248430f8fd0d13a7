---------------------------- MODULE MCAudioOutput ----------------------------
(* Small instances of AudioOutput for TLC: see the README for each .cfg.    *)
EXTENDS AudioOutput, TLC

\* The streams differ in nothing, nor do the levels, nor the sources but for
\* the ESP32 input.
AudioSymmetry ==
    Permutations(Streams) \cup Permutations(Levels)
        \cup Permutations(Sources \ {Esp32})
=============================================================================
