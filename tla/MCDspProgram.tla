---------------------------- MODULE MCDspProgram ----------------------------
(* Two memory words and the run register; frames of one and of two words,    *)
(* one that starts inside another; two flash sectors.                        *)
EXTENDS DspProgram
W(a, d) == [addr |-> a, data |-> d]
MCFrames == {W(0, <<0, 1>>), W(1, <<0>>), W(3, <<0>>), W(3, <<1>>)}
MCEmbedded == <<W(0, <<0, 0>>), W(3, <<1>>)>>
MCPosted == {<<W(0, <<1, 1>>), W(3, <<1>>)>>}
=============================================================================
