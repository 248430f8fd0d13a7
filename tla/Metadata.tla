------------------------------ MODULE Metadata ------------------------------
(***************************************************************************)
(* What the radio makes of the text that a station sends: RDS groups       *)
(* (RdsMetadataAccumulator) and DAB dynamic labels (the segments of        *)
(* DabDynamicLabelAccumulator, the messages of DlsDecoder), as operators   *)
(* on the state of the accumulators.                                       *)
(*                                                                         *)
(* A text is cut in two Parts, and part i of text n is the value <<n, i>>; *)
(* the name that was sent is the function WholeText(n).  Characters and    *)
(* alphabets are left out: two texts differ in every part, and Noise is    *)
(* what a block that was corrupted decodes to.                             *)
(***************************************************************************)
EXTENDS Naturals, Sequences

CONSTANT
    NoText,    \* nothing received, nothing published
    Noise      \* a part that no station sent

Parts == 0..1
Blank == [i \in Parts |-> NoText]
WholeText(n) == [i \in Parts |-> <<n, i>>]

-----------------------------------------------------------------------------
(* RDS.  A group: type, the program that block A names, part, what of the  *)
(* text its blocks hold, the A/B flag, and how well the demodulator read   *)
(* it: "clean" is 0 or 1 corrected errors, "doubtful" 3 to 5, which the    *)
(* chip's thresholds let through and the accumulator does not trust.       *)

\* The accumulator after reset().  fill: rtBuffer_ with the parts that
\* rtSegmentValid_ marks; tags: what the RT+ tags point into.
NoRds == [piCandidate |-> NoText, pi |-> NoText,
          candidate |-> Blank, confirmed |-> Blank, name |-> Blank,
          flag |-> NoText, fill |-> Blank, radiotext |-> Blank, current |-> FALSE,
          plusGroup |-> FALSE, tags |-> NoText]

\* Mutant of FeedName: the parts confirmed before stay when one changes.
MutantFeedName(r, i, c) ==
    LET sure == [r.confirmed EXCEPT ![i] = c]
    IN  IF r.candidate[i] # c THEN [r EXCEPT !.candidate[i] = c]
        ELSE [r EXCEPT !.confirmed = sure,
                       !.name = IF \A p \in Parts : sure[p] # NoText THEN sure ELSE @]

\* A part is confirmed when it comes twice in a row in its place; one that
\* differs from the last starts the name over.  All confirmed: published.
FeedName(r, i, c) ==
    LET known == r.candidate[i] # NoText
        sure  == [r.confirmed EXCEPT ![i] = c]
    IN  IF r.candidate[i] # c
        THEN [r EXCEPT !.candidate[i] = c, !.confirmed = IF known THEN Blank ELSE @]
        ELSE [r EXCEPT !.confirmed = sure,
                       !.name = IF \A p \in Parts : sure[p] # NoText THEN sure ELSE @]

\* Mutant of StartRadiotext: the tags of the text before stay.
MutantStartRadiotext(r, flag) == [r EXCEPT !.flag = flag, !.fill = Blank, !.current = FALSE]

\* startRadiotext: the flag says that another text begins.
StartRadiotext(r, flag) ==
    [r EXCEPT !.flag = flag, !.fill = Blank, !.current = FALSE, !.tags = NoText]

\* publishRadiotextIfComplete
Publish(r) ==
    IF \A p \in Parts : r.fill[p] # NoText
    THEN [r EXCEPT !.radiotext = r.fill, !.current = TRUE] ELSE r

\* No block of the group was corrected in more than two bits.
Trusted(g) == g.read = "clean"

\* The flag is acted on before the blocks are known to be trusted.
ApplyRadiotext(r, g) ==
    LET begun == IF r.flag # g.flag THEN StartRadiotext(r, g.flag) ELSE r
    IN  IF Trusted(g) THEN Publish([begun EXCEPT !.fill[g.part] = g.text]) ELSE begun

\* Block A is kept when two groups in a row name the same program.
ApplyPi(r, g) ==
    IF Trusted(g)
    THEN [r EXCEPT !.piCandidate = g.pi, !.pi = IF r.piCandidate = g.pi THEN g.pi ELSE @]
    ELSE r

\* applyRtPlus, for groups of the type that was announced.
ApplyRtPlus(r, g) == IF Trusted(g) /\ r.plusGroup THEN [r EXCEPT !.tags = g.text] ELSE r

ApplyGroup(r, g) ==
    LET u == ApplyPi(r, g)
    IN  CASE g.type = "name" -> IF Trusted(g) THEN FeedName(u, g.part, g.text) ELSE u
          [] g.type = "radiotext" -> ApplyRadiotext(u, g)
          [] g.type = "oda" -> [u EXCEPT !.plusGroup = @ \/ Trusted(g)]
          [] g.type = "tags" -> ApplyRtPlus(u, g)

\* rtPlus(): the text whose tags are applied to the radiotext on show.
RtPlus(r) == IF r.current THEN r.tags ELSE NoText

-----------------------------------------------------------------------------
(* Dynamic label.  A packet is one part of a message, or a DL Plus command *)
(* with the tags of a text; toggle changes with every new message.         *)

\* joined: the parts so far; expected: how many the message has.
NoDls == [joined |-> <<>>, expected |-> 0,
          text |-> <<>>, toggle |-> FALSE, tags |-> NoText, link |-> FALSE]

\* applySegment: part 0 starts over, any other that is not the next resets.
Join(d, part, count, c) ==
    LET begun == IF part = 0 THEN [d EXCEPT !.joined = <<>>, !.expected = count] ELSE d
    IN  IF count # begun.expected \/ part # Len(begun.joined)
        THEN [d EXCEPT !.joined = <<>>, !.expected = 0]
        ELSE [begun EXCEPT !.joined = Append(@, c)]

\* applyDlsSegment: a message that is complete is decoded and the parts go.
ApplyDls(d, p) ==
    LET u == Join(d, p.part, p.count, p.text)
    IN  IF u.expected = 0 \/ Len(u.joined) < u.expected THEN u
        ELSE IF p.type = "tags"
        THEN [u EXCEPT !.joined = <<>>, !.expected = 0, !.tags = p.text, !.link = p.toggle]
        ELSE [u EXCEPT !.joined = <<>>, !.expected = 0, !.text = u.joined, !.toggle = p.toggle]

WholeLabel(n) == << <<n, 0>>, <<n, 1>> >>

=============================================================================
