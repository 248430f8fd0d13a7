----------------------------- MODULE Slideshow -----------------------------
(***************************************************************************)
(* Slides that a DAB service sends as MOT objects: MotSlideAssembler, fed  *)
(* with data groups in whatever order they are received, and the flash it  *)
(* writes to, FlashSlideStore: Slots of 64 KB, whose sectors are erased    *)
(* the first time that a slide touches them.                               *)
(*                                                                         *)
(* An object is cut in segments of one unit; a flash sector holds PerSector*)
(* units.  Writing over what was not erased leaves Spoilt.  A group is     *)
(* [service, type, id, object, size] with, for a body, part and last.      *)
(***************************************************************************)
EXTENDS Naturals, FiniteSets

CONSTANTS
    Slots,      \* kSlotCount
    Units,      \* units of a slot: kSlotSize over the size of a segment
    PerSector,  \* units of a flash sector
    Empty,      \* a unit that was erased
    Spoilt,     \* a unit that holds no segment of one object
    Unset       \* std::nullopt

ASSUME SlideshowAssumption ==
    /\ Slots \in Nat /\ Slots >= 2
    /\ Units \in Nat \ {0} /\ PerSector \in Nat \ {0}
    /\ Unset \notin Nat

SectorOf(u) == u \div PerSector

\* The assembler, and what the slots hold.  writing, shown: writingSlot_ and
\* shownSlot_; picture: the size of shown_, Unset when nothing is published.
NoSlide == [service |-> Unset, id |-> Unset, shownId |-> Unset, size |-> 0,
            last |-> Unset, received |-> {}, writing |-> 1, shown |-> 0,
            erased |-> {}, picture |-> Unset,
            flash |-> [s \in 0..Slots - 1 |-> [u \in 0..Units - 1 |-> Spoilt]]]

\* Mutant of ForService: the id of the slide on show is kept.
MutantForService(a, service) ==
    IF a.service = service THEN a
    ELSE [a EXCEPT !.service = service, !.id = Unset, !.last = Unset, !.received = {},
                   !.picture = IF a.service # Unset THEN Unset ELSE @]

\* reset(), after clearSlides() when another service was assembled before.
ForService(a, service) ==
    IF a.service = service THEN a
    ELSE [a EXCEPT !.service = service, !.id = Unset, !.shownId = Unset, !.last = Unset,
                   !.received = {}, !.picture = IF a.service # Unset THEN Unset ELSE @]

\* Mutant of NextSlot: the slot on show is not passed over.
MutantNextSlot(a) == (a.writing + 1) % Slots

\* beginSlide: the next slot but the one on show.
NextSlot(a) ==
    LET n == (a.writing + 1) % Slots IN IF n = a.shown THEN (n + 1) % Slots ELSE n

Begin(a, size) == [a EXCEPT !.writing = NextSlot(a), !.erased = {}]

\* onHeader: the object on show and the one being received are not begun again.
OnHeader(a, g) ==
    IF g.id \in {a.shownId, a.id} \/ g.size = 0 \/ g.size > Units THEN a
    ELSE [Begin(a, g.size) EXCEPT !.id = g.id, !.size = g.size, !.last = Unset, !.received = {}]

\* eraseSectors and the write of one unit.
Erase(a, unit) ==
    IF SectorOf(unit) \in a.erased THEN a
    ELSE [a EXCEPT !.erased = @ \cup {SectorOf(unit)},
                   !.flash[a.writing] = [u \in DOMAIN @ |->
                        IF SectorOf(u) = SectorOf(unit) THEN Empty ELSE @[u]]]

Program(a, unit, segment) ==
    [a EXCEPT !.flash[a.writing][unit] = IF @ \in {Empty, segment} THEN segment ELSE Spoilt]

\* A write that fails may have erased, and may have spoilt the unit.
FailedWrites(a, unit) ==
    LET e == Erase(a, unit) IN {a, e, [e EXCEPT !.flash[a.writing][unit] = Spoilt]}

\* offsetOf: the last segment ends where the object does.
OffsetOf(a, g) == IF g.last THEN a.size - 1 ELSE g.part

Wanted(a, g) ==
    /\ g.id = a.id
    /\ g.part \notin a.received
    /\ a.last # Unset => g.part <= a.last
    /\ OffsetOf(a, g) < a.size

Complete(a) == a.last # Unset /\ Cardinality(a.received) = a.last + 1

\* commitSlide
Commit(a) == [a EXCEPT !.shown = a.writing, !.picture = a.size, !.shownId = a.id, !.id = Unset]

\* onBody, when the flash is written, and when it is not.
OnBody(a, g) ==
    LET unit == OffsetOf(a, g)
        put  == Program(Erase(a, unit), unit, <<g.object, g.part>>)
        had  == [put EXCEPT !.received = @ \cup {g.part},
                            !.last = IF g.last THEN g.part ELSE @]
    IN  IF ~Wanted(a, g) THEN a
        ELSE IF Complete(had) THEN Commit(had) ELSE had

OnBodyFails(a, g) == {[w EXCEPT !.id = Unset] : w \in FailedWrites(a, OffsetOf(a, g))}

\* MotSlideAssembler::apply
ApplyMot(a, g) ==
    LET u == ForService(a, g.service)
    IN  IF g.type = "header" THEN OnHeader(u, g) ELSE OnBody(u, g)

ApplyMotFails(a, g) ==
    LET u == ForService(a, g.service)
    IN  IF g.type = "body" /\ Wanted(u, g) THEN OnBodyFails(u, g) ELSE {}

\* What GET /api/tuner/slide reads: every unit of the picture in the slot shown.
Reading(a) == [u \in 0..a.picture - 1 |-> a.flash[a.shown][u]]

=============================================================================
