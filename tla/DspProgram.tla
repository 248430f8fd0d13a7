----------------------------- MODULE DspProgram -----------------------------
(***************************************************************************)
(* How a DSP program gets into the flash and from there into the ADAU1701  *)
(* (SigmaStudioTcpServer, dspProgramPostHandler, FlashDspProgramSource,    *)
(* FallbackDspProgramSource, DspProgramBlob, Adau1701Driver::boot).        *)
(*                                                                         *)
(* SigmaStudio writes the registers of the running chip over TCP; what it  *)
(* writes until the run bit comes is captured and stored as the program of *)
(* the next start.  A POST stores a program too and restarts the radio a   *)
(* few seconds later, while the servers go on.  storeBlob erases the       *)
(* partition sector by sector and writes it sector by sector, without a    *)
(* lock between its two callers: a sector then holds the AND of the        *)
(* programs written since its last erase, here the set of them, and only a *)
(* set of one gets through the checksum.  A program is a sequence of       *)
(* regions [addr, data]; a word is a member of Words.                      *)
(***************************************************************************)
EXTENDS Integers, Sequences

CONSTANTS
    Words,         \* values of a register word, 1 sets the run bit
    Cells,         \* register addresses of the chip
    RunReg,        \* kCoreControlReg
    Frames,        \* the writes a client sends: [addr, data]
    Embedded,      \* EmbeddedDspProgramSource
    Posted,        \* programs that are POSTed
    Sectors,       \* flash sectors of the partition, 1..n
    MaxRegions,    \* kMaxCaptureRegions = kMaxWriteCount
    MaxPayload,    \* kMaxRegionPayload = kMaxWritePayload
    NoProgram,     \* no valid program
    Undefined,     \* a register nobody has written since the reset
    Torn,          \* a sector whose erase or write was cut short
    MaxStores,     \* bound on the calls of storeBlob
    MaxResets,     \* bound on the power cycles and the restarts of others
    MaxFailures    \* bound on the I2C and flash failures

Writers == {"sigma", "http"}
LastSector == CHOOSE s \in Sectors : \A r \in Sectors : r <= s

ASSUME DspProgramAssumption ==
    /\ RunReg \in Cells /\ Cells \subseteq Nat /\ 1 \in Words
    /\ 1 \in Sectors /\ Sectors = 1..LastSector
    /\ Frames \subseteq [addr : Cells, data : Seq(Words)]
    /\ MaxRegions \in Nat /\ MaxPayload \in Nat
    /\ MaxStores \in Nat /\ MaxResets \in Nat /\ MaxFailures \in Nat
    /\ NoProgram # Embedded /\ NoProgram \notin Posted

VARIABLES
    flash,      \* sector -> the programs written to it since its erase
    job,        \* what each caller of storeBlob is doing
    link,       \* the SigmaStudio connection (ConnectionState)
    chip,       \* register contents of the ADAU1701
    booted,     \* the program the last start loaded, or NoProgram
    power,      \* "booting", "running" or "halted"
    reboots,    \* a rebootTask is waiting
    lastGood,   \* history: the last program stored with no other writer about
    captured,   \* history: cells whose chip value is in the capture
    stores, resets, failures

vars == <<flash, job, link, chip, booted, power, reboots, lastGood, captured,
          stores, resets, failures>>

Idle == [step |-> "idle", sector |-> 0, prog |-> NoProgram, alone |-> FALSE]
Closed == [open |-> FALSE, regions |-> <<>>, overflowed |-> FALSE, running |-> FALSE]
Opened == [Closed EXCEPT !.open = TRUE]

Busy(w) == job[w].step # "idle"

-----------------------------------------------------------------------------
\* Programs.

\* SIGMA_WRITE_REGISTER_BLOCK: consecutive words from addr on.
Written(mem, addr, data) ==
    [c \in Cells |-> IF c - addr + 1 \in DOMAIN data THEN data[c - addr + 1] ELSE mem[c]]

\* replayProgram up to write n.
Replayed(mem, prog, n) ==
    LET after[i \in 0..n] == IF i = 0 THEN mem
                             ELSE Written(after[i - 1], prog[i].addr, prog[i].data)
    IN  after[n]

\* Mutant: no checksum, the first sector decides.
MutantParsed ==
    IF flash[1] \ {Torn} = {} THEN NoProgram ELSE CHOOSE p \in flash[1] \ {Torn} : TRUE

\* loadProgram of FlashDspProgramSource with parseDspProgramBlob: every
\* sector the same single program, and that program within the limits.
Parsed ==
    LET whole == {p \in flash[1] : \A s \in Sectors : flash[s] = {p}} \ {Torn}
        fits  == {p \in whole : /\ Len(p) \in 1..MaxRegions
                                /\ \A i \in DOMAIN p : Len(p[i].data) \in 1..MaxPayload}
    IN  IF fits = {} THEN NoProgram ELSE CHOOSE p \in fits : TRUE

-----------------------------------------------------------------------------
\* DownloadCapture.

\* Mutant: a write that starts inside the last region is appended to it.
MutantExtends(last, frame) ==
    /\ frame.addr \in last.addr .. last.addr + Len(last.data)
    /\ Len(last.data) + Len(frame.data) <= MaxPayload

Extends(last, frame) ==
    /\ last.addr + Len(last.data) = frame.addr
    /\ Len(last.data) + Len(frame.data) <= MaxPayload

\* addWrite with tryExtendLast and abandon.
AddWrite(l, frame) ==
    LET n == Len(l.regions)
    IN  IF l.overflowed THEN l
        ELSE IF n > 0 /\ Extends(l.regions[n], frame)
             THEN [l EXCEPT !.regions[n].data = @ \o frame.data]
        ELSE IF n >= MaxRegions THEN [l EXCEPT !.overflowed = TRUE, !.regions = <<>>]
        ELSE [l EXCEPT !.regions = Append(@, frame)]

\* trackDownloadCompletion looks at the last word of the frame.
RunBit(l, frame) == IF frame.addr = RunReg THEN frame.data[Len(frame.data)] = 1
                                           ELSE l.running

-----------------------------------------------------------------------------
Init ==
    /\ flash = [s \in Sectors |-> {}]
    /\ job = [w \in Writers |-> Idle]
    /\ link = Closed
    /\ chip = [c \in Cells |-> Undefined]
    /\ booted = NoProgram
    /\ power = "booting"
    /\ reboots = FALSE
    /\ lastGood = NoProgram
    /\ captured = {}
    /\ stores = 0 /\ resets = 0 /\ failures = 0

\* Adau1701Driver::boot after the reset of the chip.  A read of the flash
\* that fails counts as an empty partition.
Boot ==
    /\ power = "booting"
    /\ \E readable \in BOOLEAN :
          LET found == IF readable THEN Parsed ELSE NoProgram
              prog  == IF found = NoProgram THEN Embedded ELSE found
          IN  /\ readable \/ failures < MaxFailures
              /\ failures' = IF readable THEN failures ELSE failures + 1
              /\ chip' = Replayed(chip, prog, Len(prog))
              /\ booted' = prog
    /\ power' = "running"
    /\ UNCHANGED <<flash, job, link, reboots, lastGood, captured, stores, resets>>

\* A write of the program fails after its retries: app_main halts.
BootFails ==
    /\ power = "booting" /\ failures < MaxFailures
    /\ power' = "halted"
    /\ failures' = failures + 1
    /\ UNCHANGED <<flash, job, link, chip, booted, reboots, lastGood, captured,
                   stores, resets>>

\* acceptLoopTask and serveClient: one client at a time.
Connect ==
    /\ power = "running" /\ ~link.open /\ ~Busy("sigma")
    /\ link' = Opened
    /\ captured' = {}
    /\ UNCHANGED <<flash, job, chip, booted, power, reboots, lastGood,
                   stores, resets, failures>>

Disconnect ==
    /\ link.open /\ ~Busy("sigma")
    /\ link' = Closed
    /\ captured' = {}
    /\ UNCHANGED <<flash, job, chip, booted, power, reboots, lastGood,
                   stores, resets, failures>>

\* storeBlob is called; a writer beside it makes the outcome of both unsure.
Begin(w, prog) ==
    /\ job' = [v \in Writers |->
                 IF v = w THEN [step |-> "erase", sector |-> 1, prog |-> prog,
                                alone |-> \A u \in Writers \ {w} : ~Busy(u)]
                          ELSE [job[v] EXCEPT !.alone = FALSE]]
    /\ lastGood' = NoProgram
    /\ stores' = stores + 1

\* dispatchWrite of a direct frame: capture it, write it to the chip (whose
\* answer nobody looks at), and store the capture when the run bit comes up.
\* A frame that goes on past the registers of the chip is captured as it is.
DirectFrame(frame, ok) ==
    LET added  == IF link.running THEN link ELSE AddWrite(link, frame)
        run    == RunBit(link, frame)
        ends   == ~link.running /\ run
        cells  == Cells \cap {frame.addr + i - 1 : i \in DOMAIN frame.data}
        keeps  == ends /\ ~added.overflowed /\ added.regions # <<>>
        kept   == IF link.running /\ ~run THEN {} ELSE captured
    IN  /\ chip' = IF ok THEN Written(chip, frame.addr, frame.data) ELSE chip
        /\ captured' = IF link.running \/ ~ok THEN kept \ cells ELSE kept \cup cells
        /\ link' = IF ends THEN [Opened EXCEPT !.running = TRUE]
                           ELSE [added EXCEPT !.running = run]
        /\ IF keeps THEN stores < MaxStores /\ Begin("sigma", added.regions)
                    ELSE UNCHANGED <<job, lastGood, stores>>

\* safeloadWrite of parameters: to the chip only.
SafeloadFrame(frame, ok) ==
    /\ chip' = IF ok THEN Written(chip, frame.addr, frame.data) ELSE chip
    /\ captured' = captured \ {frame.addr + i - 1 : i \in DOMAIN frame.data}
    /\ UNCHANGED <<link, job, lastGood, stores>>

Frame ==
    /\ link.open /\ ~Busy("sigma")
    /\ \E frame \in Frames, ok \in BOOLEAN :
          /\ ok \/ failures < MaxFailures
          /\ failures' = IF ok THEN failures ELSE failures + 1
          /\ \/ DirectFrame(frame, ok)
             \/ frame.addr # RunReg /\ SafeloadFrame(frame, ok)
    /\ UNCHANGED <<flash, booted, power, reboots, resets>>

\* dspProgramPostHandler with a body that parses.
Post ==
    /\ power = "running" /\ ~Busy("http") /\ stores < MaxStores
    /\ \E prog \in Posted : Begin("http", prog)
    /\ UNCHANGED <<flash, link, chip, booted, power, reboots, captured, resets, failures>>

NextSector(call) == [call EXCEPT !.sector = @ + 1]

\* A sector is erased; after the last one the writing starts.
Erase(w) ==
    /\ job[w].step = "erase"
    /\ flash' = [flash EXCEPT ![job[w].sector] = {}]
    /\ job' = [job EXCEPT ![w] = IF @.sector = LastSector
                                 THEN [@ EXCEPT !.step = "write", !.sector = 1]
                                 ELSE NextSector(@)]
    /\ UNCHANGED <<link, chip, booted, power, reboots, lastGood, captured,
                   stores, resets, failures>>

\* Mutant: the handler answers and starts no rebootTask.
MutantWrite(w) ==
    LET last == job[w].sector = LastSector
    IN  /\ job[w].step = "write"
        /\ flash' = [flash EXCEPT ![job[w].sector] = @ \cup {job[w].prog}]
        /\ job' = [job EXCEPT ![w] = IF last THEN Idle ELSE NextSector(@)]
        /\ lastGood' = IF last /\ job[w].alone THEN job[w].prog ELSE lastGood
        /\ UNCHANGED <<link, chip, booted, power, reboots, captured, stores, resets, failures>>

\* A sector is written over what it holds; with the last one storeBlob
\* returns, and the POST handler starts a rebootTask.
Write(w) ==
    LET last == job[w].sector = LastSector
    IN  /\ job[w].step = "write"
        /\ flash' = [flash EXCEPT ![job[w].sector] = @ \cup {job[w].prog}]
        /\ job' = [job EXCEPT ![w] = IF last THEN Idle ELSE NextSector(@)]
        /\ reboots' = (reboots \/ (last /\ w = "http"))
        /\ lastGood' = IF last /\ job[w].alone THEN job[w].prog ELSE lastGood
        /\ UNCHANGED <<link, chip, booted, power, captured, stores, resets, failures>>

\* A flash operation fails, perhaps half way, and storeBlob returns.
StoreFails(w) ==
    /\ Busy(w) /\ failures < MaxFailures
    /\ \E left \in {flash[job[w].sector], flash[job[w].sector] \cup {Torn}} :
          flash' = [flash EXCEPT ![job[w].sector] = left]
    /\ job' = [job EXCEPT ![w] = Idle]
    /\ failures' = failures + 1
    /\ UNCHANGED <<link, chip, booted, power, reboots, lastGood, captured, stores, resets>>

\* Another handler has started a rebootTask (credentials, OTA, factory reset).
ScheduleReboot ==
    /\ power = "running" /\ ~Busy("http") /\ ~reboots /\ resets < MaxResets
    /\ reboots' = TRUE
    /\ resets' = resets + 1
    /\ UNCHANGED <<flash, job, link, chip, booted, power, lastGood, captured,
                   stores, failures>>

\* Everything in RAM is lost; a sector under work may be left torn.
Reset ==
    /\ \E torn \in SUBSET {job[w].sector : w \in {v \in Writers : Busy(v)}} :
          flash' = [s \in Sectors |-> IF s \in torn THEN flash[s] \cup {Torn} ELSE flash[s]]
    /\ chip' = [c \in Cells |-> Undefined]
    /\ job' = [w \in Writers |-> Idle]
    /\ link' = Closed
    /\ captured' = {}
    /\ booted' = NoProgram
    /\ power' = "booting"
    /\ reboots' = FALSE
    /\ UNCHANGED <<lastGood, stores, failures>>

\* rebootTask: only the delay passes, nobody is asked.
Restart == reboots /\ Reset /\ UNCHANGED resets

PowerCycle == resets < MaxResets /\ Reset /\ resets' = resets + 1

StoreStep(w) == Erase(w) \/ Write(w) \/ StoreFails(w)

Next ==
    \/ Boot \/ BootFails
    \/ Connect \/ Disconnect \/ Frame
    \/ Post \/ \E w \in Writers : StoreStep(w)
    \/ ScheduleReboot \/ Restart \/ PowerCycle

\* A start never waits for anybody, a flash operation ends, and a rebootTask
\* wakes up.
Fairness == WF_vars(Boot) /\ WF_vars(Restart) /\ \A w \in Writers : WF_vars(StoreStep(w))

Spec == Init /\ [][Next]_vars /\ Fairness

-----------------------------------------------------------------------------
Regions == [addr : Cells, data : Seq(Words)]

TypeOK ==
    /\ \A s \in Sectors : flash[s] \subseteq Seq(Regions) \cup {Torn}
    /\ \A w \in Writers :
          /\ job[w].step \in {"idle", "erase", "write"}
          /\ Busy(w) => job[w].sector \in Sectors /\ job[w].prog \in Seq(Regions)
    /\ link.regions \in Seq(Regions) /\ Len(link.regions) <= MaxRegions
    /\ {link.open, link.overflowed, link.running, reboots} \subseteq BOOLEAN
    /\ chip \in [Cells -> Words \cup {Undefined}] /\ captured \subseteq Cells
    /\ {booted, lastGood} \subseteq Seq(Regions) \cup {NoProgram}
    /\ power \in {"booting", "running", "halted"}

\* What a download leaves in its capture, and what is then stored, puts every
\* register back to what the chip has, as far as the writes of this download
\* reached the chip: whatever the order of the frames, with safeloads and
\* failed writes among them, and over several downloads of a connection.
PersistedIsWhatRan ==
    LET blank == [c \in Cells |-> Undefined]
        agrees(prog) == \A c \in captured : Replayed(blank, prog, Len(prog))[c] = chip[c]
    IN  /\ link.open /\ ~link.running /\ ~link.overflowed => agrees(link.regions)
        /\ Busy("sigma") => agrees(job["sigma"].prog)

\* A POST that has the store for itself, with no restart pending from before,
\* ends with its program running, unless something fails, the power goes, or
\* SigmaStudio or a second POST stores another one before the restart.
PostTakesEffect ==
    \A p \in Posted :
        (job["http"].prog = p /\ job["http"].alone /\ ~reboots)
            ~> \/ booted = p
               \/ failures > 0 \/ resets > 0
               \/ Busy("sigma") \/ (Busy("http") /\ reboots)

\* The flash as a store of whole programs: two writers at once, resets and
\* failures may lose the program but never mix two.
Store == INSTANCE ProgramStore WITH
    stored <- Parsed,
    offers <- {job[w].prog : w \in {v \in Writers : Busy(v)}},
    running <- booted

StoreIsWhole == Store!Spec
=============================================================================
