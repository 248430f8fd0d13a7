------------------------------ MODULE WebRadio ------------------------------
(***************************************************************************)
(* The web radio of the firmware: the configuration that HTTP handlers and *)
(* the alarm task write (WebRadioService), the player task that owns the   *)
(* ring buffer and the shared I2S sink (web_radio_stream.cpp), and the     *)
(* network task it spawns for every session (web_radio_fetch.cpp).         *)
(*                                                                         *)
(* The player and the network task share the ring, the flag stop and the   *)
(* binary semaphore done.  The ring is counted in chunks; audio, titles,   *)
(* the decoder and every duration are left out, so a wait may end early or *)
(* late.                                                                   *)
(***************************************************************************)
EXTENDS Naturals, FiniteSets

CONSTANTS
    Urls,       \* the stream URLs a client may configure
    TlsUrls,    \* those among them that start with https://
    Writers,    \* the tasks that call WebRadioService::setConfig
    Phones,     \* the other producers that may hold the I2S sink
    Player,     \* the web radio player, as an owner of the sink
    NoOwner,    \* the sink is free
    RingCap,    \* chunks the ring holds
    StartFill,  \* chunks that start playback (kStartFillPercent)
    MaxHops,    \* kMaxPlaylistHops
    MaxGen      \* bound on the number of configuration changes

ASSUME WebRadioAssumption ==
    /\ Urls # {} /\ TlsUrls \subseteq Urls
    /\ NoOwner # Player /\ Player \notin Phones /\ NoOwner \notin Phones
    /\ RingCap \in Nat \ {0} /\ StartFill \in 1..RingCap
    /\ MaxHops \in Nat /\ MaxGen \in Nat

VARIABLES
    saved,    \* the configuration stored in NVS
    cfg,      \* WebRadioService::config_
    gen,      \* WebRadioService::generation_
    wcall,    \* what each writer is doing inside setConfig
    status,   \* WebRadioService::status_, what GET /api/streaming shows
    sink,     \* gInUse of the I2S sink, with the producer that set it
    pc,       \* where the player task is
    pgen,     \* the generation the player's session was started for
    surl,     \* the URL the player's session plays
    pstat,    \* PlayerStats state and fault
    ring,     \* the ring buffer: allocated, sized for TLS, chunks in it
    stop,     \* Session::stop
    done,     \* Session::done, a binary semaphore
    net,      \* where the network task is ("none": no such task)
    hops,     \* playlists the network task followed in a row
    netRep    \* Session::netState and Session::fault

serviceVars == <<saved, cfg, gen, wcall>>
netVars     == <<net, hops, netRep>>
playerVars  == <<pc, pgen, surl, pstat>>
vars == <<serviceVars, status, sink, playerVars, ring, stop, done, netVars>>

Configs == [enabled : BOOLEAN, url : Urls]
Faults  == {"none", "connect", "format", "memory", "output"}
Report(st, f) == [state |-> st, fault |-> f]
Reports == [state : {"idle", "connecting", "buffering", "playing", "error"},
            fault : Faults]
NoRing  == [exists |-> FALSE, tls |-> FALSE, fill |-> 0]

\* Points of the player task at which a network task has been started and
\* not yet been joined.
InSession == {"fill", "play", "stop", "join"}
\* Points of the player task at which it holds the I2S sink.
HoldsSink == InSession \cup {"ring", "claim", "loop", "gen", "url", "prepare",
                             "reap", "restore", "release"}
\* Points of the player task at which the ring is allocated.
HasRing   == (HoldsSink \ {"ring"}) \cup {"delete"}
PlayerPoints == HasRing \cup {"boot", "settle", "poll", "acquire", "ring"}
NetPoints == {"none", "top", "open", "pump", "push", "pause", "hold"}

TypeOK ==
    /\ saved \in Configs /\ cfg \in Configs
    /\ gen \in 0..MaxGen
    /\ wcall \in [Writers -> [pc : {"idle", "save", "apply"}, new : Configs]]
    /\ status \in Reports /\ pstat \in Reports /\ netRep \in Reports
    /\ sink \in Phones \cup {Player, NoOwner}
    /\ pc \in PlayerPoints /\ pgen \in 0..MaxGen /\ surl \in Urls
    /\ ring \in [exists : BOOLEAN, tls : BOOLEAN, fill : 0..RingCap]
    /\ stop \in BOOLEAN /\ done \in BOOLEAN
    /\ net \in NetPoints /\ hops \in 0..MaxHops

Init ==
    \* The service loads the stored configuration when it is constructed.
    /\ saved \in Configs /\ cfg = saved
    /\ gen = 0
    /\ wcall = [w \in Writers |-> [pc |-> "idle", new |-> saved]]
    /\ status = Report("idle", "none")
    /\ sink = NoOwner
    /\ pc = "boot" /\ pgen = 0 /\ surl = saved.url
    /\ pstat = Report("buffering", "none")
    /\ ring = NoRing
    /\ stop = FALSE /\ done = FALSE
    /\ net = "none" /\ hops = 0 /\ netRep = Report("connecting", "none")

-----------------------------------------------------------------------------
(* WebRadioService::setConfig: save to NVS, then publish under the mutex.  *)

\* POST /api/streaming and an alarm row with a URL carry a whole
\* configuration.
Request(w) ==
    /\ wcall[w].pc = "idle" /\ gen < MaxGen
    /\ \E c \in Configs : wcall' = [wcall EXCEPT ![w] = [pc |-> "save", new |-> c]]
    /\ UNCHANGED <<saved, cfg, gen, status, sink, playerVars, ring, stop, done, netVars>>

\* The alarm task's stopWebRadio: a copy of the live configuration, read
\* under the mutex and switched off, is written back later.
RequestOff(w) ==
    /\ wcall[w].pc = "idle" /\ gen < MaxGen
    /\ cfg.enabled
    /\ wcall' = [wcall EXCEPT ![w] = [pc |-> "save", new |-> [cfg EXCEPT !.enabled = FALSE]]]
    /\ UNCHANGED <<saved, cfg, gen, status, sink, playerVars, ring, stop, done, netVars>>

\* A failed save returns the error and leaves the live configuration alone.
Save(w) ==
    /\ wcall[w].pc = "save"
    /\ \/ /\ saved' = wcall[w].new
          /\ wcall' = [wcall EXCEPT ![w].pc = "apply"]
       \/ /\ wcall' = [wcall EXCEPT ![w].pc = "idle"]
          /\ UNCHANGED saved
    /\ UNCHANGED <<cfg, gen, status, sink, playerVars, ring, stop, done, netVars>>

Apply(w) ==
    /\ wcall[w].pc = "apply" /\ gen < MaxGen
    /\ cfg' = wcall[w].new
    /\ gen' = gen + 1
    /\ wcall' = [wcall EXCEPT ![w].pc = "idle"]
    /\ UNCHANGED <<saved, status, sink, playerVars, ring, stop, done, netVars>>

WriterNext(w) == Request(w) \/ RequestOff(w) \/ Save(w) \/ Apply(w)

-----------------------------------------------------------------------------
(* The other producers: the phone PCM server and PUT /api/stream/phone.    *)

PhoneAcquire(p) ==
    /\ sink = NoOwner
    /\ sink' = p
    /\ UNCHANGED <<serviceVars, status, playerVars, ring, stop, done, netVars>>

PhoneRelease(p) ==
    /\ sink = p
    /\ sink' = NoOwner
    /\ UNCHANGED <<serviceVars, status, playerVars, ring, stop, done, netVars>>

-----------------------------------------------------------------------------
(* The player task.                                                        *)

\* publish: the network's report while it is not playing, else the player's.
\* Calls that are not forced are dropped within kPublishPeriodUs.
Merged(stats) == IF netRep.state = "playing" THEN stats ELSE netRep
PublishForced(stats) == status' = Merged(stats)
Publish(stats) == PublishForced(stats) \/ UNCHANGED status

\* Mutant: the generation is not compared.
MutantSessionCurrent == cfg.enabled

SessionCurrent == pgen = gen /\ cfg.enabled

PublishIdle == status' = Report("idle", "none")

\* initPlayer, retried for ever.
InitPlayer ==
    /\ pc = "boot"
    /\ \/ pc' = "settle" /\ UNCHANGED status
       \/ status' = Report("error", "output") /\ UNCHANGED pc
    /\ UNCHANGED <<serviceVars, sink, pgen, surl, pstat, ring, stop, done, netVars>>

\* bootSettled: the system is up and the running image is confirmed.
Settle ==
    /\ pc = "settle"
    /\ pc' = "poll"
    /\ UNCHANGED <<serviceVars, status, sink, pgen, surl, pstat, ring, stop, done, netVars>>

Poll ==
    /\ pc = "poll"
    /\ \/ cfg.enabled /\ pc' = "acquire" /\ UNCHANGED status
       \/ ~cfg.enabled /\ PublishIdle /\ UNCHANGED pc
    /\ UNCHANGED <<serviceVars, sink, pgen, surl, pstat, ring, stop, done, netVars>>

AcquireSink ==
    /\ pc = "acquire"
    /\ \/ sink = NoOwner /\ sink' = Player /\ pc' = "ring"
       \/ sink # NoOwner /\ pc' = "poll" /\ UNCHANGED sink
    /\ UNCHANGED <<serviceVars, status, pgen, surl, pstat, ring, stop, done, netVars>>

\* The ring is sized from the free heap and from the URL configured now.
CreateRing ==
    /\ pc = "ring"
    /\ \/ /\ ring' = [exists |-> TRUE, tls |-> cfg.url \in TlsUrls, fill |-> 0]
          /\ pc' = "claim"
          /\ UNCHANGED <<sink, status>>
       \/ \* not enough heap: release, report OutOfMemory, retry
          /\ sink' = NoOwner
          /\ status' = Report("error", "memory")
          /\ pc' = "poll"
          /\ UNCHANGED ring
    /\ UNCHANGED <<serviceVars, pgen, surl, pstat, stop, done, netVars>>

\* audio_routing::claimEsp32Input; a failure is only logged.
ClaimInput ==
    /\ pc = "claim"
    /\ pc' = "loop"
    /\ UNCHANGED <<serviceVars, status, sink, pgen, surl, pstat, ring, stop, done, netVars>>

\* while (config().enabled)
LoopHead ==
    /\ pc = "loop"
    /\ pc' = IF cfg.enabled THEN "gen" ELSE "restore"
    /\ UNCHANGED <<serviceVars, status, sink, pgen, surl, pstat, ring, stop, done, netVars>>

\* generation() and config().url are two reads, each under the mutex, in
\* this order.
ReadGeneration ==
    /\ pc = "gen"
    /\ pgen' = gen
    /\ pc' = "url"
    /\ UNCHANGED <<serviceVars, status, sink, surl, pstat, ring, stop, done, netVars>>

ReadUrl ==
    /\ pc = "url"
    /\ surl' = cfg.url
    /\ pc' = "prepare"
    /\ UNCHANGED <<serviceVars, status, sink, pgen, pstat, ring, stop, done, netVars>>

\* prepareSession, with startFetch, which creates the network task.  When
\* the decoder or the task cannot be created, playSession reports it (the
\* network's own state is still "connecting" then, and wins) and returns.
PrepareSession ==
    /\ pc = "prepare"
    /\ ring' = [ring EXCEPT !.fill = 0]
    /\ stop' = FALSE
    /\ netRep' = Report("connecting", "none")
    /\ \/ /\ net' = "top" /\ hops' = 0
          /\ pc' = "fill"
          /\ pstat' = Report("buffering", "none")
          /\ UNCHANGED status
       \/ /\ pc' = "loop"
          /\ pstat' = Report("error", "memory")
          /\ status' = Report("connecting", "none")
          /\ UNCHANGED <<net, hops>>
    /\ UNCHANGED <<serviceVars, sink, pgen, surl, done>>

\* One iteration of waitForFill.  After kPrefillTimeoutUs a ring with
\* kMinStartBytes, less than the start level, is enough.
WaitForFill ==
    /\ pc = "fill"
    /\ \/ /\ ~SessionCurrent
          /\ pc' = "stop"
          /\ UNCHANGED <<pstat, status>>
       \/ /\ SessionCurrent /\ ring.fill >= 1
          /\ pc' = "play"
          /\ pstat' = [pstat EXCEPT !.state = "playing"]
          /\ UNCHANGED status
       \/ /\ SessionCurrent /\ ring.fill < StartFill
          /\ Publish(pstat)
          /\ UNCHANGED <<pc, pstat>>
    /\ UNCHANGED <<serviceVars, sink, pgen, surl, ring, stop, done, netVars>>

Continue == pc' = IF SessionCurrent THEN "play" ELSE "stop"

\* step: a chunk is taken from the ring and decoded; an empty ring
\* rebuffers; a write that times out is reported at once.
PlayStep ==
    /\ pc = "play"
    /\ \/ /\ ring.fill = 0
          /\ pc' = "fill"
          /\ pstat' = [pstat EXCEPT !.state = "buffering"]
          /\ UNCHANGED <<ring, status>>
       \/ /\ ring.fill > 0
          /\ ring' = [ring EXCEPT !.fill = @ - 1]
          /\ pstat' = Report("playing", "none")
          /\ Publish(Report("playing", "none"))
          /\ Continue
       \/ /\ ring.fill > 0
          /\ ring' = [ring EXCEPT !.fill = @ - 1]
          /\ pstat' = Report("error", "output")
          /\ PublishForced(Report("error", "output"))
          /\ Continue
    /\ UNCHANGED <<serviceVars, sink, pgen, surl, stop, done, netVars>>

\* stopFetch: raise the flag, then take the semaphore.  The first wait ends
\* after 15 s, the second one never does.
StopFetch ==
    /\ pc = "stop"
    /\ stop' = TRUE
    /\ pc' = "join"
    /\ UNCHANGED <<serviceVars, status, sink, pgen, surl, pstat, ring, done, netVars>>

\* Mutant: the player gives up after the first 15 s.
MutantJoinFetch ==
    /\ pc = "join"
    /\ done' = FALSE
    /\ pc' = "reap"
    /\ UNCHANGED <<serviceVars, status, sink, pgen, surl, pstat, ring, stop, netVars>>

JoinFetch ==
    /\ pc = "join"
    /\ done
    /\ done' = FALSE
    /\ pc' = "reap"
    /\ UNCHANGED <<serviceVars, status, sink, pgen, surl, pstat, ring, stop, netVars>>

\* The decoder is freed and the idle task reaps the network task's stack.
Reap ==
    /\ pc = "reap"
    /\ pc' = "loop"
    /\ UNCHANGED <<serviceVars, status, sink, pgen, surl, pstat, ring, stop, done, netVars>>

RestoreSource ==
    /\ pc = "restore"
    /\ pc' = "release"
    /\ UNCHANGED <<serviceVars, status, sink, pgen, surl, pstat, ring, stop, done, netVars>>

ReleaseSink ==
    /\ pc = "release"
    /\ sink' = NoOwner
    /\ pc' = "delete"
    /\ UNCHANGED <<serviceVars, status, pgen, surl, pstat, ring, stop, done, netVars>>

DeleteRing ==
    /\ pc = "delete"
    /\ ring' = NoRing
    /\ PublishIdle
    /\ pc' = "poll"
    /\ UNCHANGED <<serviceVars, sink, pgen, surl, pstat, stop, done, netVars>>

PlayerNext ==
    \/ InitPlayer \/ Settle \/ Poll \/ AcquireSink \/ CreateRing \/ ClaimInput
    \/ LoopHead \/ ReadGeneration \/ ReadUrl \/ PrepareSession \/ WaitForFill
    \/ PlayStep \/ StopFetch \/ JoinFetch \/ Reap \/ RestoreSource
    \/ ReleaseSink \/ DeleteRing

-----------------------------------------------------------------------------
(* The network task.                                                       *)

\* The loop of fetchTask.  On stop the task gives done and deletes itself.
FetchLoop ==
    /\ net = "top"
    /\ \/ stop /\ net' = "none" /\ done' = TRUE /\ UNCHANGED netRep
       \/ ~stop /\ net' = "open" /\ netRep' = Report("connecting", "none")
                /\ UNCHANGED done
    /\ UNCHANGED <<serviceVars, status, sink, playerVars, ring, stop, hops>>

\* streamOnce up to the first audio byte: the client, the redirects, the
\* response.  Blocks for kHttpTimeoutMs at most; stop is not looked at.
Refuse(fault, point) ==
    /\ netRep' = Report("error", fault)
    /\ net' = point
    /\ hops' = 0

\* A playlist that names a stream is followed MaxHops times in a row.
FollowPlaylist ==
    /\ IF hops < MaxHops THEN net' = "top" /\ hops' = hops + 1
                         ELSE net' = "pause" /\ hops' = 0
    /\ UNCHANGED netRep

OpenStream ==
    /\ net = "open"
    /\ \/ Refuse("memory", "pause")     \* no HTTP client
       \/ Refuse("connect", "pause")    \* no connection, or an HTTP error
       \/ Refuse("format", "hold")      \* HLS, AAC, Ogg or a web page
       \/ FollowPlaylist
       \/ net' = "pump" /\ netRep' = Report("playing", "none") /\ UNCHANGED hops
    /\ UNCHANGED <<serviceVars, status, sink, playerVars, ring, stop, done>>

\* pumpAudio: a read returns bytes, or the stream ended, stalled or was
\* told to stop.
Pump ==
    /\ net = "pump"
    /\ \/ ~stop /\ net' = "push" /\ UNCHANGED hops
       \/ net' = "pause" /\ hops' = 0
    /\ UNCHANGED <<serviceVars, status, sink, playerVars, ring, stop, done, netRep>>

\* Mutant: pushAudio waits for room without looking at stop.
MutantPush ==
    /\ net = "push"
    /\ ring.fill < RingCap
    /\ ring' = [ring EXCEPT !.fill = @ + 1]
    /\ net' = "pump"
    /\ UNCHANGED <<serviceVars, status, sink, playerVars, stop, done, hops, netRep>>

\* pushAudio waits for room in the ring until it is told to stop.
Push ==
    /\ net = "push"
    /\ \/ /\ ~stop /\ ring.fill < RingCap
          /\ ring' = [ring EXCEPT !.fill = @ + 1]
          /\ net' = "pump" /\ UNCHANGED hops
       \/ stop /\ net' = "pause" /\ hops' = 0 /\ UNCHANGED ring
    /\ UNCHANGED <<serviceVars, status, sink, playerVars, stop, done, netRep>>

\* pause: the back-off before a reconnection, and the longer one after a
\* permanent refusal; both end early on stop.
Pause ==
    /\ net \in {"pause", "hold"}
    /\ net' = "top"
    /\ UNCHANGED <<serviceVars, status, sink, playerVars, ring, stop, done, hops, netRep>>

NetNext == FetchLoop \/ OpenStream \/ Pump \/ Push \/ Pause

-----------------------------------------------------------------------------
Next ==
    \/ \E w \in Writers : WriterNext(w)
    \/ \E p \in Phones : PhoneAcquire(p) \/ PhoneRelease(p)
    \/ PlayerNext
    \/ NetNext

Spec == Init /\ [][Next]_vars

\* Both tasks run for ever: FreeRTOS schedules them preemptively, every
\* socket call of the network task has a timeout (kHttpTimeoutMs) and every
\* wait of the player but the one for done is bounded.
FairSpec == Spec /\ WF_vars(PlayerNext) /\ WF_vars(NetNext)

-----------------------------------------------------------------------------
(* Properties.                                                             *)

\* The player/network handshake (stopFetch, fetchTask): between startFetch
\* and the end of stopFetch either the network task lives or it has given
\* done, never both; outside there is neither a task nor a token left over
\* that would let the next stopFetch return while its task still runs.
FetchHandshake ==
    /\ pc \in InSession <=> (net # "none" \/ done)
    /\ ~(net # "none" /\ done)
    /\ done => stop

\* The ring is never freed, and the sink never given back, under a network
\* task that still pushes into the ring (deleteRing, prepareSession).
RingOutlivesFetch == net # "none" => ring.exists /\ sink = Player

\* esp32_i2s_sink admits one producer: the player owns the claim exactly
\* while it is between tryAcquire and release, so it never writes samples
\* while a phone holds the wire and never leaves the wire blocked.
ClaimFollowsPlayer == sink = Player <=> pc \in HoldsSink

\* streamWhileEnabled reads the generation before the URL: a session that
\* sessionCurrent lets go on plays the URL that is configured.
SessionUrlCurrent ==
    pc \in {"fill", "play"} /\ SessionCurrent => surl = cfg.url

\* "A new URL restarts the stream at once": when the stream stays on with
\* one URL and the player keeps the sink, it plays that URL again and
\* again, unless sessions cannot be prepared for want of memory.
NewUrlPlays ==
    \A u \in Urls :
        <>[](cfg = [enabled |-> TRUE, url |-> u] /\ sink = Player)
            => []<>(\/ pc \in {"fill", "play"} /\ surl = u
                    \/ pc = "loop" /\ pstat = Report("error", "memory"))

\* Switching the stream off ends in a free wire and an idle status,
\* wherever the two tasks were, unless it is switched on again.
OffFreesSink ==
    (pc \notin {"boot", "settle"} /\ ~cfg.enabled)
        ~> (cfg.enabled \/ (sink # Player /\ status = Report("idle", "none")))

\* setConfig "persists via store_ first, then updates the live copy": with
\* no call in progress, what a reboot would load is what is live.
SavedMatchesLive == (\A w \in Writers : wcall[w].pc = "idle") => saved = cfg
=============================================================================
