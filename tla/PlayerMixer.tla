---------------------------- MODULE PlayerMixer ----------------------------
(***************************************************************************)
(* The app-wide mixer (frontend/src/audio/mixer.ts) and the three pages    *)
(* that share it: Home starts the music inside the tap that begins a       *)
(* session, Generating plays it through the wait, the player joins the     *)
(* narration to it.  Each `await` of the mixer is a step of its own, and   *)
(* the listener may tap, switch tracks or leave the page before it lands.  *)
(*                                                                         *)
(* There is one background track, as in BGM_TRACKS, and "voice only".      *)
(***************************************************************************)
EXTENDS Integers, FiniteSets

CONSTANTS
    MaxVisits,             \* bound: sessions begun or revisited
    MaxSwitches            \* bound: tracks switched, in all

ASSUME MixerAssumption == MaxVisits \in Nat /\ MaxSwitches \in Nat

Visit == 1..MaxVisits
Track == {"music", "voice_only"}   \* bgmUrl(track) is null for the second

\* Promises under way: what of, for which visit, and what they wait for.
\* A narration is loaded from the URL handed over (n = 0), or from one that
\* getJob has signed just now (n = 1).
Task == [op : {"ambient", "narration", "bgm", "switch", "play", "poll"},
         of : Visit, n : 0..(MaxSwitches + 2),
         await : {"resume", "sign", "fetch"}, was_running : BOOLEAN]

VARIABLES
    page, visit,           \* the page, and the session it is about
    handedOff,             \* GeneratingPage: DONE, in its arrival beat
    failed,                \* PlayerPage: the narration could not be loaded
    track, switches,       \* PlayerPage: the track chosen; switches so far
    ctx,                   \* the AudioContext
    narration,             \* narrationBuffer: whose narration, 0 for none
    heldSource,            \* is narrationSource one that sounds?
    sounding,              \* narration sources started and not stopped
    playing,
    bgmBuffer, bgmSource,  \* is the track decoded (bgmUrl), and started?
    ambientWanted,
    tasks,
    slips                  \* history: the races that have happened

pages == <<page, visit, handedOff, failed, track, switches>>
voice == <<narration, heldSource, sounding, playing>>
music == <<bgmBuffer, bgmSource, ambientWanted>>
vars == <<pages, ctx, voice, music, tasks, slips>>

MixerInit ==
    /\ page = "home" /\ visit = 0
    /\ handedOff = FALSE /\ failed = FALSE
    /\ track = "music" /\ switches = 0
    /\ ctx = "none"
    /\ narration = 0 /\ heldSource = FALSE /\ sounding = 0 /\ playing = FALSE
    /\ bgmBuffer = FALSE /\ bgmSource = FALSE /\ ambientWanted = FALSE
    /\ tasks = {}
    /\ slips = {}

----------------------------------------------------------------------------
(***************************************************************************)
(* The mixer, up to its next await.                                        *)
(***************************************************************************)

\* Faulty: a track that is decoded is fetched again.
DecodedNever == FALSE

\* "A track that is already decoded is not fetched again."
Decoded == bgmBuffer

\* loadBgm(url) of the track, called by task t, once nothing is awaited:
\* what is running stops until the new buffer is there.  After it an ambient
\* start goes on to start what it loaded.
LoadMusic(t, others) ==
    IF Decoded
    THEN /\ tasks' = others
         /\ bgmSource' = (bgmSource \/ (t.op = "ambient" /\ ambientWanted'))
         /\ UNCHANGED bgmBuffer
    ELSE /\ tasks' = others \union {[t EXCEPT !.await = "fetch",
                                             !.was_running = bgmSource]}
         /\ bgmSource' = FALSE
         /\ UNCHANGED bgmBuffer

\* loadBgm(null).
LoadNothing == bgmBuffer' = FALSE /\ bgmSource' = FALSE /\ UNCHANGED tasks

\* Faulty: the source is not stopped.
StopVoiceNever == UNCHANGED <<heldSource, sounding>>

StopVoice ==
    /\ heldSource' = FALSE
    /\ sounding' = IF heldSource THEN sounding - 1 ELSE sounding

StopAmbient ==
    /\ ambientWanted' = FALSE
    /\ bgmSource' = FALSE
    /\ UNCHANGED bgmBuffer

\* play() past its await; it looks at nothing again.  A source that was held
\* is let go without being stopped, and one without a buffer is silent.
StartVoice ==
    /\ heldSource' = (narration # 0)
    /\ sounding' = IF narration = 0 THEN sounding ELSE sounding + 1
    /\ playing' = TRUE
    /\ bgmSource' = (bgmSource \/ bgmBuffer)
    /\ UNCHANGED <<narration, bgmBuffer, ambientWanted>>

\* pause(): both sources stop.
Pause ==
    /\ playing' = FALSE
    /\ StopVoice
    /\ bgmSource' = FALSE
    /\ UNCHANGED <<narration, bgmBuffer, ambientWanted>>

NewTask(op, v, n) == [op |-> op, of |-> v, n |-> n, await |-> "resume",
                      was_running |-> FALSE]

\* The page's loadNarration: of the URL handed over at once, and else only
\* after freshNarrationUrl.
LoadTask(v, n) == [NewTask("narration", v, n) EXCEPT
                       !.await = IF n = 0 THEN "fetch" ELSE "sign"]

----------------------------------------------------------------------------
(***************************************************************************)
(* The pages.                                                              *)
(***************************************************************************)

\* Home's Begin, or the companion's Start: startAmbient, inside the tap.
Begin ==
    /\ page = "home" /\ visit < MaxVisits
    /\ page' = "starting" /\ visit' = visit + 1
    /\ ambientWanted' = TRUE
    /\ LET t == NewTask("ambient", visit', 0) IN
       IF ctx = "running"
       THEN LoadMusic(t, tasks) /\ UNCHANGED ctx
       ELSE /\ tasks' = tasks \union {t}
            /\ ctx' = "suspended"
            /\ UNCHANGED <<bgmBuffer, bgmSource>>
    /\ UNCHANGED <<handedOff, failed, track, switches, voice, slips>>

Accepted ==
    /\ page = "starting"
    /\ page' = "generating"
    /\ UNCHANGED <<visit, handedOff, failed, track, switches, ctx, voice, music,
                   tasks, slips>>

\* POST /generate or confirm was refused.
Refused ==
    /\ page = "starting"
    /\ page' = "home"
    /\ StopAmbient
    /\ UNCHANGED <<visit, handedOff, failed, track, switches, ctx, voice, tasks,
                   slips>>

\* The poll is answered DONE: the arrival beat, and then the player.
JobDone ==
    /\ page = "generating" /\ ~handedOff
    /\ handedOff' = TRUE
    /\ UNCHANGED <<page, visit, failed, track, switches, ctx, voice, music, tasks,
                   slips>>

\* The cleanup of GeneratingPage's poll effect.
LeaveGenerating ==
    IF handedOff THEN UNCHANGED music ELSE StopAmbient

\* Cancel, a FAILED job or a poll that gives up: away from the page.  The
\* abort does not reach a GET that is in flight.
GiveUp ==
    /\ page = "generating"
    /\ page' = "home"
    /\ handedOff' = FALSE
    /\ LeaveGenerating
    /\ slips' = IF handedOff THEN slips \union {"left_in_the_beat"} ELSE slips
    /\ \/ UNCHANGED tasks
       \/ ~handedOff /\ tasks' = tasks \union {NewTask("poll", visit, 0)}
    /\ UNCHANGED <<visit, failed, track, switches, ctx, voice>>

\* PlayerPage mounts: loadNarration and, in parallel, loadBgmQuietly.  The
\* mixer stops its voice when it is given a URL.
Mount(v, n, others) ==
    /\ page' = "player" /\ visit' = v
    /\ handedOff' = FALSE /\ failed' = FALSE
    /\ track' = "music"
    /\ IF n = 0 THEN StopVoice ELSE UNCHANGED <<heldSource, sounding>>
    /\ UNCHANGED <<switches, ctx, narration, playing, ambientWanted, slips>>
    /\ LoadMusic(NewTask("bgm", v, 0), others \union {LoadTask(v, n)})

Arrive == page = "generating" /\ handedOff /\ Mount(visit, 0, tasks)

\* A dreamscape of the list: no URL is handed over.
Revisit == page = "home" /\ visit < MaxVisits /\ Mount(visit + 1, 1, tasks)

\* A GET that outlived its page is answered DONE: the timers are set after
\* the cleanup that would have cleared them, and the beat ends in the player.
ArriveLate(t) ==
    /\ t.op = "poll"
    /\ page = "home" /\ visit < MaxVisits
    /\ Mount(visit + 1, 0, tasks \ {t})

\* Leaving the player: endSession.
Leave ==
    /\ page = "player"
    /\ page' = "home"
    /\ StopAmbient
    /\ StopVoice
    /\ narration' = 0 /\ playing' = FALSE
    /\ ctx' = IF ctx = "none" THEN "none" ELSE "suspended"
    /\ UNCHANGED <<visit, handedOff, failed, track, switches, tasks, slips>>

Ready ==
    /\ page = "player" /\ ~failed
    /\ \A t \in tasks : ~(t.of = visit /\ t.op \in {"narration", "bgm"})

\* togglePlay.
Tap ==
    /\ Ready
    /\ \/ /\ playing
          /\ Pause
          /\ UNCHANGED <<ctx, tasks, slips>>
       \/ /\ ~playing /\ narration # 0
          /\ ctx = "running"
          /\ StartVoice
          /\ UNCHANGED <<ctx, tasks, slips>>
       \/ /\ ~playing /\ narration # 0
          /\ ctx # "running"
          /\ \E n \in 0..1 :
                 /\ NewTask("play", visit, n) \notin tasks
                 /\ tasks' = tasks \union {NewTask("play", visit, n)}
          /\ UNCHANGED <<ctx, voice, music, slips>>
    /\ UNCHANGED pages

\* The narration's onended.  (A source that was let go of also ends; by then
\* a slip has happened, and nothing more is claimed of it.)
Ended ==
    /\ playing /\ heldSource
    /\ Pause
    /\ UNCHANGED <<pages, ctx, tasks, slips>>

\* switchTrack.
Switch(to) ==
    /\ page = "player" /\ switches < MaxSwitches
    /\ to # track
    /\ track' = to /\ switches' = switches + 1
    /\ UNCHANGED <<page, visit, handedOff, failed, ctx, voice, ambientWanted, slips>>
    /\ IF to = "music" THEN LoadMusic(NewTask("switch", visit, switches'), tasks)
                       ELSE LoadNothing

----------------------------------------------------------------------------
(***************************************************************************)
(* The promises.                                                           *)
(***************************************************************************)

\* ctx.resume() in startAmbient.
AmbientResumed(t) ==
    /\ t.op = "ambient" /\ t.await = "resume"
    /\ ctx' = "running"
    /\ UNCHANGED ambientWanted
    /\ LoadMusic(t, tasks \ {t})
    /\ UNCHANGED <<pages, voice, slips>>

\* ctx.resume() in play().
PlayResumed(t) ==
    /\ t.op = "play"
    /\ ctx' = "running"
    /\ tasks' = tasks \ {t}
    /\ StartVoice
    /\ slips' = slips
         \union (IF playing THEN {"played_twice"} ELSE {})
         \union (IF (t.of # visit \/ page # "player") THEN {"played_after_leaving"}
                 ELSE {})
    /\ UNCHANGED pages

\* Faulty: an ambient start does not look whether it was stopped meanwhile.
StillWantedAlways == TRUE

\* "A stop that lands while the track is still being fetched must win."
StillWanted == ambientWanted

\* The track is decoded, in loadBgm.
MusicFetched(t) ==
    /\ t.op \in {"ambient", "bgm", "switch"} /\ t.await = "fetch"
    /\ tasks' = tasks \ {t}
    /\ bgmBuffer' = TRUE
    /\ bgmSource' = (\/ bgmSource
                     \/ playing \/ t.was_running
                     \/ (t.op = "ambient" /\ StillWanted))
    /\ ctx' = IF ctx = "none" THEN "suspended" ELSE ctx
    /\ slips' = IF page = "player" /\ track = "voice_only"
                THEN slips \union {"switched_meanwhile"} ELSE slips
    /\ UNCHANGED <<pages, voice, ambientWanted>>

\* Its fetch or its decoding fails: silence.
MusicFails(t) ==
    /\ t.op \in {"ambient", "bgm", "switch"} /\ t.await = "fetch"
    /\ tasks' = tasks \ {t}
    /\ UNCHANGED <<pages, ctx, voice, music, slips>>

\* freshNarrationUrl has its URL.  The mixer stops the voice it holds,
\* whichever page is there now, and does not say that nothing plays.
NarrationSigned(t) ==
    /\ t.op = "narration" /\ t.await = "sign"
    /\ tasks' = (tasks \ {t}) \union {[t EXCEPT !.await = "fetch"]}
    /\ StopVoice
    /\ slips' = IF heldSource THEN slips \union {"stopped_by_a_load"} ELSE slips
    /\ UNCHANGED <<pages, ctx, narration, playing, music>>

\* The narration is decoded, in loadNarration, whichever page is there now.
NarrationFetched(t) ==
    /\ t.op = "narration" /\ t.await = "fetch"
    /\ tasks' = tasks \ {t}
    /\ narration' = t.of
    /\ playing' = FALSE
    /\ ctx' = IF ctx = "none" THEN "suspended" ELSE ctx
    /\ slips' = IF (t.of # visit \/ page # "player")
                THEN slips \union {"loaded_after_leaving"} ELSE slips
    /\ UNCHANGED <<pages, heldSource, sounding, music>>

\* The URL handed over has expired: a fresh one is asked for, also by a page
\* that has been left.
HandoverFails(t) ==
    /\ t.op = "narration" /\ t.n = 0
    /\ tasks' = (tasks \ {t}) \union {LoadTask(t.of, 1)}
    /\ UNCHANGED <<pages, ctx, voice, music, slips>>

\* No fresh URL is to be had, or it cannot be played either.
NarrationFails(t) ==
    /\ t.op = "narration" /\ t.n = 1
    /\ tasks' = tasks \ {t}
    /\ failed' = (failed \/ (page = "player" /\ t.of = visit))
    /\ UNCHANGED <<page, visit, handedOff, track, switches, ctx, voice, music, slips>>

Landed(t) ==
    \/ AmbientResumed(t) \/ PlayResumed(t)
    \/ MusicFetched(t) \/ MusicFails(t)
    \/ NarrationSigned(t) \/ NarrationFetched(t)
    \/ HandoverFails(t) \/ NarrationFails(t)

MixerNext ==
    \/ Begin \/ Accepted \/ Refused \/ JobDone \/ GiveUp
    \/ Arrive \/ Revisit \/ Leave
    \/ Tap \/ Ended \/ \E to \in Track : Switch(to)
    \/ \E t \in tasks : ArriveLate(t) \/ Landed(t)

MixerSpec == MixerInit /\ [][MixerNext]_vars

----------------------------------------------------------------------------
(***************************************************************************)
(* Properties.  The mixer keeps no token of what it awaits, so some        *)
(* promises land where they are no longer wanted; `slips` names each, and  *)
(* a property names the slips it does not survive.                         *)
(***************************************************************************)

Slipped(races) == slips \intersect races # {}

\* The types of the variables; what is held sounds, and what plays is held -
\* unless a load that its page left behind has stopped it.
MixerTypeOK ==
    /\ page \in {"home", "starting", "generating", "player"}
    /\ visit \in 0..MaxVisits
    /\ {handedOff, failed, heldSource, playing, bgmBuffer, bgmSource,
        ambientWanted} \subseteq BOOLEAN
    /\ track \in Track /\ switches \in 0..MaxSwitches
    /\ ctx \in {"none", "suspended", "running"}
    /\ narration \in 0..MaxVisits
    /\ sounding \in Nat
    /\ tasks \subseteq Task
    /\ heldSource => sounding > 0
    /\ playing => heldSource \/ Slipped({"played_after_leaving", "stopped_by_a_load"})

\* pages/GeneratingPage.tsx: "unmounting stops the music unless the session
\* was handed to the player".
MusicStopsAtHome == page = "home" => ~bgmSource

\* It does, also for a track that is decoded only after the listener left,
\* but for the Cancel of the arrival beat and a play that was still resuming.
MusicStopsUnlessRaced ==
    MusicStopsAtHome \/ Slipped({"left_in_the_beat", "played_after_leaving"})

\* One voice is heard at a time, and none once the player is left.
OneVoice ==
    \/ sounding <= 1 /\ (page # "player" => sounding = 0)
    \/ Slipped({"played_twice", "loaded_after_leaving"})

\* What plays in the player is the session the player is about.
RightNarration ==
    \/ page = "player" /\ playing => narration = visit
    \/ Slipped({"played_after_leaving", "loaded_after_leaving"})

\* "Voice only" is: no track is heard that was not chosen.
VoiceOnlyIsSilent ==
    \/ page = "player" /\ track = "voice_only" => ~bgmSource
    \/ Slipped({"switched_meanwhile"})

\* One narration is heard, of the session on the screen, over the track that
\* was chosen for it.
HeardAsChosen == MixerTypeOK /\ OneVoice /\ RightNarration /\ VoiceOnlyIsSilent

\* mixer.ts: the music that began on the home screen keeps "playing through
\* the waiting screen, and carries on unbroken when the narration joins it":
\* only a stop the listener asked for, or the end, stops it.
MusicIsUnbroken ==
    [][ bgmSource /\ ~bgmSource' =>
           \/ page' = "home"
           \/ playing /\ ~playing'
           \/ track' = "voice_only" ]_vars
=============================================================================
