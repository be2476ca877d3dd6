------------------------- MODULE PlayerMixerProofs -------------------------
(***************************************************************************)
(* Proofs about PlayerMixer, for any number of visits and of switches: the *)
(* types, that the music stops with the page it belongs to, that one voice *)
(* is heard and the one of the session on the screen, and that the music   *)
(* is not broken before the listener asks for it - each but for the races  *)
(* its property names.                                                     *)
(***************************************************************************)
EXTENDS PlayerMixer, TLAPS

(***************************************************************************)
(* The inductive invariant.                                                *)
(***************************************************************************)

\* A session is on the screen of every page but the first.
Visited == page # "home" => visit > 0

\* A promise is of a session begun; a narration is loaded for a session that
\* has come to the player; and a play that resumes while its session is in the
\* player finds the narration it was asked for.
TaskFits(t) ==
    /\ ~t.was_running
    /\ t.of <= visit
    /\ t.op = "narration" =>
          (t.n = 0 => t.await = "fetch")
          /\ (t.of = visit => page \in {"home", "player"})
    /\ t.op = "play" /\ t.of = visit =>
          page = "home" \/ (page = "player" /\ narration # 0)

TasksInv == \A t \in tasks : TaskFits(t)

\* A session has one load of its narration under way.
OneLoad ==
    \A t, u \in tasks :
        t.op = "narration" /\ u.op = "narration" /\ t.of = u.of => t = u

\* Only a decoded track sounds.
SourceHasBuffer == bgmSource => bgmBuffer

\* Away from the player nothing plays, and at home no music is wanted.
SilentElsewhere ==
    /\ page # "player" /\ playing => "played_after_leaving" \in slips
    /\ page = "home" /\ (bgmSource \/ ambientWanted) =>
          Slipped({"left_in_the_beat", "played_after_leaving"})

\* The narration that is held is the one of the session in the player, and it
\* is not being fetched again.
NarrationOfVisit ==
    narration # 0 /\ "loaded_after_leaving" \notin slips =>
        /\ page = "player" /\ narration = visit
        /\ \A t \in tasks : t.op = "narration" => t.of # visit

\* A voice that sounds is held, so that it can be stopped, and it plays.
VoiceIsHeld ==
    sounding > 0 /\ ~Slipped({"played_twice", "loaded_after_leaving"}) =>
        sounding = 1 /\ heldSource /\ playing /\ narration # 0

PlayingIsRight ==
    playing /\ ~Slipped({"played_after_leaving", "loaded_after_leaving"}) =>
        page = "player" /\ narration = visit

VoiceOnlyHoldsNothing ==
    page = "player" /\ track = "voice_only" /\ (bgmSource \/ bgmBuffer) =>
        "switched_meanwhile" \in slips

MixerInv ==
    /\ MixerTypeOK
    /\ Visited
    /\ TasksInv
    /\ OneLoad
    /\ SourceHasBuffer
    /\ SilentElsewhere
    /\ NarrationOfVisit
    /\ VoiceIsHeld
    /\ PlayingIsRight
    /\ VoiceOnlyHoldsNothing

\* The invariant holds before anything is tapped.
LEMMA MixerInvInit == MixerInit => MixerInv
<1> SUFFICES ASSUME MixerInit PROVE MixerInv
  OBVIOUS
<1>1. MixerTypeOK
  <2>1. {handedOff, failed, heldSource, playing, bgmBuffer, bgmSource,
         ambientWanted} \subseteq BOOLEAN
    BY DEF MixerInit
  <2>2. /\ page \in {"home", "starting", "generating", "player"}
        /\ visit \in 0..MaxVisits /\ narration \in 0..MaxVisits
        /\ track \in Track /\ switches \in 0..MaxSwitches
        /\ ctx \in {"none", "suspended", "running"}
        /\ sounding \in Nat /\ tasks \subseteq Task
    BY MixerAssumption DEF MixerInit, Track
  <2>3. ~heldSource /\ ~playing
    BY DEF MixerInit
  <2> QED
    BY <2>1, <2>2, <2>3 DEF MixerTypeOK
<1>2. Visited /\ TasksInv /\ OneLoad /\ SourceHasBuffer /\ SilentElsewhere
  BY DEF MixerInit, Visited, TasksInv, OneLoad, SourceHasBuffer, SilentElsewhere
<1>3. NarrationOfVisit /\ VoiceIsHeld /\ PlayingIsRight /\ VoiceOnlyHoldsNothing
  BY DEF MixerInit, NarrationOfVisit, VoiceIsHeld, PlayingIsRight,
         VoiceOnlyHoldsNothing
<1> QED
  BY <1>1, <1>2, <1>3 DEF MixerInv

-----------------------------------------------------------------------------
(***************************************************************************)
(* What the operations of the mixer do.                                    *)
(***************************************************************************)

\* The types, one by one.
LEMMA Types ==
    ASSUME MixerTypeOK
    PROVE  /\ page \in {"home", "starting", "generating", "player"}
           /\ visit \in Nat /\ visit <= MaxVisits
           /\ handedOff \in BOOLEAN /\ failed \in BOOLEAN
           /\ heldSource \in BOOLEAN /\ playing \in BOOLEAN
           /\ bgmBuffer \in BOOLEAN /\ bgmSource \in BOOLEAN
           /\ ambientWanted \in BOOLEAN
           /\ track \in Track /\ switches \in Nat /\ switches <= MaxSwitches
           /\ ctx \in {"none", "suspended", "running"}
           /\ narration \in Nat /\ narration <= MaxVisits
           /\ sounding \in Nat
           /\ tasks \subseteq Task
BY MixerAssumption DEF MixerTypeOK

\* The fields of a promise.
LEMMA TaskFields ==
    ASSUME NEW t \in Task
    PROVE  /\ t.op \in {"ambient", "narration", "bgm", "switch", "play", "poll"}
           /\ t.of \in Nat /\ t.of # 0 /\ t.of <= MaxVisits
           /\ t.await \in {"resume", "sign", "fetch"}
           /\ t.was_running \in BOOLEAN
BY MixerAssumption DEF Task, Visit

\* A new promise.
LEMMA NewTaskFields ==
    ASSUME NEW op \in {"ambient", "narration", "bgm", "switch", "play", "poll"},
           NEW v \in Visit, NEW n \in 0..(MaxSwitches + 2)
    PROVE  /\ NewTask(op, v, n) \in Task
           /\ NewTask(op, v, n).op = op /\ NewTask(op, v, n).of = v
           /\ NewTask(op, v, n).n = n
           /\ ~NewTask(op, v, n).was_running
BY DEF NewTask, Task

\* A promise that goes on to its next await.
LEMMA TaskFetches ==
    ASSUME NEW t \in Task, NEW b \in BOOLEAN, NEW u,
           u = [t EXCEPT !.await = "fetch", !.was_running = b]
    PROVE  /\ u \in Task
           /\ u.op = t.op /\ u.of = t.of /\ u.n = t.n
           /\ u.await = "fetch" /\ u.was_running = b
<1>1. u \in Task
  BY DEF Task
<1>2. u.op = t.op /\ u.of = t.of /\ u.n = t.n
  BY DEF Task
<1>3. u.await = "fetch"
  BY DEF Task
<1>4. u.was_running = b
  BY DEF Task
<1> QED
  BY <1>1, <1>2, <1>3, <1>4

\* The promise of a narration.
LEMMA LoadTaskFields ==
    ASSUME NEW v \in Visit, NEW n \in 0..1
    PROVE  /\ LoadTask(v, n) \in Task
           /\ LoadTask(v, n).op = "narration" /\ LoadTask(v, n).of = v
           /\ LoadTask(v, n).n = n
           /\ n = 0 => LoadTask(v, n).await = "fetch"
           /\ ~LoadTask(v, n).was_running
<1>1. PICK w : w = NewTask("narration", v, n)
  OBVIOUS
<1>2. n \in 0..(MaxSwitches + 2)
  BY MixerAssumption
<1>3. /\ w \in Task /\ w.op = "narration" /\ w.of = v /\ w.n = n
      /\ ~w.was_running
  BY <1>1, <1>2, NewTaskFields
<1>4. PICK a \in {"sign", "fetch"} : a = IF n = 0 THEN "fetch" ELSE "sign"
  OBVIOUS
<1>5. PICK u : u = [w EXCEPT !.await = a]
  OBVIOUS
<1>6. LoadTask(v, n) = u
  BY <1>1, <1>4, <1>5 DEF LoadTask
<1>7. u \in Task /\ u.await = a
  BY <1>3, <1>5 DEF Task
<1>8. u.op = w.op /\ u.of = w.of /\ u.n = w.n
  BY <1>3, <1>5 DEF Task
<1>9. u.was_running = w.was_running
  BY <1>3, <1>5 DEF Task
<1> QED
  BY <1>3, <1>4, <1>6, <1>7, <1>8, <1>9

\* The promise of a narration whose URL has been signed.
LEMMA SignedFields ==
    ASSUME NEW t \in Task, NEW u, u = [t EXCEPT !.await = "fetch"]
    PROVE  /\ u \in Task
           /\ u.op = t.op /\ u.of = t.of /\ u.n = t.n
           /\ u.await = "fetch" /\ u.was_running = t.was_running
<1>1. u \in Task
  BY DEF Task
<1>2. u.op = t.op /\ u.of = t.of /\ u.n = t.n
  BY DEF Task
<1>3. u.await = "fetch"
  BY DEF Task
<1>4. u.was_running = t.was_running
  BY DEF Task
<1> QED
  BY <1>1, <1>2, <1>3, <1>4

\* Loading the track stops nothing that sounds, starts it only where an
\* ambient start still wants it, and leaves at most one promise more.
LEMMA LoadMusicEffect ==
    ASSUME MixerTypeOK, SourceHasBuffer, NEW t \in Task, ~t.was_running,
           NEW others, LoadMusic(t, others), ambientWanted' \in BOOLEAN
    PROVE  /\ bgmBuffer' = bgmBuffer /\ bgmSource' \in BOOLEAN
           /\ bgmSource => bgmSource'
           /\ bgmSource' => bgmBuffer
           /\ bgmSource' => bgmSource \/ (t.op = "ambient" /\ ambientWanted')
           /\ \E u \in Task :
                 /\ u.op = t.op /\ u.of = t.of /\ u.n = t.n
                 /\ u.await = "fetch" /\ ~u.was_running
                 /\ others \subseteq tasks' /\ tasks' \subseteq others \union {u}
<1>0. bgmBuffer \in BOOLEAN /\ bgmSource \in BOOLEAN /\ t.was_running \in BOOLEAN
  BY Types, TaskFields
<1>u. PICK u : u = [t EXCEPT !.await = "fetch", !.was_running = FALSE]
  OBVIOUS
<1>1. /\ u \in Task /\ u.op = t.op /\ u.of = t.of /\ u.n = t.n
      /\ u.await = "fetch" /\ ~u.was_running
  BY <1>u, TaskFetches
<1>2. CASE bgmBuffer
  <2>1. /\ tasks' = others /\ bgmBuffer' = bgmBuffer
        /\ bgmSource' = (bgmSource \/ (t.op = "ambient" /\ ambientWanted'))
    BY <1>2 DEF LoadMusic, Decoded
  <2> QED
    BY <1>0, <1>1, <1>2, <2>1
<1>3. CASE ~bgmBuffer
  <2>1. bgmSource = FALSE
    BY <1>0, <1>3 DEF SourceHasBuffer
  <2>2. tasks' = others \union {u} /\ bgmSource' = FALSE /\ bgmBuffer' = bgmBuffer
    BY <1>3, <1>u, <2>1 DEF LoadMusic, Decoded
  <2> QED
    BY <1>1, <2>1, <2>2
<1> QED
  BY <1>2, <1>3

-----------------------------------------------------------------------------
(***************************************************************************)
(* The promises each step leaves.                                          *)
(***************************************************************************)

\* The promises after a step are those before it, later ones of theirs, or
\* new ones of the session on the screen.
NewPromise(u) ==
    /\ ~u.was_running
    /\ u.of = visit'
    /\ u.op = "narration" => /\ u.n = 0 => u.await = "fetch"
                             /\ page # "player" /\ page' = "player"
    /\ u.op = "play" => page = "player" /\ narration # 0
                        /\ UNCHANGED <<page, narration>>

TasksFrom ==
    \A u \in tasks' :
        /\ u \in Task
        /\ \/ u \in tasks
           \/ NewPromise(u)
           \/ /\ ~u.was_running /\ u.op \notin {"narration", "play"}
              /\ \E t \in tasks : u.of = t.of
           \/ /\ ~u.was_running /\ u.op = "narration"
              /\ u.n = 0 => u.await = "fetch"
              /\ UNCHANGED <<page, visit, narration>>
              /\ \E t \in tasks : /\ NarrationSigned(t) \/ HandoverFails(t)
                                /\ t.op = "narration" /\ u.of = t.of

\* Every call of loadBgm leaves such promises.
LEMMA LoadMusicTasks ==
    ASSUME MixerInv, NEW t \in Task, ~t.was_running,
           NEW others, LoadMusic(t, others), ambientWanted' \in BOOLEAN
    PROVE  /\ bgmBuffer' = bgmBuffer /\ bgmSource' \in BOOLEAN
           /\ bgmSource => bgmSource'
           /\ bgmSource' => bgmBuffer
           /\ bgmSource' => bgmSource \/ (t.op = "ambient" /\ ambientWanted')
           /\ \A u \in tasks' :
                 \/ u \in others
                 \/ u \in Task /\ u.op = t.op /\ u.of = t.of /\ ~u.was_running
BY LoadMusicEffect DEF MixerInv

\* Begin, Arrive, Revisit, Switch and Tap make new promises.
LEMMA BeginTasks ==
    ASSUME MixerInv, Begin
    PROVE  TasksFrom
<1> DEFINE t == NewTask("ambient", visit', 0)
<1>0. /\ tasks \subseteq Task /\ visit \in Nat /\ visit <= MaxVisits
      /\ visit' = visit + 1 /\ visit' <= MaxVisits
  BY Types, MixerAssumption DEF MixerInv, Begin
<1>1. 0 \in 0..(MaxSwitches + 2) /\ visit' \in Visit
  BY <1>0, MixerAssumption DEF Begin, Visit
<1>2. t \in Task /\ t.op = "ambient" /\ t.of = visit' /\ ~t.was_running
  BY <1>1, NewTaskFields
<1>3. ambientWanted' \in BOOLEAN
  BY DEF Begin
<1>4. LoadMusic(t, tasks) \/ tasks' = tasks \union {t}
  BY DEF Begin
<1> HIDE DEF t
<1> QED
  BY <1>0, <1>2, <1>3, <1>4, LoadMusicTasks DEF TasksFrom, NewPromise

\* A session comes to the player by its hand-over, from the list, or by a
\* poll that outlived its page.
LEMMA Mounting ==
    ASSUME MixerInv, Arrive \/ Revisit \/ \E t \in tasks : ArriveLate(t)
    PROVE  \E v \in Visit, n \in 0..1, others \in SUBSET tasks :
              /\ Mount(v, n, others)
              /\ \/ page = "generating" /\ v = visit
                 \/ page = "home" /\ v = visit + 1
<1>0. /\ visit \in Nat /\ visit <= MaxVisits /\ (page # "home" => visit > 0)
      /\ 0 \in 0..1 /\ 1 \in 0..1 /\ MaxVisits \in Nat
  BY Types, MixerAssumption DEF MixerInv, Visited
<1>1. CASE Arrive
  <2>1. visit \in Visit /\ Mount(visit, 0, tasks) /\ page = "generating"
    BY <1>0, <1>1 DEF Arrive, Visit
  <2> QED
    BY <1>0, <2>1
<1>2. CASE Revisit
  <2>1. visit + 1 \in Visit /\ Mount(visit + 1, 1, tasks) /\ page = "home"
    BY <1>0, <1>2 DEF Revisit, Visit
  <2> QED
    BY <1>0, <2>1
<1>3. ASSUME NEW t \in tasks, ArriveLate(t)
      PROVE  \E v \in Visit, n \in 0..1, others \in SUBSET tasks :
                Mount(v, n, others) /\ page = "home" /\ v = visit + 1
  <2>1. visit + 1 \in Visit /\ Mount(visit + 1, 0, tasks \ {t}) /\ page = "home"
    BY <1>0, <1>3 DEF ArriveLate, Visit
  <2>2. tasks \ {t} \in SUBSET tasks
    OBVIOUS
  <2> QED
    BY <1>0, <2>1, <2>2
<1> QED
  BY <1>1, <1>2, <1>3

\* The player mounts: the narration and the track of the session are fetched.
LEMMA MountTasks ==
    ASSUME MixerInv, NEW v \in Visit, NEW n \in 0..1, NEW others \in SUBSET tasks,
           page # "player", Mount(v, n, others)
    PROVE  /\ TasksFrom
           /\ \A u \in tasks' :
                 u.op = "narration" => u \in tasks \/ u = LoadTask(v, n)
<1> DEFINE t == NewTask("bgm", v, 0)
           m == LoadTask(v, n)
<1>0. /\ tasks \subseteq Task /\ 0 \in 0..(MaxSwitches + 2)
      /\ ambientWanted' \in BOOLEAN
      /\ visit' = v /\ page' = "player"
  BY Types, MixerAssumption DEF MixerInv, Mount
<1>1. t \in Task /\ t.op = "bgm" /\ t.of = v /\ ~t.was_running
  BY <1>0, NewTaskFields
<1>2. /\ m \in Task /\ m.op = "narration" /\ m.of = v
      /\ m.n = 0 => m.await = "fetch"
      /\ ~m.was_running
  BY LoadTaskFields
<1>3. LoadMusic(t, others \union {m})
  BY DEF Mount
<1> HIDE DEF t, m
<1>4. \A u \in tasks' :
         \/ u \in tasks \union {m}
         \/ u \in Task /\ u.op = t.op /\ u.of = t.of /\ ~u.was_running
  BY <1>0, <1>1, <1>3, LoadMusicTasks
<1>5. TasksFrom
  BY <1>0, <1>1, <1>2, <1>4 DEF TasksFrom, NewPromise
<1>6. \A u \in tasks' : u.op = "narration" => u \in tasks \/ u = m
  BY <1>1, <1>4
<1> QED
  BY <1>5, <1>6 DEF m

\* A track is switched: it is fetched, unless it is decoded.
LEMMA SwitchTasks ==
    ASSUME MixerInv, NEW to \in Track, Switch(to)
    PROVE  TasksFrom
<1> DEFINE t == NewTask("switch", visit, switches')
<1>0. /\ tasks \subseteq Task /\ ambientWanted' \in BOOLEAN
      /\ visit \in Nat /\ visit <= MaxVisits /\ visit > 0 /\ visit' = visit
      /\ switches' \in 0..(MaxSwitches + 2)
  BY Types, MixerAssumption DEF MixerInv, Switch, Visited
<1>1. visit \in Visit
  BY <1>0, MixerAssumption DEF Visit
<1>2. t \in Task /\ t.op = "switch" /\ t.of = visit /\ ~t.was_running
  BY <1>0, <1>1, NewTaskFields
<1>3. LoadMusic(t, tasks) \/ tasks' = tasks
  BY DEF Switch, LoadNothing
<1> HIDE DEF t
<1> QED
  BY <1>0, <1>2, <1>3, LoadMusicTasks DEF TasksFrom, NewPromise

\* A tap may leave a play that waits for the context to resume.
LEMMA TapTasks ==
    ASSUME MixerInv, Tap
    PROVE  TasksFrom
<1>0. /\ tasks \subseteq Task /\ page = "player"
      /\ visit \in Nat /\ visit <= MaxVisits /\ visit > 0 /\ visit' = visit
      /\ page' = page
  BY Types DEF MixerInv, Tap, Ready, Visited, pages
<1>1. visit \in Visit /\ \A n \in 0..1 : n \in 0..(MaxSwitches + 2)
  BY <1>0, MixerAssumption DEF Visit
<1>2. CASE tasks' = tasks
  BY <1>0, <1>2 DEF TasksFrom
<1>3. ASSUME NEW n \in 0..1, tasks' = tasks \union {NewTask("play", visit, n)},
             narration # 0, narration' = narration
      PROVE  TasksFrom
  <2> DEFINE t == NewTask("play", visit, n)
  <2>1. t \in Task /\ t.op = "play" /\ t.of = visit /\ ~t.was_running
    BY <1>1, NewTaskFields
  <2>2. tasks' = tasks \union {t}
    BY <1>3
  <2> HIDE DEF t
  <2> QED
    BY <1>0, <1>3, <2>1, <2>2 DEF TasksFrom, NewPromise
<1> QED
  BY <1>2, <1>3 DEF Tap, voice

\* A narration goes on to its next await.
LEMMA LoadGoesOn ==
    ASSUME MixerInv, NEW t \in tasks, NarrationSigned(t) \/ HandoverFails(t)
    PROVE  /\ UNCHANGED <<page, visit, narration>> /\ t.op = "narration"
           /\ \E u \in Task :
                 /\ tasks' = (tasks \ {t}) \union {u} /\ u # t
                 /\ u.op = "narration" /\ u.of = t.of /\ ~u.was_running
                 /\ u.n = 0 => u.await = "fetch"
<1>0. t \in Task /\ ~t.was_running /\ t.of \in Visit
  BY Types DEF MixerInv, TasksInv, TaskFits, Task
<1>1. CASE NarrationSigned(t)
  <2>1. PICK u : u = [t EXCEPT !.await = "fetch"]
    OBVIOUS
  <2>2. /\ t.op = "narration" /\ t.await = "sign"
        /\ tasks' = (tasks \ {t}) \union {u}
        /\ UNCHANGED <<page, visit, narration>>
    BY <1>1, <2>1 DEF NarrationSigned, pages
  <2>3. /\ u \in Task /\ u.op = t.op /\ u.of = t.of
        /\ u.await = "fetch" /\ u.was_running = t.was_running
    BY <1>0, <2>1, SignedFields
  <2> QED
    BY <1>0, <2>2, <2>3
<1>2. CASE HandoverFails(t)
  <2>1. PICK u : u = LoadTask(t.of, 1)
    OBVIOUS
  <2>2. /\ t.op = "narration" /\ t.n = 0
        /\ tasks' = (tasks \ {t}) \union {u}
        /\ UNCHANGED <<page, visit, narration>>
    BY <1>2, <2>1 DEF HandoverFails, pages, voice
  <2>3. /\ u \in Task /\ u.op = "narration" /\ u.of = t.of /\ u.n = 1
        /\ ~u.was_running
    <3>1. 1 \in 0..1
      OBVIOUS
    <3> QED
      BY <1>0, <2>1, <3>1, LoadTaskFields
  <2> QED
    BY <2>2, <2>3
<1> QED
  BY <1>1, <1>2

\* A landed promise is gone, but for an ambient start that goes on to fetch
\* and a narration that goes on to its next await.
LEMMA LandedTasks ==
    ASSUME MixerInv, NEW t \in tasks, Landed(t)
    PROVE  TasksFrom
<1>0. /\ tasks \subseteq Task /\ t \in Task /\ ~t.was_running
      /\ ambientWanted \in BOOLEAN
  BY Types DEF MixerInv, TasksInv, TaskFits
<1>1. CASE AmbientResumed(t)
  <2>1. LoadMusic(t, tasks \ {t}) /\ ambientWanted' \in BOOLEAN /\ t.op = "ambient"
    BY <1>0, <1>1 DEF AmbientResumed
  <2>2. \A u \in tasks' :
           \/ u \in tasks \ {t}
           \/ u \in Task /\ u.op = t.op /\ u.of = t.of /\ ~u.was_running
    BY <1>0, <2>1, LoadMusicTasks
  <2> QED
    BY <1>0, <2>1, <2>2 DEF TasksFrom
<1>2. CASE tasks' = tasks \ {t}
  BY <1>0, <1>2 DEF TasksFrom
<1>3. CASE NarrationSigned(t) \/ HandoverFails(t)
  BY <1>0, <1>3, LoadGoesOn DEF TasksFrom
<1> QED
  BY <1>1, <1>2, <1>3 DEF Landed, PlayResumed, MusicFetched, MusicFails,
                          NarrationFetched, NarrationFails

\* Every step leaves such promises.
LEMMA StepTasks ==
    ASSUME MixerInv, [MixerNext]_vars
    PROVE  TasksFrom
<1>0. /\ tasks \subseteq Task /\ visit \in Nat /\ visit <= MaxVisits
      /\ page # "home" => visit > 0
  BY Types DEF MixerInv, Visited
<1>1. CASE tasks' = tasks
  BY <1>0, <1>1 DEF TasksFrom
<1>2. CASE Arrive \/ Revisit \/ \E t \in tasks : ArriveLate(t)
  BY <1>2, Mounting, MountTasks
<1>3. CASE GiveUp
  <2> DEFINE t == NewTask("poll", visit, 0)
  <2>1. visit \in Visit /\ 0 \in 0..(MaxSwitches + 2)
    BY <1>0, <1>3, MixerAssumption DEF GiveUp, Visit
  <2>2. t \in Task /\ t.op = "poll" /\ t.of = visit /\ ~t.was_running
    BY <2>1, NewTaskFields
  <2>3. visit' = visit /\ (tasks' = tasks \/ tasks' = tasks \union {t})
    BY <1>3 DEF GiveUp
  <2> HIDE DEF t
  <2> QED
    BY <1>0, <2>2, <2>3 DEF TasksFrom, NewPromise
<1>4. CASE Accepted \/ Refused \/ JobDone \/ Leave \/ Ended \/ UNCHANGED vars
  BY <1>1, <1>4 DEF Accepted, Refused, JobDone, Leave, Ended, vars
<1> QED
  BY <1>2, <1>3, <1>4, BeginTasks, SwitchTasks, TapTasks, LandedTasks
  DEF MixerNext

\* The session on the screen only changes with a new visit, and its narration
\* is let go only with the page.
LEMMA ScreenMoves ==
    ASSUME MixerInv, [MixerNext]_vars
    PROVE  /\ visit' \in {visit, visit + 1}
           /\ visit' = visit /\ page = "home" => page' = "home"
           /\ visit' = visit /\ page = "player" => page' \in {"home", "player"}
           /\ visit' = visit /\ page = "player" /\ narration # 0 =>
                 page' = "home" \/ (page' = "player" /\ narration' # 0)
<1> DEFINE Goal ==
        /\ visit' \in {visit, visit + 1}
        /\ visit' = visit /\ page = "home" => page' = "home"
        /\ visit' = visit /\ page = "player" => page' \in {"home", "player"}
        /\ visit' = visit /\ page = "player" /\ narration # 0 =>
              page' = "home" \/ (page' = "player" /\ narration' # 0)
<1>0. visit \in Nat /\ tasks \subseteq Task
  BY Types DEF MixerInv
<1>1. CASE Begin
  BY <1>0, <1>1 DEF Begin
<1>a. CASE Arrive \/ Revisit \/ \E t \in tasks : ArriveLate(t)
  <2>1. PICK v \in Visit, n \in 0..1, others \in SUBSET tasks :
            /\ Mount(v, n, others)
            /\ \/ page = "generating" /\ v = visit
               \/ page = "home" /\ v = visit + 1
    BY <1>a, Mounting
  <2>2. page' = "player" /\ visit' = v
    BY <2>1 DEF Mount
  <2> QED
    BY <1>0, <2>1, <2>2
<1>2. CASE Accepted \/ Refused \/ JobDone \/ GiveUp \/ Leave
  BY <1>2 DEF Accepted, Refused, JobDone, GiveUp, Leave
<1>3. CASE Tap \/ Ended \/ \E to \in Track : Switch(to)
  BY <1>3 DEF Tap, Ended, Switch, StartVoice, Pause, pages, voice
<1>4. ASSUME NEW t \in tasks, Landed(t)
      PROVE  Goal
  <2>1. t.of # 0
    BY <1>0, TaskFields
  <2>2. CASE NarrationFetched(t)
    BY <2>1, <2>2 DEF NarrationFetched, pages
  <2>3. CASE AmbientResumed(t) \/ PlayResumed(t) \/ MusicFetched(t)
             \/ MusicFails(t) \/ NarrationFails(t) \/ HandoverFails(t)
             \/ NarrationSigned(t)
    BY <2>3 DEF AmbientResumed, PlayResumed, MusicFetched, MusicFails,
                NarrationFails, HandoverFails, NarrationSigned, StartVoice,
                pages, voice
  <2> QED
    BY <1>4, <2>2, <2>3 DEF Landed
<1>5. CASE UNCHANGED vars
  BY <1>5 DEF vars, pages, voice
<1> QED
  BY <1>1, <1>a, <1>2, <1>3, <1>4, <1>5 DEF MixerNext

\* The promises stay as the invariant has them.
LEMMA TasksInvStep ==
    ASSUME MixerInv, [MixerNext]_vars
    PROVE  tasks' \subseteq Task /\ TasksInv'
<1>0. /\ visit \in Nat /\ visit' \in {visit, visit + 1} /\ TasksFrom
      /\ \A t \in tasks : t \in Task /\ t.of \in Nat /\ TaskFits(t)
  BY Types, TaskFields, ScreenMoves, StepTasks DEF MixerInv, TasksInv
<1>1. ASSUME NEW u \in tasks
      PROVE  TaskFits(u)'
  BY <1>0, ScreenMoves DEF TaskFits
<1>2. ASSUME NEW u, NewPromise(u)
      PROVE  TaskFits(u)'
  BY <1>0, <1>2 DEF NewPromise, TaskFits
<1>3. ASSUME NEW u, NEW t \in tasks, u.of = t.of, ~u.was_running,
             u.op \notin {"narration", "play"}
      PROVE  TaskFits(u)'
  BY <1>0, <1>3 DEF TaskFits
<1>5. ASSUME NEW u, NEW t \in tasks, u.of = t.of, ~u.was_running,
             u.op = "narration", t.op = "narration", u.n = 0 => u.await = "fetch",
             UNCHANGED <<page, visit, narration>>
      PROVE  TaskFits(u)'
  BY <1>0, <1>5 DEF TaskFits
<1>4. \A u \in tasks' : TaskFits(u)'
  BY <1>0, <1>1, <1>2, <1>3, <1>5 DEF TasksFrom
<1> QED
  BY <1>0, <1>4 DEF TasksFrom, TasksInv, TaskFits

\* A load of a narration goes on, or is the first of its session.
LEMMA OneLoadStep ==
    ASSUME MixerInv, [MixerNext]_vars
    PROVE  OneLoad'
<1>0. /\ OneLoad /\ visit \in Nat /\ tasks \subseteq Task
      /\ \A t \in tasks : t.of \in Nat /\ TaskFits(t)
  BY Types, TaskFields DEF MixerInv, TasksInv
<1>1. CASE Arrive \/ Revisit \/ \E t \in tasks : ArriveLate(t)
  <2>1. PICK v \in Visit, n \in 0..1, others \in SUBSET tasks :
            /\ Mount(v, n, others)
            /\ \/ page = "generating" /\ v = visit
               \/ page = "home" /\ v = visit + 1
    BY <1>1, Mounting
  <2>2. /\ \A u \in tasks' :
              u.op = "narration" => u \in tasks \/ u = LoadTask(v, n)
        /\ LoadTask(v, n).of = v
    BY <2>1, MountTasks, LoadTaskFields
  <2>3. \A t \in tasks : t.op = "narration" => t.of # v
    BY <1>0, <2>1 DEF TaskFits
  <2> QED
    BY <1>0, <2>2, <2>3 DEF OneLoad
<1>2. ASSUME NEW t \in tasks, NarrationSigned(t) \/ HandoverFails(t)
      PROVE  OneLoad'
  BY <1>0, <1>2, LoadGoesOn DEF OneLoad
<1>3. CASE /\ ~(Arrive \/ Revisit \/ \E t \in tasks : ArriveLate(t))
           /\ ~\E t \in tasks : NarrationSigned(t) \/ HandoverFails(t)
  <2>1. \A u \in tasks' : u.op = "narration" => u \in tasks
    <3>1. ~(page # "player" /\ page' = "player")
      BY <1>0, <1>3
      DEF MixerNext, Begin, Accepted, Refused, JobDone, GiveUp, Leave, Tap, Ended,
          Switch, Landed, AmbientResumed, PlayResumed, pages, MusicFetched,
          MusicFails, NarrationFetched, NarrationFails, vars, Ready
    <3> QED
      BY <1>3, <3>1, StepTasks DEF TasksFrom, NewPromise
  <2> QED
    BY <1>0, <2>1 DEF OneLoad
<1> QED
  BY <1>1, <1>2, <1>3

-----------------------------------------------------------------------------
(***************************************************************************)
(* The music.                                                              *)
(***************************************************************************)

\* What a step may do to the music: stop it at home, for a pause or for the
\* silent track, and at no other time.
UnbrokenStep ==
    bgmSource /\ ~bgmSource' =>
        \/ page' = "home"
        \/ playing /\ ~playing'
        \/ track' = "voice_only"

MusicGoal ==
    /\ bgmBuffer' \in BOOLEAN /\ bgmSource' \in BOOLEAN
    /\ ambientWanted' \in BOOLEAN
    /\ SourceHasBuffer'
    /\ page' = "home" /\ (bgmSource' \/ ambientWanted') =>
          \/ "left_in_the_beat" \in slips'
          \/ "played_after_leaving" \in slips'
    /\ page' = "player" /\ track' = "voice_only" /\ (bgmSource' \/ bgmBuffer') =>
          "switched_meanwhile" \in slips'
    /\ UnbrokenStep

\* The invariant, as the steps of the music use it.
LEMMA MusicFacts ==
    ASSUME MixerInv
    PROVE  /\ page \in {"home", "starting", "generating", "player"}
           /\ bgmBuffer \in BOOLEAN /\ bgmSource \in BOOLEAN
           /\ ambientWanted \in BOOLEAN /\ playing \in BOOLEAN
           /\ bgmSource => bgmBuffer
           /\ page # "player" /\ playing => "played_after_leaving" \in slips
           /\ page = "home" /\ (bgmSource \/ ambientWanted) =>
                 \/ "left_in_the_beat" \in slips
                 \/ "played_after_leaving" \in slips
           /\ page = "player" /\ track = "voice_only" /\ (bgmSource \/ bgmBuffer) =>
                 "switched_meanwhile" \in slips
           /\ \A t \in tasks : t \in Task /\ ~t.was_running
BY Types
DEF MixerInv, SourceHasBuffer, SilentElsewhere, VoiceOnlyHoldsNothing,
    Slipped, TasksInv, TaskFits

\* The steps that leave the music, or stop all of it.
LEMMA MusicOfPages ==
    ASSUME MixerInv,
           Accepted \/ Refused \/ JobDone \/ GiveUp \/ Leave \/ UNCHANGED vars
    PROVE  MusicGoal
<1> USE MusicFacts DEF MusicGoal, UnbrokenStep, SourceHasBuffer
<1>1. CASE Accepted \/ JobDone
  BY <1>1 DEF Accepted, JobDone, music
<1>2. CASE Refused \/ Leave
  BY <1>2 DEF Refused, Leave, StopAmbient
<1>3. CASE GiveUp
  BY <1>3 DEF GiveUp, LeaveGenerating, StopAmbient, music
<1>4. CASE UNCHANGED vars
  BY <1>4 DEF vars, pages, voice, music
<1> QED
  BY <1>1, <1>2, <1>3, <1>4

\* The steps that load the track.
LEMMA MusicOfLoads ==
    ASSUME MixerInv,
           \/ Begin
           \/ Arrive \/ Revisit \/ \E t \in tasks : ArriveLate(t)
           \/ \E to \in Track : Switch(to)
           \/ \E t \in tasks : AmbientResumed(t)
    PROVE  MusicGoal
<1> USE MusicFacts DEF MusicGoal, UnbrokenStep, SourceHasBuffer
<1>0. visit \in Nat /\ visit <= MaxVisits /\ (page # "home" => visit > 0)
      /\ 0 \in 0..(MaxSwitches + 2) /\ switches \in Nat /\ switches <= MaxSwitches
  BY Types, MixerAssumption DEF MixerInv, Visited
<1>1. CASE Begin
  <2>1. visit' \in Visit /\ page' = "starting" /\ ambientWanted' = TRUE
    BY <1>0, <1>1, MixerAssumption DEF Begin, Visit
  <2>2. CASE UNCHANGED <<bgmBuffer, bgmSource>>
    BY <2>1, <2>2
  <2>3. CASE LoadMusic(NewTask("ambient", visit', 0), tasks)
    <3>1. /\ NewTask("ambient", visit', 0) \in Task
          /\ ~NewTask("ambient", visit', 0).was_running
      BY <1>0, <2>1, NewTaskFields
    <3> QED
      BY <2>1, <2>3, <3>1, LoadMusicTasks
  <2> QED
    BY <1>1, <2>2, <2>3 DEF Begin
<1>2. ASSUME NEW v \in Visit, NEW n \in 0..1, NEW others0, page # "player",
             Mount(v, n, others0)
      PROVE  MusicGoal
  <2>1. PICK others : LoadMusic(NewTask("bgm", v, 0), others)
    BY <1>2 DEF Mount
  <2>2. /\ NewTask("bgm", v, 0) \in Task /\ NewTask("bgm", v, 0).op = "bgm"
        /\ ~NewTask("bgm", v, 0).was_running
    BY <1>0, NewTaskFields
  <2>3. /\ page' = "player" /\ track' = "music"
        /\ ambientWanted' = ambientWanted
    BY <1>2 DEF Mount
  <2> QED
    BY <2>1, <2>2, <2>3, LoadMusicTasks
<1>3. ASSUME NEW to \in Track, Switch(to)
      PROVE  MusicGoal
  <2>1. /\ page = "player" /\ page' = page /\ track' = to
        /\ ambientWanted' = ambientWanted /\ slips' = slips
        /\ switches' \in 0..(MaxSwitches + 2) /\ visit \in Visit
    BY <1>0, <1>3, MixerAssumption DEF Switch, Visit
  <2>2. CASE to = "music"
    <3>1. LoadMusic(NewTask("switch", visit, switches'), tasks)
      BY <1>3, <2>2 DEF Switch
    <3>2. /\ NewTask("switch", visit, switches') \in Task
          /\ ~NewTask("switch", visit, switches').was_running
      BY <2>1, NewTaskFields
    <3> QED
      BY <2>1, <2>2, <3>1, <3>2, LoadMusicTasks
  <2>3. CASE to # "music"
    <3>1. to = "voice_only" /\ bgmBuffer' = FALSE /\ bgmSource' = FALSE
      BY <1>3, <2>3 DEF Switch, LoadNothing, Track
    <3> QED
      BY <2>1, <3>1
  <2> QED
    BY <2>2, <2>3
<1>4. ASSUME NEW t \in tasks, AmbientResumed(t)
      PROVE  MusicGoal
  <2>1. /\ LoadMusic(t, tasks \ {t}) /\ ambientWanted' = ambientWanted
        /\ page' = page /\ track' = track /\ slips' = slips
    BY <1>4 DEF AmbientResumed, pages
  <2> QED
    BY <2>1, LoadMusicTasks
<1>5. CASE Arrive \/ Revisit \/ \E t \in tasks : ArriveLate(t)
  <2>1. PICK v \in Visit, n \in 0..1, others \in SUBSET tasks :
            page # "player" /\ Mount(v, n, others)
    BY <1>5, Mounting
  <2> QED
    BY <1>2, <2>1
<1> QED
  BY <1>1, <1>3, <1>4, <1>5

\* The taps, and the promises that land.
LEMMA MusicOfPlays ==
    ASSUME MixerInv,
           \/ Tap \/ Ended
           \/ \E t \in tasks : Landed(t) /\ ~AmbientResumed(t)
    PROVE  MusicGoal
<1> USE MusicFacts DEF MusicGoal, UnbrokenStep, SourceHasBuffer
<1>1. CASE Tap
  <2>1. page = "player" /\ page' = page /\ track' = track /\ slips' = slips
    BY <1>1 DEF Tap, Ready, pages
  <2>2. CASE playing /\ Pause
    BY <2>1, <2>2 DEF Pause
  <2>3. CASE StartVoice
    BY <2>1, <2>3 DEF StartVoice
  <2>4. CASE UNCHANGED <<voice, music>>
    BY <2>1, <2>4 DEF voice, music
  <2> QED
    BY <1>1, <2>2, <2>3, <2>4 DEF Tap
<1>2. CASE Ended
  BY <1>2 DEF Ended, Pause, pages
<1>3. ASSUME NEW t \in tasks, PlayResumed(t)
      PROVE  MusicGoal
  <2>1. /\ bgmSource' = (bgmSource \/ bgmBuffer)
        /\ UNCHANGED <<bgmBuffer, ambientWanted, page, track>>
        /\ slips \subseteq slips'
        /\ page # "player" => "played_after_leaving" \in slips'
    BY <1>3 DEF PlayResumed, StartVoice, pages
  <2> QED
    BY <2>1
<1>4. ASSUME NEW t \in tasks, MusicFetched(t)
      PROVE  MusicGoal
  <2>1. /\ UNCHANGED <<ambientWanted, page, track, playing>>
        /\ slips \subseteq slips'
        /\ page = "player" /\ track = "voice_only" =>
              "switched_meanwhile" \in slips'
    BY <1>4 DEF MusicFetched, pages, voice
  <2>2. bgmBuffer' = TRUE /\ bgmSource' \in BOOLEAN
    BY <1>4 DEF MusicFetched
  <2>3. /\ bgmSource => bgmSource'
        /\ bgmSource' => bgmSource \/ playing \/ ambientWanted
    BY <1>4 DEF MusicFetched, StillWanted
  <2> QED
    BY <2>1, <2>2, <2>3
<1>5. ASSUME NEW t \in tasks,
             \/ MusicFails(t) \/ NarrationSigned(t) \/ NarrationFetched(t)
             \/ HandoverFails(t) \/ NarrationFails(t)
      PROVE  MusicGoal
  <2>1. /\ UNCHANGED <<bgmBuffer, bgmSource, ambientWanted, page, track>>
        /\ slips \subseteq slips'
    BY <1>5 DEF MusicFails, NarrationSigned, NarrationFetched, HandoverFails,
                NarrationFails, pages, music
  <2> QED
    BY <2>1
<1> QED
  BY <1>1, <1>2, <1>3, <1>4, <1>5 DEF Landed

\* Every step keeps the music as the invariant has it, and unbroken.
LEMMA MusicStep ==
    ASSUME MixerInv, [MixerNext]_vars
    PROVE  MusicGoal
<1>1. CASE Arrive \/ Revisit \/ \E t \in tasks : ArriveLate(t)
  BY <1>1, MusicOfLoads
<1>2. CASE \E t \in tasks : Landed(t)
  BY <1>2, MusicOfLoads, MusicOfPlays
<1> QED
  BY <1>1, <1>2, MusicOfPages, MusicOfLoads, MusicOfPlays DEF MixerNext

-----------------------------------------------------------------------------
(***************************************************************************)
(* The voice.                                                              *)
(***************************************************************************)

\* What the invariant says of the voice, race by race.
VoiceInv ==
    /\ heldSource \in BOOLEAN /\ playing \in BOOLEAN
    /\ narration \in 0..MaxVisits /\ sounding \in Nat
    /\ heldSource => sounding > 0
    /\ playing /\ ~heldSource =>
          "played_after_leaving" \in slips \/ "stopped_by_a_load" \in slips
    /\ page # "player" /\ playing => "played_after_leaving" \in slips
    /\ narration # 0 /\ "loaded_after_leaving" \notin slips =>
          page = "player" /\ narration = visit
    /\ /\ sounding > 0
       /\ "played_twice" \notin slips /\ "loaded_after_leaving" \notin slips
       => sounding = 1 /\ heldSource /\ playing /\ narration # 0
    /\ /\ playing
       /\ "played_after_leaving" \notin slips
       /\ "loaded_after_leaving" \notin slips
       => page = "player" /\ narration = visit

\* The narration in the player is not being fetched again.
FetchedOnce ==
    narration # 0 /\ "loaded_after_leaving" \notin slips =>
        \A t \in tasks : t.op = "narration" => t.of # visit

\* What the voice of the mixer rests on, of the whole invariant.
LEMMA VoiceFacts ==
    ASSUME MixerInv
    PROVE  /\ VoiceInv /\ FetchedOnce
           /\ page \in {"home", "starting", "generating", "player"}
           /\ visit \in Nat
           /\ \A t \in tasks : t \in Task /\ t.of \in 1..MaxVisits /\ TaskFits(t)
<1>1. \A t \in tasks : t \in Task /\ t.of \in 1..MaxVisits /\ TaskFits(t)
  BY Types, TaskFields, MixerAssumption DEF MixerInv, TasksInv
<1>2. /\ page \in {"home", "starting", "generating", "player"}
      /\ visit \in Nat
      /\ heldSource \in BOOLEAN /\ playing \in BOOLEAN
      /\ narration \in 0..MaxVisits /\ sounding \in Nat
  BY Types, MixerAssumption DEF MixerInv
<1>3. /\ heldSource => sounding > 0
      /\ playing /\ ~heldSource =>
            "played_after_leaving" \in slips \/ "stopped_by_a_load" \in slips
  BY DEF MixerInv, MixerTypeOK, Slipped
<1>4. FetchedOnce
  BY DEF MixerInv, NarrationOfVisit, FetchedOnce
<1>5. VoiceInv
  BY <1>2, <1>3
  DEF MixerInv, SilentElsewhere, NarrationOfVisit, VoiceIsHeld, PlayingIsRight,
      Slipped, VoiceInv
<1> QED
  BY <1>1, <1>2, <1>4, <1>5

\* The steps that leave the voice alone.
LEMMA VoiceUntouched ==
    ASSUME MixerInv, UNCHANGED <<visit, voice>>, slips \subseteq slips',
           page' = page \/ (page # "player" /\ page' # "player")
    PROVE  VoiceInv'
BY VoiceFacts DEF VoiceInv, voice

\* Stopping the voice stops what sounds, unless a source was let go before.
LEMMA StopVoiceEffect ==
    ASSUME MixerInv, StopVoice
    PROVE  /\ heldSource' \in BOOLEAN /\ ~heldSource'
           /\ sounding' \in Nat
           /\ \/ sounding' = 0
              \/ "played_twice" \in slips \/ "loaded_after_leaving" \in slips
<1>1. VoiceInv
  BY VoiceFacts
<1>2. heldSource' \in BOOLEAN /\ ~heldSource'
  BY DEF StopVoice
<1>3. CASE heldSource
  <2>1. sounding' = sounding - 1 /\ sounding > 0 /\ sounding \in Nat
    BY <1>1, <1>3 DEF StopVoice, VoiceInv
  <2> QED
    BY <1>1, <1>2, <2>1 DEF VoiceInv
<1>4. CASE ~heldSource
  <2>1. sounding' = sounding
    BY <1>4 DEF StopVoice
  <2> QED
    BY <1>1, <1>2, <1>4, <2>1 DEF VoiceInv
<1> QED
  BY <1>3, <1>4

\* The steps of the pages: only leaving the player stops the voice.
LEMMA VoiceOfPages ==
    ASSUME MixerInv,
           \/ Begin \/ Accepted \/ Refused \/ JobDone \/ GiveUp \/ Leave
           \/ \E to \in Track : Switch(to)
           \/ UNCHANGED vars
    PROVE  VoiceInv'
<1> USE VoiceFacts
<1>1. CASE Begin
  <2>1. /\ page = "home" /\ page' = "starting" /\ visit' = visit + 1
        /\ UNCHANGED <<voice, slips>>
    BY <1>1 DEF Begin
  <2> QED
    BY <2>1 DEF VoiceInv, voice
<1>2. CASE Accepted \/ Refused \/ JobDone \/ GiveUp
  BY <1>2, VoiceUntouched DEF Accepted, Refused, JobDone, GiveUp
<1>3. CASE Leave
  <2>1. narration' = 0 /\ playing' \in BOOLEAN /\ ~playing' /\ slips' = slips
    BY <1>3 DEF Leave
  <2>2. StopVoice
    BY <1>3 DEF Leave
  <2>3. 0 \in 0..MaxVisits
    BY MixerAssumption
  <2> QED
    BY <2>1, <2>2, <2>3, StopVoiceEffect DEF VoiceInv
<1>4. CASE \E to \in Track : Switch(to)
  BY <1>4, VoiceUntouched DEF Switch
<1>5. CASE UNCHANGED vars
  BY <1>5, VoiceUntouched DEF vars, pages
<1> QED
  BY <1>1, <1>2, <1>3, <1>4, <1>5

\* Mounting the player may stop a voice that is held; nothing plays before it.
LEMMA VoiceOfMount ==
    ASSUME MixerInv, NEW v \in Visit, NEW n \in 0..1, NEW others,
           Mount(v, n, others),
           \/ page = "generating" /\ v = visit
           \/ page = "home" /\ v = visit + 1
    PROVE  VoiceInv'
<1> USE VoiceFacts
<1>1. /\ page' = "player" /\ visit' = v /\ slips' = slips
      /\ UNCHANGED <<narration, playing>>
  BY DEF Mount
<1>2. CASE StopVoice
  BY <1>1, <1>2, StopVoiceEffect DEF VoiceInv
<1>3. CASE UNCHANGED <<heldSource, sounding>>
  BY <1>1, <1>3 DEF VoiceInv
<1> QED
  BY <1>2, <1>3 DEF Mount

\* A tap, and the end of the narration.
LEMMA VoiceOfTaps ==
    ASSUME MixerInv, Tap \/ Ended
    PROVE  VoiceInv'
<1> USE VoiceFacts
<1>1. UNCHANGED <<page, visit, slips>>
  BY DEF Tap, Ended, pages
<1>2. CASE Pause
  <2>1. narration' = narration /\ playing' \in BOOLEAN /\ ~playing'
    BY <1>2 DEF Pause
  <2>2. StopVoice
    BY <1>2 DEF Pause
  <2> QED
    BY <1>1, <2>1, <2>2, StopVoiceEffect DEF VoiceInv
<1>3. CASE ~playing /\ narration # 0 /\ StartVoice /\ Ready
  <2>1. heldSource' = TRUE /\ sounding' = sounding + 1
    BY <1>3 DEF StartVoice
  <2>2. playing' = TRUE /\ narration' = narration
    BY <1>3 DEF StartVoice
  <2>3. page = "player"
    BY <1>3 DEF Ready
  <2> QED
    BY <1>1, <1>3, <2>1, <2>2, <2>3 DEF VoiceInv
<1>4. CASE UNCHANGED voice
  BY <1>1, <1>4, VoiceUntouched
<1> QED
  BY <1>2, <1>3, <1>4 DEF Tap, Ended

\* A play that resumes late is named by its slip.
LEMMA VoiceOfResumed ==
    ASSUME MixerInv, NEW t \in tasks, PlayResumed(t)
    PROVE  VoiceInv'
<1> USE VoiceFacts
<1>1. /\ UNCHANGED <<page, visit>> /\ slips \subseteq slips'
      /\ playing => "played_twice" \in slips'
      /\ (t.of # visit \/ page # "player") => "played_after_leaving" \in slips'
  BY DEF PlayResumed, pages
<1>2. t.op = "play" /\ StartVoice
  BY DEF PlayResumed
<1>3. /\ heldSource' <=> narration # 0
      /\ heldSource' \in BOOLEAN
      /\ sounding' = IF narration = 0 THEN sounding ELSE sounding + 1
  BY <1>2 DEF StartVoice
<1>4. playing' = TRUE /\ narration' = narration
  BY <1>2 DEF StartVoice
<1>5. t.of = visit /\ page = "player" => narration # 0
  BY <1>2 DEF TaskFits
<1> QED
  BY <1>1, <1>3, <1>4, <1>5 DEF VoiceInv

\* A narration that lands silences the player it lands in, which holds none.
LEMMA VoiceOfFetched ==
    ASSUME MixerInv, NEW t \in tasks, NarrationFetched(t)
    PROVE  VoiceInv'
<1> USE VoiceFacts
<1>1. /\ UNCHANGED <<page, visit>> /\ slips \subseteq slips'
      /\ UNCHANGED <<heldSource, sounding>>
      /\ narration' = t.of /\ t.op = "narration"
      /\ (t.of # visit \/ page # "player") => "loaded_after_leaving" \in slips'
  BY DEF NarrationFetched, pages
<1>2. playing' = FALSE
  BY DEF NarrationFetched
<1>3. /\ t.of = visit /\ "loaded_after_leaving" \notin slips => narration = 0
      /\ t.of \in 0..MaxVisits
  BY <1>1, MixerAssumption DEF FetchedOnce
<1> QED
  BY <1>1, <1>2, <1>3 DEF VoiceInv

\* A voice stopped by a load is named by its slip.
LEMMA VoiceOfSigned ==
    ASSUME MixerInv, NEW t \in tasks, NarrationSigned(t)
    PROVE  VoiceInv'
<1> USE VoiceFacts
<1>1. /\ UNCHANGED <<page, visit, narration, playing>> /\ slips \subseteq slips'
      /\ heldSource => "stopped_by_a_load" \in slips'
  BY DEF NarrationSigned, pages
<1>2. StopVoice
  BY DEF NarrationSigned
<1> QED
  BY <1>1, <1>2, StopVoiceEffect DEF VoiceInv

\* Every step keeps the voice as the invariant has it.
LEMMA VoiceStep ==
    ASSUME MixerInv, [MixerNext]_vars
    PROVE  VoiceInv'
<1>1. CASE Arrive \/ Revisit \/ \E t \in tasks : ArriveLate(t)
  BY <1>1, Mounting, VoiceOfMount
<1>2. ASSUME NEW t \in tasks, Landed(t)
      PROVE  VoiceInv'
  <2>1. CASE AmbientResumed(t) \/ MusicFetched(t) \/ MusicFails(t)
             \/ HandoverFails(t) \/ NarrationFails(t)
    BY <2>1, VoiceUntouched
    DEF AmbientResumed, MusicFetched, MusicFails, HandoverFails, NarrationFails,
        pages
  <2> QED
    BY <1>2, <2>1, VoiceOfResumed, VoiceOfSigned, VoiceOfFetched DEF Landed
<1> QED
  BY <1>1, <1>2, VoiceOfPages, VoiceOfTaps DEF MixerNext

\* The narration in the player is not being fetched again: its promise was
\* the one that landed.
LEMMA FetchedOnceStep ==
    ASSUME MixerInv, [MixerNext]_vars
    PROVE  FetchedOnce'
<1> SUFFICES ASSUME narration' # 0, "loaded_after_leaving" \notin slips',
                    NEW u \in tasks', u.op = "narration", u.of = visit'
             PROVE  FALSE
  BY DEF FetchedOnce
<1> USE VoiceFacts
<1>0. UNCHANGED <<narration, slips>> \/ ~(Arrive \/ Revisit \/ \E t \in tasks : ArriveLate(t))
  BY Mounting DEF Mount
<1>1. slips \subseteq slips'
  BY <1>0
  DEF MixerNext, Begin, Accepted, Refused, JobDone, GiveUp, Leave, Tap, Ended,
      Switch, Landed, AmbientResumed, PlayResumed, MusicFetched, MusicFails,
      NarrationSigned, NarrationFetched, HandoverFails, NarrationFails, vars
<1>2. CASE \E t \in tasks : NarrationFetched(t)
  <2>1. PICK t \in tasks : NarrationFetched(t)
    BY <1>2
  <2>2. /\ t.op = "narration" /\ t.of = visit /\ visit' = visit
        /\ tasks' = tasks \ {t}
    BY <2>1 DEF NarrationFetched, pages
  <2>3. u \in tasks /\ u # t /\ u.of = t.of /\ u.op = t.op
    BY <2>2
  <2> QED
    BY <2>2, <2>3 DEF MixerInv, OneLoad
<1>3. CASE ~\E t \in tasks : NarrationFetched(t)
  <2>1. narration' = narration
    BY <1>0, <1>3
    DEF MixerNext, Begin, Accepted, Refused, JobDone, GiveUp, Leave, Tap, Ended,
        Switch, Landed, AmbientResumed, PlayResumed, MusicFetched, MusicFails,
        NarrationSigned, HandoverFails, NarrationFails, vars, voice, StartVoice,
        Pause
  <2>2. page = "player" /\ narration = visit
    BY <1>1, <2>1 DEF VoiceInv
  <2>3. visit' = visit
    BY <2>2
    DEF MixerNext, Begin, Accepted, Refused, JobDone, GiveUp, Arrive, Revisit,
        ArriveLate, Leave, Tap, Ended, Switch, Landed, AmbientResumed, PlayResumed,
        pages, MusicFetched, MusicFails, NarrationSigned, NarrationFetched,
        HandoverFails, NarrationFails, vars
  <2>4. \E t \in tasks : t.op = "narration" /\ t.of = u.of
    BY <2>2, StepTasks DEF TasksFrom, NewPromise
  <2> QED
    BY <1>1, <2>1, <2>3, <2>4 DEF FetchedOnce
<1> QED
  BY <1>2, <1>3

-----------------------------------------------------------------------------
(***************************************************************************)
(* The pages, and the whole invariant.                                     *)
(***************************************************************************)

\* The types of what the pages and the context hold.
LEMMA PagesStep ==
    ASSUME MixerInv, [MixerNext]_vars
    PROVE  /\ page' \in {"home", "starting", "generating", "player"}
           /\ visit' \in 0..MaxVisits /\ Visited'
           /\ track' \in Track /\ switches' \in 0..MaxSwitches
           /\ ctx' \in {"none", "suspended", "running"}
<1>0. /\ page \in {"home", "starting", "generating", "player"}
      /\ visit \in Nat /\ visit <= MaxVisits /\ (page # "home" => visit > 0)
      /\ track \in Track /\ "music" \in Track
      /\ switches \in Nat /\ switches <= MaxSwitches
      /\ ctx \in {"none", "suspended", "running"}
      /\ MaxVisits \in Nat /\ MaxSwitches \in Nat
  BY Types, MixerAssumption DEF MixerInv, Visited, Track
<1> USE <1>0 DEF Visited
<1>1. CASE Begin
  BY <1>1 DEF Begin
<1>2. CASE Accepted \/ Refused \/ JobDone \/ GiveUp
  BY <1>2 DEF Accepted, Refused, JobDone, GiveUp
<1>3. CASE Arrive \/ Revisit \/ \E t \in tasks : ArriveLate(t)
  <2>1. PICK v \in Visit, n \in 0..1, others \in SUBSET tasks : Mount(v, n, others)
    BY <1>3, Mounting
  <2>2. /\ page' = "player" /\ visit' = v /\ track' = "music"
        /\ UNCHANGED <<switches, ctx>>
    BY <2>1 DEF Mount
  <2> QED
    BY <2>2 DEF Visit
<1>5. CASE Leave
  BY <1>5 DEF Leave
<1>6. CASE Tap \/ Ended
  BY <1>6 DEF Tap, Ended, pages
<1>7. CASE \E to \in Track : Switch(to)
  BY <1>7 DEF Switch
<1>8. CASE \E t \in tasks : AmbientResumed(t) \/ PlayResumed(t)
  BY <1>8 DEF AmbientResumed, PlayResumed, pages
<1>9. CASE \E t \in tasks : MusicFetched(t) \/ MusicFails(t) \/ NarrationFetched(t)
  <2>1. UNCHANGED <<page, visit, track, switches>>
    BY <1>9 DEF MusicFetched, MusicFails, NarrationFetched, pages
  <2>2. ctx' = ctx \/ ctx' = "suspended"
    <3>1. ASSUME NEW t, MusicFetched(t) PROVE ctx' = ctx \/ ctx' = "suspended"
      BY <3>1 DEF MusicFetched
    <3>2. ASSUME NEW t, MusicFails(t) PROVE ctx' = ctx
      BY <3>2 DEF MusicFails
    <3>3. ASSUME NEW t, NarrationFetched(t) PROVE ctx' = ctx \/ ctx' = "suspended"
      BY <3>3 DEF NarrationFetched
    <3> QED
      BY <1>9, <3>1, <3>2, <3>3
  <2> QED
    BY <2>1, <2>2
<1>10. CASE \E t \in tasks :
               NarrationSigned(t) \/ HandoverFails(t) \/ NarrationFails(t)
  <2>1. ASSUME NEW t, NarrationSigned(t) \/ HandoverFails(t) \/ NarrationFails(t)
        PROVE  UNCHANGED <<page, visit, track, switches, ctx>>
    BY <2>1 DEF NarrationSigned, HandoverFails, NarrationFails, pages
  <2> QED
    BY <1>10, <2>1
<1>11. CASE UNCHANGED vars
  BY <1>11 DEF vars, pages
<1> QED
  BY <1>1, <1>2, <1>3, <1>5, <1>6, <1>7, <1>8, <1>9, <1>10, <1>11
  DEF MixerNext, Landed

\* The flags of the pages.
LEMMA FlagsStep ==
    ASSUME MixerInv, [MixerNext]_vars
    PROVE  handedOff' \in BOOLEAN /\ failed' \in BOOLEAN
<1>0. handedOff \in BOOLEAN /\ failed \in BOOLEAN
  BY Types DEF MixerInv
<1>1. handedOff' = handedOff \/ handedOff' = TRUE \/ handedOff' = FALSE
  <2>1. CASE Arrive \/ Revisit \/ \E t \in tasks : ArriveLate(t)
    BY <2>1, Mounting DEF Mount
  <2> QED
    BY <2>1
    DEF MixerNext, Begin, Accepted, Refused, JobDone, GiveUp, Leave, Tap, Ended,
        Switch, Landed, AmbientResumed, PlayResumed, MusicFetched, MusicFails,
        NarrationSigned, NarrationFetched, HandoverFails, NarrationFails, vars,
        pages
<1>2. ASSUME NEW t, NarrationFails(t) PROVE failed' \in BOOLEAN
  BY <1>2 DEF NarrationFails
<1>4. ASSUME Arrive \/ Revisit \/ \E t \in tasks : ArriveLate(t)
      PROVE  failed' \in BOOLEAN
  BY <1>4, Mounting DEF Mount
<1>5. ASSUME \E t \in tasks : Landed(t) PROVE failed' \in BOOLEAN
  <2>1. ASSUME NEW t, \/ AmbientResumed(t) \/ PlayResumed(t) \/ MusicFetched(t)
                      \/ MusicFails(t) \/ NarrationSigned(t)
                      \/ NarrationFetched(t) \/ HandoverFails(t)
        PROVE  failed' = failed
    BY <2>1 DEF AmbientResumed, PlayResumed, MusicFetched, MusicFails,
                NarrationSigned, NarrationFetched, HandoverFails, pages
  <2> QED
    BY <1>0, <1>2, <1>5, <2>1 DEF Landed
<1>6. ASSUME
           \/ Begin \/ Accepted \/ Refused \/ JobDone \/ GiveUp \/ Leave
           \/ Tap \/ Ended \/ (\E to \in Track : Switch(to)) \/ UNCHANGED vars
      PROVE  failed' \in BOOLEAN
  <2>1. failed' = failed
    BY <1>6 DEF Begin, Accepted, Refused, JobDone, GiveUp, Leave, Tap, Ended,
                Switch, vars, pages
  <2> QED
    BY <1>0, <2>1
<1> QED
  BY <1>0, <1>1, <1>4, <1>5, <1>6 DEF MixerNext

\* The invariant is inductive.
LEMMA MixerInvStep ==
    ASSUME MixerInv, [MixerNext]_vars
    PROVE  MixerInv'
<1>1. MixerTypeOK'
  <2>1. {handedOff', failed', heldSource', playing', bgmBuffer', bgmSource',
         ambientWanted'} \subseteq BOOLEAN
    BY FlagsStep, MusicStep, VoiceStep DEF MusicGoal, VoiceInv
  <2>2. /\ narration' \in 0..MaxVisits /\ sounding' \in Nat
        /\ heldSource' => sounding' > 0
        /\ playing' => \/ heldSource'
                       \/ Slipped({"played_after_leaving", "stopped_by_a_load"})'
    BY VoiceStep DEF VoiceInv, Slipped
  <2> QED
    BY <2>1, <2>2, PagesStep, TasksInvStep DEF MixerTypeOK
<1>2. SilentElsewhere'
  BY MusicStep, VoiceStep DEF MusicGoal, VoiceInv, SilentElsewhere, Slipped
<1>3. VoiceOnlyHoldsNothing'
  BY MusicStep DEF MusicGoal, VoiceOnlyHoldsNothing
<1>4. NarrationOfVisit'
  BY VoiceStep, FetchedOnceStep DEF VoiceInv, FetchedOnce, NarrationOfVisit
<1>5. VoiceIsHeld' /\ PlayingIsRight'
  BY VoiceStep DEF VoiceInv, VoiceIsHeld, PlayingIsRight, Slipped
<1> QED
  BY <1>1, <1>2, <1>3, <1>4, <1>5, PagesStep, TasksInvStep, OneLoadStep, MusicStep
  DEF MixerInv, MusicGoal

-----------------------------------------------------------------------------
(***************************************************************************)
(* The theorems.                                                           *)
(***************************************************************************)

\* The invariant of the mixer holds of every behaviour.
THEOREM MixerInvariant == MixerSpec => []MixerInv
BY MixerInvInit, MixerInvStep, PTL DEF MixerSpec

\* At home no music is heard, but for a Cancel in the arrival beat and a play
\* that was still resuming.
THEOREM MusicStops == MixerSpec => []MusicStopsUnlessRaced
<1>1. MixerInv => MusicStopsUnlessRaced
  BY DEF MixerInv, SilentElsewhere, MusicStopsUnlessRaced, MusicStopsAtHome
<1> QED
  BY <1>1, MixerInvariant, PTL

\* One voice at a time, of the session on the screen, over the chosen track.
THEOREM HeardIsChosen == MixerSpec => []HeardAsChosen
<1>1. MixerInv => HeardAsChosen
  <2> SUFFICES ASSUME MixerInv PROVE HeardAsChosen
    OBVIOUS
  <2>1. MixerTypeOK
    BY DEF MixerInv
  <2>2. OneVoice
    <3>1. sounding \in Nat
      BY <2>1, Types
    <3> QED
      BY <3>1 DEF MixerInv, VoiceIsHeld, NarrationOfVisit, OneVoice, Slipped
  <2>3. RightNarration
    BY DEF MixerInv, PlayingIsRight, RightNarration
  <2>4. VoiceOnlyIsSilent
    BY DEF MixerInv, VoiceOnlyHoldsNothing, VoiceOnlyIsSilent, Slipped
  <2> QED
    BY <2>1, <2>2, <2>3, <2>4 DEF HeardAsChosen
<1> QED
  BY <1>1, MixerInvariant, PTL

\* The music is unbroken from the tap that begins the session: only leaving,
\* a pause or the end, and the silent track stop it.
THEOREM MusicUnbroken == MixerSpec => MusicIsUnbroken
<1>1. MixerInv /\ [MixerNext]_vars => [UnbrokenStep]_vars
  BY MusicStep DEF MusicGoal
<1>2. MixerSpec => [][UnbrokenStep]_vars
  BY <1>1, MixerInvariant, PTL DEF MixerSpec
<1> QED
  BY <1>2, PTL DEF MusicIsUnbroken, UnbrokenStep
=============================================================================
