----------------------------- MODULE VideoTiming -----------------------------
(* The two computations that lay a video out on its narration:               *)
(* deriveSceneTimeline fits the scenes of a plan to the length of the voice, *)
(* buildSubtitles cuts the script into cues along the words' timings, and    *)
(* the checks of video-qa look at what came of them.                         *)
(*                                                                           *)
(* Both are functions of their input, which is chosen once, at the start.    *)
(* Times are small numbers and the constants of the code, 700 and 6000 ms,   *)
(* are parameters. What the words say only decides after which of them a cue *)
(* may break (length of the text, end of a sentence), and is a set of words. *)
EXTENDS Integers, Sequences, Functions

CONSTANTS
    MinCue, MaxCue,  \* minCueDurationMs, maxCueDurationMs
    MaxScenes,       \* bound: scenes of a plan
    MaxLength,       \* bound: raw length of a scene, and twice that of the voice
    MaxWords,        \* bound: words of a script, one more than of a narration
    MaxClock         \* bound: the ends of spoken words

ASSUME TimingAssumption ==
    /\ MinCue \in Nat \ {0} /\ MaxCue \in Nat \ {0}
    /\ MaxScenes \in Nat /\ MaxLength \in Nat /\ MaxWords \in Nat /\ MaxClock \in Nat

VARIABLES plan, voice,              \* deriveSceneTimeline
          spoken, script, audio     \* buildSubtitles

timingVars == <<plan, voice, spoken, script, audio>>

Failed == <<>>
Larger(a, b)  == IF a > b THEN a ELSE b
Smaller(a, b) == IF a < b THEN a ELSE b

-----------------------------------------------------------------------------
(* deriveSceneTimeline                                                       *)

\* A plan is a sequence of scenes; "sound" says that its segment is known, its
\* duration positive and its asset resolved. A positive duration may still be
\* rounded to 0 ms.
InputScenes == [order : 1..MaxScenes, sound : BOOLEAN, raw : 0..MaxLength]

\* The scenes by their order.
InOrder(scenes) ==
    LET places == DOMAIN scenes
        place  == CHOOSE p \in Bijection(places, places) :
                     \A i, j \in places : i < j => scenes[p[i]].order <= scenes[p[j]].order
    IN  [i \in places |-> scenes[place[i]]]

SoundPlan(scenes) ==
    /\ scenes # <<>>
    /\ \A i \in DOMAIN scenes : scenes[i].order = i /\ scenes[i].sound

\* The sum of the first k lengths.
SumTo(length, k) ==
    LET sum[i \in 0..k] == IF i = 0 THEN 0 ELSE sum[i - 1] + length[i] IN sum[k]

\* Math.round of a * b / c, which the code computes in floating point: a tie
\* may go either way there.
Scaled(a, b, c) == (2 * a * b + c) \div (2 * c)

\* Each scene its share of the voice, rounded, and at least 1. The last takes
\* what is left. (A definition marked Slip is a plausible mistake in the one
\* after it; the checks must notice it.)
ItsOwnShare(share, target) == share[Len(share)]    \* Slip
Remainder(share, target)   == target - SumTo(share, Len(share) - 1)

DeriveSceneTimeline(scenes, voiceDuration) ==
    LET ordered == InOrder(scenes)
        N       == Len(ordered)
        raw     == [i \in 1..N |-> ordered[i].raw]
        total   == SumTo(raw, N)
        target  == IF voiceDuration > 0 THEN voiceDuration ELSE total
        share   == [i \in 1..N |-> Larger(1, IF voiceDuration > 0 /\ total > 0
                                             THEN Scaled(raw[i], target, total) ELSE raw[i])]
        length  == [share EXCEPT ![N] = Remainder(share, target)]
    IN  IF ~SoundPlan(ordered) \/ length[N] <= 0 THEN Failed
        ELSE [i \in 1..N |-> [start |-> SumTo(length, i - 1), duration |-> length[i]]]

-----------------------------------------------------------------------------
(* buildSubtitles                                                            *)

\* validateWordTimings: words may overlap, but not start before their
\* predecessor.
ValidTimings(timings) ==
    /\ timings # <<>>
    /\ \A i \in DOMAIN timings : timings[i].start < timings[i].end
    /\ \A i \in 2..Len(timings) : timings[i].start >= timings[i - 1].start

\* The larger of 2 and of a tenth of the words, rounded up.
Tolerance(n, k) == Larger(2, (Larger(n, k) + 9) \div 10)
Distance(a, b)  == Larger(a, b) - Smaller(a, b)

\* Word i of the script is spoken when word i is, or the last one.
Align(timings, n) == [i \in 1..n |-> timings[Smaller(i, Len(timings))]]

\* The cues that end among the words before i are given by the words they end
\* with. Word i ends one more where the text says so, where the cue has become
\* too long, and if it is the last word.
NextWord(ends) == IF ends = <<>> THEN 1 ELSE ends[Len(ends)] + 1

WithWord(ends, i, words, breaks) ==
    IF \/ i = Len(words) \/ i \in breaks
       \/ words[i].end - words[NextWord(ends)].start >= MaxCue
    THEN Append(ends, i) ELSE ends

CueEnds(words, breaks) ==
    LET upTo[i \in 0..Len(words)] ==
            IF i = 0 THEN <<>> ELSE WithWord(upTo[i - 1], i, words, breaks)
    IN  upTo[Len(words)]

\* Slip: the last cue may be as long as it likes.
UpToItsEnd(start, end, length)  == [start |-> start, end |-> end]
UpToTheAudio(start, end, length) ==
    [start |-> IF length <= start THEN Larger(0, length - MinCue) ELSE start, end |-> length]

\* A cue begins after its predecessor and lasts as long as it must. Only the
\* last may reach the end of the audio, and is cut there.
NormalizeCue(raw, prevEnd, isLast, length) ==
    LET start == Larger(Larger(raw.start, prevEnd + 1), 0)
        end   == Larger(raw.end, start + MinCue)
    IN  IF end > length /\ isLast THEN UpToTheAudio(start, end, length)
        ELSE [start |-> start, end |-> end]

BuildSubtitles(timings, text, length) ==
    LET words == Align(timings, text.words)
        ends  == CueEnds(words, text.breaks)
        from(k) == IF k = 1 THEN 1 ELSE ends[k - 1] + 1
        raw(k)  == [start |-> words[from(k)].start, end |-> words[ends[k]].end]
        cue[k \in 0..Len(ends)] ==
            IF k = 0 THEN [start |-> -1, end |-> -1]
            ELSE NormalizeCue(raw(k), cue[k - 1].end, k = Len(ends), length)
    IN  IF \/ ~ValidTimings(timings) \/ length <= 0 \/ text.words = 0
           \/ Distance(text.words, Len(timings)) > Tolerance(text.words, Len(timings))
        THEN Failed
        ELSE IF \E k \in DOMAIN ends : \/ cue[k].end > length /\ k < Len(ends)
                                       \/ cue[k].end <= cue[k].start
        THEN Failed
        ELSE [k \in DOMAIN ends |-> [from |-> from(k), to |-> ends[k],
                                     start |-> cue[k].start, end |-> cue[k].end]]

\* qaSubtitleSync, of a rendered video of the given length (50 ms are a unit).
QaSubtitleSync(cues, length) ==
    /\ cues # <<>>
    /\ \A k \in DOMAIN cues : cues[k].start < cues[k].end /\ cues[k].end <= length
    /\ \A k \in 2..Len(cues) : cues[k].start >= cues[k - 1].end

-----------------------------------------------------------------------------
(* The inputs                                                                *)

Timings == {t \in [start : 0..MaxClock, end : 0..MaxClock] : t.start < t.end}
Scripts == UNION {[words : {n}, breaks : SUBSET (1..(n - 1))] : n \in 1..MaxWords}

NoTimeline  == plan = <<>> /\ voice = 0
NoSubtitles == spoken = <<>> /\ script = [words |-> 0, breaks |-> {}] /\ audio = 0

TimingInit ==
    \/ /\ plan \in UNION {[1..n -> InputScenes] : n \in 0..MaxScenes}
       /\ voice \in 0..(2 * MaxLength)
       /\ NoSubtitles
    \/ /\ spoken \in UNION {[1..n -> Timings] : n \in 0..(MaxWords - 1)}
       /\ script \in Scripts
       /\ audio \in {MinCue, MaxClock, MaxClock + MinCue}
       /\ NoTimeline

TimingSpec == TimingInit /\ [][UNCHANGED timingVars]_timingVars

-----------------------------------------------------------------------------
(* Properties                                                                *)

\* "The rendered video never drifts from the voice track": the scenes follow one
\* another without a gap from 0 to exactly the end of the voice (of their own
\* lengths, without one); each is visible, and all but the last differ by less
\* than the 1 ms of rounding from their share; and a sound plan is refused only
\* if the rounding of the others may use up the share of the last.
TimelineFits ==
    LET scenes == InOrder(plan)
        result == DeriveSceneTimeline(plan, voice)
        N      == Len(scenes)
        total  == SumTo([i \in 1..N |-> scenes[i].raw], N)
        target == IF voice > 0 THEN voice ELSE total
        end(i) == result[i].start + result[i].duration
    IN  IF result # Failed
        THEN /\ SoundPlan(scenes) /\ Len(result) = N
             /\ result[1].start = 0 /\ end(N) = target
             /\ \A i \in 1..N : result[i].duration > 0
             /\ \A i \in 1..(N - 1) :
                   /\ result[i + 1].start = end(i)
                   /\ total > 0 => Distance(result[i].duration * total, scenes[i].raw * target) <= total
        ELSE SoundPlan(scenes) => scenes[N].raw * target <= (N - 1) * total

\* Every word of the script is in exactly one cue, in order; every cue begins no
\* earlier than its first word is spoken, is shown for the floor at least, within
\* the audio and after its predecessor, except the last one. That is cut at the
\* end of the audio, and begins before its predecessor is over if there is next
\* to nothing left for it: only then does the QA refuse the subtitles.
CuesFollowNarration ==
    LET cues   == BuildSubtitles(spoken, script, audio)
        N      == Len(cues)
        words  == Align(spoken, script.words)
        Floor(k)     == cues[k].end - cues[k].start >= MinCue
        After(k)     == cues[k].start > (IF k = 1 THEN -1 ELSE cues[k - 1].end)
        OnTime(k)    == cues[k].start >= words[cues[k].from].start
    IN  cues # Failed =>
          /\ cues[1].from = 1 /\ cues[N].to = script.words
          /\ \A k \in 1..(N - 1) : cues[k + 1].from = cues[k].to + 1
          /\ \A k \in 1..N : cues[k].from <= cues[k].to /\ 0 <= cues[k].start /\ cues[k].end <= audio
          /\ \A k \in 1..(N - 1) : Floor(k) /\ After(k) /\ OnTime(k)
          /\ Floor(N) \/ cues[N].end = audio
          /\ \/ After(N) /\ OnTime(N)
             \/ cues[N].end = audio /\ cues[N].start = Larger(0, audio - MinCue)
          /\ QaSubtitleSync(cues, audio) \/ (N > 1 /\ cues[N - 1].end > audio - MinCue)
=============================================================================
