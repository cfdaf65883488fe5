--------------------------- MODULE SurfaceFrames ---------------------------
(***************************************************************************)
(* The frames of one SurfaceView layer as the Android FPS sampler reads    *)
(* them (crates/android/src/fps.rs): SurfaceFlinger keeps the times of the *)
(* last frames of a layer in a ring, the sampler looks at the ring once a  *)
(* tick, takes the frames past its high-water mark and puts each into a    *)
(* tier of jank by its duration and the three before.                      *)
(*                                                                         *)
(* Time is counted in quarters of a film frame (41.66 ms); Gap stands for  *)
(* five seconds.  The ring holds RingSize frames (128 on the device).      *)
(***************************************************************************)
EXTENDS Naturals, Sequences, SequencesExt, FiniteSets

VARIABLES
    sfFrames,   \* device: the times of the frames rendered so far
    sfMax,      \* max_ts, 0 before the first sighting
    sfPrev,     \* prev_durations
    sfJank,     \* jank_duration_ms
    sfTotal,    \* total_duration_ms
    sfTick,     \* the last tick's counters and its count of new frames
    sfSeed,     \* ghost: the high-water mark of the first sighting
    sfTiers,    \* ghost: the tier every frame, known by its time, was put into
    sfTwice,    \* ghost: a frame was taken a second time
    sfOverrun   \* ghost: the ring has dropped a frame the sampler had not seen

sfLayer == <<sfMax, sfPrev, sfJank, sfTotal>>
sfGhost == <<sfSeed, sfTiers, sfTwice, sfOverrun>>
sfVars == <<sfFrames, sfLayer, sfTick, sfGhost>>

MovieFrame == 4
Gap == 480
RingSize == 4
MaxFrames == 7
Durations == {1, 13, Gap}
Tiers == {"none", "small", "normal", "big"}

SfTypeOK ==
    /\ sfFrames \in Seq(Nat) /\ Len(sfFrames) <= MaxFrames /\ sfMax \in {0} \cup Range(sfFrames)
    /\ sfPrev \in Seq(1..Gap - 1) /\ Len(sfPrev) <= 3
    /\ sfJank \in Nat /\ sfTotal \in Nat
    /\ sfTick \in [small : 0..MaxFrames, normal : 0..MaxFrames, big : 0..MaxFrames, new : 0..MaxFrames]
    /\ sfSeed \in {0} \cup Range(sfFrames)
    /\ DOMAIN sfTiers \subseteq Range(sfFrames) /\ Range(sfTiers) \subseteq Tiers \cup {"gap"}
    /\ sfTwice \in BOOLEAN /\ sfOverrun \in BOOLEAN

NoCounts == [small |-> 0, normal |-> 0, big |-> 0, new |-> 0]

SfInit ==
    /\ sfFrames = <<>> /\ sfMax = 0 /\ sfPrev = <<>> /\ sfJank = 0 /\ sfTotal = 0 /\ sfTick = NoCounts
    /\ sfSeed = 0 /\ sfTiers = <<>> /\ sfTwice = FALSE /\ sfOverrun = FALSE

-----------------------------------------------------------------------------
(* The device *)

\* parse_latency: what the ring shows, without its last line, the frame still on its way.
Shown == LET n == Len(sfFrames)
         IN IF n <= 1 THEN <<>> ELSE SubSeq(sfFrames, IF n > RingSize THEN n - RingSize + 1 ELSE 1, n - 1)

\* A frame is rendered; the oldest one in a full ring makes way.
SfRender ==
    /\ Len(sfFrames) < MaxFrames
    /\ \E d \in Durations :
        sfFrames' = Append(sfFrames, d + (IF sfFrames = <<>> THEN 1 ELSE Last(sfFrames)))
    /\ LET n == Len(sfFrames)
       IN sfOverrun' = (sfOverrun \/ (n >= RingSize /\ sfMax # 0 /\ sfFrames[n - RingSize + 1] > sfMax))
    /\ UNCHANGED <<sfLayer, sfTick, sfSeed, sfTiers, sfTwice>>

-----------------------------------------------------------------------------
(* classify_frame *)

\* The sum of a full window.
SumOf(durations) == durations[1] + durations[2] + durations[3]

\* The tier of a duration after the three before it: more than twice their mean, and more than one,
\* two or three film frames.
TierAfter(d, before) ==
    IF Len(before) < 3 \/ 3 * d <= 2 * SumOf(before) THEN "none"
    ELSE IF d > 3 * MovieFrame THEN "big"
    ELSE IF d > 2 * MovieFrame THEN "normal"
    ELSE IF d > MovieFrame THEN "small"
    ELSE "none"

\* The window slides over the last three.
WindowAfter(before, d) ==
    IF Len(before) < 3 THEN Append(before, d) ELSE Append(Tail(before), d)

Counted(tick, tier) == IF tier = "none" THEN tick ELSE [tick EXCEPT ![tier] = @ + 1]

Classify(st, d) ==
    LET tier == TierAfter(d, st.prev)
    IN [st EXCEPT !.prev = WindowAfter(@, d), !.total = @ + d,
                  !.jank = IF tier = "none" THEN @ ELSE @ + d,
                  !.tick = Counted(@, tier), !.tier = tier]

-----------------------------------------------------------------------------
(* surfaceview_tick *)

\* The time from which the next frame counts: this frame's, also after a gap.
FrameEnd(st, t) == t

\* One new frame; a duration of five seconds or more is passed over.
TakeFrame(st, t) ==
    LET d == t - st.at
        next == IF d \in 1..Gap - 1 THEN Classify(st, d) ELSE [st EXCEPT !.tier = "gap"]
    IN [next EXCEPT !.at = FrameEnd(st, t), !.tick.new = @ + 1,
                    !.tiers = [u \in {t} \cup DOMAIN @ |-> IF u = t THEN next.tier ELSE @[u]],
                    !.twice = @ \/ t \in DOMAIN st.tiers]

\* The layer after the first so many times shown, those up to its mark passed over.
AlongRing(first, shown) ==
    LET st[i \in 0..Len(shown)] ==
            IF i = 0 THEN first
            ELSE IF shown[i] > first.at THEN TakeFrame(st[i - 1], shown[i])
            ELSE st[i - 1]
    IN st

\* Mistake: the window starts empty with every tick.
WindowEachTick == <<>>

\* The window of the layer, kept over the ticks.
WindowAtTick == sfPrev

\* The first sighting only sets the mark; a ring that shows nothing is passed over.
SfSight ==
    /\ Shown # <<>> /\ sfMax = 0
    /\ sfMax' = Last(Shown) /\ sfSeed' = Last(Shown)
    /\ sfTick' = NoCounts
    /\ UNCHANGED <<sfFrames, sfPrev, sfJank, sfTotal, sfTiers, sfTwice, sfOverrun>>

SfRead ==
    /\ Shown # <<>> /\ sfMax # 0
    /\ LET first == [at |-> sfMax, prev |-> WindowAtTick, jank |-> sfJank, total |-> sfTotal,
                     tick |-> NoCounts, tier |-> "none", tiers |-> sfTiers, twice |-> sfTwice]
           st == AlongRing(first, Shown)[Len(Shown)]
       IN /\ sfPrev' = st.prev /\ sfJank' = st.jank /\ sfTotal' = st.total /\ sfTick' = st.tick
          /\ sfTiers' = st.tiers /\ sfTwice' = st.twice
    /\ sfMax' = Last(Shown)
    /\ UNCHANGED <<sfFrames, sfSeed, sfOverrun>>

SfNext == SfRender \/ SfSight \/ SfRead

SfSpec == SfInit /\ [][SfNext]_sfVars

-----------------------------------------------------------------------------
(* Properties *)

\* The places of the frames after the first sighting up to a mark, those no gap precedes, and the
\* places of the last three of these, fewer where there are fewer.
Followed(frames, seed, mark) == {n \in DOMAIN frames : seed < frames[n] /\ frames[n] <= mark}

Duration(frames, n) == frames[n] - frames[n - 1]

Proper(frames, seed, mark) == {n \in Followed(frames, seed, mark) : Duration(frames, n) < Gap}

LastThree(frames, seed, mark) ==
    LET proper == Proper(frames, seed, mark)
    IN {at \in UNION {[1..k -> proper] : k \in 0..3} :
            /\ \A p, q \in DOMAIN at : p < q => at[p] < at[q]
            /\ \A n \in proper : n \in Range(at) \/ (DOMAIN at = 1..3 /\ n < at[1])}

DurationsAt(frames, at) == [p \in DOMAIN at |-> Duration(frames, at[p])]

\* The tier of every frame followed is that of its own duration after the three before it.
RightTiers(frames, seed, mark, tiers) ==
    /\ DOMAIN tiers = {frames[n] : n \in Followed(frames, seed, mark)}
    /\ \A n \in Followed(frames, seed, mark) :
        IF Duration(frames, n) >= Gap THEN tiers[frames[n]] = "gap"
        ELSE \E at \in LastThree(frames, seed, frames[n - 1]) :
                tiers[frames[n]] = TierAfter(Duration(frames, n), DurationsAt(frames, at))

\* However the ticks cut the stream of frames, each frame is in the tier its own duration and the
\* three before it give (fps.rs:72-113, 383-408), as long as the ring has lost no frame.
TiersIndependentOfTicks == ~sfOverrun => RightTiers(sfFrames, sfSeed, sfMax, sfTiers)

\* No frame is taken twice, whatever the ring drops or shows again (fps.rs:374-409).
NoFrameTwice == ~sfTwice

\* The time the stutter ratio is taken over is the time that passed, gaps aside, also when the ring
\* has lost frames (fps.rs:74, 392-406).
TimeAccounted ==
    sfMax # 0 =>
        /\ sfJank <= sfTotal
        /\ sfTotal <= sfMax - sfSeed
        /\ (\A t \in DOMAIN sfTiers : sfTiers[t] # "gap") => sfTotal = sfMax - sfSeed
=============================================================================
