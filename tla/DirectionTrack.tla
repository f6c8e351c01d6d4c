--------------------------- MODULE DirectionTrack ---------------------------
(***************************************************************************)
(* One track of the DirectionEstimator                                     *)
(* (src/src/process/DirectionEstimator.cpp): how the sightings of a plate  *)
(* become a direction, when the direction is final and when the track      *)
(* starts afresh.                                                          *)
(*                                                                         *)
(* The sizes of the plate and the arithmetic on them are abstracted to the *)
(* verdict of one image.  Times are ages: a track knows how long ago it    *)
(* was last fed and how long ago it was finalised.                         *)
(***************************************************************************)
EXTENDS Integers

CONSTANTS
  TrackGap,          \* trackGapMs
  Cooldown,          \* cooldownMs
  MinSightings,      \* minSightings
  RecedingSightings, \* recedingMinSightings
  ConfirmAgreeing,   \* confirmAgreeing
  ConfirmSightings,  \* confirmSightings
  MaxSamples         \* kMaxSamples, 600 in the code

ASSUME TrackAssumption ==
  /\ {TrackGap, Cooldown, RecedingSightings} \subseteq Nat
  /\ {MinSightings, ConfirmAgreeing, ConfirmSightings, MaxSamples} \subseteq Nat \ {0}

Unknown     == 0
Approaching == 1
Receding    == 2
Directions  == {Unknown, Approaching, Receding}

HardGap == 4 * TrackGap

AtMost(bound, n) == IF n > bound THEN bound ELSE n

Tracks ==
  [fed : BOOLEAN, idle : 0..(HardGap + 1), interval : 0..HardGap, count : 0..MaxSamples,
   reported : Directions, pendingDir : Directions, agree : 0..ConfirmAgreeing,
   locked : BOOLEAN, decided : 0..(Cooldown + 1)]

NoTrack ==
  [fed |-> FALSE, idle |-> 0, interval |-> 0, count |-> 0, reported |-> Unknown,
   pendingDir |-> Unknown, agree |-> 0, locked |-> FALSE, decided |-> 0]

\* Ages beyond the largest one that is compared are all alike.
Elapse(t, d) ==
  IF t.fed THEN [t EXCEPT !.idle = AtMost(HardGap + 1, @ + d),
                          !.decided = IF t.locked THEN AtMost(Cooldown + 1, @ + d) ELSE @]
           ELSE t

Quiet(t) == t.fed /\ (t.idle > HardGap \/ (t.interval > 0 /\ t.idle > 3 * t.interval))

StartsAfresh(t) == Quiet(t) \/ (t.locked /\ t.decided > Cooldown)

Refresh(t) ==
  IF StartsAfresh(t) THEN NoTrack
  ELSE IF t.fed THEN [t EXCEPT !.interval = t.idle] ELSE t

\* What one image may say: the size trend, the peak's place and the guards
\* against a false exit, all functions of the sizes, decide among these.
Verdicts(t) ==
  IF t.count < MinSightings THEN {Unknown}
  ELSE IF RecedingSightings > MinSightings /\ t.count < RecedingSightings
  THEN {Unknown, Approaching} ELSE Directions

Sample(t) == [t EXCEPT !.count = AtMost(MaxSamples, @ + 1)]

\* Slip: at the cap the last image wins.
JudgeLastWins(t, v) ==
  LET agree == IF v = t.pendingDir THEN t.agree + 1 ELSE 1 IN
  IF v = Unknown THEN t
  ELSE [t EXCEPT !.pendingDir = v, !.agree = agree, !.decided = 0, !.reported = v,
                 !.locked = agree >= ConfirmAgreeing \/ t.count >= ConfirmSightings]

\* Slip: what stands wins over a streak as well.
JudgeFirstWins(t, v) ==
  LET agree == IF v = t.pendingDir THEN t.agree + 1 ELSE 1 IN
  IF v = Unknown THEN t
  ELSE [t EXCEPT !.pendingDir = v, !.agree = agree, !.decided = 0,
                 !.locked = agree >= ConfirmAgreeing \/ t.count >= ConfirmSightings,
                 !.reported = IF @ = Unknown THEN v ELSE @]

\* A streak decides, and is final; too many images are final as well, and then
\* what stands already wins.
Judge(t, v) ==
  LET agree == IF v = t.pendingDir THEN t.agree + 1 ELSE 1
      final == agree >= ConfirmAgreeing \/ t.count >= ConfirmSightings
      keep  == agree < ConfirmAgreeing /\ t.count >= ConfirmSightings /\ t.reported # Unknown
  IN IF v = Unknown THEN t
     ELSE [t EXCEPT !.pendingDir = v, !.agree = agree, !.locked = final, !.decided = 0,
                    !.reported = IF keep THEN @ ELSE v]

Fed(t) == [t EXCEPT !.fed = TRUE, !.idle = 0]

\* Slip: a finalised track goes on judging.
UpdatesLocked(t) ==
  LET fresh == Refresh(t) IN {Fed(Judge(Sample(fresh), v)) : v \in Verdicts(Sample(fresh))}

\* The tracks that feeding one sighting may give.
Updates(t) ==
  LET fresh == Refresh(t) IN
  IF fresh.locked THEN {Fed(fresh)}
  ELSE {Fed(Judge(Sample(fresh), v)) : v \in Verdicts(Sample(fresh))}
=============================================================================
