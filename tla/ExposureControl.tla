--------------------------- MODULE ExposureControl ---------------------------
(***************************************************************************)
(* Who sets the exposure and the gain of one camera: the host's loop       *)
(* (AutoExposureStrategy::apply around the control law decideExposure),    *)
(* the operator's commands, which put a ManualExposureStrategy in its      *)
(* place, and a revert, which brings the configured strategy back.  All of *)
(* it runs on the capture thread, a command or a frame at a time.          *)
(*                                                                         *)
(* Exposures are whole numbers of a unit, of which Least make the          *)
(* microsecond below which the loop leaves the exposure alone.  How bright *)
(* a frame is: light * exposure * gain, and White at most.  The power that *)
(* damps the correction is abstracted to any part of it, one Damp-th at    *)
(* least.                                                                  *)
(***************************************************************************)
EXTENDS Integers, FiniteSetsExt

CONSTANTS
  Lights,             \* how light the scene may be
  Target, Deadband,   \* what the loop drives the brightness to
  Cap,                \* maxExposureUs: the longest exposure that is sharp
  NodeMax,            \* the longest one the sensor can do
  Ceiling,            \* the longest one the camera takes: less than NodeMax when
                      \* it is a slave and its trigger comes sooner
  GainMin, GainMax,   \* minGain, maxGain
  NodeGain,           \* the highest gain of the sensor
  GainStep,
  StepRatio,          \* maxStepRatio
  Damp,               \* damping leaves a Damp-th of a correction, or more
  Least,              \* a microsecond: the exposure changes by more, or not
  Fraction,           \* gain is added for more than that part of the exposure: a 50th
  White,              \* the brightest a frame can be
  Interval,           \* minInterval, in frames
  MaxChanges          \* bound: how often the light changes or an operator acts

ExposureAssumption ==
  /\ Lights \subseteq Nat \ {0}
  /\ {Target, Deadband, Cap, NodeMax, Ceiling, GainStep, White, Interval,
      Damp, Least, Fraction} \subseteq Nat \ {0}
  /\ Cap <= NodeMax /\ GainMin \in Nat \ {0} /\ GainMax \in Nat /\ GainMax >= GainMin
  /\ NodeGain \in Nat /\ NodeGain >= GainMax /\ StepRatio \in Nat /\ StepRatio > 1
  /\ MaxChanges \in Nat

VARIABLES
  light,
  exposure, gain,   \* the camera's nodes
  configured,       \* the strategy of the profile
  strategy,         \* the one installed now
  ema,              \* measuredEma_
  wait,             \* frames left until the loop may change again
  parity,           \* of the number of frames: each frame is a step, if nothing
                    \* else changes
  changes

nodes == <<exposure, gain>>
vars  == <<light, nodes, configured, strategy, ema, wait, parity, changes>>

Unmeasured == -1
ExpMin == 1

\* The camera shortens an exposure it cannot do.
Set(e, g) == exposure' = Min({e, Ceiling}) /\ gain' = g

\* makeExposureStrategy: what a profile may ask for.  "highlight" is the
\* host's loop with highlightPriority.
Strategies == {"auto", "highlight", "fixed", "native", "manual"}
Loops == {"auto", "highlight"}

\* The fixed strategy writes low values once; the sensor's own loop is given
\* the cap; the others leave the nodes as the settings had them.
Configured(s) ==
  CASE s = "fixed"  -> {[exposure |-> ExpMin, gain |-> GainMin]}
    [] s = "native" -> [exposure : {ExpMin, Cap}, gain : {GainMin, GainMax}]
    [] OTHER        -> [exposure : ExpMin..NodeMax, gain : {GainMin, NodeGain}]

\* A strategy that has just been made has measured nothing.
Install(s) ==
  /\ strategy' = s /\ ema' = Unmeasured /\ wait' = 0
  /\ \E n \in Configured(s) : Set(n.exposure, n.gain)

Init ==
  /\ light \in Lights /\ configured \in Strategies /\ strategy = configured
  /\ ema = Unmeasured /\ wait = 0 /\ parity = 0 /\ changes = 0
  /\ \E n \in Configured(configured) : exposure = Min({n.exposure, Ceiling}) /\ gain = n.gain

-----------------------------------------------------------------------------
(* The loop.                                                               *)

Metered == Min({White, light * exposure * gain})

\* The mean of the last value and the new one, rounded towards the new one.
Smoothed ==
  CASE ema = Unmeasured -> Metered
    [] ema <= Metered   -> (ema + Metered + 1) \div 2
    [] OTHER            -> (ema + Metered) \div 2

InBand(m) == m > Target - Deadband /\ m < Target + Deadband

\* The exposure that would bring m to Target.
Full(m) == (exposure * Target) \div Max({m, 1})

\* The least that damping leaves of a correction.
Damped(correction) == correction \div Damp

\* What damping may leave of it, no more than StepRatio times away from the
\* present exposure.  A fraction of a unit counts either way.
Longer(m) ==
  {Min({want, exposure * StepRatio}) :
     want \in (exposure + Damped(Full(m) - exposure))..(Full(m) + 1)}
Shorter(m) ==
  {Max({want, exposure \div StepRatio}) :
     want \in Full(m)..(exposure - Damped(exposure - Full(m) - 1))}

\* Within the bounds of the loop, and only if that is more than a microsecond.
Lengthened(want) ==
  LET e == Min({want, Cap}) IN IF e > exposure + Least THEN e ELSE exposure
Shortened(want) ==
  LET e == Max({ExpMin, Min({want, Cap})}) IN IF e < exposure - Least THEN e ELSE exposure

\* The exposure falls so short of what is wanted that gain has to help.
Residual(want, e) == want * Fraction > Max({e, Least}) * (Fraction + 1)

Raised  == IF gain < GainMax THEN Min({GainMax, gain + GainStep}) ELSE gain
Lowered == IF gain > GainMin THEN Max({GainMin, gain - GainStep}) ELSE gain

\* The nodes are written, and a decision that changes something starts the
\* interval, even if the camera does not take it.
Ask(e, g) ==
  /\ Set(e, g)
  /\ wait' = IF <<e, g>> # nodes THEN Interval ELSE 0

\* An exposure above the cap goes to the cap, whatever the brightness.
TooLong == exposure > Cap + Least
Rein == TooLong /\ Ask(Cap, gain)

\* Slip: whether gain has to help is judged by the exposure there was.
DarkOldResidual(m) == \E want \in Longer(m) :
  Ask(Lengthened(want), IF Residual(want, exposure) THEN Raised ELSE gain)

\* Too dark: a longer exposure, and more gain for what that leaves.
Dark(m) == \E want \in Longer(m) :
  Ask(Lengthened(want), IF Residual(want, Lengthened(want)) THEN Raised ELSE gain)

\* Too bright: less gain while there is some, then a shorter exposure.
Bright(m) ==
  \/ gain > GainMin /\ Ask(exposure, Lowered)
  \/ gain <= GainMin /\ \E want \in Shorter(m) : Ask(Shortened(want), gain)

\* Exposing for the brightest region: in the dark the exposure goes to the
\* cap and the gain down, never up.
DarkHighlight(m) == \E want \in Longer(m) : Ask(Lengthened(want), Lowered)

Decide(m) ==
  \/ Rein
  \/ ~TooLong /\ m < Target /\ strategy = "auto" /\ Dark(m)
  \/ ~TooLong /\ m < Target /\ strategy = "highlight" /\ DarkHighlight(m)
  \/ ~TooLong /\ m > Target /\ Bright(m)

\* apply(): measure, and unless it is too soon or the image is good enough,
\* decide.
Frame ==
  /\ strategy \in Loops
  /\ ema' = Smoothed /\ parity' = 1 - parity
  /\ IF wait > 0 \/ InBand(Smoothed)
     THEN UNCHANGED nodes /\ wait' = Max({0, wait - 1})
     ELSE Decide(Smoothed)
  /\ UNCHANGED <<light, configured, strategy, changes>>

\* The sensor's own loop: within the bounds it was given.
SensorLoop ==
  /\ strategy = "native"
  /\ \E n \in Configured("native") : Set(n.exposure, n.gain)
  /\ UNCHANGED <<light, configured, strategy, ema, wait, parity, changes>>

-----------------------------------------------------------------------------
(* The scene and the operator.                                             *)

Act == changes < MaxChanges /\ changes' = changes + 1 /\ UNCHANGED parity

LightChanges ==
  /\ Act /\ light' \in Lights \ {light}
  /\ UNCHANGED <<nodes, configured, strategy, ema, wait>>

Suspend == Act /\ strategy' = "manual" /\ UNCHANGED <<light, configured, ema, wait>>

\* A normalised value ends at the cap, an absolute one at the end of the
\* sensor's range.
NormalizedExposures == {ExpMin, Min({Cap, NodeMax})}
AbsoluteExposures   == {ExpMin, NodeMax}
SetManualExposure == Suspend /\ \E e \in NormalizedExposures \cup AbsoluteExposures : Set(e, gain)

\* A gain, normalised or absolute, is one the sensor has.
NormalizedGains == {GainMin, NodeGain}
AbsoluteGains   == {GainMin, NodeGain}
SetManualGain == Suspend /\ \E g \in NormalizedGains \cup AbsoluteGains : Set(exposure, g)

\* revertToSettings, and a reconnect without a manual session.
Revert == Act /\ Install(configured) /\ UNCHANGED <<light, configured>>

Next == Frame \/ SensorLoop \/ LightChanges \/ SetManualExposure \/ SetManualGain \/ Revert

Fairness == WF_vars(Frame)
Spec == Init /\ [][Next]_vars /\ Fairness

-----------------------------------------------------------------------------
TypeOK ==
  /\ light \in Lights /\ exposure \in ExpMin..NodeMax /\ gain \in GainMin..NodeGain
  /\ {configured, strategy} \subseteq Strategies
  /\ ema \in Unmeasured..White /\ wait \in 0..Interval
  /\ parity \in 0..1 /\ changes \in 0..MaxChanges

Adjusts == strategy \in Loops /\ changes' = changes

\* What the loop does to a camera, step by step.  Gain is raised only with the
\* exposure at its cap, or where the loop leaves the exposure: less than a
\* microsecond short of the cap, or so short that a correction of less than a
\* microsecond is a large part of it.  The exposure is shortened only when no gain
\* is left to give back or it was too long, and never lengthened past the cap.
Stuck == exposure' = exposure /\ (exposure + Least >= Cap \/ exposure < Fraction * Least)
GainLast == gain' > gain => strategy = "auto" /\ (exposure' = Min({Cap, Ceiling}) \/ Stuck)
GainBackFirst == exposure' < exposure => gain <= GainMin \/ TooLong
StaysSharp    == exposure' > exposure => exposure' <= Cap
InOrder == Adjusts => GainLast /\ GainBackFirst /\ StaysSharp
ActuatorPriority == [][InOrder]_vars

\* With a step of the gain inside the band the loop comes to rest once the
\* scene does.  Then the image is good enough, or the exposure and the gain are
\* each at their end or as near as the loop goes: what damping and the step limit
\* leave of the correction is no more than a microsecond, and for the gain no more
\* than a Fraction of the exposure.  (The sensor's own loop is the sensor's
\* business.)  With a Ceiling below the Cap the loop does not rest: it asks for an
\* exposure the camera does not take, again and again, and adds gain only when it
\* asks for more than the Cap.
InCharge == strategy \in Loops
LeastLonger(m)  == Min({exposure + Damped(Full(m) - exposure), exposure * StepRatio})
LeastShorter(m) == Max({exposure - Damped(exposure - Full(m) - 1), exposure \div StepRatio})
Rested(m) ==
  \/ InBand(m)
  \/ /\ m < Target
     /\ exposure + Least >= Min({Cap, Ceiling, LeastLonger(m)})
     /\ IF strategy = "highlight" THEN gain <= GainMin
        ELSE gain >= GainMax \/ ~Residual(LeastLonger(m), exposure)
  \/ /\ m > Target
     /\ exposure <= Max({ExpMin, LeastShorter(m)}) + Least
     /\ gain <= GainMin
Rests == LET m == Metered IN Rested(m)
Settles == <>[]InCharge => <>[]Rests

\* Both (AutoExposureStrategy::apply, decideExposure).
LoopIsSound == ActuatorPriority /\ Settles

\* The exposure is never above the cap while the loop is in charge, once it
\* has had a look.  It does not hold: apply() leaves an image that is bright
\* enough alone before it compares the exposure with the cap.
NeverAboveCap ==
  strategy \in Loops /\ ema # Unmeasured => ~TooLong

\* "when too dark, raise EXPOSURE up to the motion-blur cap first (noise-free),
\* then add GAIN for the rest" (ExposureController.h:10-11).
GainAfterExposure ==
  [][Adjusts /\ gain' > gain => exposure' + Least >= Min({Cap, Ceiling})]_vars
=============================================================================
