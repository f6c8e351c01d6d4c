------------------------------ MODULE FramePair ------------------------------
(* What CameraWorker::onFrame makes of the two images a source hands it: the   *)
(* one detection runs on and the one kept as evidence.  An image is its size,  *)
(* and Empty is a cv::Mat with no data (a stream of the pair that is down).    *)
EXTENDS Naturals

Empty == 0

OrElse(a, b) == IF a # Empty THEN a ELSE b

\* detectOnSecondary swaps the roles of the two streams (an IP pair delivers
\* colour first), detectOnColor moves detection to the evidence image.
Evidence(f, onSecondary) ==
    IF onSecondary THEN OrElse(f.primary, f.secondary)
                   ELSE OrElse(f.secondary, f.primary)

Plain(f, onSecondary) ==
    IF onSecondary THEN OrElse(f.secondary, f.primary)
                   ELSE OrElse(f.primary, f.secondary)

Detect(f, onSecondary, onColor) ==
    IF onColor /\ Evidence(f, onSecondary) # Empty
    THEN Evidence(f, onSecondary)
    ELSE Plain(f, onSecondary)
=============================================================================
