----------------------------- MODULE ByteTracker -----------------------------
(* BYTETracker::update with STrack and the list helpers of utils.cpp, behind   *)
(* VehicleTracker: one frame's detections are associated with the tracks of a  *)
(* gate in three rounds, and three lists (tracked, lost, removed) are brought  *)
(* up to date.  Which boxes overlap is the environment's choice, so a round of *)
(* linear_assignment returns any partial matching (Assignment has what it      *)
(* computes from the overlaps) and any tracked and lost box may be taken for   *)
(* duplicates.  A detection is the band its score falls in.                    *)
EXTENDS Integers, Sequences, FiniteSets, Functions

CONSTANTS
    MaxTimeLost,    \* max_time_lost, in frames; 30 as VehicleTracker makes it
    KeptRemoved,    \* how many removed tracks are remembered; 5 in the code
    MaxDets, MaxFrames, MaxIds      \* bounds

\* What is assumed of the constants.
BoundsAssumption ==
    /\ MaxTimeLost \in Nat \ {0}
    /\ {KeptRemoved, MaxDets, MaxFrames, MaxIds} \subseteq Nat

VARIABLES
    tracked, lost,  \* tracked_stracks, lost_stracks
    removed,        \* removed_stracks: the ids, oldest first
    frame,          \* frame_id
    ids, labels,    \* the counters of next_id() and next_id2()
    crowds          \* frames that removed more than are remembered (history)

vars == <<tracked, lost, removed, frame, ids, labels, crowds>>

\* low is below track_thresh; only high is at least high_thresh.
Bands == {"low", "mid", "high"}

Everywhere == tracked \o lost

-----------------------------------------------------------------------------
(* utils.cpp                                                                   *)

IdsOf(q) == {t.id : t \in Range(q)}
Choose(q, id) == CHOOSE t \in Range(q) : t.id = id

\* The numbers of S in order, and what q has at some places.
Sorted(S) ==
    CHOOSE s \in [1..Cardinality(S) -> S] : \A i, j \in DOMAIN s : i < j => s[i] < s[j]
At(q, places) == LET order == Sorted(places) IN [k \in DOMAIN order |-> q[order[k]]]

\* joint_stracks(): the first list, then what the second adds.
Joint(a, b) ==
    a \o At(b, {i \in DOMAIN b : /\ b[i].id \notin IdsOf(a)
                                /\ \A j \in 1..(i - 1) : b[j].id # b[i].id})

\* Slip: nothing is taken away.
Keep(a, out) == a

\* sub_stracks(): a map by id, so sorted and without repetitions.
Sub(a, out) ==
    LET left == Sorted(IdsOf(a) \ out) IN [k \in DOMAIN left |-> Choose(a, left[k])]

\* remove_duplicate_stracks(): of a pair the one seen for longer stays.
Age(t) == t.frame - t.start
Duplicates(a, b, pairs) ==
    LET older == {p \in pairs : Age(a[p[1]]) > Age(b[p[2]])}
    IN <<At(a, DOMAIN a \ {p[1] : p \in pairs \ older}),
         At(b, DOMAIN b \ {p[2] : p \in older})>>

\* linear_assignment(): an injection from some rows to columns.
Matchings(rows, cols) ==
    UNION {{m \in [r -> cols] : \A x, y \in r : m[x] = m[y] => x = y} : r \in SUBSET rows}

-----------------------------------------------------------------------------
(* STrack                                                                      *)

\* activate(): only the first frame's tracks are confirmed at once.
Activated(id, f) ==
    [id |-> id, state |-> "Tracked", act |-> f = 1, start |-> f, frame |-> f,
     len |-> 0, label |-> 0]

\* update(): the label is drawn at the first one.
Updated(t, f, label) ==
    [t EXCEPT !.frame = f, !.len = @ + 1, !.state = "Tracked", !.act = TRUE,
              !.label = IF t.label = 0 THEN label ELSE t.label]

\* Slip: finding a track again gives it a label of its own.
ReactivatedAsNew(t, f) ==
    [t EXCEPT !.frame = f, !.len = 0, !.state = "Tracked", !.act = TRUE, !.label = 0]

\* re_activate()
Reactivated(t, f) ==
    [t EXCEPT !.frame = f, !.len = 0, !.state = "Tracked", !.act = TRUE]

Expired(t, f) == f - t.frame > MaxTimeLost

-----------------------------------------------------------------------------
(* What update() makes of the lists once its rounds have found some of the     *)
(* tracks again.                                                               *)

\* Who draws a label, and which: by id, which track gets which is not told apart.
Unlabelled(found) ==
    {t.id : t \in {u \in Range(Everywhere) :
                     u.id \in found /\ u.state = "Tracked" /\ u.label = 0}}
LabelFor(id, found) ==
    LET order == Sorted(Unlabelled(found))
    IN labels + CHOOSE k \in DOMAIN order : order[k] = id

\* A track that was tracked is updated or else lost, or removed when it was never
\* confirmed; a lost one is re-activated or left as it is.
Now(t, found) ==
    IF t.id \in found
    THEN IF t.state = "Tracked" THEN Updated(t, frame + 1, LabelFor(t.id, found))
         ELSE Reactivated(t, frame + 1)
    ELSE IF t.state = "Tracked" THEN [t EXCEPT !.state = IF t.act THEN "Lost" ELSE "Removed"]
         ELSE t

\* Step 5: a track lost for too long is marked.
Marked(t) == IF Expired(t, frame + 1) THEN [t EXCEPT !.state = "Removed"] ELSE t

WasTracked(found) == [i \in DOMAIN tracked |-> Now(tracked[i], found)]
WasLost(found) == [i \in DOMAIN lost |-> Marked(Now(lost[i], found))]
New(n) == [k \in 1..n |-> Activated(ids + k, frame + 1)]

\* The new tracked_stracks: those still tracked, then activated_stracks, then
\* refind_stracks.
NowTracked(found, n) ==
    LET was == WasTracked(found)
        activated == At(was, {i \in DOMAIN was : was[i].id \in found}) \o New(n)
        refind == At(WasLost(found), {i \in DOMAIN lost : lost[i].id \in found})
    IN Joint(Joint(At(was, {i \in DOMAIN was : was[i].state = "Tracked"}), activated), refind)

\* The new lost_stracks: those not tracked again, then this frame's, without the
\* tracks removed before this frame.
NowLost(found, back) ==
    LET was == WasTracked(found)
        gone == At(was, {i \in DOMAIN was : was[i].state = "Lost"})
    IN Sub(Sub(WasLost(found), IdsOf(back)) \o gone, Range(removed))

\* removed_stracks of this frame.
Out(found) ==
    LET was == WasTracked(found)
        then == WasLost(found)
    IN At(was, {i \in DOMAIN was : was[i].state = "Removed"})
       \o At(then, {i \in DOMAIN then : Expired(then[i], frame + 1)})

Newest(q) == IF Len(q) > KeptRemoved
           THEN SubSeq(q, Len(q) - KeptRemoved + 1, Len(q)) ELSE q

\* Steps 4 and 5, with the pairs of boxes that overlap almost fully.
Settle(found, n) ==
    LET back == NowTracked(found, n)
        away == NowLost(found, back)
        out == Out(found)
    IN /\ \E pairs \in SUBSET ((DOMAIN back) \X (DOMAIN away)) :
             LET lists == Duplicates(back, away, pairs)
             IN tracked' = lists[1] /\ lost' = lists[2]
       /\ removed' = Newest(removed \o [i \in DOMAIN out |-> out[i].id])
       /\ frame' = frame + 1
       /\ ids' = ids + n
       /\ labels' = labels + Cardinality(Unlabelled(found))
       /\ crowds' = IF Len(out) > KeptRemoved THEN crowds + 1 ELSE crowds

-----------------------------------------------------------------------------
Init ==
    /\ tracked = <<>> /\ lost = <<>> /\ removed = <<>>
    /\ frame = 0 /\ ids = 0 /\ labels = 0 /\ crowds = 0

\* One frame, in three rounds: m1 (confirmed and lost tracks, good detections),
\* m2 (what is left of the tracked ones, low detections) and m3 (unconfirmed
\* tracks, the good detections left).  What is high and still left starts a track.
Update(dets) ==
    LET good == {i \in DOMAIN dets : dets[i] # "low"}
        confirmed == At(tracked, {i \in DOMAIN tracked : tracked[i].act})
        unconfirmed == At(tracked, {i \in DOMAIN tracked : ~tracked[i].act})
        pool == Joint(confirmed, lost)
    IN \E m1 \in Matchings(IdsOf(pool), good) :
       LET rest == {id \in IdsOf(pool) \ DOMAIN m1 : Choose(pool, id).state = "Tracked"}
           goodLeft == good \ Range(m1)
       IN \E m2 \in Matchings(rest, DOMAIN dets \ good),
             m3 \in Matchings(IdsOf(unconfirmed), goodLeft) :
          LET starting == Cardinality({i \in goodLeft \ Range(m3) : dets[i] = "high"})
          IN /\ ids + starting <= MaxIds
             /\ Settle(DOMAIN m1 \cup DOMAIN m2 \cup DOMAIN m3, starting)

Next == frame < MaxFrames /\ \E n \in 0..MaxDets : \E dets \in [1..n -> Bands] : Update(dets)

Spec == Init /\ [][Next]_vars
-----------------------------------------------------------------------------
\* A vehicle is in one place: no identity is twice among the tracked and the
\* lost tracks, through re-activation, expiry and the removal of duplicates, and
\* no two tracks share the label vehicles are counted by (joint_stracks,
\* sub_stracks, update).
OneListPerTrack ==
    \A i, j \in DOMAIN Everywhere :
        i # j => /\ Everywhere[i].id # Everywhere[j].id
                 /\ Everywhere[i].label # Everywhere[j].label \/ Everywhere[i].label = 0

\* What update() hands out as seen was seen in this very frame: nothing is
\* carried on through a list (update, PlateTrackingRecognizer).
OutputsAreCurrent ==
    \A i \in DOMAIN tracked :
        /\ tracked[i].frame = frame /\ tracked[i].state = "Tracked"
        /\ tracked[i].len > 0 => tracked[i].act /\ tracked[i].label # 0

\* A lost track is forgotten at most one frame after max_time_lost, and one more
\* for every frame that removes more tracks than are remembered: an expired one
\* stays in the list of the lost until the frame that finds it among the removed
\* (update).
LostExpire ==
    \A i \in DOMAIN lost : frame - lost[i].frame <= MaxTimeLost + 1 + crowds

\* No vehicle is twice in the lists, or in one it should have left.
TracksAreSound == OneListPerTrack /\ OutputsAreCurrent /\ LostExpire

\* What a step may not do to the label of a track.
LabelsStay ==
    \A i \in DOMAIN Everywhere, j \in DOMAIN Everywhere' :
       (Everywhere[i].id = Everywhere'[j].id /\ Everywhere[i].label # 0)
           => Everywhere'[j].label = Everywhere[i].label

\* A label is kept: a track that is lost and found again is the same vehicle to
\* the count (STrack::update, re_activate).
LabelIsKept == [][LabelsStay]_vars
=============================================================================
