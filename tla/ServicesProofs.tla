---------------------------- MODULE ServicesProofs ----------------------------
(* Proofs about the three services of MCServices, for any numbers of viewers,     *)
(* gates, tracks and files: nobody's live view ends before the time he asked for; *)
(* what is handed on for a pass is the text with the most weight; every finished  *)
(* segment is announced once, and the pruning pass spares those being written.    *)
EXTENDS MCServices, FiniteSetTheorems, SequenceTheorems, TLAPS

-------------------------------------------------------------------------------
(* The live view: the inductive invariant                                        *)

Kinds == {"streaming", "stop_streaming", "set", "revert"}

Types ==
    /\ now \in Nat \ {0} /\ sent \in Nat /\ manual \in Nat
    /\ viewers \in [Viewers -> [in : BOOLEAN, asked : Int, from : Int, command : Nat]]
    /\ cmds \in Seq([do : Kinds, by : Viewers, value : Int, id : Nat])
    /\ live \in [on : BOOLEAN, until : Nat, count : Int]
    /\ cut \subseteq Viewers

\* Commands arrive in the order of their numbers.
InSequence ==
    /\ \A i \in 1..Len(cmds) : 0 < cmds[i].id /\ cmds[i].id <= sent
    /\ \A i, j \in 1..Len(cmds) : i < j => cmds[i].id < cmds[j].id

\* A viewer is being served: his command has been handled.
Served(u) == viewers[u].in /\ viewers[u].from # Pending

\* What the commands on their way mean to who is watching: those of a viewer who is
\* served were handled before, and nobody watches who came before a stop_streaming.
Meanings ==
    \A u \in Viewers :
      /\ ~viewers[u].in => viewers[u] = Gone
      /\ viewers[u].command <= sent
      /\ Served(u) => \A i \in 1..Len(cmds) : viewers[u].command < cmds[i].id
      /\ viewers[u].in => \A i \in 1..Len(cmds) :
           /\ cmds[i].do = "stop_streaming" => cmds[i].id < viewers[u].command
           /\ cmds[i].do = "streaming" /\ cmds[i].by = u =>
                /\ cmds[i].id <= viewers[u].command
                /\ cmds[i].id = viewers[u].command => cmds[i].value = viewers[u].asked

\* The entry lasts as long as u asked for.
Covers(l, u) ==
    /\ l.on
    /\ \/ l.until = Forever
       \/ /\ Duration(viewers[u].asked) # 0
          /\ viewers[u].from + Duration(viewers[u].asked) <= l.until

Covered == \A u \in Viewers : Watching(u) /\ u \notin cut => Covers(live, u)

IInv == Types /\ InSequence /\ Meanings /\ Covered

-------------------------------------------------------------------------------
(* Durations and queues                                                          *)

\* A duration is a natural number, and never a single second (liveView).
LEMMA DurationIsNat ==
    ASSUME NEW n \in Int
    PROVE  Duration(n) \in Nat
  BY NumbersAssumption DEF Duration, Clamped

\* A longer or unlimited request never shortens an entry (enableLive).
LEMMA EnabledKeeps ==
    ASSUME Types, NEW t \in Nat, NEW u \in Viewers, Covers(live, u)
    PROVE  Covers(Enabled(live, t), u)
<1>1. live.on /\ live.until \in Nat
  BY DEF Types, Covers
<1>2. Duration(viewers[u].asked) \in Nat /\ viewers[u].from \in Int
  BY DurationIsNat DEF Types
<1> DEFINE l == Enabled(live, t)
<1>3. /\ l.on
      /\ l.until = IF t = Forever \/ live.until = Forever THEN Forever
                   ELSE IF t > live.until THEN t ELSE live.until
  BY <1>1 DEF Enabled, Types
<1> QED BY <1>1, <1>2, <1>3 DEF Covers, Forever

\* And it lasts as long as the new request.
LEMMA EnabledCovers ==
    ASSUME Types, NEW t \in Nat
    PROVE  LET l == Enabled(live, t)
           IN /\ l \in [on : BOOLEAN, until : Nat, count : Int]
              /\ l.on
              /\ l.until = Forever \/ (t # Forever /\ t <= l.until)
<1>1. CASE ~live.on
  BY <1>1 DEF Enabled, Forever
<1>2. CASE live.on /\ (t = Forever \/ live.until = Forever)
  BY <1>2 DEF Enabled, Types, Forever
<1>3. CASE live.on /\ ~(t = Forever \/ live.until = Forever)
  <2> DEFINE longer == IF t > live.until THEN t ELSE live.until
  <2>1. live.until \in Nat /\ longer \in Nat /\ t <= longer
    BY DEF Types
  <2>2. Enabled(live, t) = [live EXCEPT !.until = longer]
    BY <1>3 DEF Enabled
  <2> HIDE DEF longer
  <2> QED BY <1>3, <2>1, <2>2 DEF Types
<1> QED BY <1>1, <1>2, <1>3

\* What is known of a command on its way.
LEMMA OnItsWay ==
    ASSUME Types, InSequence, NEW i \in 1..Len(cmds)
    PROVE  /\ cmds[i] \in [do : Kinds, by : Viewers, value : Int, id : Nat]
           /\ cmds[i].do \in Kinds /\ cmds[i].by \in Viewers /\ cmds[i].value \in Int
           /\ cmds[i].id \in Nat \ {0} /\ cmds[i].id <= sent /\ sent \in Nat
<1>1. cmds[i] \in [do : Kinds, by : Viewers, value : Int, id : Nat]
  BY ElementOfSeq DEF Types
<1>2. 0 < cmds[i].id /\ cmds[i].id <= sent
  BY DEF InSequence
<1>3. sent \in Nat
  BY DEF Types
<1> QED BY <1>1, <1>2, <1>3

\* The commands after one more was sent.
LEMMA Appended ==
    ASSUME Types, NEW c, cmds' = Append(cmds, c)
    PROVE  /\ Len(cmds') = Len(cmds) + 1
           /\ \A i \in 1..Len(cmds) : cmds'[i] = cmds[i]
           /\ cmds'[Len(cmds) + 1] = c
  BY DEF Types

\* The commands after the first was taken.
LEMMA Taken ==
    ASSUME Types, cmds # <<>>, cmds' = Tail(cmds)
    PROVE  /\ Len(cmds) \in Nat \ {0} /\ Head(cmds) = cmds[1]
           /\ Len(cmds') = Len(cmds) - 1
           /\ \A i \in 1..Len(cmds') : cmds'[i] = cmds[i + 1] /\ i + 1 \in 1..Len(cmds)
  BY HeadTailProperties DEF Types

-------------------------------------------------------------------------------
(* One lemma per action                                                          *)

\* Watching is a matter of the clock and of the viewer's own entry.
LEMMA WatchingEarlier ==
    ASSUME Types, NEW u \in Viewers, viewers'[u] = viewers[u], now' \in Nat, now <= now',
           Watching(u)'
    PROVE  Watching(u)
<1>1. Duration(viewers[u].asked) \in Nat /\ viewers[u].from \in Int /\ now \in Nat
  BY DurationIsNat DEF Types
<1>2. Duration(viewers'[u].asked) = Duration(viewers[u].asked)
  OBVIOUS
<1> QED BY <1>1, <1>2 DEF Watching, Duration

\* Steps that leave the backend, the entry and what is cut off alone.
LEMMA QuietStep ==
    ASSUME IInv, UNCHANGED <<backend, live, cut>>, now' \in Nat, now <= now',
           manual' \in Nat
    PROVE  IInv'
<1> USE DEF backend
<1>1. Types' /\ InSequence'
  BY DEF IInv, Types, InSequence
<1>2. Meanings'
  BY DEF IInv, Meanings, Served
<1>3. Covered'
  <2> SUFFICES ASSUME NEW u \in Viewers, Watching(u)', u \notin cut
               PROVE  Covers(live, u)'
    BY DEF Covered
  <2>1. Watching(u)
    BY WatchingEarlier DEF IInv
  <2> QED BY <2>1 DEF IInv, Covered, Covers, Duration
<1> QED BY <1>1, <1>2, <1>3 DEF IInv

\* A command is sent, and what it means agrees with who watches after it.
LEMMA CommandStep ==
    ASSUME IInv, NEW do \in Kinds, NEW u \in Viewers, NEW n \in Int,
           Command(do, u, n), UNCHANGED <<now, reader, observer>>,
           viewers' \in [Viewers -> [in : BOOLEAN, asked : Int, from : Int, command : Nat]],
           \A o \in Viewers : \/ viewers'[o] = viewers[o]
                              \/ viewers'[o] = Gone
                              \/ /\ do = "streaming" /\ o = u /\ ~viewers[o].in
                                 /\ viewers'[o] = [in |-> TRUE, asked |-> n, from |-> Pending,
                                                   command |-> sent + 1],
           do = "stop_streaming" => \A o \in Viewers : ~viewers'[o].in,
           do = "streaming" => viewers'[u].in /\ viewers'[u].command = sent + 1
                                 /\ viewers'[u].asked = n
    PROVE  IInv'
<1> DEFINE c == [do |-> do, by |-> u, value |-> n, id |-> sent + 1]
<1>1. /\ cmds' = Append(cmds, c) /\ sent' = sent + 1
      /\ c \in [do : Kinds, by : Viewers, value : Int, id : Nat]
  BY DEF Command, IInv, Types
<1>2. Types'
  BY <1>1 DEF IInv, Types, reader
<1>3. /\ Len(cmds') = Len(cmds) + 1 /\ Len(cmds) \in Nat
      /\ \A i \in 1..Len(cmds) : cmds'[i] = cmds[i]
      /\ cmds'[Len(cmds) + 1] = c
  BY <1>1, Appended DEF IInv, Types
<1>4. InSequence'
  <2>1. ASSUME NEW i \in 1..Len(cmds')
        PROVE  \/ /\ i \in 1..Len(cmds) /\ cmds'[i] = cmds[i]
                  /\ 0 < cmds[i].id /\ cmds[i].id <= sent /\ cmds[i].id \in Nat
               \/ i = Len(cmds) + 1 /\ cmds'[i].id = sent + 1
    <3>1. CASE i \in 1..Len(cmds)
      BY <1>3, <3>1, OnItsWay DEF IInv
    <3>2. CASE i = Len(cmds) + 1
      BY <1>3, <3>2
    <3> QED BY <1>3, <3>1, <3>2
  <2>2. \A i \in 1..Len(cmds') : 0 < cmds'[i].id /\ cmds'[i].id <= sent'
    <3>1. sent \in Nat /\ sent' = sent + 1
      BY <1>1 DEF IInv, Types
    <3> SUFFICES ASSUME NEW i \in 1..Len(cmds')
                 PROVE  0 < cmds'[i].id /\ cmds'[i].id <= sent'
      OBVIOUS
    <3>2. CASE cmds'[i].id = sent + 1
      BY <3>1, <3>2
    <3>3. CASE cmds'[i] = cmds[i] /\ 0 < cmds[i].id /\ cmds[i].id <= sent /\ cmds[i].id \in Nat
      <4>1. cmds'[i].id = cmds[i].id
        BY <3>3
      <4> QED BY <3>1, <3>3, <4>1
    <3> QED BY <2>1, <3>2, <3>3
  <2>3. ASSUME NEW i \in 1..Len(cmds'), NEW j \in 1..Len(cmds'), i < j
        PROVE  cmds'[i].id < cmds'[j].id
    <3>1. i \in 1..Len(cmds) /\ cmds'[i] = cmds[i] /\ cmds[i].id <= sent
          /\ cmds[i].id \in Nat /\ sent \in Nat
      BY <1>3, <2>3, OnItsWay DEF IInv
    <3>2. CASE j \in 1..Len(cmds)
      BY <1>3, <2>3, <3>1, <3>2 DEF IInv, InSequence
    <3>3. CASE j = Len(cmds) + 1
      BY <1>3, <3>1, <3>3
    <3> QED BY <1>3, <3>2, <3>3
  <2> QED BY <2>2, <2>3 DEF InSequence
<1>5. Meanings'
  <2> SUFFICES ASSUME NEW o \in Viewers
               PROVE  /\ ~viewers'[o].in => viewers'[o] = Gone
                      /\ viewers'[o].command <= sent'
                      /\ Served(o)' => \A i \in 1..Len(cmds') : viewers'[o].command < cmds'[i].id
                      /\ viewers'[o].in => \A i \in 1..Len(cmds') :
                           /\ cmds'[i].do = "stop_streaming" => cmds'[i].id < viewers'[o].command
                           /\ cmds'[i].do = "streaming" /\ cmds'[i].by = o =>
                                /\ cmds'[i].id <= viewers'[o].command
                                /\ cmds'[i].id = viewers'[o].command
                                     => cmds'[i].value = viewers'[o].asked
    BY DEF Meanings
  <2>1. CASE viewers'[o] = Gone
    BY <1>1, <2>1 DEF Gone, Served, IInv, Types
  <2>2. CASE viewers'[o] = viewers[o] /\ ~viewers'[o].in
    BY <1>1, <2>2, SMTT(30) DEF IInv, Meanings, Served, Types
  <2>3. CASE viewers'[o] = viewers[o] /\ viewers'[o].in
    <3>1. viewers[o].command <= sent /\ viewers[o].command \in Nat /\ sent \in Nat
      BY DEF IInv, Meanings, Types
    <3>2. ~(do = "streaming" /\ o = u) /\ do # "stop_streaming"
      BY <2>3, <3>1
    <3>3. ASSUME NEW i \in 1..Len(cmds')
          PROVE  \/ i \in 1..Len(cmds) /\ cmds'[i] = cmds[i]
                 \/ cmds'[i] = c
      BY <1>3
    <3>4. viewers'[o].command <= sent'
      BY <1>1, <2>3, <3>1
    <3>5. ASSUME Served(o)', NEW i \in 1..Len(cmds')
          PROVE  viewers'[o].command < cmds'[i].id
      <4>1. Served(o)
        BY <2>3, <3>5 DEF Served
      <4>2. CASE i \in 1..Len(cmds) /\ cmds'[i] = cmds[i]
        <5>1. viewers[o].command < cmds[i].id
          BY <4>1, <4>2 DEF IInv, Meanings
        <5> QED BY <2>3, <4>2, <5>1
      <4>3. CASE cmds'[i] = c
        BY <2>3, <3>1, <4>3
      <4> QED BY <3>3, <4>2, <4>3
    <3>6. ASSUME NEW i \in 1..Len(cmds')
          PROVE  /\ cmds'[i].do = "stop_streaming" => cmds'[i].id < viewers'[o].command
                 /\ cmds'[i].do = "streaming" /\ cmds'[i].by = o =>
                      /\ cmds'[i].id <= viewers'[o].command
                      /\ cmds'[i].id = viewers'[o].command => cmds'[i].value = viewers'[o].asked
      <4>1. CASE i \in 1..Len(cmds) /\ cmds'[i] = cmds[i]
        <5>1. viewers[o].in
          BY <2>3
        <5>2. /\ cmds[i].do = "stop_streaming" => cmds[i].id < viewers[o].command
              /\ cmds[i].do = "streaming" /\ cmds[i].by = o =>
                   /\ cmds[i].id <= viewers[o].command
                   /\ cmds[i].id = viewers[o].command => cmds[i].value = viewers[o].asked
          BY <4>1, <5>1 DEF IInv, Meanings
        <5> QED BY <2>3, <4>1, <5>2
      <4>2. CASE cmds'[i] = c
        BY <3>2, <4>2
      <4> QED BY <3>3, <4>1, <4>2
    <3> QED BY <2>3, <3>4, <3>5, <3>6
  <2>4. CASE /\ do = "streaming" /\ o = u
             /\ viewers'[o] = [in |-> TRUE, asked |-> n, from |-> Pending, command |-> sent + 1]
    <3>1. ASSUME NEW i \in 1..Len(cmds')
          PROVE  \/ cmds'[i].id < sent + 1
                 \/ cmds'[i] = c
      <4>1. cmds'[i] = c \/ i \in 1..Len(cmds)
        BY <1>3
      <4>2. CASE i \in 1..Len(cmds)
        <5>1. cmds[i].id \in Nat /\ cmds[i].id <= sent /\ sent \in Nat
          BY <4>2, OnItsWay DEF IInv
        <5>2. cmds'[i].id = cmds[i].id
          BY <1>3, <4>2
        <5> QED BY <5>1, <5>2
      <4> QED BY <4>1, <4>2
    <3>2. \A i \in 1..Len(cmds') :
            cmds'[i].id <= sent + 1 /\ (cmds'[i].id = sent + 1 => cmds'[i].value = n)
      <4>1. sent \in Nat
        BY DEF IInv, Types
      <4>2. ASSUME NEW i \in 1..Len(cmds') PROVE cmds'[i].id \in Nat
        <5>1. CASE i \in 1..Len(cmds)
          <6>1. cmds[i].id \in Nat /\ cmds'[i].id = cmds[i].id
            BY <1>3, <5>1, OnItsWay DEF IInv
          <6> QED BY <6>1
        <5>2. CASE i = Len(cmds) + 1
          <6>1. cmds'[i].id = sent + 1
            BY <1>3, <5>2
          <6> QED BY <4>1, <6>1
        <5> QED BY <1>3, <5>1, <5>2
      <4>3. ASSUME NEW i \in 1..Len(cmds'), cmds'[i] = c
            PROVE  cmds'[i].id = sent + 1 /\ cmds'[i].value = n
        BY <4>3
      <4>4. ASSUME NEW i \in 1..Len(cmds'), cmds'[i].id < sent + 1
            PROVE  cmds'[i].id <= sent + 1 /\ cmds'[i].id # sent + 1
        BY <4>1, <4>2, <4>4
      <4> HIDE DEF c
      <4> QED BY <3>1, <4>1, <4>3, <4>4
    <3>3. \A i \in 1..Len(cmds') :
            cmds'[i].do = "stop_streaming" => cmds'[i].id < sent + 1
      BY <2>4, <3>1
    <3>4. sent \in Nat /\ ~Served(o)'
      BY <2>4 DEF Served, IInv, Types
    <3> QED BY <1>1, <2>4, <3>2, <3>3, <3>4
  <2> QED BY <2>1, <2>2, <2>3, <2>4
<1>6. Covered'
  <2> SUFFICES ASSUME NEW o \in Viewers, Watching(o)', o \notin cut
               PROVE  Covers(live, o)'
    BY DEF Covered, reader
  <2>1. viewers'[o] = viewers[o]
    BY DEF Watching, Gone
  <2>2. Watching(o)
    BY <2>1, WatchingEarlier DEF IInv, Types
  <2> QED BY <2>1, <2>2 DEF IInv, Covered, Covers, Duration, reader
<1> QED BY <1>2, <1>4, <1>5, <1>6 DEF IInv

LEMMA WatchStep ==
    ASSUME IInv, NEW u \in Viewers, NEW n \in Requests, Watch(u, n)
    PROVE  IInv'
<1>1. n \in Int /\ sent + 1 \in Nat
  BY NumbersAssumption DEF IInv, Types
<1>2. viewers' \in [Viewers -> [in : BOOLEAN, asked : Int, from : Int, command : Nat]]
  BY <1>1 DEF Watch, IInv, Types, Pending
<1>3. /\ viewers'[u] = [in |-> TRUE, asked |-> n, from |-> Pending, command |-> sent + 1]
      /\ \A o \in Viewers \ {u} : viewers'[o] = viewers[o]
  BY DEF Watch, IInv, Types
<1> QED BY <1>1, <1>2, <1>3, CommandStep DEF Watch, Kinds

LEMMA LeaveStep ==
    ASSUME IInv, NEW u \in Viewers, Leave(u)
    PROVE  IInv'
<1>1. /\ viewers' \in [Viewers -> [in : BOOLEAN, asked : Int, from : Int, command : Nat]]
      /\ viewers'[u] = Gone
      /\ \A o \in Viewers \ {u} : viewers'[o] = viewers[o]
  BY DEF Leave, IInv, Types, Gone
<1>2. CASE \A o \in Viewers \ {u} : ~viewers[o].in
  <2>1. \A o \in Viewers : ~viewers'[o].in
    BY <1>1, <1>2 DEF Gone
  <2> QED BY <1>1, <1>2, <2>1, CommandStep DEF Leave, Kinds
<1>3. CASE UNCHANGED <<cmds, sent>>
  <2>1. Types' /\ InSequence'
    BY <1>1, <1>3 DEF IInv, Types, InSequence, Leave, reader
  <2>2. Meanings'
    <3>1. Gone.command = 0 /\ ~Gone.in /\ sent \in Nat
      BY DEF Gone, IInv, Types
    <3>2. ASSUME NEW o \in Viewers \ {u}, viewers'[o] = viewers[o]
          PROVE  Served(o)' <=> Served(o)
      BY <3>2 DEF Served
    <3> QED BY <1>1, <1>3, <3>1, <3>2, SMTT(30) DEF IInv, Meanings, Served
  <2>3. Covered'
    <3> SUFFICES ASSUME NEW o \in Viewers, Watching(o)', o \notin cut
                 PROVE  Covers(live, o)'
      BY DEF Covered, Leave, reader
    <3>1. viewers'[o] = viewers[o]
      BY <1>1 DEF Watching, Gone
    <3>2. Watching(o)
      BY <3>1, WatchingEarlier DEF IInv, Types, Leave
    <3> QED BY <3>1, <3>2 DEF IInv, Covered, Covers, Duration, Leave, reader
  <2> QED BY <2>1, <2>2, <2>3 DEF IInv
<1> QED BY <1>2, <1>3 DEF Leave

LEMMA AdjustStep ==
    ASSUME IInv, NEW do \in {"set", "revert"}, Adjust(do)
    PROVE  IInv'
<1> DEFINE u == CHOOSE u \in Viewers : TRUE
<1>1. u \in Viewers
  BY NumbersAssumption
<1>2. Command(do, u, 0) /\ UNCHANGED <<now, viewers, reader, observer>>
  BY DEF Adjust
<1> HIDE DEF u
<1>3. do \in Kinds /\ do # "streaming" /\ do # "stop_streaming" /\ 0 \in Int
  BY DEF Kinds
<1>4. viewers' \in [Viewers -> [in : BOOLEAN, asked : Int, from : Int, command : Nat]]
  BY <1>2 DEF IInv, Types
<1> QED BY <1>1, <1>2, <1>3, <1>4, CommandStep

\* A command is handled. What becomes of the entry and of the viewers is given by
\* the kind of the command.
LEMMA HandleStep ==
    ASSUME IInv, Handle
    PROVE  IInv'
<1> DEFINE c == Head(cmds)
<1>1. /\ Len(cmds) \in Nat \ {0} /\ c = cmds[1] /\ 1 \in 1..Len(cmds)
      /\ Len(cmds') = Len(cmds) - 1 /\ cmds' = Tail(cmds)
      /\ \A i \in 1..Len(cmds') : cmds'[i] = cmds[i + 1] /\ i + 1 \in 1..Len(cmds)
  BY Taken DEF Handle, IInv
<1>2. /\ c \in [do : Kinds, by : Viewers, value : Int, id : Nat]
      /\ cmds' \in Seq([do : Kinds, by : Viewers, value : Int, id : Nat])
  <2>1. c \in [do : Kinds, by : Viewers, value : Int, id : Nat]
    BY <1>1, OnItsWay DEF IInv
  <2>2. cmds' \in Seq([do : Kinds, by : Viewers, value : Int, id : Nat])
    BY <1>1, HeadTailProperties DEF IInv, Types, Handle
  <2> QED BY <2>1, <2>2
<1>3. \A i \in 1..Len(cmds') : c.id < cmds'[i].id
  BY <1>1 DEF IInv, InSequence
<1>4. InSequence'
  BY <1>1, SMTT(30) DEF IInv, InSequence, Handle
<1>5. UNCHANGED <<now, sent, observer>> /\ now \in Nat \ {0}
  BY DEF Handle, IInv, Types
<1> HIDE DEF c
\* Kinds of commands that do not touch the viewers.
<1>6. ASSUME UNCHANGED viewers, live' \in [on : BOOLEAN, until : Nat, count : Int],
             manual' \in Nat, cut' \subseteq Viewers, Covered'
      PROVE  IInv'
  <2>1. Types'
    BY <1>2, <1>5, <1>6 DEF IInv, Types
  <2>2. Meanings'
    BY <1>1, <1>5, <1>6 DEF IInv, Meanings, Served
  <2> QED BY <1>4, <1>6, <2>1, <2>2 DEF IInv
<1>7. ASSUME UNCHANGED viewers, NEW u \in Viewers, Watching(u)'
      PROVE  Watching(u)
  BY <1>5, <1>7, WatchingEarlier DEF IInv
<1>8. CASE c.do = "streaming"
  <2> DEFINE v == c.by
             d == Until(c.value)
  <2>1. /\ live' = Enabled(live, d) /\ cut' = cut \ {v} /\ UNCHANGED manual
        /\ viewers' = IF viewers[v].command = c.id
                      THEN [viewers EXCEPT ![v].from = now] ELSE viewers
    BY <1>8 DEF Handle, c
  <2>2. /\ v \in Viewers /\ c.value \in Int /\ Duration(c.value) \in Nat
        /\ d \in Nat /\ (Duration(c.value) = 0 => d = Forever)
        /\ (Duration(c.value) # 0 => d = now + Duration(c.value))
    <3>1. v \in Viewers /\ c.value \in Int
      BY <1>2 DEF IInv, Types
    <3>2. Duration(c.value) \in Nat
      BY <3>1, DurationIsNat
    <3> QED BY <1>5, <3>1, <3>2 DEF Until, Forever
  <2> HIDE DEF d, v
  <2>3. Types'
    <3>1. live' \in [on : BOOLEAN, until : Nat, count : Int]
      BY <2>1, <2>2, EnabledCovers DEF IInv
    <3>2. viewers' \in [Viewers -> [in : BOOLEAN, asked : Int, from : Int, command : Nat]]
      <4>1. viewers \in [Viewers -> [in : BOOLEAN, asked : Int, from : Int, command : Nat]]
        BY DEF IInv, Types
      <4>2. [viewers[v] EXCEPT !.from = now]
              \in [in : BOOLEAN, asked : Int, from : Int, command : Nat]
        BY <1>5, <2>2, <4>1
      <4>3. viewers' = IF viewers[v].command = c.id
                       THEN [viewers EXCEPT ![v] = [viewers[v] EXCEPT !.from = now]]
                       ELSE viewers
        BY <2>1
      <4> QED BY <4>1, <4>2, <4>3
    <3> QED BY <1>2, <1>5, <2>1, <3>1, <3>2 DEF IInv, Types
  <2>4. /\ 0 < c.id /\ viewers[v].command \in Nat /\ c.id \in Nat
        /\ ~viewers[v].in => viewers[v].command = 0
        /\ viewers[v].in => /\ c.id <= viewers[v].command
                            /\ c.id = viewers[v].command => c.value = viewers[v].asked
        /\ Served(v) => viewers[v].command < c.id
    <3>1. 0 < c.id /\ c.id \in Nat
      BY <1>1, OnItsWay DEF IInv
    <3>2. viewers[v].command \in Nat /\ (~viewers[v].in => viewers[v].command = 0)
      BY <2>2 DEF IInv, Types, Meanings, Gone
    <3>3. Served(v) => viewers[v].command < c.id
      BY <1>1, <2>2 DEF IInv, Meanings
    <3>4. c.by = v
      BY DEF v
    <3> QED BY <1>1, <1>8, <2>2, <3>1, <3>2, <3>3, <3>4 DEF IInv, Meanings
  <2>5. \A o \in Viewers : /\ viewers'[o].in = viewers[o].in
                           /\ viewers'[o].command = viewers[o].command
                           /\ viewers'[o].asked = viewers[o].asked
                           /\ viewers'[o] = viewers[o]
                              \/ /\ o = v /\ viewers[o].in /\ viewers[o].command = c.id
                                 /\ viewers'[o].from = now
    <3>1. /\ viewers \in [Viewers -> [in : BOOLEAN, asked : Int, from : Int, command : Nat]]
          /\ v \in Viewers
      BY <2>2 DEF IInv, Types
    <3>2. CASE viewers' = viewers
      BY <3>2
    <3>3. CASE viewers[v].command = c.id /\ viewers' = [viewers EXCEPT ![v].from = now]
      <4>1. viewers[v].in
        BY <2>4, <3>3
      <4>2. ASSUME NEW o \in Viewers, o # v PROVE viewers'[o] = viewers[o]
        BY <3>1, <3>3, <4>2
      <4>3. /\ viewers'[v].in = viewers[v].in /\ viewers'[v].command = viewers[v].command
            /\ viewers'[v].asked = viewers[v].asked /\ viewers'[v].from = now
        BY <3>1, <3>3
      <4> QED BY <3>3, <4>1, <4>2, <4>3
    <3> QED BY <2>1, <3>2, <3>3
  <2>6. Meanings'
    <3> SUFFICES ASSUME NEW o \in Viewers
                 PROVE  /\ ~viewers'[o].in => viewers'[o] = Gone
                        /\ viewers'[o].command <= sent'
                        /\ Served(o)' => \A i \in 1..Len(cmds') :
                             viewers'[o].command < cmds'[i].id
                        /\ viewers'[o].in => \A i \in 1..Len(cmds') :
                             /\ cmds'[i].do = "stop_streaming"
                                  => cmds'[i].id < viewers'[o].command
                             /\ cmds'[i].do = "streaming" /\ cmds'[i].by = o =>
                                  /\ cmds'[i].id <= viewers'[o].command
                                  /\ cmds'[i].id = viewers'[o].command
                                       => cmds'[i].value = viewers'[o].asked
      BY DEF Meanings
    <3>1. Served(o)' => Served(o) \/ viewers'[o].command = c.id
      BY <2>5 DEF Served
    <3> QED BY <1>1, <1>3, <1>5, <2>5, <3>1 DEF IInv, Meanings
  <2>7. Covered'
    <3> SUFFICES ASSUME NEW o \in Viewers, Watching(o)', o \notin cut'
                 PROVE  Covers(live, o)'
      BY DEF Covered
    <3>1. CASE viewers'[o] = viewers[o]
      <4>1. Watching(o)
        BY <1>5, <3>1, WatchingEarlier DEF IInv
      <4>2. o # v
        BY <2>4, <4>1 DEF Watching, Served, Pending
      <4>3. Covers(live, o)
        BY <2>1, <4>1, <4>2 DEF IInv, Covered
      <4>4. Covers(Enabled(live, d), o)
        BY <2>2, <4>3, EnabledKeeps DEF IInv
      <4> QED BY <2>1, <3>1, <4>4 DEF Covers, Duration
    <3>2. CASE /\ o = v /\ viewers[o].in /\ viewers[o].command = c.id
               /\ viewers'[o].from = now
      <4>1. viewers'[o].asked = c.value
        BY <2>4, <2>5, <3>2
      <4>2. Duration(viewers'[o].asked) = Duration(c.value)
        BY <4>1
      <4>3. live'.on /\ (live'.until = Forever \/ (d # Forever /\ d <= live'.until))
        BY <2>1, <2>2, EnabledCovers DEF IInv
      <4> QED BY <2>2, <3>2, <4>2, <4>3 DEF Covers, Duration
    <3> QED BY <2>5, <3>1, <3>2
  <2> QED BY <1>4, <2>3, <2>6, <2>7 DEF IInv
<1>9. CASE c.do = "stop_streaming"
  <2>1. live' = Off /\ UNCHANGED <<viewers, manual, cut>>
    BY <1>9 DEF Handle, c
  <2>2. ASSUME NEW u \in Viewers PROVE ~Watching(u)
    <3>1. viewers[u].command \in Nat /\ c.id \in Nat
      BY <1>2 DEF IInv, Types
    <3>2. Served(u) => viewers[u].command < c.id
      BY <1>1 DEF IInv, Meanings
    <3>3. viewers[u].in => c.id < viewers[u].command
      BY <1>1, <1>9 DEF IInv, Meanings
    <3> QED BY <3>1, <3>2, <3>3 DEF Watching, Served
  <2>3. Covered'
    BY <1>7, <2>1, <2>2 DEF Covered
  <2> QED BY <1>6, <2>1, <2>3 DEF IInv, Types, Off, Forever
<1>10. CASE c.do = "set"
  <2>1. manual' = now + ManualLive /\ UNCHANGED <<viewers, live, cut>>
    BY <1>10 DEF Handle, c
  <2>2. ASSUME NEW u \in Viewers, Watching(u)', u \notin cut'
        PROVE  Covers(live, u)'
    <3>1. Watching(u)
      BY <1>7, <2>1, <2>2
    <3> QED BY <2>1, <2>2, <3>1 DEF IInv, Covered, Covers, Duration
  <2>3. /\ live' \in [on : BOOLEAN, until : Nat, count : Int]
        /\ manual' \in Nat /\ cut' \subseteq Viewers
    BY NumbersAssumption, <1>5, <2>1 DEF IInv, Types
  <2>4. Covered'
    BY <2>1, <2>2 DEF Covered
  <2> QED BY <1>6, <2>1, <2>3, <2>4
<1>11. CASE c.do = "revert"
  <2>1. /\ manual' = 0 /\ live' = Off /\ UNCHANGED viewers
        /\ cut' = {u \in Viewers : viewers[u].in}
    BY <1>11 DEF Handle, c
  <2>2. Covered'
    BY <2>1 DEF Covered, Watching
  <2> QED BY <1>6, <2>1, <2>2 DEF Off, Forever
<1> QED BY <1>2, <1>8, <1>9, <1>10, <1>11 DEF Kinds

\* The observer drops an entry that is over, and only counts frames otherwise.
LEMMA ShowStep ==
    ASSUME IInv, Show
    PROVE  IInv'
<1>1. UNCHANGED <<now, backend, manual, cut>>
  BY DEF Show
<1>2. \/ live' = live
      \/ live' = Off /\ (~live.on \/ Over(live))
      \/ live' = [live EXCEPT !.count = (live.count + 1) % EveryN]
  BY DEF Show
<1>3. (live.count + 1) % EveryN \in Int
  <2>1. live.count \in Int
    BY DEF IInv, Types
  <2>2. EveryN \in Nat \ {0}
    BY NumbersAssumption
  <2> QED BY <2>1, <2>2
<1>4. Types'
  <2>1. live' \in [on : BOOLEAN, until : Nat, count : Int]
    <3>1. live \in [on : BOOLEAN, until : Nat, count : Int]
      BY DEF IInv, Types
    <3>2. Off \in [on : BOOLEAN, until : Nat, count : Int]
      BY DEF Off, Forever
    <3> DEFINE n == (live.count + 1) % EveryN
    <3>3. [live EXCEPT !.count = n] \in [on : BOOLEAN, until : Nat, count : Int]
      <4> HIDE DEF n
      <4>1. n \in Int
        BY <1>3 DEF n
      <4> QED BY <3>1, <4>1
    <3> QED BY <1>2, <3>1, <3>2, <3>3
  <2> QED BY <1>1, <2>1 DEF IInv, Types, backend
<1>5. Meanings' /\ InSequence'
  BY <1>1 DEF IInv, Meanings, InSequence, Served, backend
<1>6. Covered'
  <2> SUFFICES ASSUME NEW u \in Viewers, Watching(u)', u \notin cut'
               PROVE  Covers(live, u)'
    BY DEF Covered
  <2>1. Watching(u) /\ Covers(live, u)
    BY <1>1, WatchingEarlier DEF IInv, Types, backend, Covered
  <2>2. ~Over(live)
    <3>1. /\ Duration(viewers[u].asked) \in Nat /\ viewers[u].from \in Int
          /\ now \in Nat /\ live.until \in Nat
      BY DurationIsNat DEF IInv, Types
    <3> QED BY <2>1, <3>1 DEF Covers, Watching, Over
  <2>3. live'.on = live.on /\ live'.until = live.until
    BY <1>2, <2>1, <2>2 DEF Covers, IInv, Types
  <2> QED BY <1>1, <2>1, <2>3 DEF Covers, Duration, backend
<1> QED BY <1>4, <1>5, <1>6 DEF IInv

-------------------------------------------------------------------------------
(* Theorems                                                                      *)

LEMMA Start == Init => IInv
<1> SUFFICES ASSUME Init PROVE IInv
  OBVIOUS
<1>1. Types
  BY DEF Init, Types, Gone, Off, Forever
<1>2. InSequence /\ Meanings /\ Covered
  BY DEF Init, InSequence, Meanings, Served, Covered, Watching, Gone
<1> QED BY <1>1, <1>2 DEF IInv

LEMMA Step == IInv /\ [Next]_vars => IInv'
<1> SUFFICES ASSUME IInv, [Next]_vars PROVE IInv'
  OBVIOUS
<1>1. CASE Tick \/ Frame \/ UNCHANGED vars
  <2>1. UNCHANGED <<backend, live, cut>> /\ now' \in Nat /\ now <= now' /\ manual' \in Nat
    BY <1>1 DEF Tick, Frame, vars, reader, IInv, Types
  <2> QED BY <2>1, QuietStep
<1>2. CASE \E u \in Viewers : Leave(u) \/ \E n \in Requests : Watch(u, n)
  BY <1>2, LeaveStep, WatchStep
<1>3. CASE Adjust("set") \/ Adjust("revert")
  BY <1>3, AdjustStep
<1> QED BY <1>1, <1>2, <1>3, HandleStep, ShowStep DEF Next

LEMMA Enough == IInv => ViewersServed
<1> SUFFICES ASSUME IInv, NEW u \in Viewers, Watching(u), u \notin cut
             PROVE  live.on /\ ~Over(live)
  BY DEF ViewersServed
<1>1. Covers(live, u)
  BY DEF IInv, Covered
<1>2. /\ Duration(viewers[u].asked) \in Nat /\ viewers[u].from \in Int
      /\ now \in Nat /\ live.until \in Nat
  BY DurationIsNat DEF IInv, Types
<1> QED BY <1>1, <1>2 DEF Covers, Watching, Over

\* IInv is an invariant of the specification.
THEOREM Invariance == Spec => []IInv
  BY Start, Step, PTL DEF Spec

\* Everybody who watches is served for as long as he asked, unless a revert of
\* manual control has cut him off (enableLive, onFrame, onCommand).
THEOREM EverybodyServed == Spec => []ViewersServed
  BY Invariance, Enough, PTL

-------------------------------------------------------------------------------
(* What is handed on for the passes                                              *)

Names == Texts \cup {Plates!Unknown}

Passes ==
    [pass : 1..MaxPasses, gate : Gates, id : TrackIds \cup {Plates!NoTrack}, last : Nat,
     sent : BOOLEAN, consensus : Names, lastSent : Names, bestSize : Nat, best : Names,
     votes : [Texts -> Nat], reads : Nat]

PassTypes ==
    /\ readNow \in Nat /\ passes \in Nat /\ tracks \subseteq Passes
    /\ emitted \in [1..MaxPasses -> Names]

\* A pass is remembered once, under a number given before.
OneTrackPerPass ==
    /\ \A t \in tracks : t.pass <= passes
    /\ \A t, o \in tracks : t.pass = o.pass => t = o

\* What was sent last is what the pass is believed to be, and it has the most weight.
Shown(t) ==
    /\ t.sent /\ emitted[t.pass] = t.consensus /\ t.lastSent = t.consensus
    /\ t.consensus \in Plates!Heaviest(t.votes)
    /\ t.best \in Texts /\ t.votes[t.best] >= t.bestSize

PlateInv == PassTypes /\ OneTrackPerPass /\ \A t \in tracks : Shown(t)

\* What the model assumes of the numbers.
LEMMA PlateNumbers == Sizes \subseteq Nat \ {0} /\ MaxPasses \in Nat
  BY PlatesAssumption DEF Plates!NumbersAssumption

LEMMA PlateInit == Plates!Init => PlateInv
  BY PlateNumbers DEF Plates!Init, PlateInv, PassTypes, OneTrackPerPass, Names

\* A read adds its weight to its text.
LEMMA ReadAdds ==
    ASSUME NEW t \in Passes, NEW text \in Texts, NEW size \in Sizes, readNow \in Nat,
           NEW winner \in Texts,
           (t.best \in Texts /\ t.votes[t.best] >= t.bestSize) \/ t.bestSize = 0
    PROVE  LET n == Plates!Read(t, text, size, winner) IN
           /\ n \in Passes /\ n.pass = t.pass /\ n.sent = t.sent /\ n.lastSent = t.lastSent
           /\ n.consensus = winner /\ n.votes = Plates!Voted(t.votes, text, size)
           /\ n.best \in Texts /\ n.votes[n.best] >= n.bestSize
<1> DEFINE n == Plates!Read(t, text, size, winner)
           v == Plates!Voted(t.votes, text, size)
<1>1. size \in Nat \ {0}
  BY PlateNumbers
<1>2. t.votes \in [Texts -> Nat] /\ t.bestSize \in Nat /\ t.reads \in Nat
  BY DEF Passes
<1>3. /\ v \in [Texts -> Nat] /\ v[text] = t.votes[text] + size
      /\ \A o \in Texts : v[o] >= t.votes[o]
  BY <1>1, <1>2 DEF Plates!Voted
<1>4. /\ n = [t EXCEPT !.last = readNow, !.reads = t.reads + 1, !.votes = v,
                       !.consensus = winner,
                       !.best = IF size > t.bestSize THEN text ELSE t.best,
                       !.bestSize = IF size > t.bestSize THEN size ELSE t.bestSize]
  BY DEF Plates!Read
<1> HIDE DEF n, v
<1>5. /\ n.pass = t.pass /\ n.sent = t.sent /\ n.lastSent = t.lastSent
      /\ n.consensus = winner /\ n.votes = v
      /\ n.best = (IF size > t.bestSize THEN text ELSE t.best)
      /\ n.bestSize = (IF size > t.bestSize THEN size ELSE t.bestSize)
  BY <1>4 DEF Passes
<1>6. n \in Passes
  <2> DEFINE b == IF size > t.bestSize THEN text ELSE t.best
             z == IF size > t.bestSize THEN size ELSE t.bestSize
  <2>1. b \in Names /\ z \in Nat /\ winner \in Names /\ t.reads + 1 \in Nat
    BY <1>1, <1>2 DEF Passes, Names
  <2>2. n = [t EXCEPT !.last = readNow, !.reads = t.reads + 1, !.votes = v,
                      !.consensus = winner, !.best = b, !.bestSize = z]
    BY <1>4
  <2> HIDE DEF b, z
  <2> QED BY <1>3, <2>1, <2>2 DEF Passes
<1>7. n.best \in Texts /\ v[n.best] >= n.bestSize
  BY <1>1, <1>2, <1>3, <1>5
<1> QED BY <1>5, <1>6, <1>7 DEF n, v

LEMMA ProcessStep ==
    ASSUME PlateInv, NEW gate \in Gates, NEW id \in TrackIds \cup {Plates!NoTrack},
           NEW text \in Texts, NEW size \in Sizes, Plates!Process(gate, id, text, size)
    PROVE  PlateInv'
<1> DEFINE found == Plates!Resolve(gate, id, text)
           kept == Plates!Remembered
<1>1. found \subseteq kept /\ kept \subseteq tracks
  BY DEF Plates!Resolve, Plates!Remembered
<1>2. PICK t \in IF found = {} THEN {Plates!NewPass(gate, id)} ELSE found :
        /\ t.pass <= MaxPasses
        /\ passes' = (IF found = {} THEN passes + 1 ELSE passes)
        /\ \E winner \in Plates!Heaviest(Plates!Voted(t.votes, text, size)) :
             LET n == Plates!Read(t, text, size, winner) IN
             /\ tracks' = (kept \ {t}) \cup {[n EXCEPT !.sent = TRUE,
                             !.lastSent = IF Plates!Known(n) THEN n.lastSent ELSE winner]}
             /\ emitted' = IF Plates!Known(n) THEN emitted ELSE [emitted EXCEPT ![n.pass] = winner]
        /\ readNow' = readNow
  BY DEF Plates!Process
<1> HIDE DEF found, kept
<1>3. PICK winner \in Plates!Heaviest(Plates!Voted(t.votes, text, size)) :
        LET n == Plates!Read(t, text, size, winner) IN
        /\ tracks' = (kept \ {t}) \cup {[n EXCEPT !.sent = TRUE,
                        !.lastSent = IF Plates!Known(n) THEN n.lastSent ELSE winner]}
        /\ emitted' = IF Plates!Known(n) THEN emitted ELSE [emitted EXCEPT ![n.pass] = winner]
  BY <1>2
<1> DEFINE n == Plates!Read(t, text, size, winner)
           m == [n EXCEPT !.sent = TRUE,
                          !.lastSent = IF Plates!Known(n) THEN n.lastSent ELSE winner]
<1>4. /\ PassTypes /\ \A o \in tracks : Shown(o) /\ o.pass <= passes
      /\ \A o, q \in tracks : o.pass = q.pass => o = q
  BY DEF PlateInv, OneTrackPerPass
<1>5. /\ t \in Passes /\ t.pass \in 1..MaxPasses
      /\ (t.best \in Texts /\ t.votes[t.best] >= t.bestSize) \/ t.bestSize = 0
      /\ t.pass <= passes' /\ \A o \in kept \ {t} : o.pass # t.pass
      /\ t.sent => emitted[t.pass] = t.lastSent
  <2>1. CASE found = {}
    <3>1. t = Plates!NewPass(gate, id)
      BY <1>2, <2>1
    <3>2. t.pass = passes + 1 /\ t.bestSize = 0 /\ ~t.sent
      BY <3>1 DEF Plates!NewPass
    <3>3. t.pass \in 1..MaxPasses
      BY <1>2, <1>4, <3>2, PlateNumbers DEF PassTypes
    <3>4. t \in Passes
      BY <1>4, <3>1, <3>2, <3>3 DEF Plates!NewPass, Passes, PassTypes, Names
    <3>5. passes' = passes + 1 /\ \A o \in kept : o.pass # t.pass
      BY <1>1, <1>2, <1>4, <2>1, <3>2 DEF PassTypes, Passes
    <3> QED BY <3>2, <3>3, <3>4, <3>5
  <2>2. CASE found # {}
    <3>1. t \in tracks /\ passes' = passes
      BY <1>1, <1>2, <2>2
    <3>2. t \in Passes
      BY <1>4, <3>1 DEF PassTypes
    <3>3. \A o \in kept \ {t} : o.pass # t.pass
      BY <1>1, <1>4, <3>1
    <3> QED BY <1>4, <3>1, <3>2, <3>3 DEF Shown, Passes
  <2> QED BY <2>1, <2>2
<1>6. winner \in Texts /\ winner \in Plates!Heaviest(Plates!Voted(t.votes, text, size))
  BY <1>3 DEF Plates!Heaviest
<1>7. /\ n \in Passes /\ n.pass = t.pass /\ n.sent = t.sent /\ n.lastSent = t.lastSent
      /\ n.consensus = winner /\ n.votes = Plates!Voted(t.votes, text, size)
      /\ n.best \in Texts /\ n.votes[n.best] >= n.bestSize
  BY <1>4, <1>5, <1>6, ReadAdds DEF PassTypes
<1>8. tracks' = (kept \ {t}) \cup {m}
      /\ emitted' = IF Plates!Known(n) THEN emitted ELSE [emitted EXCEPT ![n.pass] = winner]
  BY <1>3
<1>9. Plates!Known(n) <=> t.sent /\ winner = t.lastSent
  BY <1>7 DEF Plates!Known
<1> HIDE DEF n
<1>10. /\ m \in Passes /\ m.pass = t.pass /\ m.sent /\ m.lastSent = winner
       /\ m.consensus = winner /\ m.votes = n.votes /\ m.best = n.best
       /\ m.bestSize = n.bestSize
  BY <1>6, <1>7, <1>9 DEF Passes, Names
<1> HIDE DEF m
<1>11. emitted' \in [1..MaxPasses -> Names] /\ emitted'[t.pass] = winner
       /\ \A o \in kept \ {t} : emitted'[o.pass] = emitted[o.pass]
  <2>1. emitted \in [1..MaxPasses -> Names] /\ winner \in Names
    BY <1>4, <1>6 DEF PassTypes, Names
  <2>2. emitted' = [emitted EXCEPT ![t.pass] = winner]
    BY <1>5, <1>7, <1>8, <1>9, <2>1
  <2>3. \A o \in kept \ {t} : o.pass # t.pass /\ o.pass \in 1..MaxPasses
    BY <1>1, <1>4, <1>5 DEF PassTypes, Passes
  <2> QED BY <1>5, <2>1, <2>2, <2>3
<1>12. PassTypes'
  <2>1. passes' \in Nat
    BY <1>2, <1>4 DEF PassTypes
  <2>2. tracks' \subseteq Passes
    BY <1>1, <1>4, <1>8, <1>10 DEF PassTypes
  <2> QED BY <1>2, <1>4, <1>11, <2>1, <2>2 DEF PassTypes, Names, Passes
<1>13. OneTrackPerPass'
  <2>1. passes \in Nat /\ (passes' = passes \/ passes' = passes + 1)
    BY <1>2, <1>4 DEF PassTypes
  <2>2. \A o \in kept : o.pass <= passes'
    BY <1>1, <1>4, <2>1 DEF PassTypes, Passes
  <2> QED BY <1>1, <1>4, <1>5, <1>8, <1>10, <2>2 DEF OneTrackPerPass
<1>14. ASSUME NEW o \in tracks' PROVE Shown(o)'
  <2>1. CASE o = m
    BY <1>6, <1>7, <1>10, <1>11, <2>1 DEF Shown
  <2>2. CASE o \in kept \ {t}
    BY <1>1, <1>4, <1>11, <2>2 DEF Shown
  <2> QED BY <1>8, <2>1, <2>2
<1> QED BY <1>12, <1>13, <1>14 DEF PlateInv

\* Every step keeps the invariant.
LEMMA PlateStep == PlateInv /\ [Plates!Next]_plateVars => PlateInv'
<1> SUFFICES ASSUME PlateInv, [Plates!Next]_plateVars PROVE PlateInv'
  OBVIOUS
<1>1. CASE Plates!Advance
  BY <1>1 DEF Plates!Advance, PlateInv, PassTypes, OneTrackPerPass, Shown
<1>2. CASE Plates!SetConfig
  BY <1>2 DEF Plates!SetConfig, PlateInv, PassTypes, OneTrackPerPass, Shown
<1>3. ASSUME NEW gate \in Gates, NEW id \in TrackIds \cup {Plates!NoTrack},
             NEW text \in Texts, NEW size \in Sizes,
             Plates!Process(gate, id, text, size)
      PROVE  PlateInv'
  BY <1>3, ProcessStep
<1>4. CASE UNCHANGED plateVars
  BY <1>4 DEF plateVars, PlateInv, PassTypes, OneTrackPerPass, Shown
<1> QED BY <1>1, <1>2, <1>3, <1>4 DEF Plates!Next

\* So the invariant holds in every reachable state of the services.
LEMMA PlatesHold == ServicesSpec => []PlateInv
<1>1. ServicesInit => PlateInv
  BY PlateInit DEF ServicesInit
<1>2. PlateInv /\ [ServicesNext]_<<part, vars, fileVars, plateVars>> => PlateInv'
  <2>1. ServicesNext => [Plates!Next]_plateVars
    BY DEF ServicesNext, Records, Shows, Reads
  <2> QED BY <2>1, PlateStep
<1> QED BY <1>1, <1>2, PTL DEF ServicesSpec

\* What was last handed on for a pass has the most weight behind it, after every read
\* and in whatever order the reads came (PlateProcessor).
THEOREM EmittedAreVotes == ServicesSpec => []EmittedIsVote
<1>1. PlateInv => EmittedIsVote
  BY DEF PlateInv, Shown, EmittedIsVote, Plates!EmittedIsVote
<1> QED BY <1>1, PlatesHold, PTL

-------------------------------------------------------------------------------
(* The segments: the inductive invariant                                         *)

Recs == [id : 1..MaxRecs, at : Nat, seg : Nat, since : Nat, until : Nat, open : BOOLEAN]

FileNames == [gate : Gates, at : Nat, seg : Nat]
Written == [gate : Gates, at : Nat, seg : Nat, rec : Nat, mtime : Nat]
Segments == [path : FileNames, rec : Nat]

FileTypes ==
    /\ recs \in [Gates -> Recs \cup {Files!NoRec}] /\ made \in 0..MaxRecs
    /\ fileNow \in 1..FileTime /\ reported \in Seq(Segments)
    /\ disk \subseteq Written /\ items \subseteq Written /\ active \subseteq Files!Paths
    /\ wd \in {"wait", "snap", "scan", "age", "size", "floor", "dirs"}
    /\ app \in {"up", "down", "joined", "gone"} /\ lastPrune \in Nat
    /\ app \in {"joined", "gone"} => wd = "wait"

\* A recording rolls over at most once a second; two have different numbers.
RecsOk ==
    /\ \A g \in Gates : Files!Recording(g) =>
          /\ recs[g].id <= made /\ recs[g].since <= fileNow
          /\ recs[g].at + recs[g].seg <= recs[g].since
          /\ recs[g].seg = 0 => recs[g].since = recs[g].at
          /\ recs[g].until # 0 => recs[g].at < recs[g].until
    /\ \A g, h \in Gates :
          Files!Recording(g) /\ Files!Recording(h) /\ recs[g].id = recs[h].id => g = h

\* What a file that is on the disk or listed has to do with the recording of its gate:
\* only the first segment of an earlier one can have a name of the present one, and
\* the present one has written no further than it is.
Beside(f, r) ==
    /\ f.rec <= r.id
    /\ f.at = r.at /\ f.seg > 0 => f.rec = r.id
    /\ f.rec = r.id => f.at = r.at /\ (f.seg < r.seg \/ (f.seg = r.seg /\ r.open))

FilesOk ==
    /\ \A f \in disk \cup items :
          /\ f.at + f.seg <= f.mtime /\ f.mtime <= fileNow /\ f.rec <= made
          /\ Files!Recording(f.gate) => Beside(f, recs[f.gate])
    /\ \A f, h \in disk : Files!Path(f) = Files!Path(h) => f = h
    /\ \A f \in disk :
          Files!Recording(f.gate) /\ recs[f.gate].open
             /\ Files!Path(f) = Files!segmentPath(f.gate, recs[f.gate])
          => f.rec = recs[f.gate].id

\* What was announced is behind what is recorded, and different.
ReportedOk ==
    /\ \A i \in 1..Len(reported) : reported[i].rec <= made
    /\ \A i, j \in 1..Len(reported) : reported[i] = reported[j] => i = j
    /\ \A i \in 1..Len(reported), g \in Gates :
          Files!Recording(g) /\ reported[i].rec = recs[g].id
             => reported[i].path.seg < recs[g].seg

Announced(f) ==
    \E i \in 1..Len(reported) : reported[i] = [path |-> Files!Path(f), rec |-> f.rec]
DiskAnnounced == \A f \in disk : Files!Path(f) \in Files!OpenPaths \/ Announced(f)

\* The list of the pass has no segment of its snapshot, and the pass is short.
PassOk ==
    /\ \A f \in items : Files!Path(f) \notin active
    /\ wd \in {"wait", "snap", "scan"} => items = {}
    /\ wd # "wait" =>
          /\ lastPrune <= fileNow
          /\ RetentionDays > 0 => \/ fileNow = lastPrune
                                  \/ fileNow + SegmentSeconds <= lastPrune + RetentionDays + 1

\* A segment that is open and was not when the pass began was not old then.
Late(g) ==
    /\ Files!Recording(g) /\ recs[g].open
    /\ Files!segmentPath(g, recs[g]) \notin active

OpenedLate ==
    \A g \in Gates : Late(g) =>
       /\ wd = "scan" => \A f \in disk :
            Files!Path(f) = Files!segmentPath(g, recs[g]) => f.mtime >= lastPrune
       /\ wd = "age" => \A f \in items :
            Files!Path(f) = Files!segmentPath(g, recs[g])
               => f.mtime + SegmentSeconds > lastPrune

FileInv ==
    /\ FileTypes /\ RecsOk /\ FilesOk /\ ReportedOk /\ DiskAnnounced /\ PassOk
    /\ OpenedLate

-------------------------------------------------------------------------------
(* Closing segments                                                              *)

\* The two instances of the standard module are one.
LEMMA SameFinite == ASSUME NEW S PROVE Files!IsFiniteSet(S) <=> IsFiniteSet(S)
  BY DEF IsFiniteSet, Files!IsFiniteSet

LEMMA SameCardinality == ASSUME NEW S PROVE Files!Cardinality(S) = Cardinality(S)
  BY DEF Cardinality, Files!Cardinality, IsFiniteSet, Files!IsFiniteSet

\* What the model assumes of the configuration.
LEMMA FileNumbers ==
    /\ Durations \subseteq Nat /\ SegmentSeconds \in Nat \ {0} /\ RetentionDays \in Nat
    /\ MaxRecs \in Nat /\ FileTime \in Nat \ {0} /\ IsFiniteSet(Gates)
    /\ RetentionDays > 0 => SegmentSeconds <= RetentionDays
  BY FilesAssumption, SameFinite DEF Files!ConfigAssumption

\* A recording has all its fields.
LEMMA RecordingIs ==
    ASSUME FileTypes, NEW g \in Gates, Files!Recording(g)
    PROVE  /\ recs[g] \in Recs /\ recs[g].id \in Nat \ {0} /\ recs[g].at \in Nat
           /\ recs[g].seg \in Nat /\ recs[g].since \in Nat /\ recs[g].until \in Nat
           /\ recs[g].open \in BOOLEAN
<1>1. recs[g] \in Recs
  BY DEF FileTypes, Files!Recording
<1> QED BY <1>1, FileNumbers DEF Recs

\* q announces the open segments of the gates of gs, each once.
Closes(gs, q) ==
    /\ q \in Seq(Segments)
    /\ \A i \in 1..Len(q) : \E g \in gs :
          Files!Recording(g) /\ recs[g].open /\ q[i] = Files!Segment(g, recs[g])
    /\ \A i, j \in 1..Len(q) : q[i] = q[j] => i = j
    /\ \A g \in gs : recs[g].open => \E i \in 1..Len(q) : q[i] = Files!Segment(g, recs[g])

LEMMA SegmentIs ==
    ASSUME FileTypes, NEW g \in Gates, Files!Recording(g)
    PROVE  /\ Files!Segment(g, recs[g]) \in Segments
           /\ Files!Segment(g, recs[g]).rec = recs[g].id
           /\ Files!Segment(g, recs[g]).path = Files!segmentPath(g, recs[g])
           /\ Files!segmentPath(g, recs[g]).gate = g
           /\ Files!segmentPath(g, recs[g]).at = recs[g].at
           /\ Files!segmentPath(g, recs[g]).seg = recs[g].seg
           /\ Files!segmentPath(g, recs[g]) \in FileNames
  BY RecordingIs DEF Segments, FileNames, Files!Segment, Files!segmentPath

\* One segment ...
LEMMA CloseOne ==
    ASSUME FileTypes, NEW g \in Gates, Files!Recording(g)
    PROVE  Closes({g}, Files!closeSegment(g, recs[g]))
<1> DEFINE s == Files!Segment(g, recs[g])
<1>1. s \in Segments
  BY SegmentIs
<1>2. Files!closeSegment(g, recs[g]) = IF recs[g].open THEN <<s>> ELSE <<>>
  BY DEF Files!closeSegment, Files!Segment
<1> HIDE DEF s
<1>3. CASE recs[g].open
  <2>1. <<s>> \in Seq(Segments) /\ Len(<<s>>) = 1 /\ <<s>>[1] = s
    BY <1>1
  <2>2. s = Files!Segment(g, recs[g])
    BY DEF s
  <2> QED BY <1>2, <1>3, <2>1, <2>2 DEF Closes
<1>4. CASE ~recs[g].open
  BY <1>2, <1>4 DEF Closes
<1> QED BY <1>3, <1>4

\* ... and those of several gates (closeExpiredLocked, the destructor).
LEMMA CloseMany ==
    ASSUME FileTypes, NEW gs \in SUBSET Gates, \A g \in gs : Files!Recording(g)
    PROVE  Closes(gs, Files!ClosingOf(gs))
<1> DEFINE C == {g \in gs : recs[g].open}
           c == Files!SetToSeq(C)
           n == Cardinality(C)
<1>1. IsFiniteSet(C) /\ n \in Nat
  BY FileNumbers, FS_Subset, FS_CardinalityType
<1>2. c \in [1..n -> C] /\ Files!IsInjective(c)
  <2>1. \E f \in [1..n -> C] : Files!IsInjective(f)
    <3>1. PICK f : f \in Bijection(1..n, C)
      BY <1>1, FS_CardinalityType DEF ExistsBijection
    <3> QED BY <3>1 DEF Bijection, Injection, IsInjective, Files!IsInjective
  <2>2. c = CHOOSE f \in [1..n -> C] : Files!IsInjective(f)
    BY SameCardinality DEF Files!SetToSeq
  <2> HIDE DEF c, n, C
  <2> QED BY <2>1, <2>2
<1>3. \A g \in C : \E i \in 1..n : c[i] = g
  <2>1. c \in Injection(1..n, C)
    BY <1>2 DEF Injection, IsInjective, Files!IsInjective
  <2>2. Cardinality(1..n) = n
    BY <1>1, FS_Interval
  <2>3. c \in Surjection(1..n, C)
    BY <1>1, <2>1, <2>2, FS_Injection
  <2> QED BY <2>3 DEF Surjection
<1> DEFINE q == [i \in 1..n |-> Files!Segment(c[i], recs[c[i]])]
<1>4. Files!ClosingOf(gs) = q
  BY <1>2 DEF Files!ClosingOf
<1>5. \A g \in C : g \in gs /\ g \in Gates /\ Files!Recording(g) /\ recs[g].open
  OBVIOUS
<1> HIDE DEF c, n, C
<1>6. q \in Seq(Segments) /\ Len(q) = n
  <2>1. \A i \in 1..n : Files!Segment(c[i], recs[c[i]]) \in Segments
    BY <1>2, <1>5, SegmentIs
  <2> QED BY <1>1, <2>1
<1>7. \A i, j \in 1..n : q[i] = q[j] => i = j
  <2> SUFFICES ASSUME NEW i \in 1..n, NEW j \in 1..n, q[i] = q[j]
               PROVE  i = j
    OBVIOUS
  <2>1. c[i] \in C /\ c[j] \in C
    BY <1>2
  <2>2. q[i] = Files!Segment(c[i], recs[c[i]]) /\ q[j] = Files!Segment(c[j], recs[c[j]])
    OBVIOUS
  <2>3. c[i] = c[j]
    BY <1>5, <2>1, <2>2, SegmentIs
  <2> QED BY <1>2, <2>3 DEF Files!IsInjective
<1>8. \A i \in 1..n : c[i] \in C /\ q[i] = Files!Segment(c[i], recs[c[i]])
  BY <1>2
<1>9. \A g \in gs : recs[g].open => g \in C
  BY DEF C
<1> HIDE DEF q
<1>10. \A i \in 1..n : \E g \in gs :
         Files!Recording(g) /\ recs[g].open /\ q[i] = Files!Segment(g, recs[g])
  BY <1>5, <1>8
<1>11. \A g \in gs : recs[g].open => \E i \in 1..n : q[i] = Files!Segment(g, recs[g])
  BY <1>3, <1>8, <1>9
<1> QED BY <1>4, <1>6, <1>7, <1>10, <1>11 DEF Closes

\* The gates of gs close their segments and the recordings go on or end.
Ends(gs, q) ==
    /\ Closes(gs, q) /\ reported' = reported \o q
    /\ \A g \in Gates :
          \/ recs'[g] = Files!NoRec
          \/ /\ Files!Recording(g) /\ recs'[g].id = recs[g].id
             /\ recs'[g].seg \in Nat /\ recs[g].seg <= recs'[g].seg
             /\ g \in gs => recs[g].seg < recs'[g].seg

\* Then every segment is announced once.
LEMMA ReportedGrows ==
    ASSUME FileTypes, RecsOk, ReportedOk, NEW gs \in SUBSET Gates, NEW q, Ends(gs, q),
           made' = made
    PROVE  reported' \in Seq(Segments) /\ ReportedOk'
<1>1. reported \in Seq(Segments) /\ q \in Seq(Segments) /\ reported' = reported \o q
  BY DEF FileTypes, Ends, Closes
<1>2. PICK m \in Nat, n \in Nat : m = Len(reported) /\ n = Len(q)
  BY <1>1
<1>3. /\ reported' \in Seq(Segments) /\ Len(reported') = m + n
      /\ \A i \in 1..(m + n) : reported'[i] = IF i <= m THEN reported[i] ELSE q[i - m]
  BY <1>1, <1>2, ConcatProperties
<1>4. \A i \in 1..(m + n) : i <= m \/ i - m \in 1..n
  BY <1>2
<1>5. ASSUME NEW i \in 1..n
      PROVE  \E g \in gs : /\ g \in Gates /\ Files!Recording(g) /\ recs[g].open
                           /\ q[i].rec = recs[g].id /\ q[i].path.seg = recs[g].seg
  BY <1>2, <1>5, SegmentIs DEF Ends, Closes
<1>6. \A i \in 1..m, j \in 1..n : reported[i] # q[j]
  <2> SUFFICES ASSUME NEW i \in 1..m, NEW j \in 1..n, reported[i] = q[j] PROVE FALSE
    OBVIOUS
  <2>1. PICK g \in Gates : /\ Files!Recording(g) /\ q[j].rec = recs[g].id
                           /\ q[j].path.seg = recs[g].seg
    BY <1>5
  <2>2. reported[i].path.seg < recs[g].seg
    BY <1>2, <2>1 DEF ReportedOk
  <2> QED BY <2>1, <2>2, RecordingIs
<1>7. \A i, j \in 1..(m + n) : reported'[i] = reported'[j] => i = j
  <2> SUFFICES ASSUME NEW i \in 1..(m + n), NEW j \in 1..(m + n),
                      reported'[i] = reported'[j]
               PROVE  i = j
    OBVIOUS
  <2>1. CASE i <= m /\ j <= m
    BY <1>2, <1>3, <2>1 DEF ReportedOk
  <2>2. CASE ~(i <= m) /\ ~(j <= m)
    <3>1. i - m \in 1..n /\ j - m \in 1..n /\ q[i - m] = q[j - m]
      BY <1>3, <1>4, <2>2
    <3>2. i - m = j - m
      BY <1>2, <3>1 DEF Ends, Closes
    <3> QED BY <3>2
  <2>3. CASE ~(i <= m <=> j <= m)
    BY <1>3, <1>4, <1>6, <2>3
  <2> QED BY <2>1, <2>2, <2>3
<1>8. \A i \in 1..(m + n) : reported'[i].rec <= made'
  <2> TAKE i \in 1..(m + n)
  <2>1. CASE i <= m
    BY <1>2, <1>3, <2>1 DEF ReportedOk
  <2>2. CASE ~(i <= m)
    <3>1. i - m \in 1..n /\ reported'[i] = q[i - m]
      BY <1>3, <1>4, <2>2
    <3>2. PICK g \in Gates : Files!Recording(g) /\ q[i - m].rec = recs[g].id
      BY <1>5, <3>1
    <3> QED BY <3>1, <3>2 DEF RecsOk
  <2> QED BY <2>1, <2>2
<1>9. ASSUME NEW i \in 1..(m + n), NEW g \in Gates, recs'[g] # Files!NoRec,
             reported'[i].rec = recs'[g].id
      PROVE  reported'[i].path.seg < recs'[g].seg
  <2>1. /\ Files!Recording(g) /\ recs'[g].id = recs[g].id
        /\ recs'[g].seg \in Nat /\ recs[g].seg <= recs'[g].seg
        /\ g \in gs => recs[g].seg < recs'[g].seg
    BY <1>9 DEF Ends
  <2>2. CASE i <= m
    <3>1. reported'[i] = reported[i] /\ i \in 1..m
      BY <1>3, <2>2
    <3>2. reported[i].path.seg < recs[g].seg /\ recs[g].seg \in Nat
      BY <1>2, <1>9, <2>1, <3>1, RecordingIs DEF ReportedOk
    <3>3. reported[i].path.seg \in Nat
      <4>1. reported[i] \in Segments
        BY <1>1, <1>2, <3>1, ElementOfSeq
      <4> QED BY <4>1 DEF Segments, FileNames
    <3> QED BY <2>1, <3>1, <3>2, <3>3
  <2>3. CASE ~(i <= m)
    <3>1. i - m \in 1..n /\ reported'[i] = q[i - m]
      BY <1>3, <1>4, <2>3
    <3>2. PICK h \in gs : /\ h \in Gates /\ Files!Recording(h)
                          /\ q[i - m].rec = recs[h].id /\ q[i - m].path.seg = recs[h].seg
      BY <1>5, <3>1
    <3>3. h = g
      BY <1>9, <2>1, <3>1, <3>2 DEF RecsOk
    <3> QED BY <2>1, <3>1, <3>2, <3>3
  <2> QED BY <2>2, <2>3
<1> QED BY <1>3, <1>7, <1>8, <1>9 DEF ReportedOk, Files!Recording

\* And what is on the disk is of an open segment or announced.
LEMMA DiskStays ==
    ASSUME FileInv, NEW gs \in SUBSET Gates, NEW q, Ends(gs, q), NEW f \in disk
    PROVE  \/ Announced(f)'
           \/ \E g \in Gates \ gs : /\ Files!Recording(g) /\ recs[g].open
                                    /\ Files!Path(f) = Files!segmentPath(g, recs[g])
<1>1. reported \in Seq(Segments) /\ q \in Seq(Segments) /\ reported' = reported \o q
  BY DEF FileInv, FileTypes, Ends, Closes
<1>2. PICK m \in Nat, n \in Nat : m = Len(reported) /\ n = Len(q)
  BY <1>1
<1>3. /\ Len(reported') = m + n
      /\ \A i \in 1..(m + n) : reported'[i] = IF i <= m THEN reported[i] ELSE q[i - m]
  BY <1>1, <1>2, ConcatProperties
<1> DEFINE s == [path |-> Files!Path(f), rec |-> f.rec]
<1>4. (\E i \in 1..m : reported[i] = s) \/ (\E i \in 1..n : q[i] = s) => Announced(f)'
  <2>1. ASSUME NEW i \in 1..m, reported[i] = s PROVE Announced(f)'
    BY <1>3, <2>1 DEF Announced
  <2>2. ASSUME NEW i \in 1..n, q[i] = s PROVE Announced(f)'
    <3>1. i + m \in 1..(m + n) /\ reported'[i + m] = q[i]
      BY <1>3
    <3> QED BY <1>3, <2>2, <3>1 DEF Announced
  <2> QED BY <2>1, <2>2
<1>5. CASE Announced(f)
  BY <1>2, <1>4, <1>5 DEF Announced
<1>6. CASE Files!Path(f) \in Files!OpenPaths
  <2>1. PICK g \in Gates : /\ Files!Recording(g) /\ recs[g].open
                           /\ Files!Path(f) = Files!segmentPath(g, recs[g])
    BY <1>6 DEF Files!OpenPaths
  <2>2. CASE g \in gs
    <3>1. f.gate = g
      BY <2>1 DEF Files!Path, Files!segmentPath
    <3>2. f.rec = recs[g].id
      BY <2>1, <3>1 DEF FileInv, FilesOk
    <3>3. s = Files!Segment(g, recs[g])
      BY <2>1, <3>2 DEF Files!Segment
    <3> HIDE DEF s
    <3> QED BY <1>2, <1>4, <2>1, <2>2, <3>3 DEF Ends, Closes
  <2> QED BY <2>1, <2>2
<1> QED BY <1>5, <1>6 DEF FileInv, DiskAnnounced

-------------------------------------------------------------------------------
(* What the steps do                                                             *)

\* The passes only take files away.
LEMMA PassesRemove ==
    ASSUME Files!AgePass \/ Files!SizePass \/ Files!FloorPass
    PROVE  /\ disk' \subseteq disk /\ items' \subseteq items
           /\ wd \in {"age", "size", "floor"} /\ wd' \in {"size", "floor", "dirs"}
           /\ UNCHANGED <<recs, made, reported, fileNow, lastPrune, active, app>>
<1>1. ASSUME NEW gone, Files!Delete(gone) PROVE disk' \subseteq disk /\ items' \subseteq items
  BY <1>1 DEF Files!Delete
<1> QED BY <1>1 DEF Files!AgePass, Files!SizePass, Files!FloorPass, Files!recVars

LEMMA StopEnds ==
    ASSUME FileTypes, NEW g \in Gates, Files!Stop(g)
    PROVE  /\ Ends({g}, Files!closeSegment(g, recs[g]))
           /\ recs' = [recs EXCEPT ![g] = Files!NoRec]
<1>1. /\ Files!Recording(g) /\ recs' = [recs EXCEPT ![g] = Files!NoRec]
      /\ reported' = reported \o Files!closeSegment(g, recs[g])
  BY DEF Files!Stop
<1>2. recs \in [Gates -> Recs \cup {Files!NoRec}]
  BY DEF FileTypes
<1>3. Closes({g}, Files!closeSegment(g, recs[g]))
  BY <1>1, CloseOne
<1>4. \A h \in Gates \ {g} : recs'[h] = recs[h]
  BY <1>1, <1>2
<1>5. recs'[g] = Files!NoRec
  BY <1>1, <1>2
<1>6. \A h \in Gates : Files!Recording(h) => recs[h].seg \in Nat
  BY RecordingIs
<1> QED BY <1>1, <1>3, <1>4, <1>5, <1>6 DEF Ends, Files!Recording

\* Several recordings end: of the watchdog's turn, and of the destructor.
LEMMA ManyEnd ==
    ASSUME FileTypes, NEW gs \in SUBSET Gates, \A g \in gs : Files!Recording(g),
           reported' = reported \o Files!ClosingOf(gs),
           recs' = [g \in Gates |-> IF g \in gs THEN Files!NoRec ELSE recs[g]]
    PROVE  Ends(gs, Files!ClosingOf(gs))
<1>1. Closes(gs, Files!ClosingOf(gs))
  BY CloseMany
<1>2. \A h \in Gates : Files!Recording(h) => recs[h].seg \in Nat
  BY RecordingIs
<1> QED BY <1>1, <1>2 DEF Ends, Files!Recording

LEMMA TurnEnds ==
    ASSUME FileTypes, Files!Turn
    PROVE  \E gs \in SUBSET Gates :
             /\ Ends(gs, Files!ClosingOf(gs))
             /\ recs' = [g \in Gates |-> IF g \in gs THEN Files!NoRec ELSE recs[g]]
<1> DEFINE gs == {g \in Gates : Files!TimedOut(g)}
<1>1. /\ reported' = reported \o Files!ClosingOf(gs)
      /\ recs' = [g \in Gates |-> IF g \in gs THEN Files!NoRec ELSE recs[g]]
  BY DEF Files!Turn
<1>2. \A g \in gs : Files!Recording(g)
  BY DEF Files!TimedOut
<1> HIDE DEF gs
<1>3. gs \in SUBSET Gates
  BY DEF gs
<1> QED BY <1>1, <1>2, <1>3, ManyEnd

LEMMA CloseAllEnds ==
    ASSUME FileTypes, Files!CloseAll
    PROVE  \E gs \in SUBSET Gates :
             /\ Ends(gs, Files!ClosingOf(gs))
             /\ recs' = [g \in Gates |-> IF g \in gs THEN Files!NoRec ELSE recs[g]]
<1> DEFINE gs == {g \in Gates : Files!Recording(g)}
<1>1. /\ reported' = reported \o Files!ClosingOf(gs)
      /\ recs' = [g \in Gates |-> Files!NoRec]
  BY DEF Files!CloseAll
<1>2. recs' = [g \in Gates |-> IF g \in gs THEN Files!NoRec ELSE recs[g]]
  BY <1>1 DEF Files!Recording
<1>3. \A g \in gs : Files!Recording(g)
  OBVIOUS
<1> HIDE DEF gs
<1>4. gs \in SUBSET Gates
  BY DEF gs
<1> QED BY <1>1, <1>2, <1>3, <1>4, ManyEnd

\* A frame of a gate that goes on recording finds n and leaves m: it may roll over,
\* and writes to its own segment or to none (onFrame).
Rolls(g, n) ==
    \/ /\ n = recs[g] /\ fileNow - recs[g].since < SegmentSeconds
       /\ reported' = reported
    \/ /\ n.seg = recs[g].seg + 1 /\ n.since = fileNow /\ ~n.open
       /\ fileNow - recs[g].since >= SegmentSeconds
       /\ reported' = reported \o Files!closeSegment(g, recs[g])

Goes(g, n, m) ==
    /\ n.id = recs[g].id /\ n.at = recs[g].at /\ n.until = recs[g].until
    /\ m.id = n.id /\ m.at = n.at /\ m.until = n.until /\ m.seg = n.seg
    /\ m.since = n.since /\ (n.open => m.open)
    /\ recs' = [recs EXCEPT ![g] = m]
    /\ \/ disk' = disk /\ (m.open => n.open)
       \/ m.open /\ disk' = Files!Created(disk, Files!Segment(g, m))

LEMMA FrameDoes ==
    ASSUME FileInv, NEW g \in Gates, Files!Frame(g)
    PROVE  /\ Files!Recording(g)
           /\ UNCHANGED <<made, fileNow, dirs, wd, lastPrune, active, items, app>>
           /\ \/ /\ recs' = [recs EXCEPT ![g] = Files!NoRec] /\ disk' = disk
                 /\ reported' = reported \o Files!closeSegment(g, recs[g])
              \/ \E n, m \in Recs : Rolls(g, n) /\ Goes(g, n, m)
<1>1. /\ Files!Recording(g)
      /\ UNCHANGED <<made, fileNow, dirs, wd, lastPrune, active, items, app>>
  BY DEF Files!Frame, Files!passVars
<1>2. FileTypes /\ fileNow \in Nat
  BY FileNumbers DEF FileInv, FileTypes
<1> DEFINE r == recs[g]
           n == Files!Rolled(r)
           s == Files!Segment(g, n)
           m == [n EXCEPT !.open = n.open \/ Files!Dir(s.path) \in dirs]
<1>3. r \in Recs /\ r.since \in Nat /\ r.seg \in Nat
  BY <1>1, <1>2, RecordingIs
<1>4. CASE Files!Expired(r)
  BY <1>1, <1>4 DEF Files!Frame
<1>5. CASE ~Files!Expired(r)
  <2>1. /\ recs' = [recs EXCEPT ![g] = m]
        /\ reported' = IF n # r THEN reported \o Files!closeSegment(g, r) ELSE reported
        /\ disk' = IF n.open THEN Files!Stamped(disk, s)
                   ELSE IF Files!Dir(s.path) \in dirs THEN Files!Created(disk, s) ELSE disk
    BY <1>5 DEF Files!Frame
  <2>2. n = IF fileNow - r.since >= SegmentSeconds
            THEN [r EXCEPT !.open = FALSE, !.seg = r.seg + 1, !.since = fileNow]
            ELSE r
    BY DEF Files!Rolled
  <2> HIDE DEF r
  <2>3. /\ n \in Recs /\ n.id = r.id /\ n.at = r.at /\ n.until = r.until
        /\ \/ n = r /\ fileNow - r.since < SegmentSeconds
           \/ /\ n.seg = r.seg + 1 /\ n.since = fileNow /\ ~n.open /\ n # r
              /\ fileNow - r.since >= SegmentSeconds
    <3>1. CASE fileNow - r.since >= SegmentSeconds
      <4>1. n = [r EXCEPT !.open = FALSE, !.seg = r.seg + 1, !.since = fileNow]
        BY <2>2, <3>1
      <4> HIDE DEF n
      <4>2. n.seg = r.seg + 1 /\ n.since = fileNow /\ n.open = FALSE
        BY <1>3, <4>1 DEF Recs
      <4>3. n.id = r.id /\ n.at = r.at /\ n.until = r.until
        BY <1>3, <4>1 DEF Recs
      <4>4. r.seg + 1 \in Nat
        BY <1>3
      <4>5. \A k \in Nat : [r EXCEPT !.open = FALSE, !.seg = k, !.since = fileNow] \in Recs
        BY <1>2, <1>3 DEF Recs
      <4>6. n \in Recs
        BY <4>1, <4>4, <4>5
      <4>7. n # r
        BY <1>3, <4>2
      <4> QED BY <1>3, <3>1, <4>2, <4>3, <4>6, <4>7
    <3>2. CASE ~(fileNow - r.since >= SegmentSeconds)
      <4>1. n = r /\ fileNow - r.since < SegmentSeconds
        BY <1>2, <1>3, <2>2, <3>2, FileNumbers
      <4> HIDE DEF n
      <4> QED BY <1>3, <4>1
    <3> QED BY <3>1, <3>2
  <2>4. Rolls(g, n)
    BY <2>1, <2>3 DEF Rolls, r
  <2>5. s = [path |-> Files!segmentPath(g, n), rec |-> n.id] /\ s = Files!Segment(g, n)
    BY DEF Files!Segment
  <2> HIDE DEF n, s
  <2>6. /\ m \in Recs /\ m.id = n.id /\ m.at = n.at /\ m.until = n.until /\ m.seg = n.seg
        /\ m.since = n.since /\ m.open = (n.open \/ Files!Dir(s.path) \in dirs)
    BY <2>3 DEF Recs
  <2> HIDE DEF m
  <2>7. Files!Segment(g, m) = s
    BY <2>5, <2>6 DEF Files!Segment, Files!segmentPath
  <2>8. CASE n.open
    <3>1. n = r /\ r.open /\ disk' = Files!Stamped(disk, s) /\ m.open
      BY <2>1, <2>3, <2>6, <2>8
    <3> DEFINE new == [gate |-> s.path.gate, at |-> s.path.at, seg |-> s.path.seg,
                       rec |-> s.rec, mtime |-> fileNow]
    <3>2. \A f \in disk : f \in Written /\ (Files!Path(f) = s.path => f.rec = s.rec)
      <4> TAKE f \in disk
      <4>1. f \in Written
        BY <1>2 DEF FileTypes
      <4>2. ASSUME Files!Path(f) = s.path PROVE f.rec = s.rec
        <5>1. f.gate = g
          BY <2>5, <4>2 DEF Files!Path, Files!segmentPath
        <5> QED BY <1>1, <2>5, <3>1, <4>2, <5>1 DEF FileInv, FilesOk, r
      <4> QED BY <4>1, <4>2
    <3>3. \A f \in disk : Files!Path(f) = s.path => [f EXCEPT !.mtime = fileNow] = new
      BY <2>5, <3>2 DEF Written, Files!Path, Files!segmentPath
    <3> HIDE DEF new
    <3>4. disk' = {IF Files!Path(f) = s.path THEN new ELSE f : f \in disk}
      BY <3>1, <3>2, <3>3 DEF Files!Stamped
    <3>5. CASE \E f \in disk : Files!Path(f) = s.path
      <4>1. disk' = {f \in disk : Files!Path(f) # s.path} \cup {new}
        BY <3>4, <3>5
      <4>2. disk' = Files!Created(disk, s)
        BY <4>1 DEF Files!Created, new
      <4> QED BY <2>1, <2>3, <2>4, <2>6, <2>7, <3>1, <4>2, <1>1 DEF Goes, r
    <3>6. CASE ~\E f \in disk : Files!Path(f) = s.path
      <4>1. disk' = disk
        BY <3>4, <3>6
      <4> QED BY <2>1, <2>3, <2>4, <2>6, <2>8, <4>1, <1>1 DEF Goes, r
    <3> QED BY <3>5, <3>6
  <2>9. CASE ~n.open
    BY <2>1, <2>3, <2>4, <2>6, <2>7, <2>9, <1>1 DEF Goes, r
  <2> QED BY <2>8, <2>9
<1> QED BY <1>4, <1>5

\* So its segments end in order.
FrameCloses(g) ==
    \E gs \in SUBSET {g} : \E q :
        /\ Ends(gs, q)
        /\ g \notin gs /\ recs[g].open =>
             /\ recs'[g] # Files!NoRec /\ recs'[g].open
             /\ Files!segmentPath(g, recs'[g]) = Files!segmentPath(g, recs[g])

LEMMA FrameEnds == ASSUME FileInv, NEW g \in Gates, Files!Frame(g) PROVE FrameCloses(g)
<1>1. FileTypes /\ recs \in [Gates -> Recs \cup {Files!NoRec}] /\ reported \in Seq(Segments)
  BY DEF FileInv, FileTypes
<1>2. Files!Recording(g)
  BY FrameDoes
<1>3. \A h \in Gates : Files!Recording(h) => recs[h].seg \in Nat
  BY <1>1, RecordingIs
<1>4. Closes({g}, Files!closeSegment(g, recs[g]))
  BY <1>1, <1>2, CloseOne
<1>5. CASE /\ recs' = [recs EXCEPT ![g] = Files!NoRec]
           /\ reported' = reported \o Files!closeSegment(g, recs[g])
  <2>1. recs'[g] = Files!NoRec /\ \A h \in Gates \ {g} : recs'[h] = recs[h]
    BY <1>1, <1>5
  <2>2. Ends({g}, Files!closeSegment(g, recs[g]))
    BY <1>3, <1>4, <1>5, <2>1 DEF Ends, Files!Recording
  <2> QED BY <2>2 DEF FrameCloses
<1>6. ASSUME NEW n \in Recs, NEW m \in Recs, Rolls(g, n), Goes(g, n, m)
      PROVE  FrameCloses(g)
  <2>1. recs'[g] = m /\ \A h \in Gates \ {g} : recs'[h] = recs[h]
    BY <1>1, <1>6 DEF Goes
  <2>2. m.id = recs[g].id /\ m.at = recs[g].at /\ m.seg = n.seg
    BY <1>6 DEF Goes
  <2>3. CASE n = recs[g] /\ reported' = reported
    <3>1. Closes({}, <<>>) /\ reported' = reported \o <<>>
      BY <1>1, <2>3, ConcatEmptySeq DEF Closes
    <3>2. Ends({}, <<>>)
      BY <1>2, <1>3, <2>1, <2>2, <2>3, <3>1 DEF Ends, Files!Recording
    <3>3. Files!segmentPath(g, m) = Files!segmentPath(g, recs[g])
      BY <2>2, <2>3 DEF Files!segmentPath
    <3>4. m # Files!NoRec
      BY FileNumbers DEF Recs, Files!NoRec
    <3>5. recs[g].open => m.open
      BY <1>6, <2>3 DEF Goes
    <3> QED BY <2>1, <3>2, <3>3, <3>4, <3>5 DEF FrameCloses
  <2>4. CASE /\ n.seg = recs[g].seg + 1
             /\ reported' = reported \o Files!closeSegment(g, recs[g])
    <3>1. Ends({g}, Files!closeSegment(g, recs[g]))
      BY <1>2, <1>3, <1>4, <2>1, <2>2, <2>4 DEF Ends, Files!Recording
    <3> QED BY <3>1 DEF FrameCloses
  <2> QED BY <1>6, <2>3, <2>4 DEF Rolls
<1> QED BY <1>5, <1>6, FrameDoes

\* Every step: the clock, a new recording, recordings that end, a frame of one that
\* goes on, or nothing but files that leave the disk or the list.
Ending(gs, q) ==
    /\ Ends(gs, q)
    /\ recs' = [g \in Gates |-> IF g \in gs THEN Files!NoRec ELSE recs[g]]
    /\ UNCHANGED <<made, fileNow, disk, items, active>>

Fewer ==
    /\ disk' \subseteq disk /\ items' \subseteq disk \cup items
    /\ UNCHANGED <<recs, made, reported, fileNow>>

Writing(g, n, m) ==
    /\ Files!Recording(g) /\ Rolls(g, n) /\ Goes(g, n, m)
    /\ UNCHANGED <<made, fileNow, wd, lastPrune, active, items, app>>

FileSteps ==
    \/ Files!Advance
    \/ \E g \in Gates, d \in Durations : Files!Start(g, d)
    \/ \E gs \in SUBSET Gates : \E q : Ending(gs, q)
    \/ \E g \in Gates : \E n, m \in Recs : Writing(g, n, m) /\ FrameCloses(g)
    \/ Fewer

LEMMA FileShapes == ASSUME FileInv, [Files!Next]_fileVars PROVE FileSteps
<1>1. FileTypes /\ recs \in [Gates -> Recs \cup {Files!NoRec}] /\ PassOk
  BY DEF FileInv, FileTypes
<1>2. ASSUME NEW g \in Gates, recs' = [recs EXCEPT ![g] = Files!NoRec]
      PROVE  recs' = [h \in Gates |-> IF h \in {g} THEN Files!NoRec ELSE recs[h]]
  BY <1>1, <1>2
<1>3. ASSUME NEW g \in Gates, Files!Stop(g) PROVE FileSteps
  <2>1. Ending({g}, Files!closeSegment(g, recs[g]))
    BY <1>1, <1>2, <1>3, StopEnds DEF Ending, Files!Stop, Files!passVars
  <2> QED BY <2>1 DEF FileSteps
<1>4. ASSUME NEW g \in Gates, Files!Frame(g) PROVE FileSteps
  <2>1. /\ Files!Recording(g)
        /\ UNCHANGED <<made, fileNow, wd, lastPrune, active, items, app>>
    BY <1>4, FrameDoes
  <2>2. FrameCloses(g)
    BY <1>4, FrameEnds
  <2>3. CASE /\ recs' = [recs EXCEPT ![g] = Files!NoRec] /\ disk' = disk
             /\ reported' = reported \o Files!closeSegment(g, recs[g])
    <3>1. Closes({g}, Files!closeSegment(g, recs[g]))
      BY <1>1, <2>1, CloseOne
    <3>2. \A h \in Gates : Files!Recording(h) => recs[h].seg \in Nat
      BY <1>1, RecordingIs
    <3>3. recs' = [h \in Gates |-> IF h \in {g} THEN Files!NoRec ELSE recs[h]]
      BY <1>2, <2>3
    <3>4. Ends({g}, Files!closeSegment(g, recs[g]))
      BY <2>3, <3>1, <3>2, <3>3 DEF Ends, Files!Recording
    <3>5. Ending({g}, Files!closeSegment(g, recs[g]))
      BY <2>1, <2>3, <3>3, <3>4 DEF Ending
    <3> QED BY <3>5 DEF FileSteps
  <2>4. ASSUME NEW n \in Recs, NEW m \in Recs, Rolls(g, n), Goes(g, n, m)
        PROVE  FileSteps
    BY <2>1, <2>2, <2>4 DEF FileSteps, Writing
  <2> QED BY <1>4, <2>3, <2>4, FrameDoes
<1>5. CASE Files!Turn
  <2>1. UNCHANGED <<made, fileNow, disk, items, active>>
    BY <1>5 DEF Files!Turn
  <2> QED BY <1>1, <1>5, <2>1, TurnEnds DEF FileSteps, Ending
<1>6. CASE Files!CloseAll
  <2>1. UNCHANGED <<made, fileNow, disk, items, active>>
    BY <1>6 DEF Files!CloseAll, Files!passVars
  <2> QED BY <1>1, <1>6, <2>1, CloseAllEnds DEF FileSteps, Ending
<1>7. CASE Files!AgePass \/ Files!SizePass \/ Files!FloorPass
  BY <1>7, PassesRemove DEF FileSteps, Fewer
<1>8. CASE Files!Snapshot \/ Files!Scan \/ Files!DirsPass
  BY <1>8 DEF FileSteps, Fewer, Files!Snapshot, Files!Scan, Files!DirsPass, Files!recVars
<1>9. CASE Files!Shutdown \/ Files!JoinWatchdog
  BY <1>9 DEF FileSteps, Fewer, Files!Shutdown, Files!JoinWatchdog, Files!recVars,
              Files!passVars
<1>10. CASE UNCHANGED fileVars
  BY <1>10 DEF FileSteps, Fewer, fileVars
<1>11. CASE Files!Advance \/ \E g \in Gates, d \in Durations : Files!Start(g, d)
  BY <1>11 DEF FileSteps
<1> QED BY <1>3, <1>4, <1>5, <1>6, <1>7, <1>8, <1>9, <1>10, <1>11
        DEF Files!Next, Files!Pass

-------------------------------------------------------------------------------
(* Every step keeps the invariant                                                *)

\* A new recording (startRecording).
LEMMA StartIs ==
    ASSUME FileInv, NEW g \in Gates, NEW d \in Durations, Files!Start(g, d)
    PROVE  /\ ~Files!Recording(g) /\ made' = made + 1 /\ made' <= MaxRecs
           /\ recs'[g] \in Recs /\ recs'[g].id = made + 1
           /\ recs'[g].at = fileNow /\ recs'[g].seg = 0
           /\ recs'[g].since = fileNow /\ ~recs'[g].open
           /\ recs'[g].until # 0 => fileNow < recs'[g].until
           /\ \A h \in Gates \ {g} : recs'[h] = recs[h]
           /\ recs' \in [Gates -> Recs \cup {Files!NoRec}]
           /\ UNCHANGED <<fileNow, disk, reported, wd, lastPrune, active, items, app>>
<1> DEFINE n == [id |-> made + 1, at |-> fileNow, seg |-> 0, since |-> fileNow,
                 until |-> IF d > 0 THEN fileNow + d ELSE 0, open |-> FALSE]
<1>1. /\ recs \in [Gates -> Recs \cup {Files!NoRec}] /\ made \in 0..MaxRecs
      /\ fileNow \in Nat /\ d \in Nat /\ MaxRecs \in Nat
  BY FileNumbers DEF FileInv, FileTypes
<1>2. /\ ~Files!Recording(g) /\ made' = made + 1 /\ made < MaxRecs
      /\ recs' = [recs EXCEPT ![g] = n]
      /\ UNCHANGED <<fileNow, disk, reported, wd, lastPrune, active, items, app>>
  BY DEF Files!Start, Files!passVars
<1>3. n \in Recs
  BY <1>1, <1>2 DEF Recs
<1>4. /\ n.id = made + 1 /\ n.at = fileNow /\ n.seg = 0 /\ n.since = fileNow
      /\ n.open = FALSE /\ (n.until # 0 => fileNow < n.until)
  BY <1>1
<1> HIDE DEF n
<1> QED BY <1>1, <1>2, <1>3, <1>4

\* What a recording that ends leaves.
LEMMA EndingKeeps ==
    ASSUME FileInv, NEW gs \in SUBSET Gates, NEW q, Ending(gs, q), NEW g \in Gates
    PROVE  recs'[g] = Files!NoRec \/ (g \notin gs /\ recs'[g] = recs[g])
  BY DEF Ending

\* What a recording that goes on becomes (onFrame).
LEMMA WritingIs ==
    ASSUME FileInv, NEW g \in Gates, NEW n \in Recs, NEW m \in Recs, Writing(g, n, m)
    PROVE  /\ recs[g] \in Recs /\ recs'[g] = m /\ \A h \in Gates \ {g} : recs'[h] = recs[h]
           /\ m # Files!NoRec
           /\ recs' \in [Gates -> Recs \cup {Files!NoRec}]
           /\ m.id = recs[g].id /\ m.at = recs[g].at /\ m.until = recs[g].until
           /\ \/ /\ m.seg = recs[g].seg /\ m.since = recs[g].since
                 /\ fileNow - recs[g].since < SegmentSeconds /\ (recs[g].open => m.open)
              \/ /\ m.seg = recs[g].seg + 1 /\ m.since = fileNow
                 /\ recs[g].since < fileNow
           /\ \/ disk' = disk /\ (m.open => recs[g].open /\ m.seg = recs[g].seg)
              \/ m.open /\ disk' = Files!Created(disk, Files!Segment(g, m))
<1>1. recs \in [Gates -> Recs \cup {Files!NoRec}] /\ recs[g] \in Recs /\ recs[g].since \in Nat
      /\ fileNow \in Nat
  BY RecordingIs, FileNumbers DEF FileInv, FileTypes, Writing
<1>2. /\ n.id = recs[g].id /\ n.at = recs[g].at /\ n.until = recs[g].until
      /\ m.id = n.id /\ m.at = n.at /\ m.until = n.until /\ m.seg = n.seg
      /\ m.since = n.since /\ (n.open => m.open)
      /\ recs' = [recs EXCEPT ![g] = m]
  BY DEF Writing, Goes
<1>3. m # Files!NoRec
  BY FileNumbers DEF Recs, Files!NoRec
<1>4. \/ /\ n = recs[g] /\ fileNow - recs[g].since < SegmentSeconds
      \/ /\ n.seg = recs[g].seg + 1 /\ n.since = fileNow /\ ~n.open
         /\ recs[g].since < fileNow
  BY <1>1, FileNumbers DEF Writing, Rolls
<1>5. \/ disk' = disk /\ (m.open => n.open)
      \/ m.open /\ disk' = Files!Created(disk, Files!Segment(g, m))
  BY DEF Writing, Goes
<1>6. recs'[g] = m /\ (\A h \in Gates \ {g} : recs'[h] = recs[h])
      /\ recs' \in [Gates -> Recs \cup {Files!NoRec}]
  BY <1>1, <1>2
<1> QED BY <1>1, <1>2, <1>3, <1>4, <1>5, <1>6

\* The file a frame opens, and those that stay.
LEMMA CreatedIs ==
    ASSUME FileInv, NEW g \in Gates, NEW m \in Recs, NEW f \in disk',
           disk' = Files!Created(disk, Files!Segment(g, m))
    PROVE  \/ f \in disk /\ Files!Path(f) # Files!segmentPath(g, m)
           \/ /\ f.gate = g /\ f.at = m.at /\ f.seg = m.seg /\ f.rec = m.id
              /\ f.mtime = fileNow /\ f \in Written
              /\ Files!Path(f) = Files!segmentPath(g, m)
              /\ f = [gate |-> g, at |-> m.at, seg |-> m.seg, rec |-> m.id,
                      mtime |-> fileNow]
<1>1. m.at \in Nat /\ m.seg \in Nat /\ m.id \in Nat /\ fileNow \in Nat
  BY FileNumbers DEF Recs, FileInv, FileTypes
<1>2. \/ f \in disk /\ Files!Path(f) # Files!segmentPath(g, m)
      \/ f = [gate |-> g, at |-> m.at, seg |-> m.seg, rec |-> m.id, mtime |-> fileNow]
  BY DEF Files!Created, Files!Segment, Files!segmentPath
<1> QED BY <1>1, <1>2 DEF Written, Files!Path, Files!segmentPath

LEMMA OpenPathsInPaths == FileTypes /\ RecsOk => Files!OpenPaths \subseteq Files!Paths
<1> SUFFICES ASSUME FileTypes, RecsOk, NEW p \in Files!OpenPaths PROVE p \in Files!Paths
  OBVIOUS
<1>1. PICK g \in Gates : Files!Recording(g) /\ p = Files!segmentPath(g, recs[g])
  BY DEF Files!OpenPaths
<1>2. recs[g].at \in 0..FileTime /\ recs[g].seg \in 0..FileTime
  BY <1>1, RecordingIs, FileNumbers DEF FileTypes, RecsOk
<1> QED BY <1>1, <1>2 DEF Files!segmentPath, Files!Paths

LEMMA FileTypesStep == ASSUME FileInv, [Files!Next]_fileVars PROVE FileTypes'
<1> DEFINE Control ==
             /\ wd \in {"wait", "snap", "scan", "age", "size", "floor", "dirs"}
             /\ app \in {"up", "down", "joined", "gone"} /\ lastPrune \in Nat
             /\ (app \in {"joined", "gone"} => wd = "wait")
             /\ active \subseteq Files!Paths
           Data ==
             /\ recs \in [Gates -> Recs \cup {Files!NoRec}] /\ made \in 0..MaxRecs
             /\ fileNow \in 1..FileTime /\ reported \in Seq(Segments)
             /\ disk \subseteq Written /\ items \subseteq Written
<1>1. Control /\ Data /\ FileTypes /\ RecsOk /\ ReportedOk
  BY DEF FileInv, FileTypes
<1>2. Control'
  <2>1. CASE Files!Advance
    BY <1>1, <2>1 DEF Files!Advance, Files!passVars
  <2>2. ASSUME NEW g \in Gates, NEW d \in Durations, Files!Start(g, d) PROVE Control'
    BY <1>1, <2>2, StartIs
  <2>3. ASSUME NEW g \in Gates, Files!Stop(g) PROVE Control'
    BY <1>1, <2>3 DEF Files!Stop, Files!passVars
  <2>4. ASSUME NEW g \in Gates, Files!Frame(g) PROVE Control'
    BY <1>1, <2>4, FrameDoes
  <2>5. CASE Files!Turn
    BY <1>1, <2>5 DEF Files!Turn
  <2>6. CASE Files!Snapshot
    BY <1>1, <2>6, OpenPathsInPaths DEF Files!Snapshot, Files!OpenNow
  <2>7. CASE Files!Scan
    BY <1>1, <2>7 DEF Files!Scan
  <2>8. CASE Files!AgePass \/ Files!SizePass \/ Files!FloorPass
    BY <1>1, <2>8, PassesRemove
  <2>9. CASE Files!DirsPass
    BY <1>1, <2>9 DEF Files!DirsPass
  <2>10. CASE Files!Shutdown \/ Files!JoinWatchdog \/ Files!CloseAll
    BY <1>1, <2>10 DEF Files!Shutdown, Files!JoinWatchdog, Files!CloseAll,
                       Files!WatchdogDone, Files!passVars
  <2>11. CASE UNCHANGED fileVars
    BY <1>1, <2>11 DEF fileVars
  <2> QED BY <2>1, <2>2, <2>3, <2>4, <2>5, <2>6, <2>7, <2>8, <2>9, <2>10, <2>11
          DEF Files!Next, Files!Pass
<1>3. Data'
  <2>1. CASE Files!Advance
    BY <1>1, <2>1, FileNumbers DEF Files!Advance, Files!recVars, Files!passVars
  <2>2. ASSUME NEW g \in Gates, NEW d \in Durations, Files!Start(g, d) PROVE Data'
    <3>1. made' \in 0..MaxRecs
      BY <1>1, <2>2, StartIs, FileNumbers
    <3> QED BY <1>1, <2>2, <3>1, StartIs
  <2>3. ASSUME NEW gs \in SUBSET Gates, NEW q, Ending(gs, q) PROVE Data'
    <3>1. reported' \in Seq(Segments)
      BY <1>1, <2>3, ReportedGrows DEF Ending
    <3> QED BY <1>1, <2>3, <3>1 DEF Ending
  <2>4. ASSUME NEW g \in Gates, NEW n \in Recs, NEW m \in Recs, Writing(g, n, m),
               FrameCloses(g)
        PROVE  Data'
    <3>1. reported' \in Seq(Segments)
      BY <1>1, <2>4, ReportedGrows DEF Writing, FrameCloses
    <3>2. disk' \subseteq Written
      BY <1>1, <2>4, WritingIs, CreatedIs
    <3>3. UNCHANGED <<made, fileNow, items>>
      BY <2>4 DEF Writing
    <3> QED BY <1>1, <2>4, <3>1, <3>2, <3>3, WritingIs
  <2>5. CASE Fewer
    BY <1>1, <2>5 DEF Fewer
  <2> QED BY <2>1, <2>2, <2>3, <2>4, <2>5, FileShapes DEF FileSteps
<1> QED BY <1>2, <1>3 DEF FileTypes

LEMMA RecsOkStep == ASSUME FileInv, [Files!Next]_fileVars PROVE RecsOk'
<1>1. RecsOk /\ FileTypes /\ made \in Nat /\ fileNow \in Nat
  BY FileNumbers DEF FileInv, FileTypes
<1>2. CASE Files!Advance
  <2>1. fileNow' = fileNow + 1 /\ recs' = recs /\ made' = made
    BY <1>2 DEF Files!Advance, Files!recVars
  <2>2. \A g \in Gates : Files!Recording(g) => recs[g].since \in Nat
    BY <1>1, RecordingIs
  <2> QED BY <1>1, <2>1, <2>2 DEF RecsOk, Files!Recording
<1>3. ASSUME NEW g \in Gates, NEW d \in Durations, Files!Start(g, d) PROVE RecsOk'
  <2>1. \A h \in Gates : Files!Recording(h) => recs[h].id \in Nat
    BY <1>1, RecordingIs
  <2> QED BY <1>1, <1>3, <2>1, StartIs DEF RecsOk, Files!Recording
<1>4. ASSUME NEW gs \in SUBSET Gates, NEW q, Ending(gs, q) PROVE RecsOk'
  <2>1. made' = made /\ fileNow' = fileNow
    BY <1>4 DEF Ending
  <2> QED BY <1>1, <1>4, <2>1, EndingKeeps DEF RecsOk, Files!Recording
<1>5. ASSUME NEW g \in Gates, NEW n \in Recs, NEW m \in Recs, Writing(g, n, m)
      PROVE  RecsOk'
  <2>1. made' = made /\ fileNow' = fileNow /\ Files!Recording(g)
    BY <1>5 DEF Writing
  <2>2. /\ recs[g].at \in Nat /\ recs[g].seg \in Nat /\ recs[g].since \in Nat
        /\ recs[g].at + recs[g].seg <= recs[g].since
        /\ (recs[g].seg = 0 => recs[g].since = recs[g].at)
        /\ recs[g].id <= made /\ recs[g].since <= fileNow
        /\ (recs[g].until # 0 => recs[g].at < recs[g].until)
    BY <1>1, <2>1, RecordingIs DEF RecsOk
  <2>3. /\ m.at + m.seg <= m.since /\ (m.seg = 0 => m.since = m.at) /\ m.since <= fileNow
        /\ m.id <= made /\ (m.until # 0 => m.at < m.until)
    <3>1. m.at = recs[g].at /\ m.id = recs[g].id /\ m.until = recs[g].until
      BY <1>5, WritingIs
    <3>2. CASE m.seg = recs[g].seg /\ m.since = recs[g].since
      BY <2>2, <3>1, <3>2
    <3>3. CASE m.seg = recs[g].seg + 1 /\ m.since = fileNow /\ recs[g].since < fileNow
      BY <1>1, <2>2, <3>1, <3>3
    <3> QED BY <1>5, <3>2, <3>3, WritingIs
  <2> QED BY <1>1, <1>5, <2>1, <2>3, WritingIs DEF RecsOk, Files!Recording
<1>6. CASE Fewer
  BY <1>1, <1>6 DEF Fewer, RecsOk, Files!Recording
<1> QED BY <1>2, <1>3, <1>4, <1>5, <1>6, FileShapes DEF FileSteps

LEMMA BesideStays ==
    ASSUME FileInv, NEW g \in Gates, NEW n \in Recs, NEW m \in Recs, Writing(g, n, m),
           NEW f \in Written, Beside(f, recs[g])
    PROVE  Beside(f, m)
<1>1. /\ recs[g].seg \in Nat /\ f.seg \in Nat /\ m.id = recs[g].id /\ m.at = recs[g].at
      /\ \/ m.seg = recs[g].seg /\ (recs[g].open => m.open)
         \/ m.seg = recs[g].seg + 1
  BY WritingIs, RecordingIs DEF Written, FileInv, Writing
<1>2. f.rec = m.id => f.at = m.at /\ (f.seg < m.seg \/ (f.seg = m.seg /\ m.open))
  BY <1>1 DEF Beside
<1> QED BY <1>1, <1>2 DEF Beside

LEMMA FilesOkStep == ASSUME FileInv, [Files!Next]_fileVars PROVE FilesOk'
<1>1. /\ FilesOk /\ FileTypes /\ RecsOk /\ made \in Nat /\ fileNow \in Nat
      /\ \A f \in disk \cup items : f \in Written
  BY FileNumbers DEF FileInv, FileTypes
<1>2. RecsOk'
  BY RecsOkStep
<1>3. CASE Files!Advance
  <2>1. /\ fileNow' = fileNow + 1 /\ recs' = recs /\ made' = made /\ disk' = disk
        /\ items' = items
    BY <1>3 DEF Files!Advance, Files!recVars, Files!passVars
  <2>2. \A f \in disk \cup items : f.mtime \in Nat
    BY <1>1 DEF Written
  <2> QED BY <1>1, <2>1, <2>2 DEF FilesOk, Files!Recording, Beside, Files!Path,
                                  Files!segmentPath
<1>4. ASSUME NEW g \in Gates, NEW d \in Durations, Files!Start(g, d) PROVE FilesOk'
  <2>1. /\ made' = made + 1 /\ recs'[g].id = made + 1 /\ recs'[g].at = fileNow
        /\ recs'[g].open = FALSE /\ (\A h \in Gates \ {g} : recs'[h] = recs[h])
        /\ UNCHANGED <<fileNow, disk, items>>
    BY <1>1, <1>4, StartIs DEF Recs
  <2>2. ASSUME NEW f \in disk \cup items
        PROVE  Beside(f, recs'[g])
    <3>1. f.at \in Nat /\ f.seg \in Nat /\ f.rec \in Nat /\ f.mtime \in Nat
      BY <1>1, <2>2 DEF Written
    <3>2. f.at + f.seg <= f.mtime /\ f.mtime <= fileNow /\ f.rec <= made
      BY <1>1, <2>2 DEF FilesOk
    <3> QED BY <1>1, <2>1, <3>1, <3>2 DEF Beside
  <2>3. \A f \in disk \cup items : f.rec <= made + 1
    BY <1>1 DEF FilesOk, Written
  <2>4. \A f \in disk' \cup items' :
          /\ f.at + f.seg <= f.mtime /\ f.mtime <= fileNow' /\ f.rec <= made'
          /\ (f.gate \in Gates /\ recs'[f.gate] # Files!NoRec
                => Beside(f, recs'[f.gate]))
    BY <1>1, <2>1, <2>2, <2>3 DEF FilesOk, Files!Recording, Written
  <2>5. \A f \in disk' \cup items' : f.gate \in Gates
    BY <1>1, <2>1 DEF Written
  <2>6. \A f, h \in disk' : Files!Path(f) = Files!Path(h) => f = h
    BY <1>1, <2>1 DEF FilesOk
  <2>7. ASSUME NEW f \in disk', recs'[f.gate] # Files!NoRec, recs'[f.gate].open,
               Files!Path(f) = Files!segmentPath(f.gate, recs'[f.gate])
        PROVE  f.rec = recs'[f.gate].id
    BY <1>1, <2>1, <2>5, <2>7 DEF FilesOk, Files!Recording
  <2> QED BY <2>4, <2>5, <2>6, <2>7
          DEF FilesOk, Files!Recording, Beside, Files!Path, Files!segmentPath
<1>5. ASSUME NEW gs \in SUBSET Gates, NEW q, Ending(gs, q) PROVE FilesOk'
  <2>1. UNCHANGED <<made, fileNow, disk, items>>
    BY <1>5 DEF Ending
  <2>2. \A f \in disk \cup items : f.gate \in Gates
    BY <1>1 DEF Written
  <2>3. \A f \in disk \cup items :
          recs'[f.gate] = Files!NoRec \/ recs'[f.gate] = recs[f.gate]
    BY <1>5, <2>2, EndingKeeps
  <2> QED BY <1>1, <2>1, <2>3
          DEF FilesOk, Files!Recording, Beside, Files!Path, Files!segmentPath
<1>6. ASSUME NEW g \in Gates, NEW n \in Recs, NEW m \in Recs, Writing(g, n, m)
      PROVE  FilesOk'
  <2>1. UNCHANGED <<made, fileNow, items>> /\ Files!Recording(g)
    BY <1>6 DEF Writing
  <2>2. /\ recs'[g] = m /\ m # Files!NoRec /\ m.id \in Nat /\ m.seg \in Nat /\ m.at \in Nat
        /\ \A h \in Gates \ {g} : recs'[h] = recs[h]
    BY <1>6, WritingIs DEF Recs
  <2>3. m.at + m.seg <= fileNow /\ m.id <= made
    <3>1. m.id <= made /\ m.since <= fileNow /\ m.at + m.seg <= m.since /\ m.since \in Nat
      BY <1>2, <2>1, <2>2 DEF RecsOk, Files!Recording, Recs
    <3> QED BY <1>1, <2>2, <3>1
  <2>4. ASSUME NEW f \in disk \cup items
        PROVE  /\ f.at + f.seg <= f.mtime /\ f.mtime <= fileNow /\ f.rec <= made
               /\ (recs'[f.gate] # Files!NoRec => Beside(f, recs'[f.gate]))
    <3>1. f \in Written /\ f.gate \in Gates
      BY <1>1, <2>4 DEF Written
    <3>2. CASE f.gate = g
      <4>1. Beside(f, recs[g])
        BY <1>1, <2>1, <2>4, <3>2 DEF FilesOk
      <4> QED BY <1>1, <1>6, <2>2, <2>4, <3>1, <3>2, <4>1, BesideStays DEF FilesOk
    <3>3. CASE f.gate # g
      BY <1>1, <2>2, <2>4, <3>1, <3>3 DEF FilesOk, Files!Recording
    <3> QED BY <3>2, <3>3
  <2>5. ASSUME NEW f, f.gate = g, f.at = m.at, f.seg = m.seg, f.rec = m.id,
               f.mtime = fileNow, m.open
        PROVE  /\ f.at + f.seg <= f.mtime /\ f.mtime <= fileNow /\ f.rec <= made
               /\ Beside(f, recs'[f.gate])
    BY <1>1, <2>2, <2>3, <2>5 DEF Beside
  <2>6. CASE disk' = disk /\ (m.open => recs[g].open /\ m.seg = recs[g].seg)
    <3>1. \A f \in disk' \cup items' :
            /\ f.at + f.seg <= f.mtime /\ f.mtime <= fileNow' /\ f.rec <= made'
            /\ (recs'[f.gate] # Files!NoRec => Beside(f, recs'[f.gate]))
      BY <2>1, <2>4, <2>6
    <3>2. \A f, h \in disk' : Files!Path(f) = Files!Path(h) => f = h
      BY <1>1, <2>6 DEF FilesOk
    <3>3. ASSUME NEW f \in disk', recs'[f.gate] # Files!NoRec, recs'[f.gate].open,
                 Files!Path(f) = Files!segmentPath(f.gate, recs'[f.gate])
          PROVE  f.rec = recs'[f.gate].id
      <4>1. f.gate \in Gates /\ f \in disk
        BY <1>1, <2>6, <3>3 DEF Written
      <4>2. CASE f.gate = g
        <5>1. Files!Path(f) = Files!segmentPath(g, recs[g]) /\ recs[g].open
          BY <1>6, <2>2, <2>6, <3>3, <4>2, WritingIs DEF Files!segmentPath
        <5> QED BY <1>1, <1>6, <2>1, <2>2, <4>1, <4>2, <5>1, WritingIs DEF FilesOk
      <4>3. CASE f.gate # g
        BY <1>1, <2>2, <3>3, <4>1, <4>3 DEF FilesOk, Files!Recording
      <4> QED BY <4>2, <4>3
    <3> QED BY <3>1, <3>2, <3>3
            DEF FilesOk, Files!Recording, Beside, Files!Path, Files!segmentPath
  <2>7. CASE m.open /\ disk' = Files!Created(disk, Files!Segment(g, m))
    <3>1. \A f \in disk' \cup items' :
            /\ f.at + f.seg <= f.mtime /\ f.mtime <= fileNow' /\ f.rec <= made'
            /\ (recs'[f.gate] # Files!NoRec => Beside(f, recs'[f.gate]))
      BY <2>1, <2>4, <2>5, <2>7, CreatedIs
    <3>2. \A f, h \in disk' : Files!Path(f) = Files!Path(h) => f = h
      BY <1>1, <2>7, CreatedIs DEF FilesOk
    <3>3. ASSUME NEW f \in disk', recs'[f.gate] # Files!NoRec, recs'[f.gate].open,
                 Files!Path(f) = Files!segmentPath(f.gate, recs'[f.gate])
          PROVE  f.rec = recs'[f.gate].id
      <4>1. f.gate \in Gates
        <5>1. f \in Written
          BY <1>1, <2>7, CreatedIs
        <5> QED BY <5>1 DEF Written
      <4>2. CASE f.gate = g
        BY <2>2, <2>7, <3>3, <4>2, CreatedIs
      <4>3. CASE f.gate # g
        <5>1. f \in disk
          BY <2>7, <4>3, CreatedIs
        <5> QED BY <1>1, <2>2, <3>3, <4>1, <4>3, <5>1 DEF FilesOk, Files!Recording
      <4> QED BY <4>2, <4>3
    <3> QED BY <3>1, <3>2, <3>3
            DEF FilesOk, Files!Recording, Beside, Files!Path, Files!segmentPath
  <2> QED BY <1>6, <2>6, <2>7, WritingIs
<1>7. CASE Fewer
  BY <1>1, <1>7 DEF Fewer, FilesOk, Files!Recording, Beside, Files!Path, Files!segmentPath
<1> QED BY <1>3, <1>4, <1>5, <1>6, <1>7, FileShapes DEF FileSteps

LEMMA ReportedOkStep == ASSUME FileInv, [Files!Next]_fileVars PROVE ReportedOk'
<1>1. FileTypes /\ RecsOk /\ ReportedOk /\ made \in Nat /\ reported \in Seq(Segments)
  BY FileNumbers DEF FileInv, FileTypes
<1>2. CASE Files!Advance
  BY <1>1, <1>2 DEF Files!Advance, Files!recVars, ReportedOk, Files!Recording
<1>3. ASSUME NEW g \in Gates, NEW d \in Durations, Files!Start(g, d) PROVE ReportedOk'
  <2>1. \A i \in 1..Len(reported) : reported[i].rec \in Nat /\ reported[i].rec <= made
    <3>1. \A i \in 1..Len(reported) : reported[i] \in Segments
      BY <1>1, ElementOfSeq
    <3> QED BY <1>1, <3>1 DEF ReportedOk, Segments
  <2>2. /\ recs'[g].id = made + 1 /\ made' = made + 1 /\ reported' = reported
        /\ \A h \in Gates \ {g} : recs'[h] = recs[h]
    BY <1>3, StartIs
  <2> QED BY <1>1, <2>1, <2>2 DEF ReportedOk, Files!Recording
<1>4. ASSUME NEW gs \in SUBSET Gates, NEW q, Ending(gs, q) PROVE ReportedOk'
  BY <1>1, <1>4, ReportedGrows DEF Ending
<1>5. ASSUME NEW g \in Gates, NEW n \in Recs, NEW m \in Recs, Writing(g, n, m),
             FrameCloses(g)
      PROVE  ReportedOk'
  BY <1>1, <1>5, ReportedGrows DEF Writing, FrameCloses
<1>6. CASE Fewer
  BY <1>1, <1>6 DEF Fewer, ReportedOk, Files!Recording
<1> QED BY <1>2, <1>3, <1>4, <1>5, <1>6, FileShapes DEF FileSteps

LEMMA DiskAnnouncedStep == ASSUME FileInv, [Files!Next]_fileVars PROVE DiskAnnounced'
<1>1. FileTypes /\ DiskAnnounced
  BY DEF FileInv
<1>2. CASE Files!Advance
  BY <1>1, <1>2 DEF Files!Advance, Files!recVars, DiskAnnounced, Announced,
                    Files!OpenPaths, Files!Recording, Files!Path, Files!segmentPath
<1>3. ASSUME NEW g \in Gates, NEW d \in Durations, Files!Start(g, d) PROVE DiskAnnounced'
  <2>1. /\ disk' = disk /\ reported' = reported /\ ~Files!Recording(g) /\ ~recs'[g].open
        /\ \A h \in Gates \ {g} : recs'[h] = recs[h]
    BY <1>3, StartIs
  <2>2. Files!OpenPaths \subseteq Files!OpenPaths'
    BY <2>1 DEF Files!OpenPaths, Files!Recording, Files!segmentPath
  <2> QED BY <1>1, <2>1, <2>2 DEF DiskAnnounced, Announced, Files!Path
<1>4. ASSUME NEW gs \in SUBSET Gates, NEW q, Ending(gs, q) PROVE DiskAnnounced'
  <2> SUFFICES ASSUME NEW f \in disk PROVE (Files!Path(f) \in Files!OpenPaths)' \/ Announced(f)'
    BY <1>4 DEF Ending, DiskAnnounced
  <2>1. ASSUME NEW g \in Gates \ gs, Files!Recording(g), recs[g].open,
               Files!Path(f) = Files!segmentPath(g, recs[g])
        PROVE  (Files!Path(f) \in Files!OpenPaths)'
    <3>1. recs'[g] = recs[g]
      BY <1>4, <2>1 DEF Ending
    <3> QED BY <2>1, <3>1 DEF Files!OpenPaths, Files!Recording, Files!segmentPath, Files!Path
  <2> QED BY <1>4, <2>1, DiskStays DEF Ending
<1>5. ASSUME NEW g \in Gates, NEW n \in Recs, NEW m \in Recs, Writing(g, n, m),
             FrameCloses(g)
      PROVE  DiskAnnounced'
  <2>1. PICK gs \in SUBSET {g} : \E q :
          /\ Ends(gs, q)
          /\ (g \notin gs /\ recs[g].open =>
               /\ recs'[g] # Files!NoRec /\ recs'[g].open
               /\ Files!segmentPath(g, recs'[g]) = Files!segmentPath(g, recs[g]))
    BY <1>5 DEF FrameCloses
  <2>2. recs'[g] = m /\ m # Files!NoRec /\ \A h \in Gates \ {g} : recs'[h] = recs[h]
    BY <1>5, WritingIs
  <2>3. ASSUME NEW f \in disk PROVE (Files!Path(f) \in Files!OpenPaths)' \/ Announced(f)'
    <3>1. ASSUME NEW h \in Gates \ gs, Files!Recording(h), recs[h].open,
                 Files!Path(f) = Files!segmentPath(h, recs[h])
          PROVE  (Files!Path(f) \in Files!OpenPaths)'
      <4>1. /\ recs'[h] # Files!NoRec /\ recs'[h].open
            /\ Files!Path(f) = Files!segmentPath(h, recs'[h])
        BY <2>1, <2>2, <3>1 DEF Files!Recording
      <4> QED BY <4>1 DEF Files!OpenPaths, Files!Recording, Files!Path, Files!segmentPath
    <3> QED BY <2>1, <3>1, DiskStays
  <2>4. ASSUME NEW f \in disk' PROVE (Files!Path(f) \in Files!OpenPaths)' \/ Announced(f)'
    <3>1. CASE f \in disk
      BY <2>3, <3>1
    <3>2. CASE f \notin disk
      <4>1. m.open /\ Files!Path(f) = Files!segmentPath(g, m)
        BY <1>5, <2>4, <3>2, WritingIs, CreatedIs
      <4> QED BY <2>2, <4>1 DEF Files!OpenPaths, Files!Recording, Files!Path,
                                Files!segmentPath
    <3> QED BY <3>1, <3>2
  <2> QED BY <2>4 DEF DiskAnnounced
<1>6. CASE Fewer
  BY <1>1, <1>6 DEF Fewer, DiskAnnounced, Announced, Files!OpenPaths, Files!Recording,
                    Files!Path, Files!segmentPath
<1> QED BY <1>2, <1>3, <1>4, <1>5, <1>6, FileShapes DEF FileSteps

LEMMA PassOkStep == ASSUME FileInv, [Files!Next]_fileVars PROVE PassOk'
<1>1. /\ PassOk /\ fileNow \in Nat /\ lastPrune \in Nat
      /\ wd \in {"wait", "snap", "scan", "age", "size", "floor", "dirs"}
  BY FileNumbers DEF FileInv, FileTypes
<1>2. CASE Files!Advance
  BY <1>1, <1>2, FileNumbers DEF Files!Advance, Files!passVars, PassOk, Files!Path
<1>3. ASSUME NEW g \in Gates, NEW d \in Durations, Files!Start(g, d) PROVE PassOk'
  BY <1>1, <1>3, StartIs DEF PassOk, Files!Path
<1>4. ASSUME NEW g \in Gates, Files!Stop(g) PROVE PassOk'
  BY <1>1, <1>4 DEF Files!Stop, Files!passVars, PassOk, Files!Path
<1>5. ASSUME NEW g \in Gates, Files!Frame(g) PROVE PassOk'
  BY <1>1, <1>5, FrameDoes DEF PassOk, Files!Path
<1>6. CASE Files!Turn
  <2>1. wd = "wait" /\ UNCHANGED <<fileNow, active, items>>
    BY <1>6 DEF Files!Turn
  <2>2. \/ wd' = "snap" /\ lastPrune' = fileNow
        \/ wd' = "wait" /\ lastPrune' = lastPrune
    BY <1>6, <2>1 DEF Files!Turn
  <2> QED BY <1>1, <2>1, <2>2 DEF PassOk, Files!Path
<1>7. CASE Files!Snapshot
  BY <1>1, <1>7 DEF Files!Snapshot, PassOk, Files!Path
<1>8. CASE Files!Scan
  BY <1>1, <1>8 DEF Files!Scan, PassOk, Files!Path
<1>9. CASE Files!AgePass \/ Files!SizePass \/ Files!FloorPass
  BY <1>1, <1>9, PassesRemove DEF PassOk, Files!Path
<1>10. CASE Files!DirsPass
  BY <1>1, <1>10 DEF Files!DirsPass, PassOk, Files!Path
<1>11. CASE Files!Shutdown \/ Files!JoinWatchdog \/ Files!CloseAll
  BY <1>1, <1>11 DEF Files!Shutdown, Files!JoinWatchdog, Files!CloseAll, Files!passVars,
                     PassOk, Files!Path
<1>12. CASE UNCHANGED fileVars
  BY <1>1, <1>12 DEF fileVars, PassOk, Files!Path
<1> QED BY <1>2, <1>3, <1>4, <1>5, <1>6, <1>7, <1>8, <1>9, <1>10, <1>11, <1>12
        DEF Files!Next, Files!Pass

\* A frame of g opens no segment that the pass could take for an old one.
LEMMA FrameLate ==
    ASSUME FileInv, NEW g \in Gates, NEW n \in Recs, NEW m \in Recs, Writing(g, n, m)
    PROVE  OpenedLate'
<1>1. /\ FileTypes /\ RecsOk /\ FilesOk /\ PassOk /\ OpenedLate
      /\ fileNow \in Nat /\ lastPrune \in Nat
      /\ \A f \in disk \cup items : f \in Written
  BY FileNumbers DEF FileInv, FileTypes
<1>2. /\ UNCHANGED <<wd, active, items, fileNow, lastPrune>> /\ Files!Recording(g)
      /\ recs[g].at \in Nat /\ recs[g].seg \in Nat /\ recs[g].since \in Nat
  BY <1>1, RecordingIs DEF Writing
<1>3. recs'[g] = m /\ \A h \in Gates \ {g} : recs'[h] = recs[h]
  BY WritingIs
<1>4. ASSUME recs[g].open, m.open, m.seg = recs[g].seg
      PROVE  /\ Files!segmentPath(g, m) = Files!segmentPath(g, recs[g])
             /\ (Files!segmentPath(g, m) \notin active => Late(g))
  BY <1>2, <1>4, WritingIs DEF Files!segmentPath, Late
<1>5. ASSUME wd = "scan", m.open, Files!segmentPath(g, m) \notin active,
             NEW f \in disk', Files!Path(f) = Files!segmentPath(g, m)
      PROVE  f.mtime >= lastPrune
  <2>1. CASE disk' = disk /\ recs[g].open /\ m.seg = recs[g].seg
    BY <1>1, <1>4, <1>5, <2>1 DEF OpenedLate
  <2>2. CASE disk' = Files!Created(disk, Files!Segment(g, m))
    <3>1. f.mtime = fileNow
      BY <1>5, <2>2, CreatedIs
    <3> QED BY <1>1, <1>5, <3>1 DEF PassOk
  <2> QED BY <1>5, <2>1, <2>2, WritingIs
<1>6. ASSUME wd = "age", m.open, Files!segmentPath(g, m) \notin active,
             NEW f \in items, Files!Path(f) = Files!segmentPath(g, m)
      PROVE  f.mtime + SegmentSeconds > lastPrune
  <2>1. CASE recs[g].open /\ m.seg = recs[g].seg
    BY <1>1, <1>4, <1>6, <2>1 DEF OpenedLate
  <2>2. CASE ~(recs[g].open /\ m.seg = recs[g].seg)
    <3>1. /\ f.gate = g /\ f.at = m.at /\ f.seg = m.seg /\ m.at = recs[g].at
          /\ f.mtime \in Nat /\ f.seg \in Nat
      BY <1>1, <1>6, WritingIs DEF Files!Path, Files!segmentPath, Written
    <3>2. Beside(f, recs[g]) /\ f.at + f.seg <= f.mtime
      BY <1>1, <1>2, <1>6, <3>1 DEF FilesOk
    <3>3. \/ m.seg = recs[g].seg /\ fileNow - recs[g].since < SegmentSeconds
          \/ m.seg = recs[g].seg + 1
      BY WritingIs
    <3>4. f.seg = 0 /\ m.seg = recs[g].seg
      BY <1>2, <2>2, <3>1, <3>2, <3>3 DEF Beside
    <3>5. recs[g].since = recs[g].at
      BY <1>1, <1>2, <3>1, <3>4 DEF RecsOk
    <3>6. fileNow - recs[g].since < SegmentSeconds /\ lastPrune <= fileNow
      BY <1>1, <1>2, <1>6, <3>3, <3>4 DEF PassOk
    <3> QED BY <1>1, <1>2, <3>1, <3>2, <3>4, <3>5, <3>6, FileNumbers
  <2> QED BY <2>1, <2>2
<1>7. ASSUME NEW h \in Gates \ {g}, Late(h)' PROVE Late(h)
  BY <1>2, <1>3, <1>7 DEF Late, Files!Recording, Files!segmentPath
<1>8. ASSUME NEW h \in Gates \ {g}, Late(h)', wd' = "scan", NEW f \in disk',
             Files!Path(f) = Files!segmentPath(h, recs'[h])
      PROVE  f.mtime >= lastPrune
  <2>1. CASE f \in disk
    BY <1>1, <1>2, <1>3, <1>7, <1>8, <2>1 DEF OpenedLate
  <2>2. CASE f \notin disk
    <3>1. f.mtime = fileNow
      BY <1>8, <2>2, WritingIs, CreatedIs
    <3> QED BY <1>1, <1>2, <1>8, <3>1 DEF PassOk
  <2> QED BY <2>1, <2>2
<1>9. ASSUME NEW h \in Gates \ {g}, Late(h)', wd' = "age", NEW f \in items,
             Files!Path(f) = Files!segmentPath(h, recs'[h])
      PROVE  f.mtime + SegmentSeconds > lastPrune
  BY <1>1, <1>2, <1>3, <1>7, <1>9 DEF OpenedLate
<1>10. Late(g)' => m.open /\ Files!segmentPath(g, m) \notin active
  BY <1>2, <1>3 DEF Late, Files!segmentPath
<1> QED BY <1>2, <1>3, <1>5, <1>6, <1>8, <1>9, <1>10
        DEF OpenedLate, Files!Path, Files!segmentPath

LEMMA OpenedLateStep == ASSUME FileInv, [Files!Next]_fileVars PROVE OpenedLate'
<1>1. /\ FileTypes /\ OpenedLate /\ PassOk /\ fileNow \in Nat /\ lastPrune \in Nat
      /\ \A f \in disk : f.mtime \in Nat
  BY FileNumbers DEF FileInv, FileTypes, Written
\* Nothing but a frame opens a segment.
<1>2. ASSUME \A h \in Gates : recs'[h] = recs[h] \/ recs'[h] = Files!NoRec \/ ~recs'[h].open,
             active' = active, items' \subseteq items, disk' \subseteq disk,
             lastPrune' = lastPrune, wd' = wd
      PROVE  OpenedLate'
  <2>1. ASSUME NEW h \in Gates, Late(h)'
        PROVE  Late(h) /\ recs'[h] = recs[h]
    BY <1>2, <2>1 DEF Late, Files!Recording, Files!segmentPath
  <2> QED BY <1>1, <1>2, <2>1 DEF OpenedLate, Files!Path, Files!segmentPath
<1>3. CASE Files!Advance
  BY <1>2, <1>3 DEF Files!Advance, Files!recVars, Files!passVars
<1>4. ASSUME NEW g \in Gates, NEW d \in Durations, Files!Start(g, d) PROVE OpenedLate'
  BY <1>2, <1>4, StartIs
<1>5. ASSUME NEW g \in Gates, Files!Stop(g) PROVE OpenedLate'
  <2>1. recs' = [recs EXCEPT ![g] = Files!NoRec]
    BY <1>5 DEF Files!Stop
  <2>2. \A h \in Gates : recs'[h] = recs[h] \/ recs'[h] = Files!NoRec
    BY <1>1, <2>1 DEF FileTypes
  <2> QED BY <1>2, <1>5, <2>2 DEF Files!Stop, Files!passVars
<1>6. ASSUME NEW g \in Gates, Files!Frame(g) PROVE OpenedLate'
  <2>1. UNCHANGED <<made, fileNow, wd, lastPrune, active, items, app>> /\ Files!Recording(g)
    BY <1>6, FrameDoes
  <2>2. CASE recs' = [recs EXCEPT ![g] = Files!NoRec] /\ disk' = disk
    <3>1. \A h \in Gates : recs'[h] = recs[h] \/ recs'[h] = Files!NoRec
      BY <1>1, <2>2 DEF FileTypes
    <3> QED BY <1>2, <2>1, <2>2, <3>1
  <2>3. ASSUME NEW n \in Recs, NEW m \in Recs, Rolls(g, n), Goes(g, n, m)
        PROVE  OpenedLate'
    BY <2>1, <2>3, FrameLate DEF Writing
  <2> QED BY <1>6, <2>2, <2>3, FrameDoes
<1>7. CASE Files!Turn
  <2>1. wd = "wait" /\ wd' \in {"wait", "snap"}
    BY <1>7 DEF Files!Turn
  <2> QED BY <2>1 DEF OpenedLate
<1>8. CASE Files!Snapshot
  <2>1. active' = Files!OpenPaths /\ recs' = recs
    BY <1>8 DEF Files!Snapshot, Files!recVars, Files!OpenNow
  <2>2. \A h \in Gates : ~Late(h)'
    BY <2>1 DEF Late, Files!OpenPaths, Files!Recording, Files!segmentPath
  <2> QED BY <2>2 DEF OpenedLate
<1>9. CASE Files!Scan
  <2>1. /\ wd = "scan" /\ wd' = "age" /\ items' \subseteq disk
        /\ UNCHANGED <<recs, active, disk, lastPrune>>
    BY <1>9 DEF Files!Scan, Files!recVars
  <2>2. \A h \in Gates : Late(h)' => Late(h)
    BY <2>1 DEF Late, Files!Recording, Files!segmentPath
  <2>3. ASSUME NEW h \in Gates, Late(h), NEW f \in items',
               Files!Path(f) = Files!segmentPath(h, recs[h])
        PROVE  f.mtime + SegmentSeconds > lastPrune
    <3>1. f.mtime >= lastPrune /\ f.mtime \in Nat
      BY <1>1, <2>1, <2>3 DEF OpenedLate
    <3> QED BY <1>1, <3>1, FileNumbers
  <2> QED BY <2>1, <2>2, <2>3 DEF OpenedLate, Files!Path, Files!segmentPath
<1>10. CASE Files!AgePass \/ Files!SizePass \/ Files!FloorPass
  <2>1. wd' \in {"size", "floor", "dirs"}
    BY <1>10, PassesRemove
  <2> QED BY <2>1 DEF OpenedLate
<1>11. CASE Files!DirsPass
  <2>1. wd' = "wait"
    BY <1>11 DEF Files!DirsPass
  <2> QED BY <2>1 DEF OpenedLate
<1>12. CASE Files!Shutdown \/ Files!JoinWatchdog
  BY <1>2, <1>12 DEF Files!Shutdown, Files!JoinWatchdog, Files!recVars, Files!passVars
<1>13. CASE Files!CloseAll
  <2>1. \A h \in Gates : recs'[h] = Files!NoRec
    BY <1>13 DEF Files!CloseAll
  <2> QED BY <1>2, <1>13, <2>1 DEF Files!CloseAll, Files!passVars
<1>14. CASE UNCHANGED fileVars
  BY <1>2, <1>14 DEF fileVars
<1> QED BY <1>3, <1>4, <1>5, <1>6, <1>7, <1>8, <1>9, <1>10, <1>11, <1>12, <1>13, <1>14
        DEF Files!Next, Files!Pass

LEMMA FileStep == FileInv /\ [Files!Next]_fileVars => FileInv'
  BY FileTypesStep, RecsOkStep, FilesOkStep, ReportedOkStep, DiskAnnouncedStep, PassOkStep,
     OpenedLateStep DEF FileInv

LEMMA FileInit == Files!Init => FileInv
<1> SUFFICES ASSUME Files!Init PROVE FileInv
  OBVIOUS
<1>1. /\ recs = [g \in Gates |-> Files!NoRec] /\ made = 0 /\ fileNow = 1
      /\ disk = {} /\ items = {} /\ active = {} /\ reported = <<>>
      /\ wd = "wait" /\ lastPrune = 0 /\ app = "up"
  BY DEF Files!Init
<1>2. \A g \in Gates : ~Files!Recording(g)
  BY <1>1 DEF Files!Recording
<1>3. FileTypes
  BY <1>1, FileNumbers DEF FileTypes
<1>4. RecsOk /\ FilesOk /\ DiskAnnounced /\ PassOk /\ OpenedLate
  BY <1>1, <1>2 DEF RecsOk, FilesOk, DiskAnnounced, PassOk, OpenedLate, Late
<1>5. ReportedOk
  BY <1>1 DEF ReportedOk
<1> QED BY <1>3, <1>4, <1>5 DEF FileInv

\* So the invariant holds in every reachable state of the services.
LEMMA FilesStep == [ServicesNext]_<<part, vars, fileVars, plateVars>> => [Files!Next]_fileVars
  BY DEF ServicesNext, Records, Shows, Reads

LEMMA FilesHold == ServicesSpec => []FileInv
<1>1. ServicesInit => FileInv
  BY FileInit DEF ServicesInit
<1>2. FileInv /\ [ServicesNext]_<<part, vars, fileVars, plateVars>> => FileInv'
  BY FilesStep, FileStep
<1> QED BY <1>1, <1>2, PTL DEF ServicesSpec

\* Every segment that was finished is announced, none twice and none that is still being
\* written, whichever of a command, a late frame, the watchdog, a rollover and the
\* destructor closes it (closeSegment).
THEOREM SegmentsSound == ServicesSpec => []SegmentsAreSound
<1> SUFFICES ASSUME FileInv PROVE SegmentsAreSound
  BY FilesHold, PTL
<1>1. FileTypes /\ RecsOk /\ FilesOk /\ ReportedOk /\ DiskAnnounced /\ made \in Nat
  BY FileNumbers DEF FileInv, FileTypes
<1>2. Files!TypeOK
  <2>1. \A g \in Gates : Files!Recording(g) =>
          /\ recs[g].id \in 1..made /\ recs[g].at <= recs[g].since /\ recs[g].since <= fileNow
          /\ recs[g].open \in BOOLEAN
          /\ recs[g].until # 0 => recs[g].at < recs[g].until
    BY <1>1, RecordingIs DEF RecsOk
  <2>2. \A f \in disk : Files!Path(f) \in Files!Paths
    <3> TAKE f \in disk
    <3>1. f \in Written /\ f.at + f.seg <= f.mtime /\ f.mtime <= fileNow
      BY <1>1 DEF FileTypes, FilesOk
    <3>2. f.at \in 0..FileTime /\ f.seg \in 0..FileTime /\ f.gate \in Gates
      BY <1>1, <3>1, FileNumbers DEF FileTypes, Written
    <3> QED BY <3>2 DEF Files!Path, Files!Paths
  <2>3. {Files!Path(f) : f \in disk} \subseteq Files!Paths
    BY <2>2
  <2>4. \A f, h \in disk : Files!Path(f) = Files!Path(h) => f = h
    BY <1>1 DEF FilesOk
  <2> QED BY <1>1, <2>1, <2>3, <2>4 DEF Files!TypeOK, FileTypes
<1>3. Files!AnnouncedOnce
  <2>1. \A i \in 1..Len(reported) :
          /\ reported[i] \in Segments
          /\ reported[i] = [path |-> reported[i].path, rec |-> reported[i].rec]
    <3>1. \A i \in 1..Len(reported) : reported[i] \in Segments
      BY <1>1, ElementOfSeq DEF FileTypes
    <3> QED BY <3>1 DEF Segments
  <2>2. \A i, j \in 1..Len(reported) :
          reported[i].path = reported[j].path /\ reported[i].rec = reported[j].rec => i = j
    BY <1>1, <2>1 DEF ReportedOk
  <2>3. \A i \in 1..Len(reported), g \in Gates :
          Files!Recording(g) /\ recs[g].open =>
             \/ reported[i].path # Files!segmentPath(g, recs[g])
             \/ reported[i].rec # recs[g].id
    <3> SUFFICES ASSUME NEW i \in 1..Len(reported), NEW g \in Gates, Files!Recording(g),
                        reported[i].path = Files!segmentPath(g, recs[g]),
                        reported[i].rec = recs[g].id
                 PROVE  FALSE
      OBVIOUS
    <3>1. reported[i].path.seg < recs[g].seg
      BY <1>1 DEF ReportedOk
    <3>2. reported[i].path.seg = recs[g].seg /\ recs[g].seg \in Nat
      BY <1>1, SegmentIs, RecordingIs
    <3> QED BY <3>1, <3>2
  <2>4. \A f \in disk :
          \/ Files!Path(f) \in Files!OpenPaths
          \/ \E i \in 1..Len(reported) :
                reported[i].path = Files!Path(f) /\ reported[i].rec = f.rec
    <3> SUFFICES ASSUME NEW f \in disk, Announced(f)
                 PROVE  \E i \in 1..Len(reported) :
                          reported[i].path = Files!Path(f) /\ reported[i].rec = f.rec
      BY <1>1 DEF DiskAnnounced
    <3>1. PICK i \in 1..Len(reported) :
            reported[i] = [path |-> Files!Path(f), rec |-> f.rec]
      BY DEF Announced
    <3> QED BY <3>1
  <2> QED BY <2>2, <2>3, <2>4 DEF Files!AnnouncedOnce
<1> QED BY <1>2, <1>3 DEF SegmentsAreSound, Files!SegmentsAreSound

\* What a step of the pass removes was on its list.
LEMMA Listed ==
    ASSUME FileInv, Files!AgePass \/ Files!SizePass \/ Files!FloorPass,
           NEW f \in disk, f \notin disk'
    PROVE  \E i \in items : /\ Files!Path(i) = Files!Path(f)
                            /\ wd = "age" => /\ RetentionDays > 0
                                             /\ i.mtime < fileNow - RetentionDays
<1>1. ASSUME NEW gone, Files!Delete(gone)
      PROVE  \E i \in gone : Files!Path(i) = Files!Path(f)
  BY <1>1 DEF Files!Delete
<1>2. CASE Files!AgePass
  BY <1>1, <1>2 DEF Files!AgePass
<1>3. CASE Files!SizePass
  BY <1>1, <1>3 DEF Files!SizePass, Files!Oldest
<1>4. CASE Files!FloorPass
  BY <1>1, <1>4 DEF Files!FloorPass, Files!Oldest
<1> QED BY <1>2, <1>3, <1>4

\* A file leaves the disk by the pass, or by a frame that truncates it.
LEMMA Leaves ==
    ASSUME FileInv, [Files!Next]_fileVars, NEW f \in disk, f \notin disk'
    PROVE  \/ Files!AgePass \/ Files!SizePass \/ Files!FloorPass
           \/ \E g \in Gates : \E n, m \in Recs :
                /\ Writing(g, n, m) /\ m.open
                /\ disk' = Files!Created(disk, Files!Segment(g, m))
                /\ Files!Path(f) = Files!segmentPath(g, m)
<1>1. ASSUME NEW g \in Gates, Files!Frame(g)
      PROVE  \E n, m \in Recs :
                /\ Writing(g, n, m) /\ m.open
                /\ disk' = Files!Created(disk, Files!Segment(g, m))
                /\ Files!Path(f) = Files!segmentPath(g, m)
  <2>1. PICK n \in Recs, m \in Recs : Writing(g, n, m)
    BY <1>1, FrameDoes DEF Writing
  <2>2. m.open /\ disk' = Files!Created(disk, Files!Segment(g, m))
    BY <2>1, WritingIs
  <2>3. Files!Path(f) = Files!segmentPath(g, m)
    BY <2>2 DEF Files!Created, Files!Segment
  <2> QED BY <2>1, <2>2, <2>3
<1>2. ASSUME NEW g \in Gates, NEW d \in Durations, Files!Start(g, d) PROVE FALSE
  BY <1>2, StartIs
<1>3. ASSUME \/ Files!Advance \/ Files!Turn \/ Files!Snapshot \/ Files!Scan \/ Files!DirsPass
             \/ Files!Shutdown \/ Files!JoinWatchdog \/ Files!CloseAll
             \/ (\E g \in Gates : Files!Stop(g)) \/ UNCHANGED fileVars
      PROVE  FALSE
  BY <1>3 DEF Files!Advance, Files!Turn, Files!Snapshot, Files!Scan, Files!DirsPass,
              Files!Shutdown, Files!JoinWatchdog, Files!CloseAll, Files!Stop, fileVars
<1> QED BY <1>1, <1>2, <1>3 DEF Files!Next, Files!Pass

\* The file a frame opens is on the disk.
LEMMA CreatedFile ==
    ASSUME FileInv, NEW g \in Gates, NEW m \in Recs,
           disk' = Files!Created(disk, Files!Segment(g, m))
    PROVE  \E h \in disk' : Files!Path(h) = Files!segmentPath(g, m) /\ h.rec = m.id
<1> DEFINE h == [gate |-> g, at |-> m.at, seg |-> m.seg, rec |-> m.id, mtime |-> fileNow]
<1>1. h \in disk'
  BY DEF Files!Created, Files!Segment, Files!segmentPath
<1>2. Files!Path(h) = Files!segmentPath(g, m) /\ h.rec = m.id
  BY DEF Files!Path, Files!segmentPath
<1> QED BY <1>1, <1>2

\* The pruning pass leaves a segment that is being written alone, however long its camera
\* has been silent, except one that was opened after its snapshot, which only the two
\* budgets can reach (pruneOldRecordings).
THEOREM OpenStays == ServicesSpec => OpenSpared
<1> DEFINE Spared ==
      \A p \in Files!OpenPaths :
        ((\E f \in disk : Files!Path(f) = p) /\ (\A f \in disk' : Files!Path(f) # p))
           => wd \in {"size", "floor"} /\ p \notin active
<1>1. ASSUME FileInv, [Files!Next]_fileVars PROVE Spared
  <2> SUFFICES ASSUME NEW p \in Files!OpenPaths, NEW f \in disk, Files!Path(f) = p,
                      \A h \in disk' : Files!Path(h) # p
               PROVE  wd \in {"size", "floor"} /\ p \notin active
    OBVIOUS
  <2>1. f \notin disk'
    OBVIOUS
  <2>2. PICK g \in Gates : Files!Recording(g) /\ recs[g].open
                           /\ p = Files!segmentPath(g, recs[g])
    BY DEF Files!OpenPaths
  <2>3. CASE Files!AgePass \/ Files!SizePass \/ Files!FloorPass
    <3>1. PICK i \in items : /\ Files!Path(i) = p
                             /\ wd = "age" => /\ RetentionDays > 0
                                              /\ i.mtime < fileNow - RetentionDays
      BY <1>1, <2>1, <2>3, Listed
    <3>2. wd \in {"age", "size", "floor"}
      BY <2>3, PassesRemove
    <3>3. p \notin active
      BY <1>1, <3>1 DEF FileInv, PassOk
    <3>4. ASSUME wd = "age" PROVE FALSE
      <4>1. i.mtime + SegmentSeconds > lastPrune
        BY <1>1, <2>2, <3>1, <3>3, <3>4 DEF FileInv, OpenedLate, Late
      <4>2. RetentionDays > 0 /\ i.mtime < fileNow - RetentionDays
        BY <3>1, <3>4
      <4>3. fileNow = lastPrune \/ fileNow + SegmentSeconds <= lastPrune + RetentionDays + 1
        BY <1>1, <3>4, <4>2 DEF FileInv, PassOk
      <4>4. i.mtime \in Nat /\ fileNow \in Nat /\ lastPrune \in Nat
        BY <1>1, FileNumbers DEF FileInv, FileTypes, Written
      <4> QED BY <4>1, <4>2, <4>3, <4>4, FileNumbers
    <3> QED BY <3>2, <3>3, <3>4
  <2>4. ASSUME NEW h \in Gates, NEW m \in Recs, Files!Path(f) = Files!segmentPath(h, m),
               disk' = Files!Created(disk, Files!Segment(h, m))
        PROVE  FALSE
    BY <1>1, <2>4, CreatedFile
  <2> QED BY <1>1, <2>1, <2>3, <2>4, Leaves
<1>2. FileInv /\ [ServicesNext]_<<part, vars, fileVars, plateVars>> => [Spared]_Files!vars
  BY <1>1, FilesStep
<1> QED BY <1>2, FilesHold, PTL DEF ServicesSpec, OpenSpared, Files!OpenSpared

\* A finished segment goes only when the pass has listed its name, or is overwritten by a
\* later recording of its gate that started in the very second its own did
\* (pruneOldRecordings, makeBaseName, openSegment).
THEOREM FinishedStay == ServicesSpec => KeptUntilPruned
<1> DEFINE Kept ==
      \A f \in disk :
        (Files!Path(f) \notin Files!OpenPaths /\ \A h \in disk' : h # f)
           => \/ \E i \in items : Files!Path(i) = Files!Path(f)
              \/ \E h \in disk' : Files!Path(h) = Files!Path(f) /\ h.rec > f.rec
<1>1. ASSUME FileInv, [Files!Next]_fileVars PROVE Kept
  <2> SUFFICES ASSUME NEW f \in disk, Files!Path(f) \notin Files!OpenPaths,
                      \A h \in disk' : h # f
               PROVE  \/ \E i \in items : Files!Path(i) = Files!Path(f)
                      \/ \E h \in disk' : Files!Path(h) = Files!Path(f) /\ h.rec > f.rec
    OBVIOUS
  <2>1. f \notin disk'
    OBVIOUS
  <2>2. CASE Files!AgePass \/ Files!SizePass \/ Files!FloorPass
    BY <1>1, <2>1, <2>2, Listed
  <2>3. ASSUME NEW g \in Gates, NEW n \in Recs, NEW m \in Recs, Writing(g, n, m), m.open,
               Files!Path(f) = Files!segmentPath(g, m),
               disk' = Files!Created(disk, Files!Segment(g, m))
        PROVE  \E h \in disk' : Files!Path(h) = Files!Path(f) /\ h.rec > f.rec
    <3>1. PICK h \in disk' : Files!Path(h) = Files!segmentPath(g, m) /\ h.rec = m.id
      BY <1>1, <2>3, CreatedFile
    <3>2. /\ f.gate = g /\ f.at = m.at /\ f.seg = m.seg /\ f \in Written
          /\ f.rec \in Nat /\ m.id \in Nat /\ m.seg \in Nat
      BY <1>1, <2>3, FileNumbers, SMTT(30)
      DEF FileInv, FileTypes, Written, Recs, Files!Path, Files!segmentPath
    <3>3. /\ recs[g].id = m.id /\ recs[g].at = m.at /\ recs[g].seg \in Nat
          /\ recs[g].seg <= m.seg /\ Files!Recording(g)
      BY <1>1, <2>3, WritingIs, RecordingIs DEF Writing, FileInv
    <3>4. Beside(f, recs[g])
      BY <1>1, <3>2, <3>3 DEF FileInv, FilesOk
    <3>5. f.rec # m.id
      <4> SUFFICES ASSUME f.rec = m.id PROVE FALSE
        OBVIOUS
      <4>1. f.seg = recs[g].seg /\ recs[g].open
        BY <3>2, <3>3, <3>4 DEF Beside
      <4>2. Files!Path(f) = Files!segmentPath(g, recs[g])
        BY <3>2, <3>3, <4>1 DEF Files!Path, Files!segmentPath
      <4> QED BY <3>3, <4>1, <4>2 DEF Files!OpenPaths
    <3> QED BY <2>3, <3>1, <3>2, <3>3, <3>4, <3>5 DEF Beside
  <2> QED BY <1>1, <2>1, <2>2, <2>3, Leaves
<1>2. FileInv /\ [ServicesNext]_<<part, vars, fileVars, plateVars>> => [Kept]_Files!vars
  BY <1>1, FilesStep
<1> QED BY <1>2, FilesHold, PTL DEF ServicesSpec, KeptUntilPruned, Files!KeptUntilPruned
================================================================================
