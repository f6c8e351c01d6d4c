------------------------------- MODULE LiveView -------------------------------
(* What operators see of one camera: LiveViewService behind CommandRouter (how  *)
(* long the gate is streamed), the manual-control session of Application (which *)
(* replaces the stream while the sensor is being adjusted) and the observer on  *)
(* the capture thread that chooses between the two for every frame.             *)
(*                                                                              *)
(* The backend is external: it relays every viewer's request as a command with  *)
(* that viewer's duration and sends stop_streaming when the last viewer leaves; *)
(* commands are handled one at a time, in order.                                *)
EXTENDS Integers, Sequences, FiniteSets

CONSTANTS
    Viewers,
    Requests,       \* durations asked for
    LongestLive,    \* the 24 hours a duration is cut to
    ManualLive,     \* kManualLiveSeconds
    EveryN,         \* sendEveryN
    MaxTime, MaxCommands    \* bounds

ASSUME NumbersAssumption ==
    /\ Requests \subseteq Int /\ {LongestLive, ManualLive, EveryN} \subseteq Nat \ {0}
    /\ {MaxTime, MaxCommands} \subseteq Nat /\ Viewers # {}

VARIABLES
    now,
    viewers,    \* backend: the viewers, and when their commands were handled
    cmds, sent, \* commands on their way, commands sent
    live,       \* live_[gate]
    manual,     \* manualLive_[gate]: 0, or when it expires
    observer,   \* the observer: idle, or which of the two it found
    cut         \* viewers whose stream a revert has ended

backend == <<viewers, cmds, sent>>
reader == <<live, manual, cut>>
vars == <<now, backend, reader, observer>>

Forever == 0
Off == [on |-> FALSE, until |-> Forever, count |-> 0]
Gone == [in |-> FALSE, asked |-> 0, from |-> 0, command |-> 0]
Pending == -1

Init ==
    /\ now = 1 /\ viewers = [u \in Viewers |-> Gone] /\ cmds = <<>> /\ sent = 0
    /\ live = Off /\ manual = 0 /\ cut = {}
    /\ observer = "idle"

Tick == now < MaxTime /\ now' = now + 1 /\ UNCHANGED <<backend, reader, observer>>

-------------------------------------------------------------------------------
(* The backend                                                                  *)

Command(do, u, n) ==
    /\ sent < MaxCommands /\ sent' = sent + 1
    /\ cmds' = Append(cmds, [do |-> do, by |-> u, value |-> n, id |-> sent + 1])

Watch(u, duration) ==
    /\ ~viewers[u].in
    /\ viewers' = [viewers EXCEPT ![u] = [in |-> TRUE, asked |-> duration, from |-> Pending,
                                             command |-> sent + 1]]
    /\ Command("streaming", u, duration)
    /\ UNCHANGED <<now, reader, observer>>

Leave(u) ==
    /\ viewers[u].in
    /\ viewers' = [viewers EXCEPT ![u] = Gone]
    /\ IF \A o \in Viewers \ {u} : ~viewers[o].in
       THEN Command("stop_streaming", u, 0)
       ELSE UNCHANGED <<cmds, sent>>
    /\ UNCHANGED <<now, reader, observer>>

\* An operator adjusts the sensor, or takes manual control back.
Adjust(do) ==
    /\ Command(do, CHOOSE u \in Viewers : TRUE, 0)
    /\ UNCHANGED <<now, viewers, reader, observer>>

-------------------------------------------------------------------------------
(* onCommand, CommandRouter, LiveViewService                                    *)

Clamped(n, lo, hi) == IF n < lo THEN lo ELSE IF n > hi THEN hi ELSE n

\* liveView(): negative is 0, which is without end; one second becomes two.
Duration(asked) ==
    LET raw == Clamped(asked, 0, LongestLive)
    IN IF raw = 1 THEN 2 ELSE raw

\* Slip: the newest request counts.
EnabledLast(l, until) == [on |-> TRUE, until |-> until, count |-> l.count]

\* enableLive(): the longest of all requests counts.
Enabled(l, until) ==
    IF ~l.on THEN [on |-> TRUE, until |-> until, count |-> 0]
    ELSE IF until = Forever \/ l.until = Forever THEN [l EXCEPT !.until = Forever]
    ELSE [l EXCEPT !.until = IF until > @ THEN until ELSE @]

Until(asked) == IF Duration(asked) = 0 THEN Forever ELSE now + Duration(asked)

Handle ==
    /\ cmds # <<>> /\ cmds' = Tail(cmds)
    /\ LET c == Head(cmds) IN
         \/ /\ c.do = "streaming"
            /\ live' = Enabled(live, Until(c.value))
            /\ viewers' = IF viewers[c.by].command = c.id
                          THEN [viewers EXCEPT ![c.by].from = now] ELSE viewers
            /\ cut' = cut \ {c.by}
            /\ UNCHANGED manual
         \/ /\ c.do = "stop_streaming" /\ live' = Off
            /\ UNCHANGED <<viewers, manual, cut>>
         \/ /\ c.do = "set" /\ manual' = now + ManualLive
            /\ UNCHANGED <<viewers, live, cut>>
         \* Use Settings, Reset and Exposure Auto end the session and the stream.
         \/ /\ c.do = "revert"
            /\ manual' = 0 /\ live' = Off
            /\ cut' = {u \in Viewers : viewers[u].in}
            /\ UNCHANGED viewers
    /\ UNCHANGED <<now, sent, observer>>

-------------------------------------------------------------------------------
(* The raw observer, on the capture thread                                      *)

Frame ==
    /\ observer = "idle"
    /\ observer' = IF manual > now THEN "session" ELSE "stream"
    /\ manual' = IF manual > now THEN manual ELSE 0
    /\ UNCHANGED <<now, backend, live, cut>>

Over(l) == l.until # Forever /\ now >= l.until

\* publishManualLive(), or LiveViewService::onFrame: an expired entry is erased,
\* of the other frames every Nth goes out.
Show ==
    /\ observer # "idle" /\ observer' = "idle"
    /\ live' = IF observer = "session" THEN live
               ELSE IF ~live.on \/ Over(live) THEN Off
               ELSE [live EXCEPT !.count = (@ + 1) % EveryN]
    /\ UNCHANGED <<now, backend, manual, cut>>

Next ==
    \/ Tick
    \/ (\E u \in Viewers : Leave(u) \/ \E n \in Requests : Watch(u, n))
    \/ Adjust("set") \/ Adjust("revert")
    \/ Handle \/ Frame \/ Show

Spec == Init /\ [][Next]_vars
-------------------------------------------------------------------------------
Watching(u) ==
    /\ viewers[u].in /\ viewers[u].from \notin {0, Pending}
    /\ \/ Duration(viewers[u].asked) = 0
       \/ now < viewers[u].from + Duration(viewers[u].asked)

\* `A second viewer asking for a shorter time' never cuts the first one's stream
\* off: everybody who watches is served for as long as he asked, whoever comes
\* and goes and whichever frames the observer drops the entry on; except those a
\* revert of manual control has cut off (enableLive, onFrame, onCommand).
ViewersServed ==
    \A u \in Viewers : Watching(u) /\ u \notin cut => live.on /\ ~Over(live)

\* The same without the exception, as LiveViewService states it.
AllViewersServed == \A u \in Viewers : Watching(u) => live.on /\ ~Over(live)
===============================================================================
