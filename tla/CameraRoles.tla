------------------------------ MODULE CameraRoles ------------------------------
(***************************************************************************)
(* Which settings, and which role, the cameras of one BaslerCamera run     *)
(* with: the colour camera and, of a pair, the mono camera whose exposure  *)
(* pulse triggers it (BaslerCamera_facade.cpp, SyncConfigurators.cpp).     *)
(*                                                                         *)
(* A camera is configured from a copy of its profile that a connecting     *)
(* thread takes before it opens the device.  The facade replaces profiles  *)
(* while cameras are added and when the settings change, and it does so    *)
(* for the cameras it finds connected.  Settings are saved by threads that *)
(* know nothing of it.  How cameras are lost, and the steps of a reconnect *)
(* worker, are those of BaslerSupervisor; here a camera that is lost is    *)
(* always connected again.  trigger_mode is 0.                             *)
(***************************************************************************)
EXTENDS Naturals

CONSTANTS
  Cameras,    \* {"rgb"}, or with "mono" a pair
  Modes,      \* what the settings may ask for
  MaxSaves    \* bound: changes of the settings

RolesAssumption ==
  /\ "rgb" \in Cameras /\ Cameras \subseteq {"rgb", "mono"}
  /\ Modes \subseteq {"pylon", "host", "free"}   \* "free": host with rgb_free_run
  /\ MaxSaves \in Nat

VARIABLES
  settings, saves,    \* what SettingsManager holds, and how often it changed
  members, snapshot,  \* what readSettings and hwSnapshot read last
  hasMono, profile,   \* profiles_: what each camera is to be configured with
  attempt,            \* the copy a connecting thread has taken, or Waiting
  device,             \* what each connected camera was configured with
  manager, todo,      \* what the facade does next, and for which cameras
  missed              \* history: cameras its last change has passed over

facade  == <<members, snapshot, hasMono, profile, manager, todo, missed>>
cameras == <<attempt, device>>
vars    == <<settings, saves, facade, cameras>>

None    == [mode |-> "none", role |-> "none"]
Waiting == [mode |-> "wait", role |-> "none"]

Starting == {"construct", "print", "rgb", "rgbConnects", "mono", "monoConnects",
             "relist", "reslave"}

Init ==
  /\ settings \in Modes /\ saves = 0
  /\ members = "none" /\ snapshot = "none" /\ hasMono = FALSE
  /\ profile = [c \in Cameras |-> None] /\ attempt = [c \in Cameras |-> None]
  /\ device = [c \in Cameras |-> None]
  /\ manager = "construct" /\ todo = {} /\ missed = {}

\* Host mode: the mono camera is the master, and the colour camera of a pair
\* its slave unless it is set free.  Otherwise every camera is on its own.
RoleOf(c, mode, pair) ==
  CASE mode = "pylon" -> "alone"
    [] mode = "host" /\ c = "rgb" /\ pair -> "slave"
    [] OTHER -> "output"

\* buildProfile: with the members as they are.
Built(c, pair) == [mode |-> members, role |-> RoleOf(c, members, pair)]

Connected == {c \in Cameras : device[c] # None}

-----------------------------------------------------------------------------
(* The constructor, set_adress and set_mono_adress.                        *)

\* readSettings, in the constructor and for a change.
ReadSettings ==
  /\ manager \in {"construct", "refresh"}
  /\ members' = settings
  /\ manager' = IF manager = "construct" THEN "print" ELSE "list"
  /\ UNCHANGED <<settings, saves, snapshot, hasMono, profile, todo, missed, cameras>>

Fingerprint ==
  /\ manager = "print" /\ manager' = "rgb"
  /\ snapshot' = settings
  /\ UNCHANGED <<settings, saves, members, hasMono, profile, todo, missed, cameras>>

\* The facade connects a new camera itself; it is a pair before the mono
\* camera is connected.
AddCamera(c) ==
  /\ manager = c
  /\ hasMono' = (hasMono \/ c = "mono")
  /\ profile' = [profile EXCEPT ![c] = Built(c, hasMono')]
  /\ attempt' = [attempt EXCEPT ![c] = profile'[c]]
  /\ manager' = IF c = "rgb" THEN "rgbConnects" ELSE "monoConnects"
  /\ UNCHANGED <<settings, saves, members, snapshot, device, todo, missed>>

\* It is connected, or left to a worker.
Added ==
  /\ \/ /\ manager = "rgbConnects" /\ attempt["rgb"] \in {None, Waiting}
        /\ manager' = IF "mono" \in Cameras THEN "mono" ELSE "idle"
     \/ /\ manager = "monoConnects" /\ attempt["mono"] \in {None, Waiting}
        /\ manager' = "relist"
  /\ UNCHANGED <<settings, saves, members, snapshot, hasMono, profile, todo, missed, cameras>>

\* The colour camera is to be a slave now, if it is connected.
Relist ==
  /\ manager = "relist" /\ manager' = "reslave"
  /\ todo' = Connected \ {"mono"} /\ missed' = Cameras \ (todo' \cup {"mono"})
  /\ UNCHANGED <<settings, saves, members, snapshot, hasMono, profile, cameras>>

-----------------------------------------------------------------------------
(* reapplySettings.                                                        *)

\* Only a change of the fingerprint is one.
Reapply ==
  /\ manager = "idle" /\ snapshot # settings
  /\ snapshot' = settings /\ manager' = "refresh"
  /\ UNCHANGED <<settings, saves, members, hasMono, profile, todo, missed, cameras>>

List ==
  /\ manager = "list" /\ manager' = "fault"
  /\ todo' = Connected /\ missed' = Cameras \ Connected
  /\ UNCHANGED <<settings, saves, members, snapshot, hasMono, profile, cameras>>

\* Slip: handleFault before addProfile: the worker copies the old profile.
FaultedFirst(c) == IF attempt[c] = None THEN profile[c] ELSE attempt[c]

\* addProfile, then handleFault: the device goes, and a worker comes unless
\* there is one.  One that has its copy already keeps it.
Faulted(c) == IF attempt[c] = None THEN Waiting ELSE attempt[c]

Rebuild(c) ==
  /\ manager \in {"reslave", "fault"} /\ c \in todo
  /\ todo' = todo \ {c}
  /\ profile' = [profile EXCEPT ![c] = Built(c, hasMono)]
  /\ device' = [device EXCEPT ![c] = None]
  /\ attempt' = [attempt EXCEPT ![c] = Faulted(c)]
  /\ missed' = IF attempt[c] \in {None, Waiting, profile'[c]} THEN missed ELSE missed \cup {c}
  /\ UNCHANGED <<settings, saves, members, snapshot, hasMono, manager>>

Rest ==
  /\ manager \in {"reslave", "fault"} /\ todo = {} /\ manager' = "idle"
  /\ UNCHANGED <<settings, saves, members, snapshot, hasMono, profile, todo, missed, cameras>>

-----------------------------------------------------------------------------
(* The threads that connect cameras, the capture thread, the settings.     *)

\* Each attempt takes a new one.
Retry(c) ==
  /\ attempt[c] = Waiting
  /\ attempt' = [attempt EXCEPT ![c] = profile[c]]
  /\ UNCHANGED <<settings, saves, facade, device>>

OpenFails(c) ==
  /\ attempt[c] \notin {None, Waiting}
  /\ attempt' = [attempt EXCEPT ![c] = Waiting]
  /\ UNCHANGED <<settings, saves, facade, device>>

\* A required node that does not take its value leaves the camera unsure of
\* its role, and connected all the same.
Configured(role) == {role, "unsure"}

Store(c) ==
  /\ attempt[c] \notin {None, Waiting}
  /\ \E r \in Configured(attempt[c].role) :
       device' = [device EXCEPT ![c] = [mode |-> attempt[c].mode, role |-> r]]
  /\ attempt' = [attempt EXCEPT ![c] = None]
  /\ UNCHANGED <<settings, saves, facade>>

\* handleFault of the capture thread, which starts when all are added.
Drop(c) ==
  /\ c \in Connected /\ manager \notin Starting
  /\ device' = [device EXCEPT ![c] = None]
  /\ attempt' = [attempt EXCEPT ![c] = Waiting]
  /\ UNCHANGED <<settings, saves, facade>>

Save(m) ==
  /\ saves < MaxSaves /\ m # settings
  /\ settings' = m /\ saves' = saves + 1
  /\ UNCHANGED <<facade, cameras>>

Next ==
  \/ ReadSettings \/ Fingerprint \/ Added \/ Relist \/ Reapply \/ List \/ Rest
  \/ \E c \in Cameras : AddCamera(c) \/ Rebuild(c) \/ Retry(c) \/ OpenFails(c) \/ Store(c) \/ Drop(c)
  \/ \E m \in Modes : Save(m)

Spec == Init /\ [][Next]_vars

-----------------------------------------------------------------------------
TypeOK ==
  LET profiles == [mode : Modes, role : {"alone", "output", "slave"}] IN
  /\ settings \in Modes /\ saves \in 0..MaxSaves
  /\ {members, snapshot} \subseteq Modes \cup {"none"} /\ hasMono \in BOOLEAN
  /\ profile \in [Cameras -> profiles \cup {None}]
  /\ attempt \in [Cameras -> profiles \cup {None, Waiting}]
  /\ manager \in Starting \cup {"idle", "refresh", "list", "fault"}
  /\ todo \subseteq Cameras /\ missed \subseteq Cameras

\* The facade has nothing under way and c is connected.
AtRest(c) == manager = "idle" /\ device[c] # None

\* A camera runs with the members and the role of its facade unless it was
\* not connected when they changed, or was lost meanwhile and on its way back
\* with the old profile (reapplySettings, set_mono_adress).
OldOnlyIfMissed ==
  \A c \in Cameras : AtRest(c) /\ c \notin missed =>
    device[c].mode = members /\ device[c].role \in Configured(Built(c, hasMono).role)

\* What the cameras of a facade run with (BaslerCamera).
RolesAreSound == TypeOK /\ OldOnlyIfMissed

\* What buildProfile's table says of host mode: the colour camera of a pair is
\* a slave.  It does not hold: one that could not be connected before the mono
\* camera was added comes up with the profile of a camera on its own.
PairRgbIsSlave ==
  AtRest("rgb") /\ AtRest("mono") /\ members = "host" =>
    device["rgb"].role \in Configured("slave")

\* What hwSnapshot's comment promises: settings that differ from those in use
\* differ from the fingerprint.  It does not hold when they change between the
\* two reads, of the constructor or of reapplySettings.
ChangeIsNoticed == manager = "idle" /\ snapshot = settings => members = settings
===============================================================================
