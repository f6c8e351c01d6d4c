------------------------------ MODULE PartsProofs ------------------------------
(* Proofs, for every value of the constants, of six of the parts: that a camera  *)
(* is left with the crop that was asked for, and with the mode and the role its  *)
(* facade has for it; that the lists of tracks are sound and a vehicle keeps its *)
(* label; that what the cameras of an interface send fits it; that the exposure  *)
(* loop spares gain and sharpness; and that the sender's messages leave in       *)
(* order, those of a plate a cooldown apart, and nothing is suppressed for a     *)
(* message that never went out.                                                  *)
EXTENDS MCParts, FiniteSetTheorems, SequenceTheorems, TLAPS
-------------------------------------------------------------------------------
(* The roles of the cameras: the inductive invariant                             *)

Roled == [mode : Modes, role : {"alone", "output", "slave"}]
Running == [mode : Modes, role : {"alone", "output", "slave", "unsure"}]

RoleTypes ==
    /\ Roles!TypeOK
    /\ device \in [Pair -> Running \cup {Roles!None}]
    /\ manager # "construct" => members \in Modes

\* c has nothing of an earlier change: not its profile, not a copy of it that a thread
\* has taken, not what it was configured with.
Current(c) ==
    LET built == Roles!Built(c, hasMono) IN
    /\ profiles[c] = built
    /\ attempt[c] \in {Roles!None, Roles!Waiting, built}
    /\ device[c] # Roles!None => /\ device[c].mode = members
                                 /\ device[c].role \in Roles!Configured(built.role)

\* Nobody connects c yet.
Blank(c) == attempt[c] = Roles!None /\ device[c] = Roles!None

\* Which cameras are current by what the facade does next.
Stages ==
    /\ manager \notin {"reslave", "fault"} => todo = {}
    /\ \A c \in Pair :
         /\ manager \in {"construct", "print", "rgb"} => Blank(c)
         /\ manager \in {"rgbConnects", "mono"} => IF c = "rgb" THEN Current(c) ELSE Blank(c)
         /\ manager \in {"monoConnects", "relist"} /\ c = "mono" => Current(c)
         /\ manager \in {"reslave", "fault", "idle"} /\ c \notin missed \cup todo => Current(c)

RolesInv == RoleTypes /\ Stages

LEMMA RolesNumbers == "rgb" \in Pair /\ Pair \subseteq {"rgb", "mono"}
                      /\ Modes \subseteq {"pylon", "host", "free"} /\ MaxSaves \in Nat
  BY FacadeAssumption DEF Roles!RolesAssumption

\* What the facade builds is a profile.
LEMMA BuiltIs ==
    ASSUME members \in Modes, NEW c, NEW two
    PROVE  Roles!Built(c, two) \in Roled
  BY DEF Roles!Built, Roles!RoleOf, Roled

LEMMA NeitherIsProfile == Roles!None \notin Roled /\ Roles!Waiting \notin Roled
                          /\ Roles!None # Roles!Waiting /\ Roles!None \notin Running
  BY RolesNumbers DEF Roles!None, Roles!Waiting, Roled, Running

LEMMA RolesInit == Roles!Init => RolesInv
<1> SUFFICES ASSUME Roles!Init PROVE RolesInv
  OBVIOUS
<1>1. RoleTypes
  <2>1. /\ profiles = [c \in Pair |-> Roles!None] /\ attempt = [c \in Pair |-> Roles!None]
        /\ device = [c \in Pair |-> Roles!None] /\ settings \in Modes /\ saves = 0
        /\ members = "none" /\ snapshot = "none" /\ hasMono = FALSE
        /\ manager = "construct" /\ todo = {} /\ missed = {}
    BY DEF Roles!Init
  <2>2. /\ profiles \in [Pair -> Roled \cup {Roles!None}]
        /\ attempt \in [Pair -> Roled \cup {Roles!None, Roles!Waiting}]
        /\ device \in [Pair -> Running \cup {Roles!None}]
    BY <2>1
  <2>3. saves \in 0..MaxSaves
    BY <2>1, RolesNumbers
  <2> QED BY <2>1, <2>2, <2>3 DEF RoleTypes, Roles!TypeOK, Roles!Starting, Roled
<1>2. Stages
  BY DEF Roles!Init, Stages, Blank
<1> QED BY <1>1, <1>2 DEF RolesInv

LEMMA RoleTypesStep == ASSUME RolesInv, [Roles!Next]_rolesVars PROVE RoleTypes'
<1>1. /\ RoleTypes /\ settings \in Modes /\ saves \in 0..MaxSaves
      /\ members \in Modes \cup {"none"} /\ snapshot \in Modes \cup {"none"}
      /\ hasMono \in BOOLEAN
      /\ profiles \in [Pair -> Roled \cup {Roles!None}]
      /\ attempt \in [Pair -> Roled \cup {Roles!None, Roles!Waiting}]
      /\ device \in [Pair -> Running \cup {Roles!None}]
      /\ manager \in Roles!Starting \cup {"idle", "refresh", "list", "fault"}
      /\ todo \subseteq Pair /\ missed \subseteq Pair
      /\ manager # "construct" => members \in Modes
  BY DEF RolesInv, RoleTypes, Roles!TypeOK, Roled
<1>2. CASE Roles!ReadSettings
  BY <1>1, <1>2 DEF Roles!ReadSettings, RoleTypes, Roles!TypeOK, Roles!cameras, Roles!Starting,
     Roled
<1>3. CASE Roles!Fingerprint \/ Roles!Reapply
  BY <1>1, <1>3 DEF Roles!Fingerprint, Roles!Reapply, RoleTypes, Roles!TypeOK, Roles!cameras,
     Roles!Starting, Roled
<1>4. CASE Roles!Added \/ Roles!Rest
  BY <1>1, <1>4 DEF Roles!Added, Roles!Rest, RoleTypes, Roles!TypeOK, Roles!cameras,
     Roles!Starting, Roled
<1>5. CASE Roles!Relist \/ Roles!List
  BY <1>1, <1>5 DEF Roles!Relist, Roles!List, RoleTypes, Roles!TypeOK, Roles!cameras,
     Roles!Starting, Roles!Connected, Roled
<1>6. ASSUME NEW c \in Pair, Roles!AddCamera(c) PROVE RoleTypes'
  <2>1. c \in {"rgb", "mono"} /\ members \in Modes
    BY <1>1, <1>6, RolesNumbers DEF Roles!AddCamera
  <2>2. Roles!Built(c, hasMono') \in Roled
    BY <2>1, BuiltIs
  <2>3. hasMono' \in BOOLEAN
    BY <1>6 DEF Roles!AddCamera
  <2> QED BY <1>1, <1>6, <2>1, <2>2, <2>3
          DEF Roles!AddCamera, RoleTypes, Roles!TypeOK, Roles!Starting, Roled
<1>7. ASSUME NEW c \in Pair, Roles!Rebuild(c) PROVE RoleTypes'
  <2>1. Roles!Built(c, hasMono) \in Roled
    BY <1>1, <1>7, BuiltIs DEF Roles!Rebuild
  <2>2. Roles!Faulted(c) \in Roled \cup {Roles!Waiting}
    BY <1>1 DEF Roles!Faulted
  <2> QED BY <1>1, <1>7, <2>1, <2>2
          DEF Roles!Rebuild, RoleTypes, Roles!TypeOK, Roles!Starting, Roled
<1>8. ASSUME NEW c \in Pair, Roles!Retry(c) \/ Roles!OpenFails(c) \/ Roles!Drop(c)
      PROVE  RoleTypes'
  BY <1>1, <1>8 DEF Roles!Retry, Roles!OpenFails, Roles!Drop, RoleTypes, Roles!TypeOK,
     Roles!Starting, Roles!facade, Roled
<1>9. ASSUME NEW c \in Pair, Roles!Store(c) PROVE RoleTypes'
  <2>1. attempt[c] \in Roled
    BY <1>1, <1>9 DEF Roles!Store
  <2>2. \A r \in Roles!Configured(attempt[c].role) :
          [mode |-> attempt[c].mode, role |-> r] \in Running
    BY <2>1 DEF Roled, Running, Roles!Configured
  <2> QED BY <1>1, <1>9, <2>2
          DEF Roles!Store, RoleTypes, Roles!TypeOK, Roles!Starting, Roles!facade, Roled
<1>10. ASSUME NEW m \in Modes, Roles!Save(m) PROVE RoleTypes'
  BY <1>1, <1>10, RolesNumbers DEF Roles!Save, RoleTypes, Roles!TypeOK, Roles!Starting,
     Roles!facade, Roles!cameras, Roled
<1>11. CASE UNCHANGED rolesVars
  BY <1>1, <1>11 DEF rolesVars, RoleTypes, Roles!TypeOK, Roles!Starting, Roled
<1> QED BY <1>2, <1>3, <1>4, <1>5, <1>6, <1>7, <1>8, <1>9, <1>10, <1>11 DEF Roles!Next

LEMMA StagesStep == ASSUME RolesInv, [Roles!Next]_rolesVars PROVE Stages'
<1>1. /\ Stages
      /\ profiles \in [Pair -> Roled \cup {Roles!None}]
      /\ attempt \in [Pair -> Roled \cup {Roles!None, Roles!Waiting}]
      /\ device \in [Pair -> Running \cup {Roles!None}]
      /\ manager # "construct" => members \in Modes
      /\ "rgb" \in Pair /\ Pair \subseteq {"rgb", "mono"}
  BY RolesNumbers DEF RolesInv, RoleTypes, Roles!TypeOK, Roled
\* The threads that connect cameras keep what is current, and what is blank.
<1>2. ASSUME UNCHANGED <<members, hasMono, profiles, manager, todo, missed>>,
             \A c \in Pair : Current(c) => Current(c)',
             \A c \in Pair : manager \in Roles!Starting /\ Blank(c) => Blank(c)'
      PROVE  Stages'
  BY <1>1, <1>2 DEF Stages, Roles!Starting
<1>3. CASE Roles!ReadSettings
  BY <1>1, <1>3 DEF Roles!ReadSettings, Roles!cameras, Stages, Blank
<1>4. CASE Roles!Fingerprint
  BY <1>1, <1>4 DEF Roles!Fingerprint, Roles!cameras, Stages, Blank
<1>5. CASE Roles!Added
  <2>1. UNCHANGED <<members, hasMono, profiles, attempt, device, todo, missed>>
    BY <1>5 DEF Roles!Added, Roles!cameras
  <2>2. \A c \in Pair : (Current(c) => Current(c)') /\ (Blank(c) => Blank(c)')
    BY <2>1 DEF Current, Blank, Roles!Built
  <2> QED BY <1>1, <1>5, <2>1, <2>2 DEF Roles!Added, Stages
<1>6. CASE Roles!Relist
  <2>1. UNCHANGED <<members, hasMono, profiles, attempt, device>>
    BY <1>6 DEF Roles!Relist, Roles!cameras
  <2>2. \A c \in Pair : Current(c) => Current(c)'
    BY <2>1 DEF Current, Roles!Built
  <2> QED BY <1>1, <1>6, <2>2 DEF Roles!Relist, Stages
<1>7. CASE Roles!Reapply
  BY <1>1, <1>7 DEF Roles!Reapply, Stages
<1>8. CASE Roles!List
  BY <1>1, <1>8 DEF Roles!List, Stages
<1>9. CASE Roles!Rest
  <2>1. UNCHANGED <<members, hasMono, profiles, attempt, device, todo, missed>>
    BY <1>9 DEF Roles!Rest, Roles!cameras
  <2>2. \A c \in Pair : Current(c) => Current(c)'
    BY <2>1 DEF Current, Roles!Built
  <2> QED BY <1>1, <1>9, <2>1, <2>2 DEF Roles!Rest, Stages
<1>10. ASSUME NEW c \in Pair, Roles!AddCamera(c) PROVE Stages'
  <2>1. /\ manager = c /\ device' = device /\ todo' = todo /\ members' = members
        /\ profiles' = [profiles EXCEPT ![c] = Roles!Built(c, hasMono')]
        /\ attempt' = [attempt EXCEPT ![c] = profiles'[c]]
        /\ manager' = IF c = "rgb" THEN "rgbConnects" ELSE "monoConnects"
    BY <1>10 DEF Roles!AddCamera
  <2>2. Blank(c)
    BY <1>1, <2>1 DEF Stages
  <2>3. Current(c)'
    BY <1>1, <2>1, <2>2 DEF Current, Blank, Roles!Built
  <2>4. ASSUME NEW o \in Pair \ {c}, Blank(o) PROVE Blank(o)'
    BY <1>1, <2>1, <2>4 DEF Blank
  <2> QED BY <1>1, <2>1, <2>3, <2>4 DEF Stages
<1>11. ASSUME NEW c \in Pair, Roles!Rebuild(c) PROVE Stages'
  <2> DEFINE built == Roles!Built(c, hasMono)
  <2>1. /\ manager \in {"reslave", "fault"} /\ todo' = todo \ {c}
        /\ profiles' = [profiles EXCEPT ![c] = built]
        /\ device' = [device EXCEPT ![c] = Roles!None]
        /\ attempt' = [attempt EXCEPT ![c] = Roles!Faulted(c)]
        /\ missed' = IF attempt[c] \in {Roles!None, Roles!Waiting, profiles'[c]}
                     THEN missed ELSE missed \cup {c}
        /\ UNCHANGED <<members, hasMono, manager>>
    BY <1>11 DEF Roles!Rebuild
  <2>2. \A o \in Pair \ {c} : Current(o) => Current(o)'
    BY <1>1, <2>1 DEF Current, Roles!Built
  <2>3. c \notin missed' => Current(c)'
    <3> SUFFICES ASSUME c \notin missed' PROVE Current(c)'
      OBVIOUS
    <3>1. profiles'[c] = built /\ device'[c] = Roles!None /\ attempt'[c] = Roles!Faulted(c)
      BY <1>1, <2>1
    <3>2. attempt[c] \in {Roles!None, Roles!Waiting, built}
      BY <2>1, <3>1
    <3>3. attempt'[c] \in {Roles!None, Roles!Waiting, built}
      BY <3>1, <3>2 DEF Roles!Faulted
    <3>4. built = Roles!Built(c, hasMono)'
      BY <2>1 DEF Roles!Built
    <3> QED BY <3>1, <3>3, <3>4 DEF Current
  <2> QED BY <1>1, <2>1, <2>2, <2>3 DEF Stages
<1>12. ASSUME NEW c \in Pair, Roles!Retry(c) PROVE Stages'
  <2>1. /\ attempt[c] = Roles!Waiting /\ attempt' = [attempt EXCEPT ![c] = profiles[c]]
        /\ UNCHANGED <<members, hasMono, profiles, manager, todo, missed, device>>
    BY <1>12 DEF Roles!Retry, Roles!facade
  <2>2. \A o \in Pair : Current(o) => Current(o)'
    BY <1>1, <2>1 DEF Current, Roles!Built
  <2>3. \A o \in Pair : Blank(o) => Blank(o)'
    BY <1>1, <2>1, NeitherIsProfile DEF Blank
  <2> QED BY <1>2, <2>1, <2>2, <2>3
<1>13. ASSUME NEW c \in Pair, Roles!OpenFails(c) PROVE Stages'
  <2>1. /\ attempt[c] # Roles!None /\ attempt' = [attempt EXCEPT ![c] = Roles!Waiting]
        /\ UNCHANGED <<members, hasMono, profiles, manager, todo, missed, device>>
    BY <1>13 DEF Roles!OpenFails, Roles!facade
  <2>2. \A o \in Pair : Current(o) => Current(o)'
    BY <1>1, <2>1 DEF Current, Roles!Built
  <2>3. \A o \in Pair : Blank(o) => Blank(o)'
    BY <1>1, <2>1 DEF Blank
  <2> QED BY <1>2, <2>1, <2>2, <2>3
<1>14. ASSUME NEW c \in Pair, Roles!Store(c) PROVE Stages'
  <2>1. PICK r \in Roles!Configured(attempt[c].role) :
          device' = [device EXCEPT ![c] = [mode |-> attempt[c].mode, role |-> r]]
    BY <1>14 DEF Roles!Store
  <2>2. /\ attempt[c] \notin {Roles!None, Roles!Waiting}
        /\ attempt' = [attempt EXCEPT ![c] = Roles!None]
        /\ UNCHANGED <<members, hasMono, profiles, manager, todo, missed>>
    BY <1>14 DEF Roles!Store, Roles!facade
  <2>3. \A o \in Pair \ {c} : (Current(o) => Current(o)') /\ (Blank(o) => Blank(o)')
    BY <1>1, <2>1, <2>2 DEF Current, Blank, Roles!Built
  <2>4. Current(c) => Current(c)'
    <3> SUFFICES ASSUME Current(c) PROVE Current(c)'
      OBVIOUS
    <3>1. attempt[c] = Roles!Built(c, hasMono) /\ profiles[c] = Roles!Built(c, hasMono)
      BY <2>2 DEF Current
    <3>2. device'[c].mode = members /\ device'[c].role \in Roles!Configured(attempt[c].role)
      BY <1>1, <2>1, <3>1 DEF Roles!Built
    <3> QED BY <1>1, <2>2, <3>1, <3>2 DEF Current, Roles!Built, Roles!Configured
  <2>5. ~Blank(c)
    BY <2>2 DEF Blank
  <2> QED BY <1>2, <2>2, <2>3, <2>4, <2>5
<1>15. ASSUME NEW c \in Pair, Roles!Drop(c) PROVE Stages'
  <2>1. /\ manager \notin Roles!Starting
        /\ device' = [device EXCEPT ![c] = Roles!None]
        /\ attempt' = [attempt EXCEPT ![c] = Roles!Waiting]
        /\ UNCHANGED <<members, hasMono, profiles, manager, todo, missed>>
    BY <1>15 DEF Roles!Drop, Roles!facade
  <2>2. \A o \in Pair : Current(o) => Current(o)'
    BY <1>1, <2>1 DEF Current, Roles!Built
  <2> QED BY <1>2, <2>1, <2>2
<1>16. CASE (\E m \in Modes : Roles!Save(m)) \/ UNCHANGED rolesVars
  <2>1. UNCHANGED <<members, hasMono, profiles, manager, todo, missed, attempt, device>>
    BY <1>16 DEF Roles!Save, Roles!facade, Roles!cameras, rolesVars
  <2>2. \A o \in Pair : (Current(o) => Current(o)') /\ (Blank(o) => Blank(o)')
    BY <2>1 DEF Current, Blank, Roles!Built
  <2> QED BY <1>2, <2>1, <2>2
<1> QED BY <1>3, <1>4, <1>5, <1>6, <1>7, <1>8, <1>9, <1>10, <1>11, <1>12, <1>13, <1>14,
           <1>15, <1>16 DEF Roles!Next

LEMMA RolesHold == PartsSpec => [](part = "roles" => RolesInv)
<1> DEFINE Inv == part = "roles" => RolesInv
<1>1. PartsInit => Inv
  BY RolesInit DEF PartsInit
<1>2. ASSUME Inv, [PartsNext]_<<part, vars, operatorVars, trackerVars, matchingVars, dualVars,
                                othersVars>>
      PROVE  Inv'
  <2> SUFFICES ASSUME part' = "roles" PROVE RolesInv'
    OBVIOUS
  <2>1. part = "roles" /\ [Roles!Next]_rolesVars
    BY <1>2 DEF PartsNext, Sends, Operates, Tracks, Matches, Captures, Shares, Exposes,
                Assigns, othersVars, connectVars
  <2> QED BY <1>2, <2>1, RoleTypesStep, StagesStep DEF RolesInv
<1> QED BY <1>1, <1>2, PTL DEF PartsSpec

\* Whatever the settings change to, and however cameras come, go and are configured by
\* halves, a camera that is connected when the facade rests runs with the mode and the role
\* the facade has for it, unless the last change had to pass it over (reapplySettings,
\* set_mono_adress, ConnectionSupervisor).
THEOREM RolesFit == PartsSpec => []RolesAreSound
<1>1. RolesInv => Roles!RolesAreSound
  <2> SUFFICES ASSUME RolesInv PROVE Roles!OldOnlyIfMissed
    BY DEF RolesInv, RoleTypes, Roles!RolesAreSound
  <2>1. \A c \in Pair : manager = "idle" /\ c \notin missed => Current(c)
    BY DEF RolesInv, Stages
  <2> QED BY <2>1 DEF Roles!OldOnlyIfMissed, Roles!AtRest, Current
<1>2. (part = "roles" => RolesInv) => RolesAreSound
  BY <1>1 DEF RolesAreSound
<1> QED BY <1>2, RolesHold, PTL
-------------------------------------------------------------------------------
(* The crop of a camera: its writes                                              *)

Area == [Operator!Axes -> [size : Int, at : Int]]

LEMMA OperatorNumbers ==
    /\ MinSize \in Nat \ {0} /\ Increment \in Nat \ {0}
    /\ Sensor \in [Operator!Axes -> Nat] /\ Crops \subseteq Area /\ Values \subseteq Int
    /\ \A a \in Operator!Axes : Sensor[a] >= MinSize
  BY OperatorAssumption DEF Operator!SensorAssumption, Area

\* A value that is aligned is not moved by being aligned.
LEMMA Aligned ==
    ASSUME NEW n \in Int, NEW low \in Int, n >= low, (n - low) % Increment = 0
    PROVE  Operator!Align(n, low) = n
<1>1. PICK gap \in Nat, b \in Nat \ {0} : gap = n - low /\ b = Increment
  BY OperatorNumbers
<1>2. gap % b = 0
  BY <1>1
<1>3. (gap \div b) * b = gap
  BY <1>2
<1> QED BY <1>1, <1>3 DEF Operator!Align

LEMMA AlignIsInt ==
    ASSUME NEW n \in Int, NEW low \in Int
    PROVE  Operator!Align(n, low) \in Int
<1>1. PICK b \in Nat \ {0} : b = Increment
  BY OperatorNumbers
<1>2. (n - low) \div b \in Int
  OBVIOUS
<1> QED BY <1>1, <1>2 DEF Operator!Align

\* A crop has whole numbers for each axis.
LEMMA FieldsInt ==
    ASSUME NEW crop \in Area, NEW a \in Operator!Axes
    PROVE  /\ crop[a].size \in Int /\ crop[a].at \in Int
           /\ crop[a] = [size |-> crop[a].size, at |-> crop[a].at]
  BY DEF Area

\* A write touches one field of one axis.
Moved(crop, a, e) == [crop EXCEPT ![a].at = e]
Resized(crop, a, e) == [crop EXCEPT ![a].size = e]

LEMMA WritesOne ==
    ASSUME NEW crop \in Area, NEW a \in Operator!Axes, NEW e \in Int
    PROVE  /\ Moved(crop, a, e) \in Area
           /\ Moved(crop, a, e)[a] = [size |-> crop[a].size, at |-> e]
           /\ Resized(crop, a, e) \in Area
           /\ Resized(crop, a, e)[a] = [size |-> e, at |-> crop[a].at]
  BY DEF Area, Moved, Resized

LEMMA OthersStay ==
    ASSUME NEW crop \in Area, NEW a \in Operator!Axes, NEW e \in Int,
           NEW o \in Operator!Axes, o # a
    PROVE  Moved(crop, a, e)[o] = crop[o] /\ Resized(crop, a, e)[o] = crop[o]
  BY DEF Area, Moved, Resized

\* What SetAoiCommand asks of a node for a size, and for an offset.
SizeFor(crop, want, a) ==
    Operator!Between(Operator!Align(want[a].size, MinSize), MinSize, Operator!MaxSize(crop, a))
OffsetFor(crop, want, a) ==
    Operator!Between(Operator!Align(want[a].at, 0), 0, Operator!MaxSize(crop, a) - crop[a].size)

LEMMA AsksInt ==
    ASSUME NEW crop \in Area, NEW want \in Area, NEW a \in Operator!Axes
    PROVE  SizeFor(crop, want, a) \in Int /\ OffsetFor(crop, want, a) \in Int
<1>1. PICK s \in Int, l \in Int, z \in Int, k \in Int :
        s = want[a].size /\ l = want[a].at /\ z = crop[a].size /\ k = crop[a].at
  BY FieldsInt
<1>2. Operator!Align(s, MinSize) \in Int /\ Operator!Align(l, 0) \in Int
  <2>1. MinSize \in Int
    BY OperatorNumbers
  <2>2. Operator!Align(s, MinSize) \in Int
    BY <2>1, AlignIsInt
  <2>3. Operator!Align(l, 0) \in Int
    BY AlignIsInt
  <2> QED BY <2>2, <2>3
<1>3. Sensor[a] - k \in Int /\ Sensor[a] - k - z \in Int /\ MinSize \in Int
  BY OperatorNumbers
<1> QED BY <1>1, <1>2, <1>3
        DEF SizeFor, OffsetFor, Operator!Between, Operator!MaxSize

\* The three kinds of writes leave a crop.
LEMMA ZeroedIs ==
    ASSUME NEW crop \in Area, NEW a \in Operator!Axes
    PROVE  /\ Operator!Zeroed(crop, a) \in Area /\ Operator!Zeroed(crop, a)[a].at = 0
           /\ \A o \in Operator!Axes : o # a => Operator!Zeroed(crop, a)[o] = crop[o]
<1>1. PICK e \in Int : e = 0
  OBVIOUS
<1>2. PICK n : n = Moved(crop, a, e)
  OBVIOUS
<1>3. n \in Area /\ n[a] = [size |-> crop[a].size, at |-> e]
  <2>1. Moved(crop, a, e) \in Area
    BY ONLY crop \in Area, a \in Operator!Axes, e \in Int, WritesOne
  <2>2. Moved(crop, a, e)[a] = [size |-> crop[a].size, at |-> e]
    BY ONLY crop \in Area, a \in Operator!Axes, e \in Int, WritesOne
  <2> QED BY ONLY <1>2, <2>1, <2>2
<1>4. \A o \in Operator!Axes : o # a => n[o] = crop[o]
  BY <1>2, OthersStay
<1>5. Operator!Zeroed(crop, a) = n
  BY <1>1, <1>2 DEF Operator!Zeroed, Moved
<1> QED BY <1>1, <1>3, <1>4, <1>5

LEMMA SizedElsewhere ==
    ASSUME NEW crop \in Area, NEW want \in Area, NEW a \in Operator!Axes,
           NEW o \in Operator!Axes, o # a
    PROVE  Operator!Sized(crop, want, a)[o] = crop[o]
<1>1. PICK e \in Int, z \in Int : e = SizeFor(crop, want, a) /\ z = want[a].size
  BY AsksInt, FieldsInt
<1>2. PICK n : n = Resized(crop, a, e)
  OBVIOUS
<1>3. n[o] = crop[o]
  BY <1>2, OthersStay
<1>4. Operator!Sized(crop, want, a) = IF z <= 0 THEN crop ELSE n
  BY <1>1, <1>2 DEF Operator!Sized, SizeFor, Resized
<1> QED BY ONLY <1>3, <1>4

LEMMA SizedIs ==
    ASSUME NEW crop \in Area, NEW want \in Area, NEW a \in Operator!Axes
    PROVE  /\ Operator!Sized(crop, want, a) \in Area
           /\ want[a].size > 0 => Operator!Sized(crop, want, a)[a]
                                    = [size |-> SizeFor(crop, want, a), at |-> crop[a].at]
           /\ \A o \in Operator!Axes : o # a => Operator!Sized(crop, want, a)[o] = crop[o]
<1>1. PICK e \in Int, z \in Int : e = SizeFor(crop, want, a) /\ z = want[a].size
  BY AsksInt, FieldsInt
<1>2. PICK n : n = Resized(crop, a, e)
  OBVIOUS
<1>3. n \in Area /\ n[a] = [size |-> e, at |-> crop[a].at]
  <2>1. Resized(crop, a, e) \in Area
    BY ONLY crop \in Area, a \in Operator!Axes, e \in Int, WritesOne
  <2>2. Resized(crop, a, e)[a] = [size |-> e, at |-> crop[a].at]
    BY ONLY crop \in Area, a \in Operator!Axes, e \in Int DEF Area, Resized
  <2> QED BY ONLY <1>2, <2>1, <2>2
<1>4. \A o \in Operator!Axes : o # a => n[o] = crop[o]
  BY <1>2, OthersStay
<1>5. Operator!Sized(crop, want, a) = IF z <= 0 THEN crop ELSE n
  BY <1>1, <1>2 DEF Operator!Sized, SizeFor, Resized
<1> QED BY <1>1, <1>3, <1>4, <1>5

LEMMA PlacedElsewhere ==
    ASSUME NEW crop \in Area, NEW want \in Area, NEW a \in Operator!Axes,
           NEW o \in Operator!Axes, o # a
    PROVE  Operator!Placed(crop, want, a)[o] = crop[o]
<1>1. PICK e \in Int, z \in Int : e = OffsetFor(crop, want, a) /\ z = want[a].at
  BY AsksInt, FieldsInt
<1>2. PICK n : n = Moved(crop, a, e)
  OBVIOUS
<1>3. n[o] = crop[o]
  BY <1>2, OthersStay
<1>4. Operator!Placed(crop, want, a) = IF z < 0 THEN crop ELSE n
  BY <1>1, <1>2 DEF Operator!Placed, OffsetFor, Moved
<1> QED BY ONLY <1>3, <1>4

LEMMA PlacedIs ==
    ASSUME NEW crop \in Area, NEW want \in Area, NEW a \in Operator!Axes
    PROVE  /\ Operator!Placed(crop, want, a) \in Area
           /\ want[a].at >= 0 => Operator!Placed(crop, want, a)[a]
                                   = [size |-> crop[a].size, at |-> OffsetFor(crop, want, a)]
           /\ \A o \in Operator!Axes : o # a => Operator!Placed(crop, want, a)[o] = crop[o]
<1>1. PICK e \in Int, z \in Int : e = OffsetFor(crop, want, a) /\ z = want[a].at
  BY AsksInt, FieldsInt
<1>2. PICK n : n = Moved(crop, a, e)
  OBVIOUS
<1>3. n \in Area /\ n[a] = [size |-> crop[a].size, at |-> e]
  <2>1. Moved(crop, a, e) \in Area
    BY ONLY crop \in Area, a \in Operator!Axes, e \in Int, WritesOne
  <2>2. Moved(crop, a, e)[a] = [size |-> crop[a].size, at |-> e]
    BY ONLY crop \in Area, a \in Operator!Axes, e \in Int, WritesOne
  <2> QED BY ONLY <1>2, <2>1, <2>2
<1>4. \A o \in Operator!Axes : o # a => n[o] = crop[o]
  BY <1>2, OthersStay
<1>5. Operator!Placed(crop, want, a) = IF z < 0 THEN crop ELSE n
  BY <1>1, <1>2 DEF Operator!Placed, OffsetFor, Moved
<1> QED BY <1>1, <1>3, <1>4, <1>5

\* The numbers of one axis of a crop that is said in full and fits.
LEMMA ExactIs ==
    ASSUME NEW want \in Area, Operator!Exact(want), NEW a \in Operator!Axes,
           NEW crop \in Area
    PROVE  /\ want[a].size > 0 /\ want[a].at >= 0
           /\ crop[a].at = 0 => SizeFor(crop, want, a) = want[a].size
           /\ crop[a].at = 0 /\ crop[a].size = want[a].size
                => OffsetFor(crop, want, a) = want[a].at
<1>1. PICK s \in Int, l \in Int : s = want[a].size /\ l = want[a].at
  BY FieldsInt
<1>2. /\ s >= MinSize /\ (s - MinSize) % Increment = 0
      /\ l >= 0 /\ l % Increment = 0 /\ s + l <= Sensor[a]
  BY <1>1 DEF Operator!Exact
<1>3. PICK m \in Nat \ {0}, u \in Nat : m = MinSize /\ u = Sensor[a]
  BY OperatorNumbers
<1>4. Operator!Align(s, m) = s
  BY <1>2, <1>3, Aligned
<1>5. Operator!Align(l, 0) = l
  <2>1. (l - 0) % Increment = 0
    BY <1>2
  <2> QED BY <1>2, <2>1, Aligned
<1>6. s > 0 /\ l >= 0 /\ s >= m /\ s <= u /\ s + l <= u
  BY <1>2, <1>3
<1>7. crop[a].at = 0 => SizeFor(crop, want, a) = s
  BY <1>1, <1>3, <1>4, <1>6 DEF SizeFor, Operator!Between, Operator!MaxSize
<1>8. crop[a].at = 0 /\ crop[a].size = s => OffsetFor(crop, want, a) = l
  BY <1>1, <1>3, <1>5, <1>6 DEF OffsetFor, Operator!Between, Operator!MaxSize
<1> QED BY <1>1, <1>6, <1>7, <1>8

\* The writes, however many of them are done, leave a crop.  The offsets are zero when the
\* sizes are set, so that a crop that fits is what the camera has after all of them, wherever
\* its crop was.
LEMMA AoiIs ==
    ASSUME NEW crop \in Area, NEW want \in Area, NEW k \in 0..6
    PROVE  /\ Operator!SetAoi(crop, want, k) \in Area
           /\ Operator!Exact(want) => Operator!SetAoi(crop, want, 6) = want
<1>1. "x" \in Operator!Axes /\ "y" \in Operator!Axes
  BY DEF Operator!Axes
<1>2. ASSUME NEW n \in 0..6
      PROVE  \E c1, c2, c3, c4, c5 \in Area :
               /\ c1 = IF n < 1 THEN crop ELSE Operator!Zeroed(crop, "x")
               /\ c2 = IF n < 2 THEN c1 ELSE Operator!Zeroed(c1, "y")
               /\ c3 = IF n < 3 THEN c2 ELSE Operator!Sized(c2, want, "x")
               /\ c4 = IF n < 4 THEN c3 ELSE Operator!Sized(c3, want, "y")
               /\ c5 = IF n < 5 THEN c4 ELSE Operator!Placed(c4, want, "x")
               /\ Operator!SetAoi(crop, want, n)
                    = IF n < 6 THEN c5 ELSE Operator!Placed(c5, want, "y")
  <2>1. PICK c1 \in Area : c1 = IF n < 1 THEN crop ELSE Operator!Zeroed(crop, "x")
    BY <1>1, ZeroedIs
  <2>2. PICK c2 \in Area : c2 = IF n < 2 THEN c1 ELSE Operator!Zeroed(c1, "y")
    BY <1>1, ZeroedIs
  <2>3. PICK c3 \in Area : c3 = IF n < 3 THEN c2 ELSE Operator!Sized(c2, want, "x")
    BY <1>1, SizedIs
  <2>4. PICK c4 \in Area : c4 = IF n < 4 THEN c3 ELSE Operator!Sized(c3, want, "y")
    BY <1>1, SizedIs
  <2>5. PICK c5 \in Area : c5 = IF n < 5 THEN c4 ELSE Operator!Placed(c4, want, "x")
    BY <1>1, PlacedIs
  <2>6. Operator!SetAoi(crop, want, n)
          = IF n < 6 THEN c5 ELSE Operator!Placed(c5, want, "y")
    BY <2>1, <2>2, <2>3, <2>4, <2>5 DEF Operator!SetAoi, Operator!Writes
  <2> QED BY <2>1, <2>2, <2>3, <2>4, <2>5, <2>6
<1>3. Operator!SetAoi(crop, want, k) \in Area
  <2>1. \E c5 \in Area : Operator!SetAoi(crop, want, k)
                            = IF k < 6 THEN c5 ELSE Operator!Placed(c5, want, "y")
    BY <1>2
  <2> QED BY <1>1, <2>1, PlacedIs
<1>4. ASSUME Operator!Exact(want) PROVE Operator!SetAoi(crop, want, 6) = want
  <2>1. PICK c1 \in Area, c2 \in Area, c3 \in Area, c4 \in Area, c5 \in Area :
          /\ c1 = Operator!Zeroed(crop, "x") /\ c2 = Operator!Zeroed(c1, "y")
          /\ c3 = Operator!Sized(c2, want, "x") /\ c4 = Operator!Sized(c3, want, "y")
          /\ c5 = Operator!Placed(c4, want, "x")
          /\ Operator!SetAoi(crop, want, 6) = Operator!Placed(c5, want, "y")
    BY <1>2
  <2>2. c2["x"].at = 0 /\ c2["y"].at = 0
    <3>1. c1 \in Area /\ "x" \in Operator!Axes /\ "x" # "y"
      BY <1>1
    <3>2. c1["x"].at = 0
      BY <1>1, <2>1, ZeroedIs
    <3>3. c2["y"].at = 0 /\ c2["x"] = c1["x"]
      BY <1>1, <2>1, <3>1, ZeroedIs
    <3> QED BY <3>2, <3>3
  <2>3. c3["x"] = [size |-> want["x"].size, at |-> 0] /\ c3["y"].at = 0
    <3>1. want["x"].size > 0 /\ SizeFor(c2, want, "x") = want["x"].size
      BY <1>1, <1>4, <2>1, <2>2, ExactIs
    <3>2. c3["x"] = [size |-> SizeFor(c2, want, "x"), at |-> c2["x"].at]
      BY <1>1, <2>1, <3>1, SizedIs
    <3>3. "y" \in Operator!Axes /\ "y" # "x"
      BY <1>1
    <3>4. c3["y"] = c2["y"]
      BY <1>1, <2>1, <3>3, SizedElsewhere
    <3> QED BY ONLY <2>2, <3>1, <3>2, <3>4
  <2>4. /\ c4["x"] = [size |-> want["x"].size, at |-> 0]
        /\ c4["y"] = [size |-> want["y"].size, at |-> 0]
    <3>1. want["y"].size > 0 /\ SizeFor(c3, want, "y") = want["y"].size
      BY <1>1, <1>4, <2>1, <2>3, ExactIs
    <3>2. c4["y"] = [size |-> SizeFor(c3, want, "y"), at |-> c3["y"].at]
      BY <1>1, <2>1, <3>1, SizedIs
    <3>3. "x" \in Operator!Axes /\ "x" # "y"
      BY <1>1
    <3>4. c4["x"] = c3["x"]
      BY <1>1, <2>1, <3>3, SizedElsewhere
    <3> QED BY ONLY <2>3, <3>1, <3>2, <3>4
  <2>5. c5["x"] = want["x"] /\ c5["y"] = [size |-> want["y"].size, at |-> 0]
    <3>1. c5["x"] = [size |-> want["x"].size, at |-> want["x"].at] /\ c5["y"] = c4["y"]
      <4>1. want["x"].at >= 0 /\ OffsetFor(c4, want, "x") = want["x"].at
        BY <1>1, <1>4, <2>1, <2>4, ExactIs
      <4>2. "y" \in Operator!Axes /\ "y" # "x"
        BY <1>1
      <4>3. c5["x"] = [size |-> c4["x"].size, at |-> OffsetFor(c4, want, "x")]
        BY <1>1, <2>1, <4>1, PlacedIs
      <4>4. c5["y"] = c4["y"]
        BY <1>1, <2>1, <4>2, PlacedElsewhere
      <4> QED BY <2>4, <4>1, <4>3, <4>4
    <3> QED BY <1>1, <2>4, <3>1, FieldsInt
  <2>6. PICK c6 \in Area : c6 = Operator!Placed(c5, want, "y")
    BY <1>1, PlacedIs
  <2>7. c6["x"] = want["x"] /\ c6["y"] = want["y"]
    <3>1. c6["y"] = [size |-> want["y"].size, at |-> want["y"].at] /\ c6["x"] = c5["x"]
      <4>1. want["y"].at >= 0 /\ OffsetFor(c5, want, "y") = want["y"].at
        BY <1>1, <1>4, <2>1, <2>5, ExactIs
      <4>2. "x" \in Operator!Axes /\ "x" # "y"
        BY <1>1
      <4>3. c6["y"] = [size |-> c5["y"].size, at |-> OffsetFor(c5, want, "y")]
        BY <1>1, <2>6, <4>1, PlacedIs
      <4>4. c6["x"] = c5["x"]
        BY <1>1, <2>6, <4>2, PlacedElsewhere
      <4> QED BY <2>5, <4>1, <4>3, <4>4
    <3> QED BY <1>1, <2>5, <3>1, FieldsInt
  <2> QED BY <2>1, <2>6, <2>7 DEF Area, Operator!Axes
<1> QED BY <1>3, <1>4

-------------------------------------------------------------------------------
(* The crop of a camera: what is asked for                                       *)

Cams == [crop : Area, trigger : {"off", "on", "software"}]

\* No command of s is for the crop; the last of s that is asks for w.
Calm(s) == \A i \in 1..Len(s) : ~Operator!MovesCrop(s[i])
LastAoi(s, w) ==
    \E i \in 1..Len(s) :
        /\ s[i].op = "aoi" /\ s[i].crop = w
        /\ \A j \in 1..Len(s) : i < j => ~Operator!MovesCrop(s[j])

\* w will be the crop once what is queued is executed, or it is.
Due(w) ==
    \/ LastAoi(requests, w)
    \/ /\ Calm(requests)
       /\ LastAoi(batch, w) \/ (Calm(batch) /\ present /\ cam.crop = w)

CropTypes ==
    /\ requests \in Seq(Operator!Commands) /\ batch \in Seq(Operator!Commands)
    /\ cam \in Cams /\ file \subseteq Cams /\ shipped \subseteq Cams /\ present \in BOOLEAN
    /\ grabbing \in BOOLEAN

WantedDue ==
    \A w \in wanted : wanted = {w} /\ w \in Area /\ Operator!Exact(w) /\ Due(w)

CropInv == CropTypes /\ WantedDue

\* The queues.
LEMMA AppendedLast ==
    ASSUME NEW X, NEW s \in Seq(X), NEW c \in X, NEW w
    PROVE  /\ c.op = "aoi" /\ c.crop = w => LastAoi(Append(s, c), w)
           /\ ~Operator!MovesCrop(c) /\ LastAoi(s, w) => LastAoi(Append(s, c), w)
           /\ ~Operator!MovesCrop(c) /\ Calm(s) => Calm(Append(s, c))
<1>0. PICK t : t = Append(s, c)
  OBVIOUS
<1>1. PICK m \in Nat : m = Len(s) /\ t = Append(s, c)
  BY <1>0
<1>2. /\ Len(t) = m + 1 /\ t[m + 1] = c
      /\ \A i \in 1..m : t[i] = s[i]
  BY <1>1, AppendProperties
<1>3. \A i \in 1..(m + 1) : i \in 1..m \/ i = m + 1
  BY <1>1
<1>4. m + 1 \in 1..(m + 1) /\ \A i \in 1..m : i \in 1..(m + 1)
  BY <1>1
<1>5. ASSUME c.op = "aoi", c.crop = w PROVE LastAoi(t, w)
  <2>1. \A j \in 1..(m + 1) : ~(m + 1 < j)
    BY <1>1
  <2> QED BY <1>2, <1>4, <1>5, <2>1 DEF LastAoi
<1>6. ASSUME ~Operator!MovesCrop(c), LastAoi(s, w) PROVE LastAoi(t, w)
  <2>1. PICK i \in 1..m : /\ s[i].op = "aoi" /\ s[i].crop = w
                          /\ \A j \in 1..m : i < j => ~Operator!MovesCrop(s[j])
    BY <1>1, <1>6 DEF LastAoi
  <2>2. i \in 1..(m + 1) /\ t[i] = s[i]
    BY <1>2, <1>4
  <2>3. \A j \in 1..(m + 1) : i < j => ~Operator!MovesCrop(t[j])
    BY <1>2, <1>3, <1>6, <2>1
  <2> QED BY <1>2, <2>1, <2>2, <2>3 DEF LastAoi
<1>7. ASSUME ~Operator!MovesCrop(c), Calm(s) PROVE Calm(t)
  BY <1>1, <1>2, <1>3, <1>7 DEF Calm
<1> QED BY <1>1, <1>5, <1>6, <1>7

LEMMA HeadThenTail ==
    ASSUME NEW X, NEW s \in Seq(X), s # <<>>, NEW w
    PROVE  /\ Head(s) \in X /\ Tail(s) \in Seq(X)
           /\ LastAoi(s, w) =>
                \/ LastAoi(Tail(s), w)
                \/ Head(s).op = "aoi" /\ Head(s).crop = w /\ Calm(Tail(s))
           /\ Calm(s) => ~Operator!MovesCrop(Head(s)) /\ Calm(Tail(s))
<1>0. PICK t : t = Tail(s)
  OBVIOUS
<1>1. PICK m \in Nat : m = Len(s) /\ t = Tail(s)
  BY <1>0
<1>2. /\ Head(s) \in X /\ t \in Seq(X) /\ m >= 1 /\ Len(t) = m - 1 /\ Head(s) = s[1]
      /\ \A i \in 1..(m - 1) : t[i] = s[i + 1]
  BY <1>1, HeadTailProperties
<1>3. ASSUME Calm(s) PROVE ~Operator!MovesCrop(Head(s)) /\ Calm(t)
  <2>1. 1 \in 1..m /\ \A i \in 1..(m - 1) : i + 1 \in 1..m
    BY <1>2
  <2> QED BY <1>1, <1>2, <1>3, <2>1 DEF Calm
<1>4. ASSUME LastAoi(s, w)
      PROVE  \/ LastAoi(t, w)
             \/ Head(s).op = "aoi" /\ Head(s).crop = w /\ Calm(t)
  <2>1. PICK i \in 1..m : /\ s[i].op = "aoi" /\ s[i].crop = w
                          /\ \A j \in 1..m : i < j => ~Operator!MovesCrop(s[j])
    BY <1>1, <1>4 DEF LastAoi
  <2>2. CASE i = 1
    <3>1. \A j \in 1..(m - 1) : j + 1 \in 1..m /\ i < j + 1
      BY <1>1, <2>2
    <3> QED BY <1>2, <2>1, <2>2, <3>1 DEF Calm
  <2>3. CASE i # 1
    <3>1. PICK k \in 1..(m - 1) : i = k + 1
      BY <1>1, <2>3
    <3>2. \A j \in 1..(m - 1) : k < j => (j + 1 \in 1..m /\ i < j + 1)
      BY <3>1
    <3>3. t[k] = s[i] /\ \A j \in 1..(m - 1) : k < j => ~Operator!MovesCrop(t[j])
      BY <1>2, <2>1, <3>1, <3>2
    <3> QED BY <1>2, <2>1, <3>3 DEF LastAoi
  <2> QED BY <2>2, <2>3
<1> QED BY <1>1, <1>2, <1>3, <1>4

LEMMA LastMoves == ASSUME NEW s, NEW w, LastAoi(s, w) PROVE ~Calm(s)
  BY DEF LastAoi, Calm, Operator!MovesCrop

\* What Undone and Lose look for.
LEMMA CalmTogether ==
    ASSUME NEW X, NEW s \in Seq(X), NEW t \in Seq(X)
    PROVE  (\E c \in Operator!Range(s \o t) : Operator!MovesCrop(c)) <=> ~(Calm(s) /\ Calm(t))
<1>0. PICK u : u = s \o t
  OBVIOUS
<1>1. PICK m \in Nat, n \in Nat : m = Len(s) /\ n = Len(t) /\ u = s \o t
  BY <1>0
<1>2. /\ Len(u) = m + n /\ u \in Seq(X)
      /\ \A i \in 1..(m + n) : u[i] = IF i <= m THEN s[i] ELSE t[i - m]
  BY <1>1, ConcatProperties
<1>3. DOMAIN u = 1..(m + n)
  BY <1>2
<1>4. (\E c \in Operator!Range(u) : Operator!MovesCrop(c))
        <=> \E i \in 1..(m + n) : Operator!MovesCrop(u[i])
  BY <1>3 DEF Operator!Range
<1>5. ASSUME NEW i \in 1..(m + n), Operator!MovesCrop(u[i]) PROVE ~(Calm(s) /\ Calm(t))
  <2>1. CASE i <= m
    BY <1>1, <1>2, <1>5, <2>1 DEF Calm
  <2>2. CASE ~(i <= m)
    <3>1. i - m \in 1..n
      BY <2>2
    <3> QED BY <1>1, <1>2, <1>5, <2>2, <3>1 DEF Calm
  <2> QED BY <2>1, <2>2
<1>6. ASSUME ~Calm(s) PROVE \E i \in 1..(m + n) : Operator!MovesCrop(u[i])
  <2>1. PICK i \in 1..m : Operator!MovesCrop(s[i])
    BY <1>1, <1>6 DEF Calm
  <2>2. i \in 1..(m + n) /\ i <= m
    OBVIOUS
  <2> QED BY <1>2, <2>1, <2>2
<1>7. ASSUME ~Calm(t) PROVE \E i \in 1..(m + n) : Operator!MovesCrop(u[i])
  <2>1. PICK i \in 1..n : Operator!MovesCrop(t[i])
    BY <1>1, <1>7 DEF Calm
  <2>2. i + m \in 1..(m + n) /\ ~(i + m <= m) /\ (i + m) - m = i
    OBVIOUS
  <2> QED BY <1>2, <2>1, <2>2
<1> QED BY <1>1, <1>4, <1>5, <1>6, <1>7

-------------------------------------------------------------------------------
(* The crop of a camera: what a command leaves behind                            *)

LEMMA CommandIs ==
    ASSUME NEW c \in Operator!Commands
    PROVE  /\ c.op = "aoi" => c.crop \in Area
           /\ c.op = "parameter" => c.axis \in Operator!Axes /\ c.value \in Int
           /\ c.op = "trigger" => c.mode \in {"off", "on", "software"}
  BY OperatorNumbers DEF Operator!Commands

LEMMA DefaultIs == Operator!Default \in Cams
  BY OperatorNumbers DEF Operator!Default, Operator!FullSensor, Cams, Area

LEMMA ParameterIs ==
    ASSUME NEW crop \in Area, NEW node, NEW a \in Operator!Axes, NEW n \in Int
    PROVE  Operator!SetParameter(crop, node, a, n) \in Area
<1>1. PICK z \in Int, k \in Int : z = crop[a].size /\ k = crop[a].at
  BY FieldsInt
<1>2. PICK u \in Int, m \in Int : u = Sensor[a] /\ m = MinSize
  BY OperatorNumbers
<1>3. PICK e \in Int : e = Operator!Align(Operator!Between(n, 0, u - z), 0)
  <2>1. Operator!Between(n, 0, u - z) \in Int
    BY DEF Operator!Between
  <2> QED BY <2>1, AlignIsInt
<1>4. PICK f \in Int : f = Operator!Align(Operator!Between(n, m, u - k), m)
  <2>1. Operator!Between(n, m, u - k) \in Int
    BY DEF Operator!Between
  <2> QED BY <2>1, AlignIsInt
<1>5. Moved(crop, a, e) \in Area /\ Resized(crop, a, f) \in Area
  BY WritesOne
<1>6. Operator!SetParameter(crop, node, a, n)
        = IF node = "at" THEN Moved(crop, a, e)
          ELSE IF grabbing THEN crop ELSE Resized(crop, a, f)
  BY <1>1, <1>2, <1>3, <1>4 DEF Operator!SetParameter, Operator!MaxSize, Moved, Resized
<1> QED BY <1>5, <1>6

\* The cameras a preset may hold.
LEMMA ChosenIs ==
    ASSUME NEW P, P \subseteq Cams, P # {} PROVE (CHOOSE p \in P : TRUE) \in Cams
<1>1. \E p \in P : TRUE
  OBVIOUS
<1>2. (CHOOSE p \in P : TRUE) \in P
  BY <1>1
<1> QED BY <1>2

LEMMA CropSet ==
    ASSUME NEW r \in Cams, NEW crop \in Area
    PROVE  [r EXCEPT !.crop = crop] \in Cams /\ [r EXCEPT !.crop = crop].crop = crop
  BY DEF Cams

LEMMA TriggerSet ==
    ASSUME NEW r \in Cams, NEW m \in {"off", "on", "software"}
    PROVE  [r EXCEPT !.trigger = m] \in Cams /\ [r EXCEPT !.trigger = m].crop = r.crop
  BY DEF Cams

\* A command leaves a camera; one that is not for the crop leaves the crop; and an AOI that
\* is said in full and fits leaves that, when all of it is executed.
LEMMA ExecutedIs ==
    ASSUME CropTypes, NEW c \in Operator!Commands, NEW k \in 0..6
    PROVE  /\ Operator!Executed(c, k) \in Cams
           /\ ~Operator!MovesCrop(c) => Operator!Executed(c, k).crop = cam.crop
           /\ c.op = "aoi" /\ Operator!Exact(c.crop) /\ k = 6
                => Operator!Executed(c, k).crop = c.crop
<1>1. cam \in Cams /\ cam.crop \in Area /\ file \subseteq Cams /\ shipped \subseteq Cams
  BY DEF CropTypes, Cams
<1>2. CASE c.op = "aoi"
  <2>1. c.crop \in Area
    BY <1>2, CommandIs
  <2>2. PICK n \in Area : n = Operator!SetAoi(cam.crop, c.crop, k)
    BY <1>1, <2>1, AoiIs
  <2>3. Operator!Executed(c, k) = [cam EXCEPT !.crop = n]
    BY <1>2, <2>2 DEF Operator!Executed
  <2>4. Operator!Exact(c.crop) /\ k = 6 => n = c.crop
    BY <1>1, <2>1, <2>2, AoiIs
  <2>5. Operator!MovesCrop(c)
    BY <1>2 DEF Operator!MovesCrop
  <2> QED BY <1>1, <2>3, <2>4, <2>5, CropSet
<1>3. CASE c.op # "aoi" /\ k < 6
  BY <1>1, <1>3 DEF Operator!Executed, Operator!Writes
<1>4. CASE c.op = "parameter" /\ ~(k < 6)
  <2>1. PICK n \in Area : n = Operator!SetParameter(cam.crop, c.node, c.axis, c.value)
    BY <1>1, <1>4, CommandIs, ParameterIs
  <2>2. Operator!Executed(c, k) = [cam EXCEPT !.crop = n]
    BY <1>4, <2>1 DEF Operator!Executed, Operator!Writes
  <2>3. Operator!MovesCrop(c)
    BY <1>4 DEF Operator!MovesCrop
  <2> QED BY <1>1, <1>4, <2>2, <2>3, CropSet
<1>5. CASE c.op = "trigger" /\ ~(k < 6)
  <2>1. Operator!Executed(c, k) = [cam EXCEPT !.trigger = c.mode]
    BY <1>5 DEF Operator!Executed, Operator!Writes
  <2>2. PICK m \in {"off", "on", "software"} : m = c.mode
    BY <1>5, CommandIs
  <2>3. [cam EXCEPT !.trigger = m] \in Cams /\ [cam EXCEPT !.trigger = m].crop = cam.crop
    BY <1>1, TriggerSet
  <2> QED BY ONLY <1>5, <2>1, <2>2, <2>3
<1>6. CASE c.op = "load" /\ file # {} /\ ~(k < 6)
  <2>1. Operator!Executed(c, k) = CHOOSE p \in file : TRUE
    BY <1>6 DEF Operator!Executed, Operator!Writes, Operator!Nothing
  <2>2. Operator!MovesCrop(c)
    BY <1>6 DEF Operator!MovesCrop
  <2> QED BY <1>1, <1>6, <2>1, <2>2, ChosenIs
<1>7. CASE c.op = "import" /\ shipped # {} /\ ~(k < 6)
  <2>1. Operator!Executed(c, k) = CHOOSE p \in shipped : TRUE
    BY <1>7 DEF Operator!Executed, Operator!Writes, Operator!Nothing
  <2>2. Operator!MovesCrop(c)
    BY <1>7 DEF Operator!MovesCrop
  <2> QED BY <1>1, <1>7, <2>1, <2>2, ChosenIs
<1>8. CASE c.op = "reset" /\ ~(k < 6)
  <2>1. Operator!Executed(c, k) = Operator!Default
    BY <1>8 DEF Operator!Executed, Operator!Writes
  <2>2. Operator!MovesCrop(c)
    BY <1>8 DEF Operator!MovesCrop
  <2> QED BY <1>8, <2>1, <2>2, DefaultIs
<1>9. CASE /\ c.op \notin {"aoi", "parameter", "trigger", "reset"} /\ ~(k < 6)
           /\ ~(c.op = "load" /\ file # {}) /\ ~(c.op = "import" /\ shipped # {})
  <2>1. Operator!Executed(c, k) = cam
    BY <1>9 DEF Operator!Executed, Operator!Writes, Operator!Nothing
  <2> QED BY <1>1, <1>9, <2>1
<1> QED BY <1>2, <1>3, <1>4, <1>5, <1>6, <1>7, <1>8, <1>9

-------------------------------------------------------------------------------
(* The crop of a camera: the steps                                               *)

LEMMA EmptyIsCalm == Calm(<<>>) /\ \A w : ~LastAoi(<<>>, w)
  BY DEF Calm, LastAoi

LEMMA CropReceive ==
    ASSUME CropInv, NEW c \in Operator!Commands, Operator!Receive(c) PROVE CropInv'
<1>1. /\ requests' = IF c.op = "none" THEN requests ELSE Append(requests, c)
      /\ wanted' = IF c.op = "aoi" /\ Operator!Exact(c.crop) THEN {c.crop}
                   ELSE IF Operator!MovesCrop(c) THEN {} ELSE wanted
      /\ UNCHANGED <<batch, cam, present, grabbing, file, shipped>>
  BY DEF Operator!Receive, Operator!Nothing
<1>2. requests \in Seq(Operator!Commands) /\ requests' \in Seq(Operator!Commands)
  BY <1>1, AppendProperties DEF CropInv, CropTypes
<1>3. CropTypes'
  BY <1>1, <1>2 DEF CropInv, CropTypes
<1>4. ASSUME c.op = "aoi", Operator!Exact(c.crop) PROVE WantedDue'
  <2>1. wanted' = {c.crop} /\ requests' = Append(requests, c) /\ c.crop \in Area
    BY <1>1, <1>4, CommandIs
  <2>2. LastAoi(requests', c.crop)
    BY <1>2, <1>4, <2>1, AppendedLast
  <2>3. Due(c.crop)'
    BY <2>2 DEF Due, LastAoi
  <2> QED BY <1>4, <2>1, <2>3 DEF WantedDue
<1>5. ASSUME ~Operator!MovesCrop(c) PROVE WantedDue'
  <2>1. wanted' = wanted
    BY <1>1, <1>5 DEF Operator!MovesCrop
  <2>2. ASSUME NEW w \in wanted PROVE Due(w)'
    <3>1. Due(w)
      BY DEF CropInv, WantedDue
    <3>2. /\ LastAoi(requests, w) => LastAoi(requests', w)
          /\ Calm(requests) => Calm(requests')
      BY <1>1, <1>2, <1>5, AppendedLast
    <3> QED BY <1>1, <3>1, <3>2 DEF Due, LastAoi, Calm
  <2> QED BY <2>1, <2>2 DEF CropInv, WantedDue
<1>6. CASE Operator!MovesCrop(c) /\ ~(c.op = "aoi" /\ Operator!Exact(c.crop))
  <2>1. wanted' = {}
    BY <1>1, <1>6
  <2> QED BY <1>3, <2>1 DEF CropInv, WantedDue
<1> QED BY <1>3, <1>4, <1>5, <1>6 DEF CropInv

LEMMA CropDrain == ASSUME CropInv, Operator!Drain PROVE CropInv'
<1>1. /\ batch = <<>> /\ batch' = requests /\ requests' = <<>>
      /\ UNCHANGED <<cam, present, grabbing, file, shipped, wanted>>
  BY DEF Operator!Drain
<1>2. CropTypes'
  BY <1>1 DEF CropInv, CropTypes
<1>3. ASSUME NEW w \in wanted PROVE Due(w)'
  <2>1. Due(w)
    BY DEF CropInv, WantedDue
  <2>2. Calm(batch) /\ ~LastAoi(batch, w) /\ Calm(requests')
    BY <1>1, EmptyIsCalm
  <2>3. \/ LastAoi(batch', w)
        \/ Calm(batch') /\ present' /\ cam'.crop = w
    BY <1>1, <2>1, <2>2 DEF Due
  <2> QED BY <2>2, <2>3 DEF Due, LastAoi, Calm
<1> QED BY <1>1, <1>2, <1>3 DEF CropInv, WantedDue

LEMMA CropExecute == ASSUME CropInv, Operator!Execute PROVE CropInv'
<1>1. PICK c : c = Head(batch)
  OBVIOUS
<1>2. /\ batch # <<>> /\ present /\ cam' = Operator!Executed(c, 6)
      /\ file' \in {{cam}, file} /\ shipped' \in {{cam}, shipped} /\ batch' = Tail(batch)
      /\ UNCHANGED <<requests, present, grabbing, wanted>>
  BY <1>1 DEF Operator!Execute, Operator!Writes
<1>3. CropTypes /\ batch \in Seq(Operator!Commands)
  BY DEF CropInv, CropTypes
<1>4. c \in Operator!Commands /\ Tail(batch) \in Seq(Operator!Commands)
  BY <1>1, <1>2, <1>3, HeadThenTail
<1>5. CropTypes'
  <2>1. cam' \in Cams
    BY <1>2, <1>3, <1>4, ExecutedIs
  <2> QED BY <1>2, <1>3, <1>4, <2>1 DEF CropTypes
<1>6. ASSUME NEW w \in wanted PROVE Due(w)'
  <2>1. Due(w) /\ Operator!Exact(w)
    BY DEF CropInv, WantedDue
  <2>2. \/ LastAoi(requests, w)
        \/ Calm(requests) /\ (LastAoi(batch', w) \/ (Calm(batch') /\ cam'.crop = w))
    <3>1. CASE LastAoi(requests, w)
      BY <3>1
    <3>2. CASE Calm(requests) /\ LastAoi(batch, w)
      <4>1. \/ LastAoi(batch', w)
            \/ c.op = "aoi" /\ c.crop = w /\ Calm(batch')
        BY <1>1, <1>2, <1>3, <3>2, HeadThenTail
      <4>2. c.op = "aoi" /\ c.crop = w => cam'.crop = w
        BY <1>2, <1>3, <1>4, <2>1, ExecutedIs
      <4> QED BY <3>2, <4>1, <4>2
    <3>3. CASE Calm(requests) /\ Calm(batch) /\ cam.crop = w
      <4>1. ~Operator!MovesCrop(c) /\ Calm(batch')
        BY <1>1, <1>2, <1>3, <3>3, HeadThenTail
      <4>2. cam'.crop = w
        BY <1>2, <1>3, <1>4, <3>3, <4>1, ExecutedIs
      <4> QED BY <3>3, <4>1, <4>2
    <3> QED BY <2>1, <3>1, <3>2, <3>3 DEF Due
  <2> QED BY <1>2, <2>2 DEF Due, LastAoi, Calm
<1> QED BY <1>2, <1>5, <1>6 DEF CropInv, WantedDue

\* A command that does not finish.
LEMMA CropDropped ==
    ASSUME CropInv, batch # <<>>, NEW c, c = Head(batch),
           UNCHANGED <<requests, present>>, batch' = Tail(batch),
           wanted' = Operator!Undone,
           present /\ ~Operator!MovesCrop(c) => cam'.crop = cam.crop
    PROVE  WantedDue'
<1>1. /\ batch \in Seq(Operator!Commands) /\ requests \in Seq(Operator!Commands)
      /\ Tail(batch) \in Seq(Operator!Commands)
  BY HeadThenTail DEF CropInv, CropTypes
<1>2. \/ wanted' = {}
      \/ wanted' = wanted /\ (~Operator!MovesCrop(c) \/ ~(Calm(batch') /\ Calm(requests)))
  BY <1>1, CalmTogether DEF Operator!Undone, Operator!Nothing
<1>3. CASE wanted' = {}
  BY <1>3 DEF WantedDue
<1>4. CASE /\ wanted' = wanted
           /\ ~Operator!MovesCrop(c) \/ ~(Calm(batch') /\ Calm(requests))
  <2>1. ASSUME NEW w \in wanted PROVE Due(w)'
    <3>1. Due(w)
      BY DEF CropInv, WantedDue
    <3>2. /\ LastAoi(batch, w) => (LastAoi(batch', w) \/ (c.op = "aoi" /\ Calm(batch')))
          /\ Calm(batch) => Calm(batch')
      BY <1>1, HeadThenTail
    <3>3. c.op = "aoi" => Operator!MovesCrop(c)
      BY DEF Operator!MovesCrop
    <3>4. \/ LastAoi(requests, w)
          \/ /\ Calm(requests)
             /\ LastAoi(batch', w) \/ (Calm(batch') /\ present /\ cam'.crop = w)
      BY <1>4, <3>1, <3>2, <3>3 DEF Due
    <3> QED BY <3>4 DEF Due, LastAoi, Calm
  <2> QED BY <1>4, <2>1 DEF CropInv, WantedDue
<1> QED BY <1>2, <1>3, <1>4

LEMMA CropFail == ASSUME CropInv, Operator!Fail PROVE CropInv'
<1>1. PICK k \in 0..6 :
        /\ cam' = Operator!Executed(Head(batch), k)
        /\ grabbing' \in IF Operator!Stops(Head(batch)) THEN {grabbing, FALSE} ELSE {grabbing}
  BY DEF Operator!Fail, Operator!Writes
<1>2. /\ batch # <<>> /\ batch' = Tail(batch) /\ wanted' = Operator!Undone
      /\ UNCHANGED <<requests, present, file, shipped>>
  BY DEF Operator!Fail
<1>3. CropTypes /\ batch \in Seq(Operator!Commands)
  BY DEF CropInv, CropTypes
<1>4. Head(batch) \in Operator!Commands /\ Tail(batch) \in Seq(Operator!Commands)
  BY <1>2, <1>3, HeadThenTail
<1>5. /\ cam' \in Cams
      /\ ~Operator!MovesCrop(Head(batch)) => cam'.crop = cam.crop
  BY <1>1, <1>3, <1>4, ExecutedIs
<1>6. grabbing' \in BOOLEAN
  BY <1>1, <1>3 DEF CropTypes
<1>7. CropTypes'
  BY <1>2, <1>3, <1>4, <1>5, <1>6 DEF CropTypes
<1>8. WantedDue'
  BY <1>2, <1>5, CropDropped
<1> QED BY <1>7, <1>8 DEF CropInv

LEMMA CropSkip == ASSUME CropInv, Operator!Skip PROVE CropInv'
<1>1. /\ batch # <<>> /\ ~present /\ batch' = Tail(batch) /\ wanted' = Operator!Undone
      /\ UNCHANGED <<requests, cam, present, grabbing, file, shipped>>
  BY DEF Operator!Skip
<1>2. CropTypes /\ batch \in Seq(Operator!Commands)
  BY DEF CropInv, CropTypes
<1>3. Tail(batch) \in Seq(Operator!Commands)
  BY <1>1, <1>2, HeadThenTail
<1>4. CropTypes'
  BY <1>1, <1>2, <1>3 DEF CropTypes
<1>5. WantedDue'
  BY <1>1, CropDropped
<1> QED BY <1>4, <1>5 DEF CropInv

LEMMA CropLose == ASSUME CropInv, Operator!Lose PROVE CropInv'
<1>1. /\ present' = FALSE
      /\ wanted' = IF \E c \in Operator!Range(batch \o requests) : Operator!MovesCrop(c)
                   THEN wanted ELSE {}
      /\ UNCHANGED <<requests, batch, cam, grabbing, file, shipped>>
  BY DEF Operator!Lose, Operator!Nothing
<1>2. CropTypes'
  BY <1>1 DEF CropInv, CropTypes
<1>3. \/ wanted' = {}
      \/ wanted' = wanted /\ ~(Calm(batch) /\ Calm(requests))
  BY <1>1, CalmTogether DEF CropInv, CropTypes
<1>4. CASE wanted' = {}
  BY <1>2, <1>4 DEF CropInv, WantedDue
<1>5. CASE wanted' = wanted /\ ~(Calm(batch) /\ Calm(requests))
  <2>1. ASSUME NEW w \in wanted PROVE Due(w)'
    <3>1. LastAoi(requests, w) \/ (Calm(requests) /\ LastAoi(batch, w))
      BY <1>5 DEF CropInv, WantedDue, Due
    <3> QED BY <1>1, <3>1 DEF Due, LastAoi, Calm
  <2> QED BY <1>2, <1>5, <2>1 DEF CropInv, WantedDue
<1> QED BY <1>3, <1>4, <1>5

LEMMA CropConnect == ASSUME CropInv, Operator!Connect PROVE CropInv'
<1>1. /\ ~present /\ present' = TRUE /\ cam' = Operator!Default /\ grabbing' = TRUE
      /\ UNCHANGED <<requests, batch, file, shipped, wanted>>
  BY DEF Operator!Connect
<1>2. CropTypes'
  BY <1>1, DefaultIs DEF CropInv, CropTypes
<1>3. ASSUME NEW w \in wanted PROVE Due(w)'
  <2>1. LastAoi(requests, w) \/ (Calm(requests) /\ LastAoi(batch, w))
    BY <1>1 DEF CropInv, WantedDue, Due
  <2> QED BY <1>1, <2>1 DEF Due, LastAoi, Calm
<1> QED BY <1>1, <1>2, <1>3 DEF CropInv, WantedDue

LEMMA CropStep == ASSUME CropInv, [Operator!Next]_operatorVars PROVE CropInv'
<1>1. CASE UNCHANGED operatorVars
  BY <1>1 DEF operatorVars, CropInv, CropTypes, WantedDue, Due, LastAoi, Calm
<1>2. CASE Operator!Next
  BY <1>2, CropReceive, CropDrain, CropExecute, CropFail, CropSkip, CropLose, CropConnect
     DEF Operator!Next
<1> QED BY <1>1, <1>2

LEMMA CropHolds == PartsSpec => [](part = "operator" => CropInv)
<1> DEFINE Inv == part = "operator" => CropInv
<1>1. PartsInit => Inv
  BY DefaultIs
     DEF PartsInit, Operator!Init, Operator!Nothing, CropInv, CropTypes, WantedDue
<1>2. ASSUME Inv, [PartsNext]_<<part, vars, operatorVars, trackerVars, matchingVars, dualVars,
                                othersVars>>
      PROVE  Inv'
  <2> SUFFICES ASSUME part' = "operator" PROVE CropInv'
    OBVIOUS
  <2>1. part = "operator" /\ [Operator!Next]_operatorVars
    BY <1>2 DEF PartsNext, Sends, Operates, Tracks, Matches, Captures, Shares, Exposes,
                Assigns
  <2> QED BY <1>2, <2>1, CropStep
<1> QED BY <1>1, <1>2, PTL DEF PartsSpec

\* However commands are queued while others are executed, whichever of them fails half way,
\* and however often the camera is lost and connected in between, a crop that is said in full
\* and fits is the one the camera has once all that was sent has been executed, wherever its
\* crop was before (CommandQueue, SetAoiCommand).
THEOREM CropFits == PartsSpec => []CropAsAsked
<1>1. CropInv => Operator!CropAsAsked
  <2> SUFFICES ASSUME CropInv, requests = <<>>, batch = <<>>, wanted # {}
               PROVE  wanted = {cam.crop}
    BY DEF Operator!CropAsAsked, Operator!Nothing
  <2>1. PICK w \in wanted : wanted = {w} /\ Due(w)
    BY DEF CropInv, WantedDue
  <2>2. ~LastAoi(requests, w) /\ ~LastAoi(batch, w)
    BY EmptyIsCalm
  <2> QED BY <2>1, <2>2 DEF Due
<1>2. (part = "operator" => CropInv) => CropAsAsked
  BY <1>1 DEF CropAsAsked
<1> QED BY <1>2, CropHolds, PTL
-------------------------------------------------------------------------------
(* Tracks: putting numbers in order                                              *)

LEMMA TrackCardinality == ASSUME NEW S PROVE Tracker!Cardinality(S) = Cardinality(S)
  BY DEF Cardinality, Tracker!Cardinality, IsFiniteSet, Tracker!IsFiniteSet

\* How many numbers of S there are up to e.
Rank(S, e) == Cardinality({o \in S : o <= e})

LEMMA RankIs ==
    ASSUME NEW S, S \subseteq Int, IsFiniteSet(S), NEW e \in S
    PROVE  /\ Rank(S, e) \in 1..Cardinality(S)
           /\ \A o \in S : o < e => Rank(S, o) < Rank(S, e)
<1> DEFINE UpTo(o) == {m \in S : m <= o}
<1>1. ASSUME NEW o
      PROVE  /\ IsFiniteSet(UpTo(o)) /\ Cardinality(UpTo(o)) \in Nat
             /\ Cardinality(UpTo(o)) <= Cardinality(S)
  BY FS_Subset, FS_CardinalityType
<1>2. Cardinality(S) \in Nat
  BY FS_CardinalityType
<1>3. Cardinality(UpTo(e)) # 0
  <2>1. e \in UpTo(e)
    OBVIOUS
  <2> QED BY <1>1, <2>1, FS_EmptySet
<1>4. ASSUME NEW o \in S, o < e PROVE Cardinality(UpTo(o)) < Cardinality(UpTo(e))
  <2>1. UpTo(o) \subseteq UpTo(e) /\ e \in UpTo(e) /\ e \notin UpTo(o)
    <3>1. e \in Int /\ o \in Int /\ \A m \in S : m \in Int
      OBVIOUS
    <3>2. \A m \in S : m <= o => m <= e
      BY <1>4, <3>1
    <3>3. e <= e /\ ~(e <= o)
      BY <1>4, <3>1
    <3> QED BY <3>2, <3>3
  <2>2. /\ Cardinality(UpTo(o)) <= Cardinality(UpTo(e))
        /\ Cardinality(UpTo(e)) = Cardinality(UpTo(o)) => UpTo(e) = UpTo(o)
    BY <1>1, <2>1, FS_Subset
  <2> QED BY <1>1, <2>1, <2>2
<1> QED BY <1>1, <1>2, <1>3, <1>4 DEF Rank

\* Every rank is some number's.
LEMMA RanksAre ==
    ASSUME NEW S, S \subseteq Int, IsFiniteSet(S), NEW k \in 1..Cardinality(S)
    PROVE  \E e \in S : Rank(S, e) = k
<1> DEFINE size == Cardinality(S)
           rank == [e \in S |-> Rank(S, e)]
<1>1. size \in Nat /\ IsFiniteSet(1..size) /\ Cardinality(1..size) = size
  BY FS_CardinalityType, FS_Interval
<1>2. \A e, o \in S : Rank(S, e) \in 1..size /\ (o < e => Rank(S, o) < Rank(S, e))
  BY RankIs
<1>3. rank \in Injection(S, 1..size)
  <2>1. rank \in [S -> 1..size]
    BY <1>2
  <2>2. ASSUME NEW e \in S, NEW o \in S, Rank(S, e) = Rank(S, o) PROVE e = o
    BY <1>2, <2>2
  <2> QED BY <2>1, <2>2 DEF Injection, IsInjective
<1>4. rank \in Surjection(S, 1..size)
  BY <1>1, <1>3, FS_Injection
<1> QED BY <1>4 DEF Surjection

\* A finite set of numbers has a least and a greatest.
LEMMA EndsAre ==
    ASSUME NEW S, S \subseteq Int, IsFiniteSet(S), S # {}
    PROVE  /\ \E e \in S : \A o \in S : e <= o
           /\ \E e \in S : \A o \in S : o <= e
<1>1. Cardinality(S) \in Nat /\ Cardinality(S) # 0
  BY FS_CardinalityType, FS_EmptySet
<1>2. 1 \in 1..Cardinality(S) /\ Cardinality(S) \in 1..Cardinality(S)
  BY <1>1
<1>3. PICK a \in S, b \in S : Rank(S, a) = 1 /\ Rank(S, b) = Cardinality(S)
  BY <1>2, RanksAre
<1>4. ASSUME NEW o \in S PROVE a <= o /\ o <= b
  <2>1. /\ Rank(S, o) \in 1..Cardinality(S)
        /\ o < a => Rank(S, o) < Rank(S, a)
        /\ b < o => Rank(S, b) < Rank(S, o)
    BY RankIs
  <2>2. a \in Int /\ b \in Int /\ o \in Int
    OBVIOUS
  <2> QED BY <1>1, <1>3, <2>1, <2>2
<1> QED BY <1>4

\* A finite set of numbers can be put in order, each once.
LEMMA SortedIs ==
    ASSUME NEW S, S \subseteq Int, IsFiniteSet(S)
    PROVE  /\ Cardinality(S) \in Nat
           /\ Tracker!Sorted(S) \in [1..Cardinality(S) -> S]
           /\ \A i, j \in 1..Cardinality(S) :
                 Tracker!Sorted(S)[i] = Tracker!Sorted(S)[j] => i = j
           /\ \A e \in S : \E i \in 1..Cardinality(S) : Tracker!Sorted(S)[i] = e
<1> DEFINE size == Cardinality(S)
           Increasing(s) == \A i, j \in DOMAIN s : i < j => s[i] < s[j]
           list == [k \in 1..size |-> CHOOSE e \in S : Rank(S, e) = k]
<1>1. size \in Nat /\ IsFiniteSet(1..size) /\ Cardinality(1..size) = size
  BY FS_CardinalityType, FS_Interval
<1>2. \A e, o \in S : Rank(S, e) \in 1..size /\ (o < e => Rank(S, o) < Rank(S, e))
  BY RankIs
<1>3. \A k \in 1..size : \E e \in S : Rank(S, e) = k
  BY RanksAre
<1>4. \A k \in 1..size : list[k] \in S /\ Rank(S, list[k]) = k
  BY <1>3
<1>5. list \in [1..size -> S] /\ Increasing(list)
  <2>1. ASSUME NEW i \in 1..size, NEW j \in 1..size, i < j PROVE list[i] < list[j]
    <3>1. /\ list[i] \in S /\ Rank(S, list[i]) = i /\ list[j] \in S /\ Rank(S, list[j]) = j
      BY <1>4
    <3> HIDE DEF list
    <3>a. i \in Nat /\ j \in Nat
      BY <1>1
    <3>b. list[i] \in Int /\ list[j] \in Int
      BY <3>1
    <3>2. i \in Nat /\ j \in Nat /\ list[i] \in Int /\ list[j] \in Int
      BY <3>a, <3>b
    <3>3. list[i] # list[j] /\ ~(list[j] < list[i])
      BY <1>2, <2>1, <3>1, <3>2
    <3> QED BY <3>2, <3>3
  <2>2. list \in [1..size -> S]
    BY <1>4
  <2> QED BY <2>1, <2>2
<1>6. Tracker!Sorted(S) \in [1..size -> S] /\ Increasing(Tracker!Sorted(S))
  <2> HIDE DEF list
  <2>1. Tracker!Sorted(S) = CHOOSE s \in [1..size -> S] : Increasing(s)
    BY TrackCardinality DEF Tracker!Sorted
  <2> QED BY <1>5, <2>1
<1>7. \A i, j \in 1..size : Tracker!Sorted(S)[i] = Tracker!Sorted(S)[j] => i = j
  <2>1. ASSUME NEW i \in 1..size, NEW j \in 1..size, i # j
        PROVE  Tracker!Sorted(S)[i] # Tracker!Sorted(S)[j]
    <3>1. i < j \/ j < i
      BY <1>1, <2>1
    <3>2. /\ Tracker!Sorted(S)[i] \in Int /\ Tracker!Sorted(S)[j] \in Int
          /\ DOMAIN Tracker!Sorted(S) = 1..size
      BY <1>6
    <3> QED BY <1>6, <3>1, <3>2
  <2> QED BY <2>1
<1>8. \A e \in S : \E i \in 1..size : Tracker!Sorted(S)[i] = e
  <2>1. Tracker!Sorted(S) \in Injection(1..size, S)
    BY <1>6, <1>7 DEF Injection, IsInjective
  <2>2. Tracker!Sorted(S) \in Surjection(1..size, S)
    BY <1>1, <2>1, FS_Injection
  <2> QED BY <2>2 DEF Surjection
<1> QED BY <1>1, <1>6, <1>7, <1>8
-------------------------------------------------------------------------------
(* Lists of tracks                                                               *)

\* No id is twice in q.
Distinct(q) == \A i, j \in DOMAIN q : i # j => q[i].id # q[j].id

\* Choosing by id finds the track.
LEMMA ChooseIs ==
    ASSUME NEW q, Distinct(q), NEW t \in Tracker!Range(q)
    PROVE  Tracker!Choose(q, t.id) = t
<1>1. ASSUME NEW u \in Tracker!Range(q), u.id = t.id PROVE u = t
  BY <1>1 DEF Distinct, Tracker!Range
<1> QED BY <1>1 DEF Tracker!Choose

LEMMA ConcatIs ==
    ASSUME NEW T, NEW a \in Seq(T), NEW b \in Seq(T)
    PROVE  /\ a \o b \in Seq(T)
           /\ Tracker!Range(a \o b) = Tracker!Range(a) \cup Tracker!Range(b)
           /\ (/\ Distinct(a) /\ Distinct(b)
               /\ Tracker!IdsOf(a) \cap Tracker!IdsOf(b) = {}) => Distinct(a \o b)
           /\ Distinct(a \o b) => /\ Distinct(a) /\ Distinct(b)
                                  /\ Tracker!IdsOf(a) \cap Tracker!IdsOf(b) = {}
<1>1. PICK m \in Nat, n \in Nat : m = Len(a) /\ n = Len(b)
  OBVIOUS
<1>2. /\ DOMAIN a = 1..m /\ DOMAIN b = 1..n /\ DOMAIN (a \o b) = 1..(m + n)
      /\ a \o b \in Seq(T)
      /\ \A i \in 1..(m + n) : (a \o b)[i] = IF i <= m THEN a[i] ELSE b[i - m]
  BY <1>1, ConcatProperties
<1>3. /\ \A i \in 1..m : i \in 1..(m + n) /\ (a \o b)[i] = a[i]
      /\ \A i \in 1..n : m + i \in 1..(m + n) /\ (a \o b)[m + i] = b[i]
      /\ \A i \in 1..(m + n) : i \in 1..m \/ (i - m \in 1..n /\ m + (i - m) = i)
  BY <1>1, <1>2
<1>4. Tracker!Range(a \o b) = Tracker!Range(a) \cup Tracker!Range(b)
  <2>1. ASSUME NEW i \in 1..(m + n)
        PROVE  (a \o b)[i] \in Tracker!Range(a) \cup Tracker!Range(b)
    <3>1. CASE i \in 1..m
      <4>1. (a \o b)[i] = a[i] /\ i \in DOMAIN a
        BY <1>2, <1>3, <3>1
      <4> QED BY <4>1 DEF Tracker!Range
    <3>2. CASE i - m \in 1..n /\ m + (i - m) = i
      <4>1. (a \o b)[i] = b[i - m] /\ i - m \in DOMAIN b
        BY <1>2, <1>3, <3>2
      <4> QED BY <4>1 DEF Tracker!Range
    <3> QED BY <1>3, <3>1, <3>2
  <2>2. ASSUME NEW t \in Tracker!Range(a) \cup Tracker!Range(b)
        PROVE  \E i \in 1..(m + n) : (a \o b)[i] = t
    <3>1. CASE t \in Tracker!Range(a)
      <4>1. PICK i \in 1..m : a[i] = t
        BY <1>2, <3>1 DEF Tracker!Range
      <4> QED BY <1>3, <4>1
    <3>2. CASE t \in Tracker!Range(b)
      <4>1. PICK i \in 1..n : b[i] = t
        BY <1>2, <3>2 DEF Tracker!Range
      <4> QED BY <1>3, <4>1
    <3> QED BY <2>2, <3>1, <3>2
  <2> QED BY <1>2, <2>1, <2>2 DEF Tracker!Range
<1>5. ASSUME Distinct(a), Distinct(b), Tracker!IdsOf(a) \cap Tracker!IdsOf(b) = {}
      PROVE  Distinct(a \o b)
  <2> SUFFICES ASSUME NEW i \in 1..(m + n), NEW j \in 1..(m + n), i < j
               PROVE  (a \o b)[i].id # (a \o b)[j].id
    <3>1. \A i, j \in 1..(m + n) : i # j => i < j \/ j < i
      BY <1>1
    <3>2. (\A i, j \in 1..(m + n) : i < j => (a \o b)[i].id # (a \o b)[j].id)
          => \A i, j \in 1..(m + n) : i # j => (a \o b)[i].id # (a \o b)[j].id
      BY <3>1
    <3> QED BY <1>2, <3>2 DEF Distinct
  <2>1. \A k \in 1..m, l \in 1..n : a[k].id # b[l].id
    BY <1>2, <1>5 DEF Tracker!IdsOf, Tracker!Range
  <2>2. CASE j \in 1..m
    BY <1>2, <1>3, <1>5, <2>2 DEF Distinct
  <2>3. CASE j \notin 1..m /\ i \in 1..m
    BY <1>2, <1>3, <2>1, <2>3
  <2>4. CASE i \notin 1..m
    <3>1. i - m \in 1..n /\ j - m \in 1..n /\ i - m # j - m
      BY <1>1, <1>3, <2>4
    <3>2. (a \o b)[i] = b[i - m] /\ (a \o b)[j] = b[j - m]
      BY <1>1, <1>2, <3>1
    <3> QED BY <1>2, <1>5, <3>1, <3>2 DEF Distinct
  <2> QED BY <1>1, <2>2, <2>3, <2>4
<1>6. ASSUME Distinct(a \o b)
      PROVE  Distinct(a) /\ Distinct(b) /\ Tracker!IdsOf(a) \cap Tracker!IdsOf(b) = {}
  <2>1. Distinct(a)
    BY <1>2, <1>3, <1>6 DEF Distinct
  <2>2. Distinct(b)
    <3> SUFFICES ASSUME NEW i \in 1..n, NEW j \in 1..n, i # j PROVE b[i].id # b[j].id
      BY <1>2 DEF Distinct
    <3>1. m + i # m + j /\ m + i \in DOMAIN (a \o b) /\ m + j \in DOMAIN (a \o b)
      BY <1>1, <1>2, <1>3
    <3>2. (a \o b)[m + i].id # (a \o b)[m + j].id
      BY <1>6, <3>1 DEF Distinct
    <3> QED BY <1>3, <3>2
  <2>3. ASSUME NEW i \in 1..m, NEW j \in 1..n PROVE a[i].id # b[j].id
    <3>1. i # m + j /\ i \in DOMAIN (a \o b) /\ m + j \in DOMAIN (a \o b)
      BY <1>1, <1>2, <1>3
    <3>2. (a \o b)[i].id # (a \o b)[m + j].id
      BY <1>6, <3>1 DEF Distinct
    <3> QED BY <1>3, <3>2
  <2> QED BY <1>2, <2>1, <2>2, <2>3 DEF Tracker!IdsOf, Tracker!Range
<1> QED BY <1>2, <1>4, <1>5, <1>6

\* What is taken from a list at some places is there, and each once.
LEMMA AtIs ==
    ASSUME NEW T, NEW q \in Seq(T), NEW places, places \subseteq DOMAIN q
    PROVE  /\ Tracker!At(q, places) \in Seq(T)
           /\ Tracker!Range(Tracker!At(q, places)) = {q[i] : i \in places}
           /\ Distinct(q) => Distinct(Tracker!At(q, places))
<1>1. PICK n \in Nat : n = Len(q)
  OBVIOUS
<1>2. places \subseteq Int /\ IsFiniteSet(places) /\ DOMAIN q = 1..n
  <2>1. DOMAIN q = 1..n /\ IsFiniteSet(1..n)
    BY <1>1, FS_Interval
  <2>2. 1..n \subseteq Int
    OBVIOUS
  <2> QED BY <2>1, <2>2, FS_Subset
<1>3. PICK c, order : c = Cardinality(places) /\ order = Tracker!Sorted(places)
  OBVIOUS
<1>4. /\ c \in Nat /\ order \in [1..c -> places]
      /\ \A i, j \in 1..c : order[i] = order[j] => i = j
      /\ \A e \in places : \E i \in 1..c : order[i] = e
  BY <1>2, <1>3, SortedIs
<1>5. Tracker!At(q, places) = [k \in 1..c |-> q[order[k]]]
  BY <1>3, <1>4 DEF Tracker!At
<1>6. \A k \in 1..c : order[k] \in DOMAIN q /\ q[order[k]] \in T
  BY <1>2, <1>1, <1>4
<1>7. Tracker!At(q, places) \in Seq(T)
  BY <1>4, <1>5, <1>6
<1>8. Tracker!Range(Tracker!At(q, places)) = {q[i] : i \in places}
  <2>1. Tracker!Range(Tracker!At(q, places)) = {q[order[k]] : k \in 1..c}
    BY <1>5 DEF Tracker!Range
  <2>2. ASSUME NEW i \in places PROVE \E k \in 1..c : q[order[k]] = q[i]
    BY <1>4
  <2>3. \A k \in 1..c : order[k] \in places
    BY <1>4
  <2>4. {q[order[k]] : k \in 1..c} = {q[i] : i \in places}
    BY <2>2, <2>3
  <2> QED BY <2>1, <2>4
<1>9. Distinct(q) => Distinct(Tracker!At(q, places))
  BY <1>4, <1>5, <1>6 DEF Distinct
<1> QED BY <1>7, <1>8, <1>9

\* Joining two lists: all of the first, of the second what is not there by id.
LEMMA JointIs ==
    ASSUME NEW T, NEW a \in Seq(T), NEW b \in Seq(T), Distinct(a), Distinct(b)
    PROVE  /\ Tracker!Joint(a, b) \in Seq(T) /\ Distinct(Tracker!Joint(a, b))
           /\ Tracker!Range(Tracker!Joint(a, b)) =
                 Tracker!Range(a) \cup {t \in Tracker!Range(b) : t.id \notin Tracker!IdsOf(a)}
<1> DEFINE added == {i \in DOMAIN b : b[i].id \notin Tracker!IdsOf(a)}
           more == Tracker!At(b, added)
<1>1. added = {i \in DOMAIN b : /\ b[i].id \notin Tracker!IdsOf(a)
                                /\ \A j \in 1..(i - 1) : b[j].id # b[i].id}
  <2>1. ASSUME NEW i \in DOMAIN b, NEW j \in 1..(i - 1) PROVE b[j].id # b[i].id
    <3>1. j \in DOMAIN b /\ j # i
      OBVIOUS
    <3> QED BY <3>1 DEF Distinct
  <2> QED BY <2>1
<1>2. Tracker!Joint(a, b) = a \o more
  BY <1>1 DEF Tracker!Joint
<1>3. more \in Seq(T) /\ Tracker!Range(more) = {b[i] : i \in added} /\ Distinct(more)
  BY AtIs
<1>4. {b[i] : i \in added} = {t \in Tracker!Range(b) : t.id \notin Tracker!IdsOf(a)}
  BY DEF Tracker!Range
<1> HIDE DEF more, added
<1>5. Tracker!IdsOf(a) \cap Tracker!IdsOf(more) = {}
  BY <1>3, <1>4 DEF Tracker!IdsOf
<1> QED BY <1>2, <1>3, <1>4, <1>5, ConcatIs

\* Taking ids away from a list: what is left, each once.
LEMMA SubIs ==
    ASSUME NEW T, NEW a \in Seq(T), Distinct(a), NEW out, \A t \in T : t.id \in Int
    PROVE  /\ Tracker!Sub(a, out) \in Seq(T) /\ Distinct(Tracker!Sub(a, out))
           /\ Tracker!Range(Tracker!Sub(a, out)) = {t \in Tracker!Range(a) : t.id \notin out}
<1> DEFINE left == Tracker!IdsOf(a) \ out
<1>1. PICK n \in Nat : n = Len(a)
  OBVIOUS
<1>2. DOMAIN a = 1..n /\ (\A i \in 1..n : a[i] \in T)
  BY <1>1
<1>3. IsFiniteSet(Tracker!IdsOf(a))
  <2>1. [i \in 1..n |-> a[i].id] \in Surjection(1..n, Tracker!IdsOf(a))
    BY <1>2 DEF Surjection, Tracker!IdsOf, Tracker!Range
  <2> QED BY <2>1, FS_Interval, FS_Surjection
<1>4. left \subseteq Int /\ IsFiniteSet(left)
  <2>1. Tracker!IdsOf(a) \subseteq Int
    BY <1>2 DEF Tracker!IdsOf, Tracker!Range
  <2> QED BY <1>3, <2>1, FS_Subset
<1>5. PICK c, order : c = Cardinality(left) /\ order = Tracker!Sorted(left)
  OBVIOUS
<1>6. /\ c \in Nat /\ order \in [1..c -> left]
      /\ \A i, j \in 1..c : order[i] = order[j] => i = j
      /\ \A e \in left : \E i \in 1..c : order[i] = e
  BY <1>4, <1>5, SortedIs
<1>7. Tracker!Sub(a, out) = [k \in 1..c |-> Tracker!Choose(a, order[k])]
  BY <1>5, <1>6 DEF Tracker!Sub
<1>8. ASSUME NEW e \in left
      PROVE  /\ Tracker!Choose(a, e) \in Tracker!Range(a) /\ Tracker!Choose(a, e) \in T
             /\ Tracker!Choose(a, e).id = e
  <2>1. PICK t \in Tracker!Range(a) : t.id = e
    BY DEF Tracker!IdsOf
  <2>2. Tracker!Range(a) \subseteq T
    BY <1>2 DEF Tracker!Range
  <2> QED BY <2>1, <2>2, ChooseIs
<1>9. Tracker!Sub(a, out) \in Seq(T)
  BY <1>6, <1>7, <1>8
<1>10. Distinct(Tracker!Sub(a, out))
  BY <1>6, <1>7, <1>8 DEF Distinct
<1>11. ASSUME NEW t \in Tracker!Range(a), t.id \notin out
       PROVE  \E k \in 1..c : Tracker!Sub(a, out)[k] = t
  <2>1. t.id \in left
    BY <1>11 DEF Tracker!IdsOf
  <2>2. PICK k \in 1..c : order[k] = t.id
    BY <1>6, <2>1
  <2> QED BY <1>7, <2>2, ChooseIs
<1>12. ASSUME NEW k \in 1..c
       PROVE  /\ Tracker!Sub(a, out)[k] \in Tracker!Range(a)
              /\ Tracker!Sub(a, out)[k].id \notin out
  BY <1>6, <1>7, <1>8
<1>13. DOMAIN Tracker!Sub(a, out) = 1..c
  BY <1>7
<1>14. Tracker!Range(Tracker!Sub(a, out)) = {t \in Tracker!Range(a) : t.id \notin out}
  <2>1. Tracker!Range(Tracker!Sub(a, out)) = {Tracker!Sub(a, out)[k] : k \in 1..c}
    BY <1>13 DEF Tracker!Range
  <2> QED BY <1>11, <1>12, <2>1
<1> QED BY <1>9, <1>10, <1>14

\* Removing duplicates only takes away.
LEMMA WithoutIs ==
    ASSUME NEW T, NEW q \in Seq(T), Distinct(q), NEW out
    PROVE  /\ Tracker!At(q, DOMAIN q \ out) \in Seq(T)
           /\ Distinct(Tracker!At(q, DOMAIN q \ out))
           /\ Tracker!Range(Tracker!At(q, DOMAIN q \ out)) \subseteq Tracker!Range(q)
<1> DEFINE left == DOMAIN q \ out
<1>1. left \subseteq DOMAIN q
  OBVIOUS
<1>2. {q[i] : i \in left} \subseteq Tracker!Range(q)
  BY DEF Tracker!Range
<1> HIDE DEF left
<1>3. /\ Tracker!At(q, left) \in Seq(T) /\ Distinct(Tracker!At(q, left))
      /\ Tracker!Range(Tracker!At(q, left)) = {q[i] : i \in left}
  BY <1>1, AtIs
<1> QED BY <1>2, <1>3 DEF left

LEMMA DuplicatesIs ==
    ASSUME NEW T, NEW a \in Seq(T), NEW b \in Seq(T), Distinct(a), Distinct(b), NEW pairs,
           NEW lists, lists = Tracker!Duplicates(a, b, pairs)
    PROVE  /\ lists[1] \in Seq(T) /\ Distinct(lists[1])
           /\ Tracker!Range(lists[1]) \subseteq Tracker!Range(a)
           /\ lists[2] \in Seq(T) /\ Distinct(lists[2])
           /\ Tracker!Range(lists[2]) \subseteq Tracker!Range(b)
<1>1. PICK o1, o2 : lists = <<Tracker!At(a, DOMAIN a \ o1), Tracker!At(b, DOMAIN b \ o2)>>
  BY DEF Tracker!Duplicates
<1>2. /\ lists[1] = Tracker!At(a, DOMAIN a \ o1)
      /\ lists[2] = Tracker!At(b, DOMAIN b \ o2)
  BY <1>1
<1> QED BY <1>2, WithoutIs
-------------------------------------------------------------------------------
(* Tracks: the inductive invariant                                               *)

Track ==
    [id : Nat, state : {"Tracked", "Lost", "Removed"}, act : BOOLEAN, start : Nat,
     frame : Nat, len : Nat, label : Nat]

Known == Tracker!Range(tracked) \cup Tracker!Range(lostTracks)

TrackTypes ==
    /\ tracked \in Seq(Track) /\ lostTracks \in Seq(Track) /\ removed \in Seq(Nat)
    /\ frame \in Nat /\ ids \in Nat /\ labels \in Nat /\ crowds \in Nat

\* Ids and labels are drawn from the counters, each once.
Numbered ==
    /\ Distinct(Tracker!Everywhere)
    /\ \A t \in Known : t.id <= ids /\ t.label <= labels
    /\ \A t, u \in Known : t.label = u.label /\ t.label # 0 => t.id = u.id

\* t is what update() hands out: seen in frame f, and with a label once it was updated.
SeenIn(t, f) ==
    t.state = "Tracked" /\ t.frame = f /\ (t.len > 0 => t.act /\ t.label # 0)

\* t was lost long ago only when it is among the removed, or was crowded out of them.
LostSince(t, f, gone, crowded) ==
    /\ t.state # "Tracked" /\ f - t.frame <= MaxTimeLost + 1 + crowded
    /\ f - t.frame <= MaxTimeLost + crowded \/ t.id \in gone

TrackInv ==
    /\ TrackTypes /\ Numbered
    /\ \A t \in Tracker!Range(tracked) : SeenIn(t, frame)
    /\ \A t \in Tracker!Range(lostTracks) :
          LostSince(t, frame, Tracker!Range(removed), crowds)

LEMMA TrackNumbers == MaxTimeLost \in Nat /\ MaxTimeLost >= 1 /\ KeptRemoved \in Nat
  BY TrackerAssumption DEF Tracker!BoundsAssumption

LEMMA KnownIs ==
    ASSUME TrackInv
    PROVE  /\ Tracker!Range(Tracker!Everywhere) = Known /\ Known \subseteq Track
           /\ Distinct(tracked) /\ Distinct(lostTracks)
           /\ \A t \in Tracker!Range(tracked), u \in Tracker!Range(lostTracks) : t.id # u.id
           /\ \A t, u \in Known : t.id = u.id => t = u
<1>1. tracked \in Seq(Track) /\ lostTracks \in Seq(Track) /\ Distinct(tracked \o lostTracks)
  BY DEF TrackInv, TrackTypes, Numbered, Tracker!Everywhere
<1>2. /\ Tracker!Range(tracked \o lostTracks) = Known /\ Distinct(tracked) /\ Distinct(lostTracks)
      /\ Tracker!IdsOf(tracked) \cap Tracker!IdsOf(lostTracks) = {}
  BY <1>1, ConcatIs DEF Known
<1>3. Known \subseteq Track
  BY <1>1 DEF Known, Tracker!Range
<1>4. \A t \in Tracker!Range(tracked), u \in Tracker!Range(lostTracks) : t.id # u.id
  BY <1>2 DEF Tracker!IdsOf
<1>5. ASSUME NEW t \in Known, NEW u \in Known, t.id = u.id PROVE t = u
  BY <1>1, <1>2, <1>5, ChooseIs
<1> QED BY <1>2, <1>3, <1>4, <1>5 DEF Tracker!Everywhere

\* The labels that are drawn are new, and of one track each.
LEMMA LabelForIs ==
    ASSUME TrackInv, NEW found
    PROVE  /\ Tracker!Cardinality(Tracker!Unlabelled(found)) \in Nat
           /\ \A k \in Tracker!Unlabelled(found) :
                 Tracker!LabelFor(k, found) \in
                    (labels + 1)..(labels + Tracker!Cardinality(Tracker!Unlabelled(found)))
           /\ \A k, l \in Tracker!Unlabelled(found) :
                 Tracker!LabelFor(k, found) = Tracker!LabelFor(l, found) => k = l
<1> DEFINE those == Tracker!Unlabelled(found)
<1>1. those \subseteq 0..ids
  <2>1. \A t \in Known : t.id \in 0..ids
    BY KnownIs DEF TrackInv, TrackTypes, Numbered, Track
  <2> QED BY <2>1, KnownIs DEF Tracker!Unlabelled
<1>2. ids \in Nat /\ labels \in Nat /\ those \subseteq Int
  BY <1>1 DEF TrackInv, TrackTypes
<1>3. IsFiniteSet(those)
  <2>1. IsFiniteSet(0..ids)
    BY <1>2, FS_Interval
  <2> QED BY <1>1, <2>1, FS_Subset
<1>4. PICK c, order : c = Cardinality(those) /\ order = Tracker!Sorted(those)
  OBVIOUS
<1>5. /\ c \in Nat /\ order \in [1..c -> those]
      /\ \A i, j \in 1..c : order[i] = order[j] => i = j
      /\ \A e \in those : \E i \in 1..c : order[i] = e
  BY <1>2, <1>3, <1>4, SortedIs
<1>6. ASSUME NEW k \in those
      PROVE  \E i \in 1..c : order[i] = k /\ Tracker!LabelFor(k, found) = labels + i
  <2>1. Tracker!LabelFor(k, found) = labels + CHOOSE i \in 1..c : order[i] = k
    BY <1>4, <1>5 DEF Tracker!LabelFor
  <2> QED BY <1>5, <2>1
<1>7. c = Tracker!Cardinality(those)
  BY <1>4, TrackCardinality
<1> HIDE DEF those
<1>8. \A k \in those : Tracker!LabelFor(k, found) \in (labels + 1)..(labels + c)
  BY <1>2, <1>5, <1>6
<1>9. ASSUME NEW k \in those, NEW l \in those,
             Tracker!LabelFor(k, found) = Tracker!LabelFor(l, found)
      PROVE  k = l
  <2>1. PICK i \in 1..c : order[i] = k /\ Tracker!LabelFor(k, found) = labels + i
    BY <1>6
  <2>2. PICK j \in 1..c : order[j] = l /\ Tracker!LabelFor(l, found) = labels + j
    BY <1>6
  <2>3. i \in Int /\ j \in Int /\ labels \in Int
    BY <1>2
  <2>5. labels + i = labels + j
    BY <1>9, <2>1, <2>2
  <2>4. i = j
    BY <2>3, <2>5
  <2> QED BY <2>1, <2>2, <2>4
<1> QED BY <1>5, <1>7, <1>8, <1>9 DEF those

\* The label a track has after a frame.
LabelOf(t, found) ==
    IF t.id \in Tracker!Unlabelled(found) THEN Tracker!LabelFor(t.id, found) ELSE t.label

\* What a frame makes of one track.
LEMMA NowIs ==
    ASSUME TrackInv, NEW found, NEW t \in Known, NEW u, u = Tracker!Now(t, found)
    PROVE  /\ u \in Track /\ u.id = t.id /\ u.label = LabelOf(t, found)
           /\ u.state = "Tracked" <=> t.id \in found
           /\ t.id \in found => SeenIn(u, frame + 1)
           /\ t.id \notin found => u.frame = t.frame
<1>1. t \in Track /\ frame \in Nat /\ labels \in Nat
  BY KnownIs DEF TrackInv, TrackTypes
<1>2. t.id \in Tracker!Unlabelled(found)
      <=> t.id \in found /\ t.state = "Tracked" /\ t.label = 0
  BY KnownIs DEF Tracker!Unlabelled
<1>3. PICK l : l = Tracker!LabelFor(t.id, found)
  OBVIOUS
<1>4. t.id \in Tracker!Unlabelled(found) => l \in Nat /\ l # 0
  BY <1>1, <1>3, LabelForIs
<1>5. CASE t.id \in found /\ t.state = "Tracked"
  <2>1. u = Tracker!Updated(t, frame + 1, l)
    BY <1>3, <1>5 DEF Tracker!Now
  <2>2. u = [t EXCEPT !.frame = frame + 1, !.len = t.len + 1, !.state = "Tracked",
                      !.act = TRUE, !.label = IF t.label = 0 THEN l ELSE t.label]
    BY <1>1, <2>1 DEF Tracker!Updated, Track
  <2>3. LabelOf(t, found) = IF t.label = 0 THEN l ELSE t.label
    BY <1>2, <1>3, <1>5 DEF LabelOf
  <2>4. (IF t.label = 0 THEN l ELSE t.label) \in Nat \ {0}
    BY <1>1, <1>2, <1>4, <1>5 DEF Track
  <2>5. PICK m \in Nat \ {0} : m = IF t.label = 0 THEN l ELSE t.label
    BY <2>4
  <2>6. u = [t EXCEPT !.frame = frame + 1, !.len = t.len + 1, !.state = "Tracked",
                      !.act = TRUE, !.label = m]
    BY <2>2, <2>5
  <2>7. frame + 1 \in Nat /\ t.len + 1 \in Nat
    BY <1>1 DEF Track
  <2>8. /\ u \in Track /\ u.id = t.id /\ u.label = m /\ u.state = "Tracked"
        /\ u.frame = frame + 1 /\ u.act = TRUE
    BY <1>1, <2>6, <2>7 DEF Track
  <2> QED BY <1>5, <2>3, <2>5, <2>8 DEF SeenIn
<1>6. CASE t.id \in found /\ t.state # "Tracked"
  <2>1. u = [t EXCEPT !.frame = frame + 1, !.len = 0, !.state = "Tracked", !.act = TRUE]
    BY <1>6 DEF Tracker!Now, Tracker!Reactivated
  <2>2. LabelOf(t, found) = t.label
    BY <1>2, <1>6 DEF LabelOf
  <2>3. frame + 1 \in Nat /\ "Tracked" \in {"Tracked", "Lost", "Removed"}
    BY <1>1
  <2>5. PICK f \in Nat, k \in Nat : f = frame + 1 /\ k = 0
    BY <2>3
  <2>6. u = [t EXCEPT !.frame = f, !.len = k, !.state = "Tracked", !.act = TRUE]
    BY <2>1, <2>5
  <2>7. u \in Track
    BY <1>1, <2>3, <2>6 DEF Track
  <2>8. u.id = t.id /\ u.label = t.label
    BY <1>1, <2>6 DEF Track
  <2>4. /\ u \in Track /\ u.id = t.id /\ u.label = t.label /\ u.state = "Tracked"
        /\ u.frame = frame + 1 /\ u.len = 0
    BY <1>1, <2>5, <2>6, <2>7, <2>8 DEF Track
  <2> QED BY <1>6, <2>2, <2>4 DEF SeenIn
<1>7. CASE t.id \notin found /\ t.state = "Tracked"
  <2>1. u = [t EXCEPT !.state = IF t.act THEN "Lost" ELSE "Removed"]
    BY <1>7 DEF Tracker!Now
  <2>2. LabelOf(t, found) = t.label
    BY <1>2, <1>7 DEF LabelOf
  <2>3. t.act \in BOOLEAN /\ "Tracked" # "Lost" /\ "Tracked" # "Removed"
    BY <1>1 DEF Track
  <2>4. u \in Track /\ u.id = t.id /\ u.label = t.label /\ u.frame = t.frame
    BY <1>1, <2>1, <2>3 DEF Track
  <2>5. u.state # "Tracked"
    BY <1>1, <2>1, <2>3 DEF Track
  <2> QED BY <1>7, <2>2, <2>4, <2>5
<1>8. CASE t.id \notin found /\ t.state # "Tracked"
  <2>1. u = t
    BY <1>8 DEF Tracker!Now
  <2>2. LabelOf(t, found) = t.label
    BY <1>2, <1>8 DEF LabelOf
  <2>3. u \in Track /\ u.id = t.id /\ u.label = t.label /\ u.frame = t.frame
    BY <1>1, <2>1
  <2>4. u.state # "Tracked"
    BY <1>8, <2>1
  <2> QED BY <1>8, <2>2, <2>3, <2>4
<1> QED BY <1>5, <1>6, <1>7, <1>8

-------------------------------------------------------------------------------
(* Tracks: the lists of a frame                                                  *)

\* The tracked and the lost ones, after the rounds.
LEMMA WereTracked ==
    ASSUME TrackInv, NEW found, NEW was, was = Tracker!WasTracked(found)
    PROVE  /\ was \in Seq(Track) /\ Distinct(was)
           /\ DOMAIN was = DOMAIN tracked /\ \A i \in DOMAIN was : was[i].id = tracked[i].id
           /\ Tracker!Range(was) = {Tracker!Now(t, found) : t \in Tracker!Range(tracked)}
<1>1. PICK n \in Nat : n = Len(tracked)
  BY DEF TrackInv, TrackTypes
<1>2. /\ DOMAIN tracked = 1..n /\ was = [i \in 1..n |-> Tracker!Now(tracked[i], found)]
      /\ \A i \in 1..n : tracked[i] \in Known
  <2>1. DOMAIN tracked = 1..n
    BY <1>1 DEF TrackInv, TrackTypes
  <2>2. was = [i \in 1..n |-> Tracker!Now(tracked[i], found)]
    BY <2>1 DEF Tracker!WasTracked
  <2>3. \A i \in 1..n : tracked[i] \in Known
    BY <2>1 DEF Known, Tracker!Range
  <2> QED BY <2>1, <2>2, <2>3
<1>3. ASSUME NEW i \in 1..n PROVE was[i] \in Track /\ was[i].id = tracked[i].id
  BY <1>2, NowIs
<1>4. was \in Seq(Track)
  BY <1>2, <1>3
<1>5. Distinct(was)
  BY <1>2, <1>3, KnownIs DEF Distinct
<1> QED BY <1>2, <1>3, <1>4, <1>5 DEF Tracker!Range

\* Marking leaves everything but the state of a track.
LEMMA MarkedIs ==
    ASSUME NEW t \in Track
    PROVE  /\ Tracker!Marked(t) \in Track /\ Tracker!Marked(t).id = t.id
           /\ Tracker!Marked(t).frame = t.frame /\ Tracker!Marked(t).label = t.label
           /\ t.state # "Tracked" => Tracker!Marked(t).state # "Tracked"
           /\ ~Tracker!Expired(t, frame + 1) => Tracker!Marked(t) = t
<1>1. CASE Tracker!Marked(t) = t
  BY <1>1
<1>2. CASE Tracker!Marked(t) = [t EXCEPT !.state = "Removed"] /\ Tracker!Expired(t, frame + 1)
  <2>1. "Removed" # "Tracked"
    OBVIOUS
  <2> QED BY <1>2, <2>1 DEF Track
<1> QED BY <1>1, <1>2 DEF Tracker!Marked

LEMMA WereLost ==
    ASSUME TrackInv, NEW found, NEW was, was = Tracker!WasLost(found)
    PROVE  /\ was \in Seq(Track) /\ Distinct(was)
           /\ DOMAIN was = DOMAIN lostTracks
           /\ \A i \in DOMAIN was : was[i].id = lostTracks[i].id
           /\ Tracker!Range(was) =
                 {Tracker!Marked(Tracker!Now(t, found)) : t \in Tracker!Range(lostTracks)}
<1>1. PICK n \in Nat : n = Len(lostTracks)
  BY DEF TrackInv, TrackTypes
<1>2. /\ DOMAIN lostTracks = 1..n
      /\ was = [i \in 1..n |-> Tracker!Marked(Tracker!Now(lostTracks[i], found))]
      /\ \A i \in 1..n : lostTracks[i] \in Known
  BY <1>1 DEF TrackInv, TrackTypes, Tracker!WasLost, Known, Tracker!Range
<1>3. ASSUME NEW i \in 1..n PROVE was[i] \in Track /\ was[i].id = lostTracks[i].id
  BY <1>2, NowIs, MarkedIs
<1>4. was \in Seq(Track)
  BY <1>2, <1>3
<1>5. Distinct(was)
  BY <1>2, <1>3, KnownIs DEF Distinct
<1> QED BY <1>2, <1>3, <1>4, <1>5 DEF Tracker!Range

\* What was lost stays so unless it is found, and found it is current.
LEMMA LostIs ==
    ASSUME TrackInv, NEW found, NEW t \in Tracker!Range(lostTracks),
           NEW u, u = Tracker!Marked(Tracker!Now(t, found))
    PROVE  /\ u \in Track /\ u.id = t.id /\ u.label = LabelOf(t, found)
           /\ t.id \in found => SeenIn(u, frame + 1)
           /\ t.id \notin found => u.frame = t.frame /\ u.state # "Tracked"
<1>1. PICK s : s = Tracker!Now(t, found)
  OBVIOUS
<1>2. t \in Known
  BY DEF Known
<1>3. /\ s \in Track /\ s.id = t.id /\ s.label = LabelOf(t, found)
      /\ s.state = "Tracked" <=> t.id \in found
      /\ t.id \in found => SeenIn(s, frame + 1)
      /\ t.id \notin found => s.frame = t.frame
  BY <1>1, <1>2, NowIs
<1>4. t.id \in found => u = s
  <2> SUFFICES ASSUME t.id \in found PROVE ~Tracker!Expired(s, frame + 1)
    BY <1>1, <1>3, MarkedIs
  <2>1. s.frame = frame + 1 /\ frame \in Nat
    BY <1>3 DEF SeenIn, TrackInv, TrackTypes
  <2> QED BY <2>1, TrackNumbers DEF Tracker!Expired
<1> QED BY <1>1, <1>3, <1>4, MarkedIs

\* Tracks that begin have ids of their own and no label yet.
LEMMA NewIs ==
    ASSUME TrackInv, NEW n \in Nat, NEW begun, begun = Tracker!New(n)
    PROVE  /\ begun \in Seq(Track) /\ Distinct(begun)
           /\ \A u \in Tracker!Range(begun) :
                 u.id \in (ids + 1)..(ids + n) /\ u.label = 0 /\ SeenIn(u, frame + 1)
<1>1. frame + 1 \in Nat /\ ids \in Nat
  BY DEF TrackInv, TrackTypes
<1>2. begun = [k \in 1..n |-> Tracker!Activated(ids + k, frame + 1)]
  BY DEF Tracker!New
<1>3. ASSUME NEW k \in 1..n
      PROVE  /\ begun[k] \in Track /\ begun[k].id = ids + k /\ begun[k].label = 0
             /\ SeenIn(begun[k], frame + 1)
  <2>1. ids + k \in Nat
    BY <1>1
  <2> QED BY <1>1, <1>2, <2>1 DEF Tracker!Activated, Track, SeenIn
<1>4. begun \in Seq(Track)
  BY <1>2, <1>3
<1>5. Distinct(begun)
  <2>1. \A k, l \in 1..n : k # l => ids + k # ids + l
    BY <1>1
  <2> QED BY <1>2, <1>3, <2>1 DEF Distinct
<1>6. \A k \in 1..n : ids + k \in (ids + 1)..(ids + n)
  BY <1>1
<1> QED BY <1>2, <1>3, <1>4, <1>5, <1>6 DEF Tracker!Range

\* What is tracked after a frame: what was found, once, and what began.
LEMMA NowTrackedIs ==
    ASSUME TrackInv, NEW found, NEW n \in Nat, NEW back, back = Tracker!NowTracked(found, n)
    PROVE  /\ back \in Seq(Track) /\ Distinct(back)
           /\ \A u \in Tracker!Range(back) :
                 \/ u \in Tracker!Range(Tracker!WasTracked(found)) /\ u.id \in found
                 \/ u \in Tracker!Range(Tracker!New(n))
                 \/ u \in Tracker!Range(Tracker!WasLost(found)) /\ u.id \in found
           /\ \A u \in Tracker!Range(Tracker!WasLost(found)) :
                 u.id \in found => u.id \in Tracker!IdsOf(back)
<1>1. PICK was : was = Tracker!WasTracked(found)
  OBVIOUS
<1>2. PICK then : then = Tracker!WasLost(found)
  OBVIOUS
<1>3. PICK begun : begun = Tracker!New(n)
  OBVIOUS
<1> DEFINE tracks == {i \in DOMAIN was : was[i].state = "Tracked"}
           seen == {i \in DOMAIN was : was[i].id \in found}
           again == {i \in DOMAIN lostTracks : lostTracks[i].id \in found}
<1>4. PICK still : still = Tracker!At(was, tracks)
  OBVIOUS
<1>5. PICK moved : moved = Tracker!At(was, seen)
  OBVIOUS
<1>6. PICK refind : refind = Tracker!At(then, again)
  OBVIOUS
<1>7. back = Tracker!Joint(Tracker!Joint(still, moved \o begun), refind)
  BY <1>1, <1>2, <1>3, <1>4, <1>5, <1>6 DEF Tracker!NowTracked
<1>8. /\ was \in Seq(Track) /\ Distinct(was)
      /\ \A u \in Tracker!Range(was) :
            /\ u.state = "Tracked" <=> u.id \in found
            /\ \E t \in Tracker!Range(tracked) : u.id = t.id
  <2>1. Tracker!Range(tracked) \subseteq Known
    BY DEF Known
  <2> QED BY <1>1, <2>1, WereTracked, NowIs
<1>9. /\ then \in Seq(Track) /\ Distinct(then) /\ DOMAIN then = DOMAIN lostTracks
      /\ \A i \in DOMAIN then : then[i].id = lostTracks[i].id
  BY <1>2, WereLost
<1>10. /\ begun \in Seq(Track) /\ Distinct(begun)
       /\ \A u \in Tracker!Range(begun) : u.id > ids
  <2>1. \A k \in (ids + 1)..(ids + n) : k > ids
    BY DEF TrackInv, TrackTypes
  <2> QED BY <1>3, <2>1, NewIs
<1>11. \A t \in Known : ~(t.id > ids)
  BY KnownIs DEF TrackInv, TrackTypes, Numbered, Track
<1>12. seen = tracks
  BY <1>8 DEF Tracker!Range
<1>13. /\ still \in Seq(Track) /\ Distinct(still) /\ moved = still
       /\ Tracker!Range(still) = {was[i] : i \in tracks}
  BY <1>4, <1>5, <1>8, <1>12, AtIs
<1>14. /\ refind \in Seq(Track) /\ Distinct(refind)
       /\ Tracker!Range(refind) = {then[i] : i \in again}
  BY <1>6, <1>9, AtIs
<1>15. \A u \in Tracker!Range(still) : u \in Tracker!Range(was) /\ u.id \in found
  BY <1>8, <1>13 DEF Tracker!Range
<1>16. /\ \A u \in Tracker!Range(refind) : u \in Tracker!Range(then) /\ u.id \in found
       /\ \A u \in Tracker!Range(then) : u.id \in found => u \in Tracker!Range(refind)
  BY <1>9, <1>14 DEF Tracker!Range
<1> HIDE DEF tracks, seen, again
<1>17. Tracker!IdsOf(still) \cap Tracker!IdsOf(begun) = {}
  BY <1>8, <1>10, <1>11, <1>15 DEF Tracker!IdsOf, Known
<1>18. PICK activated : activated = moved \o begun
  OBVIOUS
<1>19. /\ activated \in Seq(Track) /\ Distinct(activated)
       /\ Tracker!Range(activated) = Tracker!Range(still) \cup Tracker!Range(begun)
  BY <1>10, <1>13, <1>17, <1>18, ConcatIs
<1>20. PICK both : both = Tracker!Joint(still, activated)
  OBVIOUS
<1>21. /\ both \in Seq(Track) /\ Distinct(both)
       /\ Tracker!Range(both) \subseteq Tracker!Range(still) \cup Tracker!Range(begun)
  BY <1>13, <1>19, <1>20, JointIs
<1>22. /\ back \in Seq(Track) /\ Distinct(back)
       /\ Tracker!Range(back) =
             Tracker!Range(both)
             \cup {t \in Tracker!Range(refind) : t.id \notin Tracker!IdsOf(both)}
  BY <1>7, <1>14, <1>18, <1>20, <1>21, JointIs
<1>23. ASSUME NEW u \in Tracker!Range(then), u.id \in found
       PROVE  u.id \in Tracker!IdsOf(back)
  BY <1>16, <1>22, <1>23 DEF Tracker!IdsOf
<1> QED BY <1>1, <1>2, <1>3, <1>15, <1>16, <1>21, <1>22, <1>23

\* What is lost after a frame: what was and was not found, and what was tracked and was not
\* found, but for what was removed before.
LEMMA NowLostIs ==
    ASSUME TrackInv, NEW found, NEW n \in Nat, NEW back, back = Tracker!NowTracked(found, n),
           NEW away, away = Tracker!NowLost(found, back)
    PROVE  /\ away \in Seq(Track) /\ Distinct(away)
           /\ \A u \in Tracker!Range(away) :
                 /\ u.id \notin found /\ u.id \notin Tracker!Range(removed)
                 /\ \/ u \in Tracker!Range(Tracker!WasTracked(found))
                    \/ u \in Tracker!Range(Tracker!WasLost(found))
<1>1. PICK was : was = Tracker!WasTracked(found)
  OBVIOUS
<1>2. PICK then : then = Tracker!WasLost(found)
  OBVIOUS
<1> DEFINE leaving == {i \in DOMAIN was : was[i].state = "Lost"}
<1>3. PICK gone : gone = Tracker!At(was, leaving)
  OBVIOUS
<1>4. PICK rest : rest = Tracker!Sub(then, Tracker!IdsOf(back))
  OBVIOUS
<1>5. away = Tracker!Sub(rest \o gone, Tracker!Range(removed))
  BY <1>1, <1>2, <1>3, <1>4 DEF Tracker!NowLost
<1>6. /\ was \in Seq(Track) /\ Distinct(was)
      /\ \A u \in Tracker!Range(was) :
            /\ u.state = "Tracked" <=> u.id \in found
            /\ \E t \in Tracker!Range(tracked) : u.id = t.id
  <2>1. Tracker!Range(tracked) \subseteq Known
    BY DEF Known
  <2> QED BY <1>1, <2>1, WereTracked, NowIs
<1>7. /\ then \in Seq(Track) /\ Distinct(then)
      /\ \A u \in Tracker!Range(then) : \E t \in Tracker!Range(lostTracks) : u.id = t.id
  BY <1>2, WereLost DEF Tracker!Range
<1>8. \A t \in Track : t.id \in Int
  BY DEF Track
<1>9. /\ rest \in Seq(Track) /\ Distinct(rest)
      /\ Tracker!Range(rest) = {u \in Tracker!Range(then) : u.id \notin Tracker!IdsOf(back)}
  BY <1>4, <1>7, <1>8, SubIs
<1>10. /\ gone \in Seq(Track) /\ Distinct(gone)
       /\ Tracker!Range(gone) = {was[i] : i \in leaving}
  BY <1>3, <1>6, AtIs
<1>11. \A u \in Tracker!Range(gone) : u \in Tracker!Range(was) /\ u.id \notin found
  <2>1. ASSUME NEW i \in leaving PROVE was[i] \in Tracker!Range(was) /\ was[i].id \notin found
    <3>1. was[i] \in Tracker!Range(was) /\ was[i].state = "Lost" /\ "Lost" # "Tracked"
      BY DEF Tracker!Range
    <3> QED BY <1>6, <3>1
  <2> QED BY <1>10, <2>1
<1>12. \A u \in Tracker!Range(rest) : u \in Tracker!Range(then) /\ u.id \notin found
  BY <1>2, <1>9, NowTrackedIs
<1> HIDE DEF leaving
<1>13. Tracker!IdsOf(rest) \cap Tracker!IdsOf(gone) = {}
  BY <1>6, <1>7, <1>11, <1>12, KnownIs DEF Tracker!IdsOf
<1>14. PICK all : all = rest \o gone
  OBVIOUS
<1>15. /\ all \in Seq(Track) /\ Distinct(all)
       /\ Tracker!Range(all) = Tracker!Range(rest) \cup Tracker!Range(gone)
  BY <1>9, <1>10, <1>13, <1>14, ConcatIs
<1>16. away = Tracker!Sub(all, Tracker!Range(removed))
  BY <1>5, <1>14
<1>17. /\ away \in Seq(Track) /\ Distinct(away)
       /\ Tracker!Range(away) = {u \in Tracker!Range(all) : u.id \notin Tracker!Range(removed)}
  BY <1>8, <1>15, <1>16, SubIs
<1> QED BY <1>1, <1>2, <1>11, <1>12, <1>15, <1>17

\* A lost track that has expired is in the list of those removed in the frame.
LEMMA OutIs ==
    ASSUME TrackInv, NEW found, NEW out, out = Tracker!Out(found)
    PROVE  /\ out \in Seq(Track)
           /\ \A u \in Tracker!Range(Tracker!WasLost(found)) :
                 Tracker!Expired(u, frame + 1) => u.id \in Tracker!IdsOf(out)
<1>1. PICK was : was = Tracker!WasTracked(found)
  OBVIOUS
<1>2. PICK then : then = Tracker!WasLost(found)
  OBVIOUS
<1> DEFINE dropped == {i \in DOMAIN was : was[i].state = "Removed"}
           expired == {i \in DOMAIN then : Tracker!Expired(then[i], frame + 1)}
<1>3. was \in Seq(Track) /\ then \in Seq(Track)
  BY <1>1, <1>2, WereTracked, WereLost
<1>4. PICK a : a = Tracker!At(was, dropped)
  OBVIOUS
<1>5. PICK b : b = Tracker!At(then, expired)
  OBVIOUS
<1>6. out = a \o b
  BY <1>1, <1>2, <1>4, <1>5 DEF Tracker!Out
<1>7. a \in Seq(Track)
  BY <1>3, <1>4, AtIs
<1>8. b \in Seq(Track) /\ Tracker!Range(b) = {then[i] : i \in expired}
  BY <1>3, <1>5, AtIs
<1>9. out \in Seq(Track) /\ Tracker!Range(out) = Tracker!Range(a) \cup Tracker!Range(b)
  BY <1>6, <1>7, <1>8, ConcatIs
<1>10. ASSUME NEW u \in Tracker!Range(then), Tracker!Expired(u, frame + 1)
       PROVE  u \in Tracker!Range(b)
  BY <1>8, <1>10 DEF Tracker!Range
<1> QED BY <1>2, <1>9, <1>10 DEF Tracker!IdsOf

\* Of the removed as many are remembered as there may be: the last ones.
LEMMA NewestIs ==
    ASSUME NEW p \in Seq(Nat), NEW q \in Seq(Nat)
    PROVE  /\ Tracker!Newest(p \o q) \in Seq(Nat)
           /\ Len(q) <= KeptRemoved
                 => Tracker!Range(q) \subseteq Tracker!Range(Tracker!Newest(p \o q))
<1>1. PICK m \in Nat, n \in Nat : m = Len(p) /\ n = Len(q)
  OBVIOUS
<1>2. PICK s : s = p \o q
  OBVIOUS
<1>3. /\ s \in Seq(Nat) /\ Len(s) = m + n /\ KeptRemoved \in Nat
      /\ \A i \in 1..n : m + i \in 1..(m + n) /\ s[m + i] = q[i]
  BY <1>1, <1>2, ConcatProperties, TrackNumbers
<1>4. CASE m + n <= KeptRemoved
  <2>1. Tracker!Newest(s) = s
    BY <1>3, <1>4 DEF Tracker!Newest
  <2>2. ASSUME NEW i \in 1..n PROVE q[i] \in Tracker!Range(s)
    <3>1. /\ DOMAIN s = 1..(m + n)
          /\ m + i \in DOMAIN s /\ q[i] = s[m + i]
      BY <1>3
    <3> QED BY <3>1 DEF Tracker!Range
  <2>3. Tracker!Range(q) \subseteq Tracker!Range(s)
    BY <1>1, <2>2 DEF Tracker!Range
  <2> QED BY <1>2, <1>3, <2>1, <2>3
<1>5. CASE m + n > KeptRemoved
  <2>1. PICK skip \in Nat : skip = m + n - KeptRemoved
    BY <1>3, <1>5
  <2>2. Tracker!Newest(s) = SubSeq(s, skip + 1, m + n)
    BY <1>3, <1>5, <2>1 DEF Tracker!Newest
  <2>3. /\ Tracker!Newest(s) \in Seq(Nat) /\ Len(Tracker!Newest(s)) = KeptRemoved
        /\ \A i \in 1..KeptRemoved : Tracker!Newest(s)[i] = s[skip + i]
    BY <1>3, <2>1, <2>2
  <2>4. ASSUME n <= KeptRemoved, NEW i \in 1..n
        PROVE  q[i] \in Tracker!Range(Tracker!Newest(s))
    <3>1. PICK k \in 1..KeptRemoved : skip + k = m + i
      BY <1>3, <1>5, <2>1, <2>4
    <3>2. Tracker!Newest(s)[k] = q[i]
      BY <1>3, <2>3, <3>1
    <3>3. k \in DOMAIN Tracker!Newest(s)
      BY <1>3, <2>3
    <3> QED BY <3>2, <3>3 DEF Tracker!Range
  <2> QED BY <1>1, <1>2, <2>3, <2>4 DEF Tracker!Range
<1> QED BY <1>3, <1>4, <1>5

-------------------------------------------------------------------------------
(* Tracks: the step                                                              *)

\* The lists before the duplicates are removed, and where their tracks come from.
LEMMA SettledIs ==
    ASSUME TrackInv, NEW found, NEW n \in Nat, NEW back, back = Tracker!NowTracked(found, n),
           NEW away, away = Tracker!NowLost(found, back)
    PROVE  /\ back \in Seq(Track) /\ Distinct(back) /\ away \in Seq(Track) /\ Distinct(away)
           /\ \A u \in Tracker!Range(back), w \in Tracker!Range(away) : u.id # w.id
           /\ \A u \in Tracker!Range(back) :
                 /\ SeenIn(u, frame + 1)
                 /\ \/ u.id \in (ids + 1)..(ids + n) /\ u.label = 0
                    \/ \E t \in Known : u.id = t.id /\ u.label = LabelOf(t, found)
           /\ \A u \in Tracker!Range(away) :
                 /\ u.id \notin Tracker!Range(removed) /\ u.state # "Tracked"
                 /\ \E t \in Known : /\ u.id = t.id /\ u.label = LabelOf(t, found)
                                     /\ u.frame = t.frame
                                     /\ \/ t \in Tracker!Range(tracked)
                                        \/ /\ t \in Tracker!Range(lostTracks)
                                           /\ u \in Tracker!Range(Tracker!WasLost(found))
<1>1. /\ back \in Seq(Track) /\ Distinct(back)
      /\ \A u \in Tracker!Range(back) :
            \/ u \in Tracker!Range(Tracker!WasTracked(found)) /\ u.id \in found
            \/ u \in Tracker!Range(Tracker!New(n))
            \/ u \in Tracker!Range(Tracker!WasLost(found)) /\ u.id \in found
  BY NowTrackedIs
<1>2. /\ away \in Seq(Track) /\ Distinct(away)
      /\ \A u \in Tracker!Range(away) :
            /\ u.id \notin found /\ u.id \notin Tracker!Range(removed)
            /\ \/ u \in Tracker!Range(Tracker!WasTracked(found))
               \/ u \in Tracker!Range(Tracker!WasLost(found))
  BY NowLostIs
<1>3. ASSUME NEW u \in Tracker!Range(Tracker!WasTracked(found))
      PROVE  \E t \in Tracker!Range(tracked) :
                /\ u.id = t.id /\ u.label = LabelOf(t, found) /\ t \in Known
                /\ u.state = "Tracked" <=> u.id \in found
                /\ u.id \in found => SeenIn(u, frame + 1)
                /\ u.id \notin found => u.frame = t.frame
  <2>1. PICK t \in Tracker!Range(tracked) : u = Tracker!Now(t, found)
    BY WereTracked
  <2>2. t \in Known
    BY DEF Known
  <2> QED BY <2>1, <2>2, NowIs
<1>4. ASSUME NEW u \in Tracker!Range(Tracker!WasLost(found))
      PROVE  \E t \in Tracker!Range(lostTracks) :
                /\ u.id = t.id /\ u.label = LabelOf(t, found) /\ t \in Known
                /\ u.id \in found => SeenIn(u, frame + 1)
                /\ u.id \notin found => u.frame = t.frame /\ u.state # "Tracked"
  <2>1. PICK t \in Tracker!Range(lostTracks) : u = Tracker!Marked(Tracker!Now(t, found))
    BY WereLost
  <2>2. t \in Known
    BY DEF Known
  <2> QED BY <2>1, <2>2, LostIs
<1>5. \A u \in Tracker!Range(Tracker!New(n)) :
         u.id \in (ids + 1)..(ids + n) /\ u.label = 0 /\ SeenIn(u, frame + 1)
  BY NewIs
<1>6. ASSUME NEW u \in Tracker!Range(back)
      PROVE  /\ SeenIn(u, frame + 1)
             /\ \/ u.id \in (ids + 1)..(ids + n) /\ u.label = 0
                \/ /\ u.id \in found
                   /\ \E t \in Known : u.id = t.id /\ u.label = LabelOf(t, found)
  BY <1>1, <1>3, <1>4, <1>5
<1>7. ASSUME NEW u \in Tracker!Range(away)
      PROVE  /\ u.id \notin found /\ u.id \notin Tracker!Range(removed)
             /\ u.state # "Tracked"
             /\ \E t \in Known : /\ u.id = t.id /\ u.label = LabelOf(t, found)
                                 /\ u.frame = t.frame
                                 /\ \/ t \in Tracker!Range(tracked)
                                    \/ /\ t \in Tracker!Range(lostTracks)
                                       /\ u \in Tracker!Range(Tracker!WasLost(found))
  BY <1>2, <1>3, <1>4
<1>8. ASSUME NEW u \in Tracker!Range(back), NEW w \in Tracker!Range(away) PROVE u.id # w.id
  <2>1. CASE u.id \in found
    BY <1>7, <2>1
  <2>2. CASE u.id \in (ids + 1)..(ids + n)
    <3>1. \A t \in Known : t.id \notin (ids + 1)..(ids + n)
      BY KnownIs DEF TrackInv, TrackTypes, Numbered, Track
    <3> QED BY <1>7, <2>2, <3>1
  <2> QED BY <1>6, <2>1, <2>2
<1> QED BY <1>1, <1>2, <1>6, <1>7, <1>8

\* A label is kept, and no two tracks have the same one.
LEMMA LabelOfIs ==
    ASSUME TrackInv, NEW found
    PROVE  /\ \A t \in Known :
                 /\ LabelOf(t, found) \in
                       0..(labels + Tracker!Cardinality(Tracker!Unlabelled(found)))
                 /\ t.label # 0 => LabelOf(t, found) = t.label
           /\ \A t, u \in Known :
                 LabelOf(t, found) = LabelOf(u, found) /\ LabelOf(t, found) # 0 => t.id = u.id
<1>1. PICK m \in Nat : m = Tracker!Cardinality(Tracker!Unlabelled(found))
  BY LabelForIs
<1>2. labels \in Nat /\ \A t \in Known : t.id \in Nat /\ t.label \in 0..labels
  BY KnownIs DEF TrackInv, TrackTypes, Numbered, Track
<1>3. \A t \in Known : t.id \in Tracker!Unlabelled(found) => t.label = 0
  BY KnownIs DEF Tracker!Unlabelled
<1>4. /\ \A k \in Tracker!Unlabelled(found) :
            Tracker!LabelFor(k, found) \in (labels + 1)..(labels + m)
      /\ \A k, l \in Tracker!Unlabelled(found) :
            Tracker!LabelFor(k, found) = Tracker!LabelFor(l, found) => k = l
  BY <1>1, LabelForIs
<1>5. /\ \A k \in (labels + 1)..(labels + m) : k \in 0..(labels + m) /\ k \notin 0..labels
      /\ \A k \in 0..labels : k \in 0..(labels + m)
  BY <1>2
<1>6. ASSUME NEW t \in Known
      PROVE  /\ LabelOf(t, found) \in 0..(labels + m)
             /\ t.label # 0 => LabelOf(t, found) = t.label
  BY <1>2, <1>3, <1>4, <1>5 DEF LabelOf
<1>7. ASSUME NEW t \in Known, NEW u \in Known,
             LabelOf(t, found) = LabelOf(u, found), LabelOf(t, found) # 0
      PROVE  t.id = u.id
  <2>1. CASE t.id \in Tracker!Unlabelled(found) /\ u.id \in Tracker!Unlabelled(found)
    BY <1>4, <1>7, <2>1 DEF LabelOf
  <2>2. CASE t.id \notin Tracker!Unlabelled(found) /\ u.id \notin Tracker!Unlabelled(found)
    BY <1>7, <2>2 DEF LabelOf, TrackInv, Numbered
  <2>3. CASE t.id \in Tracker!Unlabelled(found) <=> u.id \notin Tracker!Unlabelled(found)
    BY <1>2, <1>4, <1>5, <1>7, <2>3 DEF LabelOf
  <2> QED BY <2>1, <2>2, <2>3
<1> QED BY <1>1, <1>6, <1>7

\* A track that is lost after a frame has not been so for too long.
LEMMA LostInTime ==
    ASSUME TrackInv, NEW found, NEW out, out = Tracker!Out(found),
           NEW rm, Len(out) <= KeptRemoved => Tracker!IdsOf(out) \subseteq Tracker!Range(rm),
           NEW cr \in Nat, cr >= crowds, Len(out) > KeptRemoved => cr = crowds + 1,
           NEW u, u.id \notin Tracker!Range(removed), u.state # "Tracked",
           NEW t \in Known, u.frame = t.frame, u.id = t.id,
           \/ t \in Tracker!Range(tracked)
           \/ t \in Tracker!Range(lostTracks) /\ u \in Tracker!Range(Tracker!WasLost(found))
    PROVE  LostSince(u, frame + 1, Tracker!Range(rm), cr)
<1>1. frame \in Nat /\ crowds \in Nat /\ t.frame \in Nat /\ u.frame \in Nat
  BY KnownIs DEF TrackInv, TrackTypes, Track
<1>2. CASE t \in Tracker!Range(tracked)
  <2>1. u.frame = frame
    BY <1>2 DEF TrackInv, SeenIn
  <2>2. frame + 1 - u.frame <= MaxTimeLost + cr /\ frame + 1 - u.frame <= MaxTimeLost + 1 + cr
    BY <1>1, <2>1, TrackNumbers
  <2> QED BY <1>1, <2>2, TrackNumbers DEF LostSince
<1>3. CASE t \in Tracker!Range(lostTracks) /\ u \in Tracker!Range(Tracker!WasLost(found))
  <2>1. frame - u.frame <= MaxTimeLost + crowds
    BY <1>3 DEF TrackInv, LostSince
  <2>2. frame + 1 - u.frame <= MaxTimeLost + 1 + cr
    BY <1>1, <2>1, TrackNumbers
  <2>3. CASE ~Tracker!Expired(u, frame + 1)
    <3>1. frame + 1 - u.frame <= MaxTimeLost + cr
      BY <1>1, <2>3, TrackNumbers DEF Tracker!Expired
    <3> QED BY <1>1, <2>2, <3>1, TrackNumbers DEF LostSince
  <2>4. CASE Tracker!Expired(u, frame + 1) /\ Len(out) <= KeptRemoved
    <3>1. u.id \in Tracker!Range(rm)
      BY <1>3, <2>4, OutIs
    <3> QED BY <1>1, <2>2, <3>1, TrackNumbers DEF LostSince
  <2>5. CASE Len(out) > KeptRemoved
    <3>1. frame + 1 - u.frame <= MaxTimeLost + cr
      BY <1>1, <2>1, <2>5, TrackNumbers
    <3> QED BY <1>1, <2>2, <3>1, TrackNumbers DEF LostSince
  <2>6. Len(out) <= KeptRemoved \/ Len(out) > KeptRemoved
    <3>1. Len(out) \in Nat
      BY OutIs
    <3> QED BY <3>1, TrackNumbers
  <2> QED BY <2>3, <2>4, <2>5, <2>6
<1> QED BY <1>2, <1>3

\* A frame keeps the invariant, and the labels.
LEMMA TrackSettle ==
    ASSUME TrackInv, NEW found, NEW n \in Nat, Tracker!Settle(found, n)
    PROVE  /\ TrackInv'
           /\ \A t \in Known, u \in Known' : t.id = u.id /\ t.label # 0 => u.label = t.label
<1>1. PICK back : back = Tracker!NowTracked(found, n)
  OBVIOUS
<1>2. PICK away : away = Tracker!NowLost(found, back)
  OBVIOUS
<1>3. PICK out : out = Tracker!Out(found)
  OBVIOUS
<1>4. PICK tr, lo : tr = tracked' /\ lo = lostTracks'
  OBVIOUS
<1>5. /\ back \in Seq(Track) /\ Distinct(back) /\ away \in Seq(Track) /\ Distinct(away)
      /\ \A u \in Tracker!Range(back), w \in Tracker!Range(away) : u.id # w.id
      /\ \A u \in Tracker!Range(back) :
            /\ SeenIn(u, frame + 1)
            /\ \/ u.id \in (ids + 1)..(ids + n) /\ u.label = 0
               \/ \E t \in Known : u.id = t.id /\ u.label = LabelOf(t, found)
      /\ \A u \in Tracker!Range(away) :
            /\ u.id \notin Tracker!Range(removed) /\ u.state # "Tracked"
            /\ \E t \in Known : /\ u.id = t.id /\ u.label = LabelOf(t, found)
                                /\ u.frame = t.frame
                                /\ \/ t \in Tracker!Range(tracked)
                                   \/ /\ t \in Tracker!Range(lostTracks)
                                      /\ u \in Tracker!Range(Tracker!WasLost(found))
  BY <1>1, <1>2, SettledIs
<1>6. /\ tr \in Seq(Track) /\ Distinct(tr) /\ Tracker!Range(tr) \subseteq Tracker!Range(back)
      /\ lo \in Seq(Track) /\ Distinct(lo) /\ Tracker!Range(lo) \subseteq Tracker!Range(away)
  <2>1. PICK pairs : /\ tr = Tracker!Duplicates(back, away, pairs)[1]
                     /\ lo = Tracker!Duplicates(back, away, pairs)[2]
    BY <1>1, <1>2, <1>4 DEF Tracker!Settle
  <2>2. PICK lists : lists = Tracker!Duplicates(back, away, pairs)
    OBVIOUS
  <2> QED BY <1>5, <2>1, <2>2, DuplicatesIs
<1>7. PICK left : left = [i \in DOMAIN out |-> out[i].id]
  OBVIOUS
<1>8. PICK m : m = Tracker!Cardinality(Tracker!Unlabelled(found))
  OBVIOUS
<1>9. /\ removed' = Tracker!Newest(removed \o left) /\ frame' = frame + 1 /\ ids' = ids + n
      /\ labels' = labels + m
      /\ crowds' = IF Len(out) > KeptRemoved THEN crowds + 1 ELSE crowds
  BY <1>1, <1>2, <1>3, <1>7, <1>8 DEF Tracker!Settle
<1>10. /\ TrackTypes /\ m \in Nat /\ out \in Seq(Track)
       /\ \A u \in Tracker!Range(Tracker!WasLost(found)) :
             Tracker!Expired(u, frame + 1) => u.id \in Tracker!IdsOf(out)
  BY <1>3, <1>8, LabelForIs, OutIs DEF TrackInv
<1>11. left \in Seq(Nat) /\ Len(left) = Len(out) /\ Tracker!Range(left) = Tracker!IdsOf(out)
  <2>1. PICK c \in Nat : c = Len(out)
    BY <1>10
  <2>a. DOMAIN out = 1..c /\ \A i \in 1..c : out[i] \in Track
    BY <1>10, <2>1
  <2>2. DOMAIN out = 1..c /\ \A i \in 1..c : out[i].id \in Nat
    BY <2>a DEF Track
  <2>3. left = [i \in 1..c |-> out[i].id]
    BY <1>7, <2>2
  <2>4. left \in Seq(Nat) /\ Len(left) = c
    BY <2>2, <2>3
  <2>5. Tracker!Range(left) = {out[i].id : i \in 1..c}
    BY <2>3 DEF Tracker!Range
  <2>6. Tracker!IdsOf(out) = {out[i].id : i \in 1..c}
    BY <2>2 DEF Tracker!IdsOf, Tracker!Range
  <2> QED BY <2>1, <2>4, <2>5, <2>6
<1>12. PICK rm : rm = removed'
  OBVIOUS
<1>13. rm \in Seq(Nat) /\ (Len(out) <= KeptRemoved => Tracker!IdsOf(out) \subseteq Tracker!Range(rm))
  BY <1>9, <1>10, <1>11, <1>12, NewestIs DEF TrackTypes
<1>14. TrackTypes'
  <2>1. frame + 1 \in Nat /\ ids + n \in Nat /\ labels + m \in Nat /\ crowds' \in Nat
    BY <1>9, <1>10 DEF TrackTypes
  <2> QED BY <1>4, <1>6, <1>9, <1>12, <1>13, <2>1 DEF TrackTypes
<1>15. Known' = Tracker!Range(tr) \cup Tracker!Range(lo)
  BY <1>4 DEF Known, Tracker!Range
<1>16. ASSUME NEW u \in Known'
       PROVE  \/ u.id \in (ids + 1)..(ids + n) /\ u.label = 0
              \/ \E t \in Known : u.id = t.id /\ u.label = LabelOf(t, found)
  BY <1>5, <1>6, <1>15
<1>17. \A t \in Known : t.id \in 0..ids /\ t.id \notin (ids + 1)..(ids + n)
  BY KnownIs DEF TrackInv, TrackTypes, Numbered, Track
<1>18. Numbered'
  <2>1. Distinct(Tracker!Everywhere)'
    <3>1. Tracker!IdsOf(tr) \cap Tracker!IdsOf(lo) = {}
      BY <1>5, <1>6 DEF Tracker!IdsOf
    <3>2. Distinct(tr \o lo)
      BY <1>6, <3>1, ConcatIs
    <3> QED BY <1>4, <3>2 DEF Distinct, Tracker!Everywhere
  <2>2. ASSUME NEW u \in Known' PROVE u.id <= ids + n /\ u.label <= labels + m
    <3>1. /\ \A k \in (ids + 1)..(ids + n) : k <= ids + n
          /\ \A k \in 0..ids : k <= ids + n
          /\ \A k \in 0..(labels + m) : k <= labels + m
          /\ 0 <= labels + m
      BY <1>10 DEF TrackTypes
    <3>2. \A t \in Known : LabelOf(t, found) \in 0..(labels + m)
      BY <1>8, LabelOfIs
    <3> QED BY <1>16, <1>17, <3>1, <3>2
  <2>3. ASSUME NEW u \in Known', NEW w \in Known', u.label = w.label, u.label # 0
        PROVE  u.id = w.id
    BY <1>16, <2>3, LabelOfIs
  <2> QED BY <1>9, <2>1, <2>2, <2>3 DEF Numbered
<1>19. \A u \in Tracker!Range(tr) : SeenIn(u, frame + 1)
  BY <1>5, <1>6
<1>20. ASSUME NEW u \in Tracker!Range(lo)
       PROVE  LostSince(u, frame + 1, Tracker!Range(rm), crowds')
  <2>1. PICK cr : cr = crowds'
    OBVIOUS
  <2>2. /\ cr \in Nat /\ cr >= crowds
        /\ Len(out) > KeptRemoved => cr = crowds + 1
    BY <1>9, <1>10, <2>1 DEF TrackTypes
  <2>3. u.id \notin Tracker!Range(removed) /\ u.state # "Tracked"
    BY <1>5, <1>6
  <2>4. PICK t \in Known : /\ u.frame = t.frame /\ u.id = t.id
                           /\ \/ t \in Tracker!Range(tracked)
                              \/ /\ t \in Tracker!Range(lostTracks)
                                 /\ u \in Tracker!Range(Tracker!WasLost(found))
    BY <1>5, <1>6
  <2>5. LostSince(u, frame + 1, Tracker!Range(rm), cr)
    BY <1>3, <1>13, <2>2, <2>3, <2>4, LostInTime
  <2> QED BY <2>1, <2>5
<1>21. TrackInv'
  <2>1. \A u \in Tracker!Range(tracked)' : SeenIn(u, frame)'
    BY <1>4, <1>9, <1>19 DEF Tracker!Range, SeenIn
  <2>2. \A u \in Tracker!Range(lostTracks)' :
           LostSince(u, frame, Tracker!Range(removed), crowds)'
    BY <1>4, <1>9, <1>12, <1>20 DEF Tracker!Range, LostSince
  <2> QED BY <1>14, <1>18, <2>1, <2>2 DEF TrackInv
<1>22. ASSUME NEW t \in Known, NEW u \in Known', t.id = u.id, t.label # 0
       PROVE  u.label = t.label
  <2>1. PICK s \in Known : u.id = s.id /\ u.label = LabelOf(s, found)
    BY <1>16, <1>17, <1>22
  <2>2. s = t
    BY <1>22, <2>1, KnownIs
  <2> QED BY <1>22, <2>1, <2>2, LabelOfIs
<1> QED BY <1>21, <1>22

\* However the boxes overlap, a frame settles some outcome of the rounds.
LEMMA UpdateSettles ==
    ASSUME NEW dets, NEW n \in Nat, dets \in [1..n -> Tracker!Bands], Tracker!Update(dets)
    PROVE  \E found : \E k \in Nat : Tracker!Settle(found, k)
<1>1. PICK found, high : /\ Tracker!Settle(found, Tracker!Cardinality(high))
                         /\ high \subseteq DOMAIN dets
  BY DEF Tracker!Update
<1>2. Tracker!Cardinality(high) \in Nat
  <2>1. IsFiniteSet(1..n) /\ high \subseteq 1..n
    BY <1>1, FS_Interval
  <2> QED BY <2>1, FS_Subset, FS_CardinalityType, TrackCardinality
<1> QED BY <1>1, <1>2

LEMMA TrackStep ==
    ASSUME TrackInv, [Tracker!Next]_trackerVars
    PROVE  /\ TrackInv'
           /\ \A t \in Known, u \in Known' : t.id = u.id /\ t.label # 0 => u.label = t.label
<1>1. CASE UNCHANGED trackerVars
  <2>1. Known' = Known
    BY <1>1 DEF trackerVars, Known, Tracker!Range
  <2>2. TrackInv'
    BY <1>1, <2>1
       DEF trackerVars, TrackInv, TrackTypes, Numbered, Distinct, Tracker!Everywhere,
           Tracker!Range, SeenIn, LostSince
  <2>3. \A t, u \in Known : t.id = u.id => t = u
    BY KnownIs
  <2> QED BY <2>1, <2>2, <2>3
<1>2. CASE Tracker!Next
  <2>1. PICK n \in 0..MaxDets : \E dets \in [1..n -> Tracker!Bands] : Tracker!Update(dets)
    BY <1>2 DEF Tracker!Next
  <2>2. \E found : \E k \in Nat : Tracker!Settle(found, k)
    BY <2>1, UpdateSettles
  <2> QED BY <2>2, TrackSettle
<1> QED BY <1>1, <1>2

LEMMA TrackHolds == PartsSpec => [](part = "tracker" => TrackInv)
<1> DEFINE Inv == part = "tracker" => TrackInv
<1>1. PartsInit => Inv
  <2> SUFFICES ASSUME PartsInit PROVE TrackInv
    OBVIOUS
  <2>1. /\ tracked = <<>> /\ lostTracks = <<>> /\ removed = <<>>
        /\ frame = 0 /\ ids = 0 /\ labels = 0 /\ crowds = 0
    BY DEF PartsInit, Tracker!Init
  <2>2. Tracker!Range(tracked) = {} /\ Tracker!Range(lostTracks) = {} /\ Known = {}
    BY <2>1 DEF Tracker!Range, Known
  <2>3. TrackTypes
    BY <2>1 DEF TrackTypes
  <2>4. Distinct(Tracker!Everywhere)
    BY <2>1 DEF Distinct, Tracker!Everywhere
  <2> QED BY <2>2, <2>3, <2>4 DEF TrackInv, Numbered
<1>2. ASSUME Inv, [PartsNext]_<<part, vars, operatorVars, trackerVars, matchingVars, dualVars,
                                othersVars>>
      PROVE  Inv'
  <2> SUFFICES ASSUME part' = "tracker" PROVE TrackInv'
    OBVIOUS
  <2>1. part = "tracker" /\ [Tracker!Next]_trackerVars
    BY <1>2 DEF PartsNext, Sends, Operates, Tracks, Matches, Captures, Shares, Exposes,
                Assigns
  <2> QED BY <1>2, <2>1, TrackStep
<1> QED BY <1>1, <1>2, PTL DEF PartsSpec

\* However the boxes overlap from frame to frame, a vehicle is in one of the lists and once,
\* with a label of its own; what is handed out was seen in this frame; and a lost track is
\* forgotten in time, one frame later for every frame that removes more than are remembered
\* (BYTETracker::update).
THEOREM TracksSound == PartsSpec => []TracksAreSound
<1>1. TrackInv => Tracker!TracksAreSound
  <2> SUFFICES ASSUME TrackInv PROVE Tracker!TracksAreSound
    OBVIOUS
  <2>1. Tracker!OneListPerTrack
    <3> SUFFICES ASSUME NEW i \in DOMAIN Tracker!Everywhere, NEW j \in DOMAIN Tracker!Everywhere,
                        i # j
                 PROVE  /\ Tracker!Everywhere[i].id # Tracker!Everywhere[j].id
                        /\ \/ Tracker!Everywhere[i].label # Tracker!Everywhere[j].label
                           \/ Tracker!Everywhere[i].label = 0
      BY DEF Tracker!OneListPerTrack
    <3>1. Tracker!Everywhere[i] \in Known /\ Tracker!Everywhere[j] \in Known
      BY KnownIs DEF Tracker!Range
    <3>2. Tracker!Everywhere[i].id # Tracker!Everywhere[j].id
      BY DEF TrackInv, Numbered, Distinct
    <3> QED BY <3>1, <3>2 DEF TrackInv, Numbered
  <2>2. Tracker!OutputsAreCurrent
    BY DEF Tracker!OutputsAreCurrent, TrackInv, SeenIn, Tracker!Range
  <2>3. Tracker!LostExpire
    BY DEF Tracker!LostExpire, TrackInv, LostSince, Tracker!Range
  <2> QED BY <2>1, <2>2, <2>3 DEF Tracker!TracksAreSound
<1>2. (part = "tracker" => TrackInv) => TracksAreSound
  BY <1>1 DEF TracksAreSound
<1> QED BY <1>2, TrackHolds, PTL

\* A track that is lost and found again keeps the label its vehicle is counted by, whatever
\* happens to it in between (STrack::update, re_activate).
THEOREM LabelsKept == PartsSpec => LabelIsKept
<1>1. ASSUME part = "tracker" => TrackInv,
             [PartsNext]_<<part, vars, operatorVars, trackerVars, matchingVars, dualVars,
                           othersVars>>
      PROVE  [Tracker!LabelsStay]_Tracker!vars
  <2> SUFFICES ASSUME trackerVars' # trackerVars PROVE Tracker!LabelsStay
    BY DEF trackerVars, Tracker!vars
  <2>1. part = "tracker" /\ Tracker!Next
    BY <1>1 DEF PartsNext, Sends, Operates, Tracks, Matches, Captures, Shares, Exposes,
                Assigns, trackerVars
  <2>2. TrackInv /\ TrackInv'
        /\ \A t \in Known, u \in Known' : t.id = u.id /\ t.label # 0 => u.label = t.label
    BY <1>1, <2>1, TrackStep
  <2>3. \A i \in DOMAIN Tracker!Everywhere : Tracker!Everywhere[i] \in Known
    BY <2>2, KnownIs DEF Tracker!Range
  <2>4. \A j \in DOMAIN Tracker!Everywhere' : Tracker!Everywhere'[j] \in Known'
    <3>1. PICK tr, lo : tr = tracked' /\ lo = lostTracks'
      OBVIOUS
    <3>2. tr \in Seq(Track) /\ lo \in Seq(Track)
      BY <2>2, <3>1 DEF TrackInv, TrackTypes
    <3>3. Tracker!Range(tr \o lo) = Tracker!Range(tr) \cup Tracker!Range(lo)
      BY <3>2, ConcatIs
    <3>4. Known' = Tracker!Range(tr) \cup Tracker!Range(lo) /\ Tracker!Everywhere' = tr \o lo
      BY <3>1 DEF Known, Tracker!Range, Tracker!Everywhere
    <3> QED BY <3>3, <3>4 DEF Tracker!Range
  <2> QED BY <2>2, <2>3, <2>4 DEF Tracker!LabelsStay
<1>2. (part = "tracker" => TrackInv)
      /\ [PartsNext]_<<part, vars, operatorVars, trackerVars, matchingVars, dualVars,
                       othersVars>> => [Tracker!LabelsStay]_Tracker!vars
  BY <1>1
<1> QED BY <1>2, TrackHolds, PTL DEF PartsSpec, LabelIsKept, Tracker!LabelIsKept

--------------------------------------------------------------------------------
(* Shares: numbers                                                               *)

LEMMA ShareNumbers ==
    /\ IsFiniteSet(Cameras) /\ Cardinality(Cameras) \in Nat /\ Cardinality(Cameras) <= Link
    /\ Link \in Nat /\ Link > 0 /\ Totals \subseteq 0..Link /\ MaxSteps \in Nat
<1>1. Share!IsFiniteSet(Cameras) = IsFiniteSet(Cameras)
  BY DEF IsFiniteSet, Share!IsFiniteSet
<1>2. Share!Cardinality(Cameras) = Cardinality(Cameras)
  BY DEF Cardinality, Share!Cardinality, IsFiniteSet, Share!IsFiniteSet
<1>3. /\ Share!IsFiniteSet(Cameras) /\ Share!Cardinality(Cameras) <= Link
      /\ Link \in Nat /\ Link > 0 /\ Totals \subseteq 0..Link /\ MaxSteps \in Nat
  BY ShareAssumption DEF Share!LinkAssumption
<1> QED BY <1>1, <1>2, <1>3, FS_CardinalityType

LEMMA ShareCardinality == ASSUME NEW S PROVE Share!Cardinality(S) = Cardinality(S)
  BY DEF Cardinality, Share!Cardinality, IsFiniteSet, Share!IsFiniteSet

LEMMA ShareExtremes ==
    ASSUME NEW a \in Int, NEW b \in Int
    PROVE  /\ Share!Max({a, b}) = IF a >= b THEN a ELSE b
           /\ Share!Min({a, b}) = IF a <= b THEN a ELSE b
<1>1. /\ \E k \in {a, b} : \A l \in {a, b} : k >= l
      /\ \E k \in {a, b} : \A l \in {a, b} : k <= l
  OBVIOUS
<1>2. /\ Share!Max({a, b}) \in {a, b} /\ \A l \in {a, b} : Share!Max({a, b}) >= l
      /\ Share!Min({a, b}) \in {a, b} /\ \A l \in {a, b} : Share!Min({a, b}) <= l
  BY <1>1 DEF Share!Max, Share!Min
<1> QED BY <1>2

\* There is at least the camera that asks, and no more than all.
LEMMA GroupIs ==
    ASSUME NEW s \in Cameras, NEW n
    PROVE  Share!CountInGroup(n) \in 1..Cardinality(Cameras)
<1> DEFINE group == {t \in Cameras : home[t] = n}
<1>1. /\ Cardinality(group) \in Nat /\ Cardinality(group) <= Cardinality(Cameras)
  BY ShareNumbers, FS_Subset, FS_CardinalityType
<1>2. Cardinality(Cameras) >= 1
  BY ShareNumbers, FS_EmptySet
<1>3. Share!CountInGroup(n) = Share!Max({1, Cardinality(group)})
  BY ShareCardinality DEF Share!CountInGroup
<1> HIDE DEF group
<1>4. Share!CountInGroup(n) = IF 1 >= Cardinality(group) THEN 1 ELSE Cardinality(group)
  BY <1>1, <1>3, ShareExtremes
<1> QED BY <1>1, <1>2, <1>4, ShareNumbers

\* A part of a whole in numbers.
LEMMA PartIs ==
    ASSUME NEW a \in Nat, NEW b \in Nat, b > 0
    PROVE  /\ a \div b \in Nat /\ (a \div b) * b <= a
           /\ b <= a => a \div b >= 1
  OBVIOUS

--------------------------------------------------------------------------------
(* Shares: the inductive invariant                                               *)

Nodes == [delay : Nat, offset : Nat, rate : Nat]

ShareTypes ==
    /\ Share!TypeOK
    /\ total \in [Cameras -> 1..Link]
    /\ nodes \in [Cameras -> Nodes]
    /\ ceil \in [Cameras -> Nat] /\ cur \in [Cameras -> Nat]

\* An index that is registered has been given before, and to this camera only.
Registered ==
    /\ \A s \in Cameras, n \in Nics : home[s] = n => index[s] < next[n]
    /\ Share!IndexIsOwn

\* A camera that is being connected is plugged in somewhere, and reckons with the number
\* of cameras in the settings if they have one.
Reckoned ==
    \A s \in Cameras :
      /\ at[s] # "off" => nic[s] \in Nics
      /\ announced > 0 /\ at[s] \in {"count", "register", "nodes"} => total[s] = announced

\* A rate that a call has written is the camera's share, or one that the capture loop
\* went back to since, which is no more than it saw the camera with first.
Capped ==
    \A s \in Cameras \ Triggered : announced > 0 /\ written[s] = 3 =>
      \/ nodes[s].rate * Share!Payload(s) * announced <= Link
      \/ nodes[s].rate <= ceil[s]

ShareInv == ShareTypes /\ Registered /\ Reckoned /\ Capped

LEMMA ShareTypesAre ==
    ASSUME ShareTypes
    PROVE  /\ announced \in Totals /\ announced \in Nat
           /\ home \in [Cameras -> Nics \cup {Share!NoNic}]
           /\ index \in [Cameras -> Nat] /\ next \in [Nics -> Nat]
           /\ at \in [Cameras -> {"off", "count", "register", "nodes", "on"}]
           /\ nic \in [Cameras -> Nics \cup {Share!NoNic}]
           /\ total \in [Cameras -> 1..Link]
           /\ total \in [Cameras -> Totals \cup 1..Cardinality(Cameras)]
           /\ counted \in [Cameras -> 1..Cardinality(Cameras)]
           /\ slot \in [Cameras -> 0..(Cardinality(Cameras) - 1)]
           /\ nodes \in [Cameras -> Nodes]
           /\ written \in [Cameras -> 0..3] /\ steps \in 0..MaxSteps
           /\ ceil \in [Cameras -> Nat] /\ cur \in [Cameras -> Nat]
           /\ \A s \in Cameras : cur[s] \in 0..ceil[s]
           /\ \A s \in Cameras : Share!Payload(s) \in {1, 2}
<1>1. Share!Cardinality(Cameras) = Cardinality(Cameras)
  BY ShareCardinality
<1>2. announced \in Nat
  BY ShareNumbers DEF ShareTypes, Share!TypeOK
<1> QED BY <1>1, <1>2 DEF ShareTypes, Share!TypeOK, Share!Payload

LEMMA ShareBegins ==
    ASSUME ShareInv, NEW s \in Cameras, Share!Begin(s) PROVE ShareInv'
<1>0. PICK n \in Nics :
        /\ nic' = [nic EXCEPT ![s] = n]
        /\ total' = [total EXCEPT ![s] =
                       IF announced > 0 THEN announced ELSE Share!CountInGroup(n)]
  BY DEF Share!Begin
<1>1. PICK k : /\ nic' = [nic EXCEPT ![s] = n] /\ total' = [total EXCEPT ![s] = k]
               /\ k = IF announced > 0 THEN announced ELSE Share!CountInGroup(n)
  BY <1>0
<1>2. /\ at[s] = "off" /\ at' = [at EXCEPT ![s] = "count"]
      /\ UNCHANGED <<announced, home, index, next, counted, slot, nodes, written, ceil, cur, steps>>
  BY DEF Share!Begin, Share!Goto, Share!registry, Share!adapt
<1>3. /\ k \in 1..Link /\ k \in Totals \cup 1..Cardinality(Cameras)
      /\ announced > 0 => k = announced
  BY <1>1, GroupIs, ShareTypesAre, ShareNumbers DEF ShareInv
<1>4. ShareTypes'
  BY <1>1, <1>2, <1>3, ShareTypesAre, ShareCardinality DEF ShareInv, ShareTypes, Share!TypeOK
<1>5. Registered'
  BY <1>2 DEF ShareInv, Registered, Share!IndexIsOwn
<1>6. Reckoned'
  BY <1>1, <1>2, <1>3, ShareTypesAre DEF ShareInv, Reckoned
<1>7. Capped'
  BY <1>2 DEF ShareInv, Capped, Share!Payload
<1> QED BY <1>4, <1>5, <1>6, <1>7 DEF ShareInv

LEMMA ShareCounts ==
    ASSUME ShareInv, NEW s \in Cameras, Share!CountNic(s) PROVE ShareInv'
<1>1. PICK k : k = Share!CountInGroup(nic[s])
  OBVIOUS
<1>2. /\ at[s] = "count" /\ at' = [at EXCEPT ![s] = "register"]
      /\ counted' = [counted EXCEPT ![s] = k]
      /\ UNCHANGED <<announced, home, index, next, nic, total, slot, nodes, written, ceil, cur,
                     steps>>
  BY <1>1 DEF Share!CountNic, Share!Goto, Share!registry, Share!adapt
<1>3. k \in 1..Cardinality(Cameras)
  BY <1>1, GroupIs
<1>4. ShareTypes'
  BY <1>2, <1>3, ShareTypesAre, ShareCardinality DEF ShareInv, ShareTypes, Share!TypeOK
<1>5. Registered'
  BY <1>2 DEF ShareInv, Registered, Share!IndexIsOwn
<1>6. Reckoned'
  BY <1>2, ShareTypesAre DEF ShareInv, Reckoned
<1>7. Capped'
  BY <1>2 DEF ShareInv, Capped, Share!Payload
<1> QED BY <1>4, <1>5, <1>6, <1>7 DEF ShareInv

LEMMA ShareRegisters ==
    ASSUME ShareInv, NEW s \in Cameras, Share!Register(s) PROVE ShareInv'
<1>1. PICK n \in Nics : n = nic[s]
  BY DEF ShareInv, Reckoned, Share!Register, Share!Goto
<1>2. PICK i, k, l : /\ i = IF home[s] = n THEN index[s] ELSE next[n]
                     /\ k = IF home[s] = n THEN next[n] ELSE next[n] + 1
                     /\ l = Share!Min({i, counted[s] - 1})
  OBVIOUS
<1>3. /\ at[s] = "register" /\ at' = [at EXCEPT ![s] = "nodes"]
      /\ index' = [index EXCEPT ![s] = i] /\ home' = [home EXCEPT ![s] = n]
      /\ next' = [next EXCEPT ![n] = k] /\ slot' = [slot EXCEPT ![s] = l]
      /\ UNCHANGED <<announced, nic, total, counted, nodes, written, ceil, cur, steps>>
  BY <1>1, <1>2 DEF Share!Register, Share!Goto, Share!IndexOf, Share!adapt
<1>4. /\ i \in Nat /\ k \in Nat /\ next[n] \in Nat /\ i < k /\ next[n] <= k
      /\ home[s] # n => i = next[n]
      /\ home[s] = n => i = index[s]
  BY <1>2, ShareTypesAre DEF ShareInv, Registered
<1>5. l \in 0..(Cardinality(Cameras) - 1)
  <2>1. counted[s] \in 1..Cardinality(Cameras) /\ Cardinality(Cameras) \in Nat
    BY ShareTypesAre, ShareNumbers DEF ShareInv
  <2>2. PICK c \in Nat : c = counted[s] - 1 /\ c <= Cardinality(Cameras) - 1
    BY <2>1
  <2>3. l = Share!Min({i, c})
    BY <1>2, <2>2
  <2>4. l = IF i <= c THEN i ELSE c
    <3>1. i \in Int /\ c \in Int
      BY <1>4, <2>2
    <3>2. Share!Min({i, c}) = IF i <= c THEN i ELSE c
      BY ONLY <3>1, ShareExtremes
    <3> QED BY <2>3, <3>2
  <2> QED BY <1>4, <2>1, <2>2, <2>4
<1>6. ShareTypes'
  BY <1>3, <1>4, <1>5, ShareTypesAre, ShareCardinality DEF ShareInv, ShareTypes, Share!TypeOK
<1>7. Registered'
  <2>1. ASSUME NEW t \in Cameras, NEW m \in Nics, home'[t] = m PROVE index'[t] < next'[m]
    <3>1. CASE t = s
      BY <1>3, <1>4, <2>1, <3>1, ShareTypesAre DEF ShareInv
    <3>2. CASE t # s
      <4>1. home[t] = m /\ index'[t] = index[t] /\ index[t] \in Nat /\ next[m] \in Nat
        BY <1>3, <2>1, <3>2, ShareTypesAre DEF ShareInv
      <4>2. index[t] < next[m]
        BY <4>1 DEF ShareInv, Registered
      <4>3. next'[m] = (IF m = n THEN k ELSE next[m])
        BY <1>3, ShareTypesAre DEF ShareInv
      <4> QED BY <1>4, <4>1, <4>2, <4>3
    <3> QED BY <3>1, <3>2
  <2>2. ASSUME NEW t \in Cameras, t # s, home'[t] = n, n # Share!NoNic PROVE index'[t] # i
    <3>1. home[t] = n /\ index'[t] = index[t] /\ index[t] \in Nat
      BY <1>3, <2>2, ShareTypesAre DEF ShareInv
    <3>2. CASE home[s] = n
      <4>1. index[s] # index[t]
        BY <2>2, <3>1, <3>2 DEF ShareInv, Registered, Share!IndexIsOwn
      <4> QED BY <1>4, <3>1, <3>2, <4>1
    <3>3. CASE home[s] # n
      <4>1. index[t] < next[n]
        BY <3>1 DEF ShareInv, Registered
      <4> QED BY <1>4, <3>1, <3>3, <4>1
    <3> QED BY <3>2, <3>3
  <2>3. Share!IndexIsOwn'
    BY <1>3, <2>2, ShareTypesAre DEF ShareInv, Registered, Share!IndexIsOwn
  <2> QED BY <2>1, <2>3 DEF Registered
<1>8. Reckoned'
  BY <1>3, ShareTypesAre DEF ShareInv, Reckoned
<1>9. Capped'
  BY <1>3 DEF ShareInv, Capped, Share!Payload
<1> QED BY <1>6, <1>7, <1>8, <1>9 DEF ShareInv

\* A rate that keeps to a share of the link: p units a frame, b left for resends.
LEMMA RateIs ==
    ASSUME NEW l \in Nat, NEW k \in 1..l, NEW b \in {0, 1}, NEW p \in {1, 2}, NEW r,
           r = ((l \div k) - b) \div p
    PROVE  r \in Nat /\ r * p * k <= l
<1>1. PICK q \in Nat : q = l \div k /\ q >= 1 /\ q * k <= l
  BY PartIs
<1>2. r \in Nat /\ r * p <= q
  <2>1. CASE p = 1
    BY <1>1, <2>1
  <2>2. CASE p = 2
    BY <1>1, <2>2
  <2> QED BY <2>1, <2>2
<1>3. r * p * k <= q * k
  <2>1. PICK f \in Nat : f = r * p /\ f <= q
    BY <1>2
  <2>2. f * k <= q * k
    BY ONLY <2>1, <1>1, k \in Nat
  <2> QED BY <2>1, <2>2
<1>4. r * p * k \in Int /\ q * k \in Int
  BY <1>1, <1>2
<1> QED BY <1>1, <1>2, <1>3, <1>4

LEMMA ShareTunes ==
    ASSUME ShareInv, NEW s \in Cameras, Share!Tune(s) PROVE ShareInv'
<1>1. PICK done \in 0..3, r \in Share!Rates(s) :
        /\ written' = [written EXCEPT ![s] = done]
        /\ nodes' = [nodes EXCEPT ![s] =
             [delay  |-> IF done >= 1 THEN Share!Delay(s) ELSE nodes[s].delay,
              offset |-> IF done >= 2 THEN Share!Offset(s) ELSE nodes[s].offset,
              rate   |-> IF done >= 3 THEN r ELSE nodes[s].rate]]
  BY DEF Share!Tune
<1>2. /\ at[s] = "nodes" /\ at' = [at EXCEPT ![s] = "on"]
      /\ total' = [total EXCEPT ![s] = 1] /\ counted' = [counted EXCEPT ![s] = 1]
      /\ slot' = [slot EXCEPT ![s] = 0]
      /\ UNCHANGED <<announced, home, index, next, nic, ceil, cur, steps>>
  BY DEF Share!Tune, Share!Goto, Share!EndCall, Share!registry, Share!adapt
<1>3. /\ total[s] \in 1..Link /\ slot[s] \in 0..(Cardinality(Cameras) - 1)
      /\ Share!Payload(s) \in {1, 2} /\ nodes[s] \in Nodes
  BY ShareTypesAre DEF ShareInv
<1>4. /\ r \in Nat
      /\ s \notin Triggered => r * Share!Payload(s) * total[s] <= Link
  <2>1. CASE s \in Triggered
    BY <1>3, <2>1 DEF Share!Rates, Nodes
  <2>2. CASE s \notin Triggered
    <3>1. PICK b \in {0, 1} : r = ((Link \div total[s]) - b) \div Share!Payload(s)
      BY <2>2 DEF Share!Rates, Share!Share
    <3> QED BY <1>3, <3>1, RateIs, ShareNumbers
  <2> QED BY <2>1, <2>2
<1>5. PICK set \in Nodes : /\ nodes' = [nodes EXCEPT ![s] = set]
                           /\ done = 3 => set.rate = r
  <2>1. Share!Delay(s) \in Nat
    BY <1>3, ShareNumbers DEF Share!Delay
  <2>2. Share!Offset(s) \in Nat
    BY <1>3, ShareNumbers DEF Share!Offset
  <2>3. PICK e, f, g : /\ e = IF done >= 1 THEN Share!Delay(s) ELSE nodes[s].delay
                       /\ f = IF done >= 2 THEN Share!Offset(s) ELSE nodes[s].offset
                       /\ g = IF done >= 3 THEN r ELSE nodes[s].rate
    OBVIOUS
  <2>4. e \in Nat /\ f \in Nat /\ g \in Nat
    BY <1>3, <1>4, <2>1, <2>2, <2>3 DEF Nodes
  <2>5. nodes' = [nodes EXCEPT ![s] = [delay |-> e, offset |-> f, rate |-> g]]
    BY <1>1, <2>3
  <2>6. [delay |-> e, offset |-> f, rate |-> g] \in Nodes
    BY <2>4 DEF Nodes
  <2>7. PICK set \in Nodes : set = [delay |-> e, offset |-> f, rate |-> g]
    BY <2>6
  <2>8. set.rate = g /\ (done = 3 => g = r)
    BY <2>3, <2>7
  <2> QED BY <2>5, <2>7, <2>8
<1>6. 1 \in 1..Link /\ 1 \in 1..Cardinality(Cameras) /\ 0 \in 0..(Cardinality(Cameras) - 1)
  BY <1>3, ShareNumbers
<1>7. ShareTypes'
  <2>1. total' \in [Cameras -> Totals \cup 1..Cardinality(Cameras)]
    BY <1>2, <1>6, ShareTypesAre DEF ShareInv
  <2> QED BY <1>1, <1>2, <1>5, <1>6, <2>1, ShareTypesAre, ShareCardinality
          DEF ShareInv, ShareTypes, Share!TypeOK
<1>8. Registered'
  BY <1>2 DEF ShareInv, Registered, Share!IndexIsOwn
<1>9. Reckoned'
  BY <1>2, ShareTypesAre DEF ShareInv, Reckoned
<1>10. Capped'
  <2> SUFFICES ASSUME NEW t \in Cameras \ Triggered, announced > 0, written'[t] = 3
               PROVE  \/ nodes'[t].rate * Share!Payload(t) * announced <= Link
                      \/ nodes'[t].rate <= ceil[t]
    BY <1>2 DEF Capped, Share!Payload
  <2>1. CASE t = s
    <3>1. nodes'[t].rate = r /\ total[s] = announced
      BY <1>1, <1>2, <1>5, <2>1, ShareTypesAre DEF ShareInv, Reckoned
    <3> QED BY <1>4, <2>1, <3>1
  <2>2. CASE t # s
    <3>1. nodes'[t] = nodes[t] /\ written[t] = 3
      BY <1>1, <1>5, <2>2, ShareTypesAre DEF ShareInv
    <3> QED BY <3>1 DEF ShareInv, Capped
  <2> QED BY <2>1, <2>2
<1> QED BY <1>7, <1>8, <1>9, <1>10 DEF ShareInv

LEMMA ShareLoses ==
    ASSUME ShareInv, NEW s \in Cameras, Share!Lose(s) PROVE ShareInv'
<1>1. /\ at' = [at EXCEPT ![s] = "off"] /\ nodes' = [nodes EXCEPT ![s] = Share!Factory]
      /\ written' = [written EXCEPT ![s] = 0]
      /\ UNCHANGED <<announced, home, index, next, nic, total, counted, slot, ceil, cur, steps>>
  BY DEF Share!Lose, Share!Goto, Share!registry, Share!call, Share!adapt
<1>2. Share!Factory \in Nodes
  BY ShareNumbers DEF Share!Factory, Nodes
<1>3. ShareTypes'
  BY <1>1, <1>2, ShareTypesAre, ShareCardinality DEF ShareInv, ShareTypes, Share!TypeOK
<1>4. Registered'
  BY <1>1 DEF ShareInv, Registered, Share!IndexIsOwn
<1>5. Reckoned'
  BY <1>1, ShareTypesAre DEF ShareInv, Reckoned
<1>6. Capped'
  BY <1>1, ShareTypesAre DEF ShareInv, Capped, Share!Payload
<1> QED BY <1>3, <1>4, <1>5, <1>6 DEF ShareInv

\* What the capture loop decides is never more than the rate it saw the camera with first.
LEMMA DecisionIs ==
    ASSUME NEW k \in Nat, NEW top \in Nat, k <= top, NEW r \in Share!Decisions(k, top)
    PROVE  r \in Nat /\ r <= top
<1>1. CASE r = k
  BY <1>1
<1>2. CASE k > 1 /\ r = Share!Max({1, (3 * k) \div 4})
  <2>1. PICK q \in Nat : q = (3 * k) \div 4 /\ q <= k
    BY <1>2
  <2>2. Share!Max({1, q}) = IF 1 >= q THEN 1 ELSE q
    BY ShareExtremes
  <2> QED BY <1>2, <2>1, <2>2
<1>3. CASE k < top /\ r = Share!Min({top, k + 1})
  <2>1. top \in Int /\ k + 1 \in Int
    OBVIOUS
  <2>2. Share!Min({top, k + 1}) = IF top <= k + 1 THEN top ELSE k + 1
    BY ONLY <2>1, ShareExtremes
  <2> QED BY <1>3, <2>2
<1> QED BY <1>1, <1>2, <1>3 DEF Share!Decisions

LEMMA RateChanges ==
    ASSUME NEW n \in Nodes, NEW e
    PROVE  [n EXCEPT !.rate = e] = [delay |-> n.delay, offset |-> n.offset, rate |-> e]
  BY DEF Nodes

LEMMA ShareAdapts ==
    ASSUME ShareInv, NEW s \in Cameras, Share!AdaptRate(s) PROVE ShareInv'
<1>1. nodes[s] \in Nodes /\ nodes[s].rate \in Nat /\ ceil[s] \in Nat /\ cur[s] \in 0..ceil[s]
  BY ShareTypesAre DEF ShareInv, Nodes
<1>2. PICK top \in Nat : top = IF ceil[s] = 0 THEN nodes[s].rate ELSE ceil[s]
  BY <1>1
<1>3. PICK k \in Nat : k = IF ceil[s] = 0 THEN nodes[s].rate ELSE cur[s]
  BY <1>1
<1>4. /\ ceil' = [ceil EXCEPT ![s] = top] /\ steps' = steps + 1 /\ steps < MaxSteps
      /\ s \notin Triggered
      /\ UNCHANGED <<announced, home, index, next, at, nic, total, counted, slot, written>>
  BY <1>2 DEF Share!AdaptRate, Share!registry, Share!call
<1>5. ceil'[s] = top
  BY <1>4, ShareTypesAre DEF ShareInv
<1>6. PICK r \in Share!Decisions(k, top) :
        /\ cur' = [cur EXCEPT ![s] = r]
        /\ nodes' = [nodes EXCEPT ![s].rate = IF r = cur[s] THEN nodes[s].rate ELSE r]
  BY <1>3, <1>5 DEF Share!AdaptRate
<1>7. r \in Nat /\ r <= top /\ ceil[s] <= top
  BY <1>1, <1>2, <1>3, DecisionIs
<1>8. PICK set : set = [delay |-> nodes[s].delay, offset |-> nodes[s].offset,
                        rate |-> IF r = cur[s] THEN nodes[s].rate ELSE r]
  OBVIOUS
<1>9. nodes' = [nodes EXCEPT ![s] = set] /\ set \in Nodes
      /\ set.rate = IF r = cur[s] THEN nodes[s].rate ELSE r
  <2>1. set \in Nodes /\ set.rate = IF r = cur[s] THEN nodes[s].rate ELSE r
    BY <1>1, <1>7, <1>8 DEF Nodes
  <2>2. [nodes[s] EXCEPT !.rate = IF r = cur[s] THEN nodes[s].rate ELSE r] = set
    BY <1>1, <1>8, RateChanges
  <2> QED BY <1>6, <2>1, <2>2
<1>10. ShareTypes'
  <2>1. steps' \in 0..MaxSteps
    BY <1>4, ShareTypesAre, ShareNumbers DEF ShareInv
  <2>2. /\ cur' \in [Cameras -> Nat] /\ ceil' \in [Cameras -> Nat]
        /\ nodes' \in [Cameras -> Nodes]
    BY <1>4, <1>6, <1>7, <1>9, ShareTypesAre DEF ShareInv
  <2>3. \A t \in Cameras : cur'[t] \in 0..ceil'[t]
    BY <1>4, <1>6, <1>7, ShareTypesAre DEF ShareInv
  <2> QED BY <1>4, <2>1, <2>2, <2>3, ShareTypesAre, ShareCardinality
          DEF ShareInv, ShareTypes, Share!TypeOK
<1>11. Registered'
  BY <1>4 DEF ShareInv, Registered, Share!IndexIsOwn
<1>12. Reckoned'
  BY <1>4 DEF ShareInv, Reckoned
<1>13. Capped'
  <2> SUFFICES ASSUME NEW t \in Cameras \ Triggered, announced > 0, written[t] = 3
               PROVE  \/ nodes'[t].rate * Share!Payload(t) * announced <= Link
                      \/ nodes'[t].rate <= ceil'[t]
    BY <1>4 DEF Capped, Share!Payload
  <2>1. \/ nodes[t].rate * Share!Payload(t) * announced <= Link
        \/ nodes[t].rate <= ceil[t]
    BY DEF ShareInv, Capped
  <2>2. CASE t = s
    <3>1. nodes'[t].rate = set.rate /\ ceil'[t] = top
      BY <1>4, <1>9, <2>2, ShareTypesAre DEF ShareInv
    <3>2. CASE r = cur[s]
      BY <1>1, <1>7, <1>9, <2>1, <2>2, <3>1, <3>2
    <3>3. CASE r # cur[s]
      BY <1>7, <1>9, <3>1, <3>3
    <3> QED BY <3>2, <3>3
  <2>3. CASE t # s
    <3>1. nodes'[t] = nodes[t] /\ ceil'[t] = ceil[t]
      BY <1>4, <1>9, <2>3, ShareTypesAre DEF ShareInv
    <3> QED BY <2>1, <3>1
  <2> QED BY <2>2, <2>3
<1> QED BY <1>10, <1>11, <1>12, <1>13 DEF ShareInv

LEMMA ShareHolds == PartsSpec => [](part = "share" => ShareInv)
<1> DEFINE Inv == part = "share" => ShareInv
<1>1. PartsInit => Inv
  <2> SUFFICES ASSUME PartsInit, part = "share" PROVE ShareInv
    OBVIOUS
  <2>1. /\ announced \in Totals /\ steps = 0
        /\ home = [s \in Cameras |-> Share!NoNic] /\ index = [s \in Cameras |-> 0]
        /\ next = [n \in Nics |-> 0]
        /\ at = [s \in Cameras |-> "off"] /\ nic = [s \in Cameras |-> Share!NoNic]
        /\ total = [s \in Cameras |-> 1] /\ counted = [s \in Cameras |-> 1]
        /\ slot = [s \in Cameras |-> 0]
        /\ nodes = [s \in Cameras |-> Share!Factory] /\ written = [s \in Cameras |-> 0]
        /\ ceil = [s \in Cameras |-> 0] /\ cur = [s \in Cameras |-> 0]
    BY DEF PartsInit, Share!Init
  <2>2. ShareTypes
    <3>1. Share!Factory \in Nodes /\ 1 \in 1..Link /\ 0 \in 0..MaxSteps
      BY ShareNumbers DEF Share!Factory, Nodes
    <3>2. ASSUME NEW s \in Cameras
          PROVE  1 \in 1..Cardinality(Cameras) /\ 0 \in 0..(Cardinality(Cameras) - 1)
      BY GroupIs, ShareNumbers
    <3>3. /\ total \in [Cameras -> 1..Link]
          /\ total \in [Cameras -> Totals \cup 1..Cardinality(Cameras)]
          /\ counted \in [Cameras -> 1..Cardinality(Cameras)]
          /\ slot \in [Cameras -> 0..(Cardinality(Cameras) - 1)]
          /\ nodes \in [Cameras -> Nodes]
      BY <2>1, <3>1, <3>2
    <3> QED BY <2>1, <3>1, <3>3, ShareCardinality DEF ShareTypes, Share!TypeOK
  <2>3. Registered
    <3>1. ASSUME NEW s \in Cameras, NEW n \in Nics, home[s] = n PROVE index[s] < next[n]
      BY <2>1, <3>1, ShareAssumption DEF Share!LinkAssumption
    <3> QED BY <2>1, <3>1 DEF Registered, Share!IndexIsOwn
  <2>4. Reckoned /\ Capped
    BY <2>1 DEF Reckoned, Capped
  <2> QED BY <2>2, <2>3, <2>4 DEF ShareInv
<1>2. ASSUME Inv, [PartsNext]_<<part, vars, operatorVars, trackerVars, matchingVars, dualVars,
                                othersVars>>
      PROVE  Inv'
  <2> SUFFICES ASSUME part' = "share" PROVE ShareInv'
    OBVIOUS
  <2>1. part = "share" /\ [Share!Next]_shareVars
    BY <1>2 DEF PartsNext, Sends, Operates, Tracks, Matches, Captures, Shares, Exposes,
                Assigns, othersVars, connectVars
  <2>2. CASE UNCHANGED shareVars
    BY <1>2, <2>1, <2>2
       DEF shareVars, ShareInv, ShareTypes, Share!TypeOK, Registered, Share!IndexIsOwn,
           Reckoned, Capped, Share!Payload
  <2>3. CASE Share!Next
    <3>1. PICK s \in Cameras : \/ Share!Begin(s) \/ Share!CountNic(s) \/ Share!Register(s)
                               \/ Share!Tune(s) \/ Share!Lose(s) \/ Share!AdaptRate(s)
      BY <2>3 DEF Share!Next
    <3> QED BY <1>2, <2>1, <3>1, ShareBegins, ShareCounts, ShareRegisters, ShareTunes,
               ShareLoses, ShareAdapts
  <2> QED BY <2>1, <2>2, <2>3
<1>3. QED BY <1>1, <1>2, PTL DEF PartsSpec

LEMMA Scaled ==
    ASSUME NEW a \in Nat, NEW b \in Nat, NEW p \in {1, 2}, NEW n \in Nat, NEW l \in Nat,
           a <= b, b * p * n <= l
    PROVE  a * p * n <= l
<1>1. PICK e \in Nat, f \in Nat : e = a * p /\ f = b * p /\ e <= f /\ f * n <= l
  BY p = 1 \/ p = 2
<1>2. e * n <= f * n
  BY <1>1
<1>3. e * n \in Nat /\ f * n \in Nat
  BY <1>1
<1> QED BY <1>1, <1>2, <1>3

\* However many cameras send, the units of all of them are no more than one share each.
LEMMA UnitsFit ==
    ASSUME NEW C, C \subseteq Cameras, NEW n \in Nat, n > 0, Cardinality(C) <= n,
           NEW rate, DOMAIN rate \subseteq C,
           \A s \in DOMAIN rate : rate[s] \in Nat /\ rate[s] * Share!Payload(s) * n <= Link
    PROVE  Share!Cardinality(Share!Units(rate)) <= Link
<1>1. PICK q \in Nat : q = Link \div n /\ q * n <= Link
  BY PartIs, ShareNumbers
<1>2. ASSUME NEW s \in DOMAIN rate PROVE rate[s] * Share!Payload(s) <= q
  <2>1. Share!Payload(s) \in {1, 2} /\ rate[s] \in Nat
    BY DEF Share!Payload
  <2>2. PICK f \in Nat : f = rate[s] * Share!Payload(s) /\ f * n <= Link
    BY <2>1
  <2>3. f <= Link \div n
    BY ONLY <2>2, ShareNumbers, n \in Nat, n > 0
  <2> QED BY <1>1, <2>2, <2>3
<1>3. Share!Units(rate) \subseteq C \X (1..q)
  <2> SUFFICES ASSUME NEW s \in DOMAIN rate, NEW e \in {s} \X (1..(rate[s] * Share!Payload(s)))
               PROVE  e \in C \X (1..q)
    BY DEF Share!Units
  <2>1. /\ e[1] = s /\ e[2] \in 1..(rate[s] * Share!Payload(s)) /\ e = <<e[1], e[2]>>
        /\ Share!Payload(s) \in {1, 2} /\ rate[s] \in Nat
    BY DEF Share!Payload
  <2>2. e[2] \in 1..q
    BY <1>1, <1>2, <2>1
  <2> QED BY <2>1, <2>2
<1>4. /\ IsFiniteSet(C) /\ Cardinality(C) \in Nat
      /\ IsFiniteSet(1..q) /\ Cardinality(1..q) = q
  <2>1. IsFiniteSet(C) /\ Cardinality(C) \in Nat
    BY ShareNumbers, FS_Subset, FS_CardinalityType
  <2>2. IsFiniteSet(1..q) /\ Cardinality(1..q) = q
    BY <1>1, FS_Interval
  <2> QED BY <2>1, <2>2
<1>5. IsFiniteSet(C \X (1..q)) /\ Cardinality(C \X (1..q)) = Cardinality(C) * q
  BY <1>4, FS_Product
<1>6. PICK c, u : /\ c = Cardinality(C) /\ c \in Nat /\ u = Cardinality(Share!Units(rate))
              /\ u \in Nat /\ u <= c * q /\ c <= n
  BY <1>3, <1>4, <1>5, FS_Subset, FS_CardinalityType
<1>7. c * q <= n * q
  BY ONLY <1>6, c \in Nat, n \in Nat, q \in Nat
<1>8. u <= Link
  BY <1>1, <1>6, <1>7, ShareNumbers
<1> QED BY <1>6, <1>8, ShareCardinality

\* No two cameras of an interface have one index, however they come, go and are recabled;
\* and as long as the interface has no more cameras than the settings say, and the capture
\* loop saw none of them first with more than its share, what they send fits it
\* (GigEBandwidthCoordinator, applyBandwidth, adaptRate).
THEOREM SharesSound == PartsSpec => []SharesAreSound
<1>1. ShareInv => Share!SharesAreSound
  <2> SUFFICES ASSUME ShareInv PROVE Share!SharesAreSound
    OBVIOUS
  <2>1. Share!TypeOK /\ Share!IndexIsOwn
    BY DEF ShareInv, ShareTypes, Registered
  <2>2. Share!SumFits
    <3> SUFFICES ASSUME NEW n \in Nics,
                        \A s \in Share!Sending(n) \ Triggered :
                          ceil[s] * Share!Payload(s) * announced <= Link,
                        announced >= Share!Cardinality(Share!Sending(n))
                 PROVE  Share!Cardinality(Share!Units(
                          [s \in Share!Sending(n) \ Triggered |-> nodes[s].rate])) <= Link
      BY DEF Share!SumFits, Share!Fits
    <3> DEFINE C == Share!Sending(n)
    <3> DEFINE rate == [s \in C \ Triggered |-> nodes[s].rate]
    <3>1. C \subseteq Cameras /\ DOMAIN rate = C \ Triggered
      BY DEF Share!Sending
    <3>2. /\ announced \in Nat /\ Cardinality(C) <= announced /\ Cardinality(C) \in Nat
          /\ announced = 0 => C = {}
      <4> HIDE DEF C
      <4>1. announced \in Nat /\ Cardinality(C) <= announced
        BY ShareTypesAre, ShareCardinality DEF ShareInv, C
      <4>2. IsFiniteSet(C) /\ Cardinality(C) \in Nat
        BY <3>1, ShareNumbers, FS_Subset, FS_CardinalityType
      <4>3. announced = 0 => Cardinality(C) = 0
        BY <4>1, <4>2
      <4> QED BY <4>1, <4>2, <4>3, FS_EmptySet
    <3>3. CASE announced = 0
      <4>1. DOMAIN rate = {}
        BY <3>1, <3>2, <3>3
      <4>2. Share!Units(rate) = {}
        BY <4>1 DEF Share!Units
      <4> HIDE DEF rate, C
      <4>3. Share!Cardinality(Share!Units(rate)) = 0
        BY <4>2, ShareCardinality, FS_EmptySet
      <4>4. Share!Cardinality(Share!Units(rate)) <= Link
        BY <4>3, ShareNumbers
      <4> QED BY <4>4 DEF rate, C
    <3>4. CASE announced > 0
      <4>1. ASSUME NEW s \in DOMAIN rate
            PROVE  rate[s] \in Nat /\ rate[s] * Share!Payload(s) * announced <= Link
        <5>1. /\ rate[s] = nodes[s].rate /\ s \in Cameras \ Triggered /\ written[s] = 3
              /\ ceil[s] * Share!Payload(s) * announced <= Link
          BY DEF Share!Sending
        <5>2. /\ nodes[s].rate \in Nat /\ ceil[s] \in Nat /\ Share!Payload(s) \in {1, 2}
          BY <5>1, ShareTypesAre DEF ShareInv, Nodes
        <5>3. \/ nodes[s].rate * Share!Payload(s) * announced <= Link
              \/ nodes[s].rate <= ceil[s]
          BY <3>4, <5>1 DEF ShareInv, Capped
        <5>4. ASSUME nodes[s].rate <= ceil[s]
              PROVE  nodes[s].rate * Share!Payload(s) * announced <= Link
          BY <3>2, <5>1, <5>2, <5>4, Scaled, ShareNumbers
        <5> QED BY <5>1, <5>2, <5>3, <5>4
      <4> HIDE DEF rate, C
      <4>2. Share!Cardinality(Share!Units(rate)) <= Link
        BY <3>1, <3>2, <3>4, <4>1, UnitsFit
      <4> QED BY <4>2 DEF rate, C
    <3> QED BY <3>2, <3>3, <3>4
  <2> QED BY <2>1, <2>2 DEF Share!SharesAreSound
<1>2. (part = "share" => ShareInv) => SharesAreSound
  BY <1>1 DEF SharesAreSound
<1> QED BY <1>2, ShareHolds, PTL

--------------------------------------------------------------------------------
(* Exposure: the invariant and the order of the actuators                        *)

LEMMA ExposureNumbers ==
    /\ Cap \in Nat /\ Cap > 0 /\ NodeMax \in Nat /\ Ceiling \in Nat /\ Ceiling > 0
    /\ GainMin \in Nat /\ GainMax \in Nat /\ NodeGain \in Nat /\ GainStep \in Nat
    /\ Cap <= NodeMax /\ GainMin <= GainMax /\ GainMax <= NodeGain
    /\ Least \in Nat /\ Least > 0 /\ Fraction \in Nat /\ Fraction > 0
    /\ StepRatio \in Nat /\ MaxChanges \in Nat
<1>1. /\ {Target, Deadband, Cap, NodeMax, Ceiling, GainStep, White, Interval,
          Damp, Least, Fraction} \subseteq Nat \ {0}
      /\ Cap <= NodeMax /\ GainMin \in Nat \ {0} /\ GainMax \in Nat /\ GainMax >= GainMin
      /\ NodeGain \in Nat /\ NodeGain >= GainMax
      /\ StepRatio \in Nat /\ MaxChanges \in Nat
  BY LoopAssumption DEF Exposure!ExposureAssumption
<1>2. Cap \in Nat \ {0} /\ NodeMax \in Nat \ {0} /\ Ceiling \in Nat \ {0}
      /\ GainStep \in Nat \ {0} /\ Least \in Nat \ {0} /\ Fraction \in Nat \ {0}
  BY <1>1
<1> QED BY <1>1, <1>2

LEMMA ExposureExtremes ==
    ASSUME NEW a \in Int, NEW b \in Int
    PROVE  /\ Exposure!Max({a, b}) = IF a >= b THEN a ELSE b
           /\ Exposure!Min({a, b}) = IF a <= b THEN a ELSE b
<1>1. /\ \E k \in {a, b} : \A l \in {a, b} : k >= l
      /\ \E k \in {a, b} : \A l \in {a, b} : k <= l
  OBVIOUS
<1>2. /\ Exposure!Max({a, b}) \in {a, b} /\ \A l \in {a, b} : Exposure!Max({a, b}) >= l
      /\ Exposure!Min({a, b}) \in {a, b} /\ \A l \in {a, b} : Exposure!Min({a, b}) <= l
  BY <1>1 DEF Exposure!Max, Exposure!Min
<1> QED BY <1>2

\* The camera holds an exposure it can do, and a gain the sensor has.
Held ==
    /\ exposure \in 1..NodeMax /\ exposure <= Ceiling
    /\ gain \in GainMin..NodeGain

\* What the camera takes of an exposure it is given.
LEMMA SetIs ==
    ASSUME NEW e \in 1..NodeMax, NEW g \in GainMin..NodeGain, Exposure!Set(e, g)
    PROVE  /\ exposure' = (IF e <= Ceiling THEN e ELSE Ceiling)
           /\ exposure' \in 1..NodeMax /\ exposure' <= Ceiling
           /\ gain' = g /\ gain' \in GainMin..NodeGain
<1>1. exposure' = Exposure!Min({e, Ceiling}) /\ gain' = g
  BY DEF Exposure!Set
<1>2. e \in Int /\ Ceiling \in Int
  BY ExposureNumbers
<1>3. Exposure!Min({e, Ceiling}) = IF e <= Ceiling THEN e ELSE Ceiling
  BY ONLY <1>2, ExposureExtremes
<1> QED BY <1>1, <1>3, ExposureNumbers

LEMMA ConfiguredIs ==
    ASSUME NEW s, NEW n \in Exposure!Configured(s)
    PROVE  n.exposure \in 1..NodeMax /\ n.gain \in GainMin..NodeGain
  BY ExposureNumbers DEF Exposure!Configured, Exposure!ExpMin

\* Gain is raised by a step, up to its limit, and lowered, down to its other one.
LEMMA GainIs ==
    ASSUME Held
    PROVE  /\ Exposure!Raised \in GainMin..NodeGain /\ Exposure!Raised >= gain
           /\ Exposure!Lowered \in GainMin..NodeGain /\ Exposure!Lowered <= gain
<1>1. /\ gain \in Int /\ gain >= GainMin /\ gain <= NodeGain
      /\ gain + GainStep \in Int /\ gain - GainStep \in Int /\ GainMax \in Int /\ GainMin \in Int
  BY ExposureNumbers DEF Held
<1>2. /\ Exposure!Min({GainMax, gain + GainStep})
           = IF GainMax <= gain + GainStep THEN GainMax ELSE gain + GainStep
      /\ Exposure!Max({GainMin, gain - GainStep})
           = IF GainMin >= gain - GainStep THEN GainMin ELSE gain - GainStep
  BY ONLY <1>1, ExposureExtremes
<1> QED BY <1>1, <1>2, ExposureNumbers DEF Exposure!Raised, Exposure!Lowered

\* What a decision does, whatever the brightness.
InTurn ==
    /\ Held'
    /\ Exposure!GainLast /\ Exposure!GainBackFirst /\ Exposure!StaysSharp

LEMMA ReinIs == ASSUME Held, Exposure!Rein PROVE InTurn
<1>1. exposure > Cap + Least /\ Exposure!Set(Cap, gain)
  BY DEF Exposure!Rein, Exposure!TooLong, Exposure!Ask
<1>2. Cap \in 1..NodeMax /\ gain \in GainMin..NodeGain
  BY ExposureNumbers DEF Held
<1>3. /\ exposure' = (IF Cap <= Ceiling THEN Cap ELSE Ceiling)
      /\ exposure' \in 1..NodeMax /\ exposure' <= Ceiling
      /\ gain' = gain /\ gain' \in GainMin..NodeGain
  BY <1>1, <1>2, SetIs
<1> QED BY <1>1, <1>3, ExposureNumbers
        DEF InTurn, Held, Exposure!GainLast, Exposure!GainBackFirst, Exposure!StaysSharp,
            Exposure!TooLong

\* What is wanted is a number, whatever damping leaves of the correction.
LEMMA WantIs ==
    ASSUME Held, NEW m, NEW want,
           want \in Exposure!Longer(m) \/ want \in Exposure!Shorter(m)
    PROVE  want \in Int
<1>1. PICK k \in Nat : k = exposure
  BY DEF Held
<1>2. CASE want \in Exposure!Longer(m)
  <2>1. PICK w \in (exposure + Exposure!Damped(Exposure!Full(m) - exposure))
                     ..(Exposure!Full(m) + 1) : want = Exposure!Min({w, exposure * StepRatio})
    BY <1>2, Zenon DEF Exposure!Longer
  <2>3. w \in Int
    BY ONLY <2>1
  <2>2. exposure * StepRatio \in Int
    BY <1>1, ExposureNumbers
  <2> QED BY <2>1, <2>2, <2>3, ExposureExtremes
<1>3. CASE want \in Exposure!Shorter(m)
  <2>1. PICK w \in Exposure!Full(m)
                     ..(exposure - Exposure!Damped(exposure - Exposure!Full(m) - 1)) :
          want = Exposure!Max({w, exposure \div StepRatio})
    BY <1>3, Zenon DEF Exposure!Shorter
  <2>3. w \in Int
    BY ONLY <2>1
  <2>2. exposure \div StepRatio \in Int
    BY <1>1, LoopAssumption DEF Exposure!ExposureAssumption
  <2> QED BY <2>1, <2>2, <2>3, ExposureExtremes
<1> QED BY <1>2, <1>3

\* A longer exposure is within the cap, and so much longer that it counts.
LEMMA LengthenedIs ==
    ASSUME Held, NEW want \in Int
    PROVE  \E e \in 1..NodeMax :
             /\ e = Exposure!Lengthened(want) /\ e >= exposure
             /\ \/ e = exposure /\ (want <= exposure + Least \/ Cap <= exposure + Least)
                \/ e > exposure + Least /\ e <= Cap /\ (e = want \/ e = Cap)
<1>1. PICK k \in 1..NodeMax : k = exposure
  BY DEF Held
<1>2. Exposure!Min({want, Cap}) = IF want <= Cap THEN want ELSE Cap
  <2>1. want \in Int /\ Cap \in Int
    BY ExposureNumbers
  <2> QED BY ONLY <2>1, ExposureExtremes
<1>3. PICK n \in Int : n = Exposure!Min({want, Cap}) /\ n = IF want <= Cap THEN want ELSE Cap
  BY <1>2, ExposureNumbers
<1>4. PICK e : e = IF n > k + Least THEN n ELSE k
  OBVIOUS
<1>5. e = Exposure!Lengthened(want)
  BY <1>1, <1>3, <1>4 DEF Exposure!Lengthened
<1>6. /\ e \in 1..NodeMax /\ e >= k
      /\ \/ e = k /\ (want <= k + Least \/ Cap <= k + Least)
         \/ e > k + Least /\ e <= Cap /\ (e = want \/ e = Cap)
  BY <1>3, <1>4, ExposureNumbers
<1> QED BY <1>1, <1>5, <1>6

\* Gain has to help: the exposure is short of what is wanted, by a part of itself.
LEMMA ResidualIs ==
    ASSUME NEW want \in Int, NEW e \in Nat, Exposure!Residual(want, e)
    PROVE  /\ want * Fraction > e * Fraction + e
           /\ want # e
           /\ want <= e + Least => e < Fraction * Least
<1>1. Exposure!Max({e, Least}) = (IF e >= Least THEN e ELSE Least)
  <2>1. e \in Int /\ Least \in Int
    BY ExposureNumbers
  <2> QED BY ONLY <2>1, ExposureExtremes
<1>2. PICK n \in Nat : n = Exposure!Max({e, Least}) /\ n >= e
  BY <1>1, ExposureNumbers
<1>3. want * Fraction > n * (Fraction + 1)
  BY <1>2 DEF Exposure!Residual
<1>4. n * (Fraction + 1) >= e * Fraction + e
  <2>1. PICK f \in Nat : f = Fraction
    BY ExposureNumbers
  <2>2. n * (f + 1) >= e * (f + 1) /\ e * (f + 1) = e * f + e
    BY ONLY <1>2, <2>1, n \in Nat, e \in Nat, f \in Nat
  <2>3. n * (f + 1) \in Int /\ e * f + e \in Int
    OBVIOUS
  <2> QED BY <2>1, <2>2, <2>3
<1>5. want * Fraction > e * Fraction + e
  <2>1. want * Fraction \in Int /\ n * (Fraction + 1) \in Int /\ e * Fraction + e \in Int
    BY ExposureNumbers
  <2> QED BY <1>3, <1>4, <2>1
<1>6. want # e
  BY <1>5, ExposureNumbers
<1>7. ASSUME want <= e + Least PROVE e < Fraction * Least
  <2>1. PICK f \in Nat, l \in Nat : f = Fraction /\ l = Least
    BY ExposureNumbers
  <2>2. want * f <= (e + l) * f /\ (e + l) * f = e * f + f * l
    BY ONLY <1>7, <2>1, want \in Int, e \in Nat, f \in Nat, l \in Nat
  <2>3. want * f > e * f + e
    BY <1>5, <2>1
  <2>4. want * f \in Int /\ e * f \in Int /\ f * l \in Int
    OBVIOUS
  <2>5. e < f * l
    BY <2>2, <2>3, <2>4
  <2> QED BY <2>1, <2>5
<1> QED BY <1>5, <1>6, <1>7

LEMMA DarkIs ==
    ASSUME Held, ~Exposure!TooLong, NEW m,
           \/ Exposure!Dark(m) /\ strategy = "auto"
           \/ Exposure!DarkHighlight(m)
    PROVE  InTurn
<1>0. PICK want \in Exposure!Longer(m) :
        \E g : /\ Exposure!Set(Exposure!Lengthened(want), g)
               /\ \/ g = Exposure!Lowered \/ g = gain
                  \/ /\ g = Exposure!Raised /\ strategy = "auto"
                     /\ Exposure!Residual(want, Exposure!Lengthened(want))
  BY DEF Exposure!Dark, Exposure!DarkHighlight, Exposure!Ask
<1>1. PICK g : /\ Exposure!Set(Exposure!Lengthened(want), g)
               /\ \/ g = Exposure!Lowered \/ g = gain
                  \/ /\ g = Exposure!Raised /\ strategy = "auto"
                     /\ Exposure!Residual(want, Exposure!Lengthened(want))
  BY <1>0
<1>2. PICK k \in 1..NodeMax : k = exposure /\ k <= Ceiling
  BY DEF Held
<1>3. want \in Int
  BY WantIs
<1>4. PICK e \in 1..NodeMax :
        /\ e = Exposure!Lengthened(want) /\ e >= k
        /\ \/ e = k /\ (want <= k + Least \/ Cap <= k + Least)
           \/ e > k + Least /\ e <= Cap /\ (e = want \/ e = Cap)
  BY <1>2, <1>3, LengthenedIs
<1>5. /\ g \in GainMin..NodeGain
      /\ g > gain => Exposure!Residual(want, e) /\ strategy = "auto"
  <2>1. gain \in Int /\ gain \in GainMin..NodeGain /\ Exposure!Lowered \in Int
    BY GainIs, ExposureNumbers DEF Held
  <2> QED BY <1>1, <1>4, <2>1, GainIs, ExposureNumbers
<1>6. /\ exposure' = (IF e <= Ceiling THEN e ELSE Ceiling)
      /\ exposure' \in 1..NodeMax /\ exposure' <= Ceiling
      /\ gain' = g /\ gain' \in GainMin..NodeGain
  BY <1>1, <1>4, <1>5, SetIs
<1>7. Exposure!Min({Cap, Ceiling}) = IF Cap <= Ceiling THEN Cap ELSE Ceiling
  BY ExposureNumbers, ExposureExtremes
<1>8. Exposure!GainLast
  <2> SUFFICES ASSUME g > gain
               PROVE  strategy = "auto" /\ (exposure' = Exposure!Min({Cap, Ceiling}) \/ Exposure!Stuck)
    BY <1>6 DEF Exposure!GainLast
  <2>1. e \in Nat /\ Exposure!Residual(want, e) /\ strategy = "auto"
    BY <1>5
  <2>2. want # e /\ (want <= e + Least => e < Fraction * Least)
    BY <1>3, <2>1, ResidualIs
  <2>3. CASE e = k
    <3>1. exposure' = k
      BY <1>2, <1>6, <2>3, ExposureNumbers
    <3>2. k + Least >= Cap \/ k < Fraction * Least
      BY <1>4, <2>2, <2>3, ExposureNumbers
    <3> QED BY <1>2, <2>1, <3>1, <3>2 DEF Exposure!Stuck
  <2>4. CASE e # k
    <3>1. e = Cap
      BY <1>4, <2>2, <2>4
    <3> QED BY <1>6, <1>7, <2>1, <3>1
  <2> QED BY <2>3, <2>4
<1>9. exposure' >= k /\ (exposure' > k => exposure' <= Cap)
  BY <1>2, <1>4, <1>6, ExposureNumbers
<1>10. Exposure!GainBackFirst /\ Exposure!StaysSharp
  BY <1>2, <1>6, <1>9, ExposureNumbers DEF Exposure!GainBackFirst, Exposure!StaysSharp
<1> QED BY <1>6, <1>8, <1>10 DEF InTurn, Held

LEMMA BrightIs == ASSUME Held, NEW m, Exposure!Bright(m) PROVE InTurn
<1>1. PICK k \in Nat : k = exposure /\ k >= 1 /\ k <= Ceiling /\ k \in 1..NodeMax
  BY DEF Held
<1>2. gain \in Int /\ Exposure!Lowered \in Int
  BY GainIs, ExposureNumbers DEF Held
<1>3. CASE gain > GainMin /\ Exposure!Set(exposure, Exposure!Lowered)
  <2>1. /\ exposure' = (IF exposure <= Ceiling THEN exposure ELSE Ceiling)
        /\ exposure' \in 1..NodeMax /\ exposure' <= Ceiling
        /\ gain' = Exposure!Lowered /\ gain' \in GainMin..NodeGain
    BY <1>1, <1>3, GainIs, SetIs
  <2>2. exposure' = exposure /\ gain' <= gain
    BY <1>1, <2>1, GainIs
  <2> QED BY <1>1, <1>2, <2>1, <2>2
          DEF InTurn, Held, Exposure!GainLast, Exposure!GainBackFirst, Exposure!StaysSharp
<1>4. ASSUME gain <= GainMin, NEW want \in Exposure!Shorter(m),
             Exposure!Set(Exposure!Shortened(want), gain)
      PROVE  InTurn
  <2>1. want \in Int
    BY WantIs
  <2>2. PICK e \in 1..NodeMax : e = Exposure!Shortened(want) /\ e <= k
    <3>1. PICK n \in Int : n = Exposure!Min({want, Cap}) /\ n = IF want <= Cap THEN want ELSE Cap
      <4>1. want \in Int /\ Cap \in Int
        BY <2>1, ExposureNumbers
      <4>2. Exposure!Min({want, Cap}) = IF want <= Cap THEN want ELSE Cap
        BY ONLY <4>1, ExposureExtremes
      <4> QED BY <4>1, <4>2
    <3>2. Exposure!Max({1, n}) = IF 1 >= n THEN 1 ELSE n
      BY ExposureExtremes
    <3>3. PICK h \in 1..NodeMax : h = Exposure!Max({Exposure!ExpMin, n})
      BY <3>1, <3>2, ExposureNumbers DEF Exposure!ExpMin
    <3>4. Exposure!Shortened(want) = IF h < k - Least THEN h ELSE k
      BY <1>1, <3>1, <3>3 DEF Exposure!Shortened
    <3> QED BY <1>1, <3>3, <3>4, ExposureNumbers
  <2>3. Exposure!Set(e, gain) /\ gain \in GainMin..NodeGain
    BY <1>4, <2>2 DEF Held
  <2>4. /\ exposure' = (IF e <= Ceiling THEN e ELSE Ceiling)
        /\ exposure' \in 1..NodeMax /\ exposure' <= Ceiling
        /\ gain' = gain /\ gain' \in GainMin..NodeGain
    BY <2>2, <2>3, SetIs
  <2>5. exposure' <= k
    BY <1>1, <2>2, <2>4, ExposureNumbers
  <2> QED BY <1>1, <1>2, <1>4, <2>4, <2>5
          DEF InTurn, Held, Exposure!GainLast, Exposure!GainBackFirst, Exposure!StaysSharp
<1> QED BY <1>3, <1>4 DEF Exposure!Bright, Exposure!Ask

LEMMA FrameIs == ASSUME Held, Exposure!Frame PROVE InTurn
<1>1. PICK m : \/ UNCHANGED <<exposure, gain>>
               \/ ~Exposure!TooLong /\ strategy = "auto" /\ Exposure!Dark(m)
               \/ ~Exposure!TooLong /\ Exposure!DarkHighlight(m)
               \/ Exposure!Rein \/ Exposure!Bright(m)
  BY DEF Exposure!Frame, Exposure!Decide, Exposure!nodes
<1>2. CASE UNCHANGED <<exposure, gain>>
  <2>1. exposure \in Int /\ gain \in Int
    BY ExposureNumbers DEF Held
  <2> QED BY <1>2, <2>1
          DEF InTurn, Held, Exposure!GainLast, Exposure!GainBackFirst, Exposure!StaysSharp
<1> QED BY <1>1, <1>2, ReinIs, DarkIs, BrightIs

LEMMA ExposureStep ==
    ASSUME Held, changes \in Nat, [Exposure!Next]_exposureVars
    PROVE  Held' /\ changes' \in Nat /\ (exposureVars' # exposureVars => Exposure!InOrder)
<1>1. CASE UNCHANGED exposureVars
  BY <1>1 DEF exposureVars, Held
<1>2. CASE Exposure!Frame
  BY <1>2, FrameIs DEF InTurn, Exposure!InOrder, Exposure!Frame
<1>3. CASE Exposure!SensorLoop
  <2>1. PICK n \in Exposure!Configured("native") : Exposure!Set(n.exposure, n.gain)
    BY <1>3 DEF Exposure!SensorLoop
  <2>2. Held'
    BY <2>1, ConfiguredIs, SetIs DEF Held
  <2> QED BY <1>3, <2>2 DEF Exposure!SensorLoop, Exposure!InOrder, Exposure!Adjusts, Exposure!Loops
<1>4. CASE Exposure!LightChanges
  BY <1>4 DEF Exposure!LightChanges, Exposure!Act, Exposure!nodes, Held, Exposure!InOrder,
     Exposure!Adjusts
<1>5. CASE Exposure!SetManualExposure
  <2>1. PICK e \in Exposure!NormalizedExposures \cup Exposure!AbsoluteExposures :
          Exposure!Set(e, gain)
    BY <1>5 DEF Exposure!SetManualExposure
  <2>2. e \in 1..NodeMax
    <3>1. Exposure!Min({Cap, NodeMax}) = IF Cap <= NodeMax THEN Cap ELSE NodeMax
      <4>1. Cap \in Int /\ NodeMax \in Int
        BY ExposureNumbers
      <4> QED BY ONLY <4>1, ExposureExtremes
    <3> QED BY <3>1, ExposureNumbers
            DEF Exposure!NormalizedExposures, Exposure!AbsoluteExposures, Exposure!ExpMin
  <2>3. Held'
    BY <2>1, <2>2, SetIs DEF Held
  <2> QED BY <1>5, <2>3 DEF Exposure!SetManualExposure, Exposure!Suspend, Exposure!Act,
          Exposure!InOrder, Exposure!Adjusts
<1>6. CASE Exposure!SetManualGain
  <2>1. PICK g \in Exposure!NormalizedGains \cup Exposure!AbsoluteGains :
          Exposure!Set(exposure, g)
    BY <1>6 DEF Exposure!SetManualGain
  <2>2. g \in GainMin..NodeGain
    BY ExposureNumbers DEF Exposure!NormalizedGains, Exposure!AbsoluteGains
  <2>3. Held'
    BY <2>1, <2>2, SetIs DEF Held
  <2> QED BY <1>6, <2>3 DEF Exposure!SetManualGain, Exposure!Suspend, Exposure!Act,
          Exposure!InOrder, Exposure!Adjusts
<1>7. CASE Exposure!Revert
  <2>1. PICK n \in Exposure!Configured(profile) : Exposure!Set(n.exposure, n.gain)
    BY <1>7 DEF Exposure!Revert, Exposure!Install
  <2>2. Held'
    BY <2>1, ConfiguredIs, SetIs DEF Held
  <2> QED BY <1>7, <2>2 DEF Exposure!Revert, Exposure!Act, Exposure!InOrder, Exposure!Adjusts
<1> QED BY <1>1, <1>2, <1>3, <1>4, <1>5, <1>6, <1>7 DEF Exposure!Next

LEMMA ExposureHolds == PartsSpec => [](part = "exposure" => Held /\ changes \in Nat)
<1> DEFINE Inv == part = "exposure" => Held /\ changes \in Nat
<1>1. PartsInit => Inv
  <2> SUFFICES ASSUME PartsInit, part = "exposure" PROVE Held /\ changes \in Nat
    OBVIOUS
  <2>1. PICK n \in Exposure!Configured(profile) :
          /\ exposure = Exposure!Min({n.exposure, Ceiling}) /\ gain = n.gain /\ changes = 0
    BY DEF PartsInit, Exposure!Init
  <2>2. n.exposure \in 1..NodeMax /\ n.gain \in GainMin..NodeGain
    BY ConfiguredIs
  <2>3. Exposure!Min({n.exposure, Ceiling})
          = IF n.exposure <= Ceiling THEN n.exposure ELSE Ceiling
    <3>1. n.exposure \in Int /\ Ceiling \in Int
      BY <2>2, ExposureNumbers
    <3> QED BY ONLY <3>1, ExposureExtremes
  <2> QED BY <2>1, <2>2, <2>3, ExposureNumbers DEF Held
<1>2. ASSUME Inv, [PartsNext]_<<part, vars, operatorVars, trackerVars, matchingVars, dualVars,
                                othersVars>>
      PROVE  Inv'
  <2> SUFFICES ASSUME part' = "exposure" PROVE Held' /\ changes' \in Nat
    OBVIOUS
  <2>1. part = "exposure" /\ [Exposure!Next]_exposureVars
    BY <1>2 DEF PartsNext, Sends, Operates, Tracks, Matches, Captures, Shares, Exposes,
                Assigns, othersVars
  <2> QED BY <1>2, <2>1, ExposureStep
<1> QED BY <1>1, <1>2, PTL DEF PartsSpec

\* While the host's loop has a camera, gain is raised only with the exposure at its cap or
\* where the loop leaves it alone (within a microsecond of the cap, or shorter than Fraction
\* microseconds), the exposure is shortened only when there is no gain left to give back or
\* it was above the cap, and it is never lengthened past the cap
\* (AutoExposureStrategy::apply, decideExposure).
THEOREM ActuatorsInOrder == PartsSpec => Exposure!ActuatorPriority
<1>1. ASSUME part = "exposure" => Held /\ changes \in Nat,
             [PartsNext]_<<part, vars, operatorVars, trackerVars, matchingVars, dualVars,
                           othersVars>>
      PROVE  [Exposure!InOrder]_Exposure!vars
  <2> SUFFICES ASSUME exposureVars' # exposureVars PROVE Exposure!InOrder
    BY DEF exposureVars, Exposure!vars, Exposure!nodes
  <2>1. part = "exposure" /\ Exposure!Next
    BY <1>1 DEF PartsNext, Sends, Operates, Tracks, Matches, Captures, Shares, Exposes,
                Assigns, othersVars
  <2> QED BY <1>1, <2>1, ExposureStep
<1>2. (part = "exposure" => Held /\ changes \in Nat)
      /\ [PartsNext]_<<part, vars, operatorVars, trackerVars, matchingVars, dualVars,
                       othersVars>> => [Exposure!InOrder]_Exposure!vars
  BY <1>1
<1> QED BY <1>2, ExposureHolds, PTL DEF PartsSpec, Exposure!ActuatorPriority
-------------------------------------------------------------------------------
(* The sender: the inductive invariant                                       *)

USE TimesAssumption, NoTextAssumption, LimitsAssumption

\* What the phase of the shutdown says about the flags and the thread.
Control ==
    /\ app = "start" => thread = "none" /\ ~closed
    /\ app \in {"close", "join", "end"} => ~running
    /\ closed => ~running
    /\ ~transport => thread = "done"

\* The ids grow from the log through the item in hand to the queue.
Ordered ==
    /\ \A i \in 1..Len(queue) : queue[i].id <= count
    /\ \A i, j \in 1..Len(queue) : i < j => queue[i].id < queue[j].id
    /\ thread = "publish" => item.id <= count
    /\ thread = "publish" => \A j \in 1..Len(queue) : item.id < queue[j].id
    /\ \A i \in 1..Len(log) : log[i].id <= count
    /\ \A i \in 1..Len(log), j \in 1..Len(queue) : log[i].id < queue[j].id
    /\ thread = "publish" => \A i \in 1..Len(log) : log[i].id < item.id
    /\ SentInOrder

\* Nothing is marked or sent in the future, and whatever was sent less than a
\* cooldown ago is still in the map: the horizon is no shorter.
Remembered ==
    /\ \A k \in Keys : lastSent[k] <= now
    /\ thread = "publish" => item.at <= now
    /\ \A i \in 1..Len(log) : log[i].at <= now
    /\ \A i \in 1..Len(log) :
         ~log[i].force /\ now - log[i].at < Cooldown => lastSent[log[i].key] >= log[i].at
    /\ thread = "publish" /\ ~item.force /\ now - item.at < Cooldown
         => lastSent[item.key] >= item.at

\* The item in hand is a cooldown away from what was sent.
Apart ==
    /\ NoRepeatInCooldown
    /\ thread = "publish" /\ ~item.force =>
         \A i \in 1..Len(log) :
            log[i].key = item.key /\ ~log[i].force => item.at - log[i].at >= Cooldown

\* An ordinary message of k was sent at t.
SentAt(k, t) ==
    \E i \in 1..Len(log) : log[i].key = k /\ ~log[i].force /\ log[i].at = t

\* Every entry of the map stands for a message that was sent, or is in hand.
Accounted ==
    \A k \in Keys : lastSent[k] # Never =>
        \/ SentAt(k, lastSent[k])
        \/ thread = "publish" /\ item.key = k /\ ~item.force /\ item.at = lastSent[k]

Shape == TypeOK /\ Control
IInv == Shape /\ Ordered /\ Remembered /\ Apart /\ Accounted /\ SuppressedWasSent

-------------------------------------------------------------------------------
(* The sender: what the operators of the model do                            *)

\* push() to an unbounded queue appends (BlockingQueue::push).
LEMMA PushAppends ==
  ASSUME NEW q, NEW new
  PROVE  Push(q, 0, new) = Append(q, new)
BY DEF Push, Full

\* pop() takes the first item and moves the others up (BlockingQueue::pop).
LEMMA PopShifts ==
  ASSUME NEW S, NEW q \in Seq(S), q # <<>>
  PROVE  /\ Head(q) = q[1] /\ Head(q) \in S /\ 1 \in 1..Len(q)
         /\ Popped(q) \in Seq(S) /\ Len(Popped(q)) = Len(q) - 1 /\ Len(q) \in Nat
         /\ \A i \in 1..Len(Popped(q)) : Popped(q)[i] = q[i + 1] /\ i + 1 \in 1..Len(q)
<1>1. Popped(q) = Tail(q)
  BY DEF Popped
<1>2. /\ Head(q) \in S /\ Tail(q) \in Seq(S) /\ Len(Tail(q)) = Len(q) - 1
      /\ \A i \in 1..Len(Tail(q)) : Tail(q)[i] = q[i + 1]
  BY HeadTailProperties
<1>3. Len(q) \in Nat /\ Len(q) # 0
  BY EmptySeq
<1> QED BY <1>1, <1>2, <1>3

\* Appending adds one element at the end.
LEMMA AppendAdds ==
  ASSUME NEW S, NEW s \in Seq(S), NEW new \in S
  PROVE  /\ Append(s, new) \in Seq(S) /\ Len(Append(s, new)) = Len(s) + 1 /\ Len(s) \in Nat
         /\ \A i \in 1..Len(s) : Append(s, new)[i] = s[i] /\ i \in 1..Len(Append(s, new))
         /\ Append(s, new)[Len(s) + 1] = new
         /\ \A i \in 1..Len(Append(s, new)) : i \in 1..Len(s) \/ i = Len(s) + 1
BY AppendProperties

\* The map after pruning: an entry is kept as it was unless it is older than the
\* horizon, and none is made (cooldownPasses).
LEMMA PruneFacts ==
  ASSUME TypeOK, NEW k \in Keys
  PROVE  /\ Pruned(now)[k] = Never \/ Pruned(now)[k] = lastSent[k]
         /\ lastSent[k] # Never /\ now - lastSent[k] <= Horizon => Pruned(now)[k] = lastSent[k]
         /\ Pruned(now) \in [Keys -> {Never} \cup 0..MaxTime]
         /\ Marked(k, now) \in [Keys -> {Never} \cup 0..MaxTime]
         /\ Recent(k, now) => Marked(k, now) = Pruned(now)
         /\ ~Recent(k, now) => /\ Marked(k, now)[k] = now
                               /\ \A l \in Keys \ {k} : Marked(k, now)[l] = Pruned(now)[l]
<1>1. lastSent \in [Keys -> {Never} \cup 0..MaxTime] /\ now \in 0..MaxTime
  BY DEF TypeOK
<1>2. Pruned(now) \in [Keys -> {Never} \cup 0..MaxTime]
  BY <1>1 DEF Pruned
<1>3. Pruned(now)[k] = IF lastSent[k] # Never /\ now - lastSent[k] > Horizon
                       THEN Never ELSE lastSent[k]
  BY <1>1 DEF Pruned
<1>4. lastSent[k] # Never /\ now - lastSent[k] <= Horizon => Pruned(now)[k] = lastSent[k]
  <2>1. lastSent[k] # Never => lastSent[k] \in Int
    BY <1>1 DEF Never
  <2> QED BY <1>1, <1>3, <2>1
<1>5. Marked(k, now) = IF Recent(k, now) THEN Pruned(now) ELSE [Pruned(now) EXCEPT ![k] = now]
  BY DEF Marked
<1> QED BY <1>1, <1>2, <1>3, <1>4, <1>5

\* A plate that is not recent was sent a cooldown ago or never.
LEMMA NotRecent ==
  ASSUME TypeOK, Remembered, NEW k \in Keys, ~Recent(k, now),
         NEW i \in 1..Len(log), log[i].key = k, ~log[i].force
  PROVE  now - log[i].at >= Cooldown
<1>1. /\ lastSent[k] \in {Never} \cup 0..MaxTime /\ now \in 0..MaxTime
      /\ log[i].at \in 0..MaxTime
  <2>1. log \in Seq(Entries) /\ lastSent \in [Keys -> {Never} \cup 0..MaxTime] /\ now \in 0..MaxTime
    BY DEF TypeOK
  <2>2. log[i] \in Entries
    BY <2>1
  <2> QED BY <2>1, <2>2 DEF Entries
<1>2. SUFFICES ASSUME now - log[i].at < Cooldown PROVE FALSE
  BY <1>1
<1>3. lastSent[k] >= log[i].at
  BY <1>2 DEF Remembered
<1>4. lastSent[k] # Never /\ now - lastSent[k] < Cooldown
  BY <1>1, <1>2, <1>3 DEF Never
<1>5. Pruned(now)[k] = lastSent[k]
  <2>1. now - lastSent[k] <= Horizon
    BY <1>1, <1>4 DEF Never
  <2> QED BY <2>1, <1>4, PruneFacts
<1> QED BY <1>4, <1>5 DEF Recent

-------------------------------------------------------------------------------
(* The sender: the shape of the state                                        *)

LEMMA ShapeInit ==
  ASSUME Init PROVE Shape
<1>1. /\ lastSent \in [Keys -> {Never} \cup 0..MaxTime]
      /\ now \in 0..MaxTime /\ count \in 0..MaxItems
      /\ queue \in Seq(Items) /\ log \in Seq(Entries)
  BY DEF Init
<1> QED BY <1>1 DEF Init, Shape, TypeOK, Control

\* What Take does: the first item leaves the queue, and what is published is a
\* plate, marked if it is an ordinary one and not recent.
LEMMA TakeFacts ==
  ASSUME TypeOK, Take
  PROVE  /\ thread = "pop" /\ queue # <<>> /\ queue' = Popped(queue) /\ log' = log
         /\ now' = now /\ count' = count
         /\ \/ /\ thread' = "loop" /\ UNCHANGED <<item, lastSent, skipped>>
            \/ /\ Head(queue).key \in Keys /\ ~Head(queue).force /\ Recent(Head(queue).key, now)
               /\ lastSent' = Pruned(now) /\ thread' = "loop" /\ item' = item
               /\ skipped' = skipped \cup {Entry(Head(queue), now)}
            \/ /\ Head(queue).key \in Keys /\ ~Head(queue).force /\ ~Recent(Head(queue).key, now)
               /\ lastSent' = Marked(Head(queue).key, now) /\ thread' = "publish"
               /\ item' = Entry(Head(queue), now) /\ skipped' = skipped
            \/ /\ Head(queue).key \in Keys /\ Head(queue).force
               /\ thread' = "publish" /\ item' = Entry(Head(queue), now)
               /\ UNCHANGED <<lastSent, skipped>>
<1>1. PICK it : it = Head(queue)
  OBVIOUS
<1>2. /\ thread = "pop" /\ queue # <<>> /\ queue' = Popped(queue) /\ log' = log
      /\ now' = now /\ count' = count
  BY DEF Take
<1>3. \/ /\ it.key = NoText /\ thread' = "loop" /\ UNCHANGED <<item, lastSent, skipped>>
      \/ /\ it.key \in Keys /\ ~it.force /\ lastSent' = Marked(it.key, now)
         /\ IF Recent(it.key, now)
            THEN skipped' = skipped \cup {Entry(it, now)} /\ thread' = "loop" /\ item' = item
            ELSE thread' = "publish" /\ item' = Entry(it, now) /\ skipped' = skipped
      \/ /\ it.key \in Keys /\ it.force
         /\ thread' = "publish" /\ item' = Entry(it, now) /\ UNCHANGED <<lastSent, skipped>>
  BY <1>1 DEF Take
<1>4. it.key \in Keys /\ Recent(it.key, now) => Marked(it.key, now) = Pruned(now)
  BY DEF Marked
<1> QED BY <1>1, <1>2, <1>3, <1>4

\* The item a Take makes of the head of the queue.
LEMMA HeadEntry ==
  ASSUME TypeOK, queue # <<>>, Head(queue).key \in Keys
  PROVE  /\ Entry(Head(queue), now) \in Entries
         /\ Entry(Head(queue), now).id = Head(queue).id
         /\ Entry(Head(queue), now).key = Head(queue).key
         /\ Entry(Head(queue), now).force = Head(queue).force
         /\ Entry(Head(queue), now).at = now
<1>1. queue \in Seq(Items) /\ now \in 0..MaxTime
  BY DEF TypeOK
<1>2. Head(queue) \in Items
  BY <1>1, PopShifts
<1> QED BY <1>1, <1>2 DEF Items, Entry, Entries

\* An entry is not the empty item: its key is a plate.
LEMMA EntryIsItem ==
  ASSUME NEW e \in Entries PROVE e # NoItem
BY DEF Entries, NoItem

LEMMA ShapeStep ==
  ASSUME Shape, [Next]_vars PROVE Shape'
<1> USE DEF Shape
<1>1. CASE Tick
  <2>1. now' \in 0..MaxTime
    BY <1>1 DEF Tick, TypeOK
  <2> QED BY <1>1, <2>1 DEF Tick, TypeOK, Control, Entries
<1>2. CASE Start
  BY <1>2 DEF Start, TypeOK, Control
<1>3. CASE Loop
  BY <1>3 DEF Loop, TypeOK, Control
<1>4. CASE Take
  <2>1. /\ queue' \in Seq(Items)
    BY <1>4, TakeFacts, PopShifts DEF TypeOK
  <2>2. lastSent' \in [Keys -> {Never} \cup 0..MaxTime]
    BY <1>4, TakeFacts, PruneFacts DEF TypeOK
  <2>3. skipped' \subseteq Entries
    BY <1>4, TakeFacts, HeadEntry DEF TypeOK
  <2>4. /\ item' \in Entries \cup {NoItem} /\ (thread' = "publish") = (item' # NoItem)
        /\ thread' \in {"loop", "publish"}
    BY <1>4, TakeFacts, HeadEntry, EntryIsItem DEF TypeOK
  <2> QED BY <1>4, <2>1, <2>2, <2>3, <2>4 DEF Take, TypeOK, Control
<1>5. CASE Publish
  <2>1. item \in Entries
    BY <1>5, EntryIsItem DEF Publish, TypeOK
  <2>2. log' \in Seq(Entries)
    BY <1>5, <2>1, AppendAdds DEF Publish, TypeOK
  <2> QED BY <1>5, <2>2 DEF Publish, TypeOK, Control
<1>6. CASE Leave
  BY <1>6 DEF Leave, ItemOrClosed, TypeOK, Control
<1>7. CASE \E k \in Keys \cup {NoText}, f \in BOOLEAN : Send(k, f)
  <2>1. PICK k \in Keys \cup {NoText}, f \in BOOLEAN : Send(k, f)
    BY <1>7
  <2>2. [id |-> count + 1, key |-> k, force |-> f] \in Items /\ count' \in 0..MaxItems
    BY <2>1 DEF Send, TypeOK, Items
  <2>3. queue' \in Seq(Items)
    BY <2>1, <2>2, PushAppends, AppendAdds DEF Send, TypeOK
  <2> QED BY <2>1, <2>2, <2>3 DEF Send, TypeOK, Control
<1>8. CASE StopDetection
  BY <1>8 DEF StopDetection, TypeOK, Control
<1>9. CASE StopFlag
  BY <1>9 DEF StopFlag, TypeOK, Control
<1>10. CASE StopClose
  BY <1>10 DEF StopClose, Closing, TypeOK, Control
<1>11. CASE StopTransport
  BY <1>11 DEF StopTransport, Joined, TypeOK, Control
<1>12. CASE UNCHANGED vars
  BY <1>12 DEF vars, TypeOK, Control
<1> QED BY <1>1, <1>2, <1>3, <1>4, <1>5, <1>6, <1>7, <1>8, <1>9, <1>10, <1>11, <1>12 DEF Next

\* Steps that touch neither the queue, the map nor the log.
Aside ==
    /\ UNCHANGED <<queue, item, lastSent, count, log, skipped>>
    /\ thread' = "publish" => thread = "publish"
    /\ thread = "publish" => thread' = "publish"
    /\ now' \in Nat /\ now' >= now

LEMMA StepKinds ==
  ASSUME Shape, [Next]_vars
  PROVE  \/ Aside \/ Take \/ Publish
         \/ (\E k \in Keys \cup {NoText}, f \in BOOLEAN : Send(k, f))
<1>1. now \in Nat
  BY DEF Shape, TypeOK
<1>2. CASE Tick
  BY <1>1, <1>2 DEF Tick, Aside
<1>3. CASE Start
  BY <1>1, <1>3 DEF Start, Aside, Shape, Control
<1>4. CASE Loop \/ Leave
  BY <1>1, <1>4 DEF Loop, Leave, Aside
<1>5. CASE StopDetection \/ StopFlag \/ StopClose \/ StopTransport
  BY <1>1, <1>5 DEF StopDetection, StopFlag, StopClose, StopTransport, Aside
<1>6. CASE UNCHANGED vars
  BY <1>1, <1>6 DEF vars, Aside
<1> QED BY <1>2, <1>3, <1>4, <1>5, <1>6 DEF Next

-------------------------------------------------------------------------------
(* The sender: order                                                         *)

LEMMA Elements ==
  ASSUME TypeOK
  PROVE  /\ queue \in Seq(Items) /\ log \in Seq(Entries) /\ Len(queue) \in Nat /\ Len(log) \in Nat
         /\ \A i \in 1..Len(queue) : queue[i] \in Items /\ queue[i].id \in Int
         /\ \A i \in 1..Len(log) : /\ log[i] \in Entries /\ log[i].id \in Int
                                   /\ log[i].at \in Int /\ log[i].key \in Keys
         /\ thread = "publish" => /\ item \in Entries /\ item.id \in Int
                                  /\ item.at \in Int /\ item.key \in Keys
<1>1. queue \in Seq(Items) /\ log \in Seq(Entries)
  BY DEF TypeOK
<1>2. \A i \in 1..Len(queue) : queue[i] \in Items
  BY <1>1
<1>3. \A i \in 1..Len(log) : log[i] \in Entries
  BY <1>1
<1>4. thread = "publish" => item \in Entries
  BY DEF TypeOK
<1>5. \A e \in Entries : e.id \in Int /\ e.at \in Int /\ e.key \in Keys
  BY DEF Entries
<1>6. \A e \in Items : e.id \in Int
  BY DEF Items
<1> QED BY <1>1, <1>2, <1>3, <1>4, <1>5, <1>6

LEMMA OrderedStep ==
  ASSUME Shape, Ordered, [Next]_vars PROVE Ordered'
<1> USE DEF Shape
<1>1. CASE Aside
  BY <1>1 DEF Aside, Ordered, SentInOrder
<1>2. CASE Take
  <2>1. /\ Head(queue) = queue[1] /\ 1 \in 1..Len(queue) /\ thread = "pop"
        /\ Len(queue') = Len(queue) - 1 /\ Len(queue) \in Nat
        /\ \A i \in 1..Len(queue') : queue'[i] = queue[i + 1] /\ i + 1 \in 1..Len(queue)
        /\ log' = log /\ count' = count
    BY <1>2, TakeFacts, PopShifts, Elements
  <2>2. thread' = "publish" => item'.id = queue[1].id
    BY <1>2, <2>1, TakeFacts, HeadEntry
  <2>3. \A i \in 1..Len(queue') : queue[1].id < queue'[i].id
    BY <2>1 DEF Ordered
  <2>4. /\ \A i \in 1..Len(queue') : queue'[i].id <= count'
        /\ \A i \in 1..Len(log), j \in 1..Len(queue') : log[i].id < queue'[j].id
    BY <2>1 DEF Ordered
  <2>5. \A i, j \in 1..Len(queue') : i < j => queue'[i].id < queue'[j].id
    <3>1. \A i, j \in 1..Len(queue) : i < j => queue[i].id < queue[j].id
      BY DEF Ordered
    <3>2. \A i, j \in 1..Len(queue') : i < j => i + 1 < j + 1
      BY ONLY <2>1
    <3> QED BY ONLY <2>1, <3>1, <3>2
  <2>6. queue[1].id <= count /\ \A i \in 1..Len(log) : log[i].id < queue[1].id
    BY <2>1 DEF Ordered
  <2>7. /\ \A i \in 1..Len(log') : log'[i].id <= count'
        /\ SentInOrder'
    BY <2>1 DEF Ordered, SentInOrder
  <2> QED BY <2>1, <2>2, <2>3, <2>4, <2>5, <2>6, <2>7 DEF Ordered
<1>3. CASE Publish
  <2>1. /\ thread = "publish" /\ thread' = "loop" /\ queue' = queue /\ count' = count
        /\ log' = log \/ log' = Append(log, item)
    BY <1>3 DEF Publish
  <2>2. CASE log' = log
    BY <2>1, <2>2 DEF Ordered, SentInOrder
  <2>3. CASE log' = Append(log, item)
    <3>1. /\ Len(log') = Len(log) + 1 /\ Len(log) \in Nat
          /\ \A i \in 1..Len(log) : log'[i] = log[i]
          /\ log'[Len(log) + 1] = item
          /\ \A i \in 1..Len(log') : i \in 1..Len(log) \/ i = Len(log) + 1
      BY <2>1, <2>3, Elements, AppendAdds
    <3>2. \A i \in 1..Len(log') : log'[i].id <= count
      BY <2>1, <3>1 DEF Ordered
    <3>3. \A i \in 1..Len(log'), j \in 1..Len(queue) : log'[i].id < queue[j].id
      BY <2>1, <3>1 DEF Ordered
    <3>4. \A i, j \in 1..Len(log') : i < j => log'[i].id < log'[j].id
      BY <2>1, <3>1 DEF Ordered, SentInOrder
    <3> QED BY <2>1, <3>2, <3>3, <3>4 DEF Ordered, SentInOrder
  <2> QED BY <2>1, <2>2, <2>3
<1>4. CASE \E k \in Keys \cup {NoText}, f \in BOOLEAN : Send(k, f)
  <2>1. PICK k \in Keys \cup {NoText}, f \in BOOLEAN : Send(k, f)
    BY <1>4
  <2> DEFINE new == [id |-> count + 1, key |-> k, force |-> f]
  <2>2. /\ queue' = Append(queue, new) /\ count' = count + 1 /\ count \in Nat
        /\ log' = log /\ item' = item /\ thread' = thread
    BY <2>1, PushAppends DEF Send, TypeOK
  <2>3. new.id = count + 1 /\ new \in Items
    BY <2>1 DEF Send, TypeOK, Items
  <2>4. /\ Len(queue') = Len(queue) + 1 /\ Len(queue) \in Nat
        /\ \A i \in 1..Len(queue) : queue'[i] = queue[i]
        /\ queue'[Len(queue) + 1] = new
        /\ \A i \in 1..Len(queue') : i \in 1..Len(queue) \/ i = Len(queue) + 1
    <3> HIDE DEF new
    <3> QED BY <2>2, <2>3, Elements, AppendAdds
  <2> HIDE DEF new
  <2>5. \A i \in 1..Len(queue') : queue'[i].id <= count'
    BY <2>2, <2>3, <2>4, Elements DEF Ordered
  <2>6. \A i, j \in 1..Len(queue') : i < j => queue'[i].id < queue'[j].id
    BY <2>2, <2>3, <2>4, Elements DEF Ordered
  <2>7. thread = "publish" =>
          item.id <= count' /\ \A j \in 1..Len(queue') : item.id < queue'[j].id
    BY <2>2, <2>3, <2>4, Elements DEF Ordered
  <2>8. \A i \in 1..Len(log) :
          log[i].id <= count' /\ \A j \in 1..Len(queue') : log[i].id < queue'[j].id
    BY <2>2, <2>3, <2>4, Elements DEF Ordered
  <2> QED BY <2>2, <2>5, <2>6, <2>7, <2>8 DEF Ordered, SentInOrder
<1> QED BY <1>1, <1>2, <1>3, <1>4, StepKinds

-------------------------------------------------------------------------------
(* The sender: time                                                          *)

LEMMA RememberedStep ==
  ASSUME Shape, Remembered, [Next]_vars PROVE Remembered'
<1> USE DEF Shape
<1>0. now \in Nat /\ \A k \in Keys : lastSent[k] \in Int
  BY DEF TypeOK, Never
<1>1. CASE Aside
  <2>1. now' \in Nat /\ now' >= now /\ lastSent' = lastSent /\ log' = log /\ item' = item
    BY <1>1 DEF Aside
  <2>2. \A k \in Keys : lastSent[k] <= now'
    BY <1>0, <2>1 DEF Remembered
  <2>3. \A i \in 1..Len(log) :
          /\ log[i].at <= now'
          /\ ~log[i].force /\ now' - log[i].at < Cooldown => lastSent[log[i].key] >= log[i].at
    BY <1>0, <2>1, Elements DEF Remembered
  <2>4. thread = "publish" =>
          /\ item.at <= now'
          /\ ~item.force /\ now' - item.at < Cooldown => lastSent[item.key] >= item.at
    BY <1>0, <2>1, Elements DEF Remembered
  <2>5. thread' = "publish" => thread = "publish"
    BY <1>1 DEF Aside
  <2> QED BY <2>1, <2>2, <2>3, <2>4, <2>5 DEF Remembered
<1>2. CASE Take
  <2>1. thread = "pop" /\ log' = log /\ now' = now
    BY <1>2, TakeFacts
  <2>2. \A k \in Keys : lastSent'[k] <= now
    <3>1. lastSent' = lastSent \/ lastSent' = Pruned(now)
          \/ (Head(queue).key \in Keys /\ ~Recent(Head(queue).key, now)
              /\ lastSent' = Marked(Head(queue).key, now))
      BY <1>2, TakeFacts
    <3>2. \A k \in Keys : Pruned(now)[k] <= now
      BY <1>0, PruneFacts DEF Remembered, Never
    <3> QED BY <1>0, <3>1, <3>2, PruneFacts DEF Remembered
  <2>3. \A k \in Keys : now - lastSent[k] < Cooldown /\ lastSent[k] >= 0 => lastSent'[k] >= lastSent[k]
    <3> SUFFICES ASSUME NEW k \in Keys, now - lastSent[k] < Cooldown, lastSent[k] >= 0
                 PROVE  lastSent'[k] >= lastSent[k]
      OBVIOUS
    <3>1. Pruned(now)[k] = lastSent[k]
      BY <1>0, PruneFacts DEF Never
    <3>2. lastSent[k] <= now
      BY DEF Remembered
    <3>3. CASE lastSent' = lastSent \/ lastSent' = Pruned(now)
      BY <1>0, <3>1, <3>3
    <3>4. CASE /\ Head(queue).key \in Keys /\ ~Recent(Head(queue).key, now)
               /\ lastSent' = Marked(Head(queue).key, now)
      BY <1>0, <3>1, <3>2, <3>4, PruneFacts
    <3> QED BY <1>2, <3>3, <3>4, TakeFacts
  <2>4. \A i \in 1..Len(log) :
          ~log[i].force /\ now - log[i].at < Cooldown => lastSent'[log[i].key] >= log[i].at
    <3> SUFFICES ASSUME NEW i \in 1..Len(log), ~log[i].force, now - log[i].at < Cooldown
                 PROVE  lastSent'[log[i].key] >= log[i].at
      OBVIOUS
    <3> DEFINE k == log[i].key
    <3>1. k \in Keys /\ log[i].at \in Nat
      BY Elements DEF Entries
    <3>2. lastSent[k] >= log[i].at
      BY DEF Remembered
    <3>3. lastSent'[k] >= lastSent[k]
      BY <1>0, <2>3, <3>1, <3>2
    <3>4. lastSent'[k] \in Int
      <4>1. lastSent' \in [Keys -> {Never} \cup 0..MaxTime]
        BY ShapeStep DEF TypeOK
      <4> QED BY <3>1, <4>1 DEF Never
    <3> QED BY <1>0, <3>1, <3>2, <3>3, <3>4
  <2>5. thread' = "publish" => /\ item'.at = now
                               /\ ~item'.force => lastSent'[item'.key] = now
    <3>1. CASE /\ Head(queue).key \in Keys /\ ~Head(queue).force
               /\ ~Recent(Head(queue).key, now)
               /\ lastSent' = Marked(Head(queue).key, now)
               /\ item' = Entry(Head(queue), now)
      BY <1>2, <3>1, TakeFacts, HeadEntry, PruneFacts
    <3>2. CASE /\ Head(queue).key \in Keys /\ Head(queue).force
               /\ item' = Entry(Head(queue), now)
      BY <1>2, <3>2, TakeFacts, HeadEntry
    <3> QED BY <1>2, <3>1, <3>2, TakeFacts
  <2> QED BY <1>0, <2>1, <2>2, <2>4, <2>5 DEF Remembered
<1>3. CASE Publish
  <2>1. /\ thread = "publish" /\ thread' = "loop" /\ now' = now /\ lastSent' = lastSent
        /\ log' = log \/ log' = Append(log, item)
    BY <1>3 DEF Publish
  <2>2. CASE log' = log
    BY <2>1, <2>2 DEF Remembered
  <2>3. CASE log' = Append(log, item)
    <3>1. /\ \A i \in 1..Len(log) : log'[i] = log[i]
          /\ log'[Len(log) + 1] = item
          /\ \A i \in 1..Len(log') : i \in 1..Len(log) \/ i = Len(log) + 1
      BY <2>1, <2>3, Elements, AppendAdds
    <3>2. \A i \in 1..Len(log') :
            /\ log'[i].at <= now
            /\ ~log'[i].force /\ now - log'[i].at < Cooldown
                 => lastSent[log'[i].key] >= log'[i].at
      BY <2>1, <3>1 DEF Remembered
    <3> QED BY <2>1, <3>2 DEF Remembered
  <2> QED BY <2>1, <2>2, <2>3
<1>4. CASE \E k \in Keys \cup {NoText}, f \in BOOLEAN : Send(k, f)
  BY <1>4 DEF Send, Remembered
<1> QED BY <1>1, <1>2, <1>3, <1>4, StepKinds

LEMMA ApartStep ==
  ASSUME Shape, Remembered, Apart, [Next]_vars PROVE Apart'
<1> USE DEF Shape
<1>1. CASE Aside
  BY <1>1 DEF Aside, Apart, NoRepeatInCooldown
<1>2. CASE Take
  <2>1. thread = "pop" /\ log' = log
    BY <1>2, TakeFacts
  <2>2. SUFFICES ASSUME thread' = "publish", ~item'.force, NEW i \in 1..Len(log),
                        log[i].key = item'.key, ~log[i].force
                 PROVE  item'.at - log[i].at >= Cooldown
    BY <2>1 DEF Apart, NoRepeatInCooldown
  <2>3. /\ queue # <<>> /\ Head(queue).key \in Keys /\ item' = Entry(Head(queue), now)
        /\ Head(queue).force \/ ~Recent(Head(queue).key, now)
    BY <1>2, <2>2, TakeFacts
  <2>4. item'.at = now /\ item'.key = Head(queue).key /\ ~Head(queue).force
    BY <2>2, <2>3, HeadEntry
  <2> QED BY <2>2, <2>3, <2>4, NotRecent
<1>3. CASE Publish
  <2>1. /\ thread = "publish" /\ thread' = "loop"
        /\ log' = log \/ log' = Append(log, item)
    BY <1>3 DEF Publish
  <2>2. CASE log' = log
    BY <2>1, <2>2 DEF Apart, NoRepeatInCooldown
  <2>3. CASE log' = Append(log, item)
    <3>1. /\ \A i \in 1..Len(log) : log'[i] = log[i]
          /\ log'[Len(log) + 1] = item /\ Len(log) \in Nat
          /\ \A i \in 1..Len(log') : i \in 1..Len(log) \/ i = Len(log) + 1
      BY <2>1, <2>3, Elements, AppendAdds
    <3>2. SUFFICES ASSUME NEW i \in 1..Len(log'), NEW j \in 1..Len(log'), i < j,
                          log'[i].key = log'[j].key, ~log'[i].force, ~log'[j].force
                   PROVE  log'[j].at - log'[i].at >= Cooldown
      BY <2>1 DEF Apart, NoRepeatInCooldown
    <3>3. i \in 1..Len(log)
      BY <3>1, <3>2
    <3>4. CASE j \in 1..Len(log)
      BY <3>1, <3>2, <3>3, <3>4 DEF Apart, NoRepeatInCooldown
    <3>5. CASE j = Len(log) + 1
      BY <2>1, <3>1, <3>2, <3>3, <3>5 DEF Apart
    <3> QED BY <3>1, <3>4, <3>5
  <2> QED BY <2>1, <2>2, <2>3
<1>4. CASE \E k \in Keys \cup {NoText}, f \in BOOLEAN : Send(k, f)
  BY <1>4 DEF Send, Apart, NoRepeatInCooldown
<1> QED BY <1>1, <1>2, <1>3, <1>4, StepKinds

-------------------------------------------------------------------------------
(* The sender: the map and the log                                           *)

\* The log only grows, so what was sent stays sent.
LEMMA SentStays ==
  ASSUME Shape, [Next]_vars, NEW k, NEW t, SentAt(k, t) PROVE SentAt(k, t)'
<1>1. CASE log' = log
  BY <1>1 DEF SentAt
<1>2. CASE Publish /\ log' = Append(log, item)
  <2>1. thread = "publish"
    BY <1>2 DEF Publish
  <2>2. \A i \in 1..Len(log) : log'[i] = log[i] /\ i \in 1..Len(log')
    BY <1>2, <2>1, Elements, AppendAdds DEF Shape
  <2> QED BY <2>2 DEF SentAt
<1>3. Aside \/ Take \/ (\E l \in Keys \cup {NoText}, f \in BOOLEAN : Send(l, f)) => log' = log
  BY DEF Aside, Take, Send
<1>4. Publish => log' = log \/ log' = Append(log, item)
  BY DEF Publish
<1> QED BY <1>1, <1>2, <1>3, <1>4, StepKinds

LEMMA AccountedStep ==
  ASSUME Shape, Accounted, [Next]_vars PROVE Accounted'
<1> USE DEF Shape
<1>1. CASE Aside
  BY <1>1, SentStays DEF Aside, Accounted
<1>2. CASE Take
  <2>1. thread = "pop" /\ log' = log
    BY <1>2, TakeFacts
  <2>2. SUFFICES ASSUME NEW k \in Keys, lastSent'[k] # Never
                 PROVE  \/ SentAt(k, lastSent'[k])
                        \/ /\ thread' = "publish" /\ item'.key = k /\ ~item'.force
                           /\ item'.at = lastSent'[k]
    BY <2>1 DEF Accounted, SentAt
  <2>3. lastSent[k] # Never => SentAt(k, lastSent[k])
    BY <2>1 DEF Accounted
  <2>4. CASE lastSent' = lastSent \/ lastSent' = Pruned(now)
    BY <2>2, <2>3, <2>4, PruneFacts
  <2>5. CASE /\ Head(queue).key \in Keys /\ ~Head(queue).force
             /\ ~Recent(Head(queue).key, now) /\ lastSent' = Marked(Head(queue).key, now)
             /\ thread' = "publish" /\ item' = Entry(Head(queue), now)
    <3>1. CASE Head(queue).key = k
      BY <1>2, <2>5, <3>1, TakeFacts, HeadEntry, PruneFacts
    <3>2. CASE Head(queue).key # k
      <4>1. lastSent'[k] = Pruned(now)[k]
        BY <2>5, <3>2, PruneFacts
      <4> QED BY <2>2, <2>3, <4>1, PruneFacts
    <3> QED BY <3>1, <3>2
  <2> QED BY <1>2, <2>4, <2>5, TakeFacts
<1>3. CASE Publish
  <2>1. thread = "publish" /\ lastSent' = lastSent /\ transport
    BY <1>3 DEF Publish, Control
  <2>2. log' = Append(log, item)
    BY <1>3, <2>1 DEF Publish
  <2>3. log'[Len(log) + 1] = item /\ Len(log) + 1 \in 1..Len(log')
    BY <2>1, <2>2, Elements, AppendAdds
  <2>4. SUFFICES ASSUME NEW k \in Keys, lastSent[k] # Never PROVE SentAt(k, lastSent[k])'
    BY <2>1 DEF Accounted
  <2>5. CASE SentAt(k, lastSent[k])
    BY <2>1, <2>5, SentStays
  <2>6. CASE item.key = k /\ ~item.force /\ item.at = lastSent[k]
    BY <2>1, <2>3, <2>6 DEF SentAt
  <2> QED BY <2>4, <2>5, <2>6 DEF Accounted
<1>4. CASE \E k \in Keys \cup {NoText}, f \in BOOLEAN : Send(k, f)
  BY <1>4 DEF Send, Accounted, SentAt
<1> QED BY <1>1, <1>2, <1>3, <1>4, StepKinds

LEMMA SuppressedStep ==
  ASSUME Shape, Ordered, Accounted, SuppressedWasSent, [Next]_vars PROVE SuppressedWasSent'
<1> USE DEF Shape
<1>1. ASSUME skipped' = skipped,
             \A i \in 1..Len(log) : log'[i] = log[i] /\ i \in 1..Len(log')
      PROVE  SuppressedWasSent'
  BY <1>1 DEF SuppressedWasSent
<1>2. CASE Aside
  BY <1>2, <1>1 DEF Aside
<1>3. CASE Take
  <2>1. thread = "pop" /\ log' = log
    BY <1>3, TakeFacts
  <2>2. CASE skipped' = skipped
    BY <1>1, <2>1, <2>2
  <2>3. CASE /\ Head(queue).key \in Keys /\ ~Head(queue).force /\ Recent(Head(queue).key, now)
             /\ skipped' = skipped \cup {Entry(Head(queue), now)}
    <3> DEFINE e == Entry(Head(queue), now)
    <3>1. /\ e.id = Head(queue).id /\ e.key = Head(queue).key
          /\ e.force = Head(queue).force /\ e.at = now
      BY <1>3, <2>3, TakeFacts, HeadEntry
    <3>2. Head(queue) = queue[1] /\ 1 \in 1..Len(queue)
      BY <1>3, TakeFacts, Elements, PopShifts
    <3>3. /\ lastSent[e.key] # Never /\ now - lastSent[e.key] < Cooldown
      BY <2>3, <3>1, PruneFacts DEF Recent
    <3>4. PICK i \in 1..Len(log) :
            log[i].key = e.key /\ ~log[i].force /\ log[i].at = lastSent[e.key]
      BY <2>1, <2>3, <3>1, <3>3 DEF Accounted, SentAt
    <3>5. log[i].id < e.id
      BY <3>1, <3>2 DEF Ordered
    <3>6. /\ ~e.force
          /\ \E l \in 1..Len(log) : /\ log[l].key = e.key /\ ~log[l].force
                                    /\ log[l].id < e.id /\ e.at - log[l].at < Cooldown
      BY <2>3, <3>1, <3>3, <3>4, <3>5
    <3> HIDE DEF e
    <3> QED BY <2>1, <2>3, <3>6 DEF SuppressedWasSent, e
  <2> QED BY <1>3, <2>2, <2>3, TakeFacts
<1>4. CASE Publish
  <2>1. thread = "publish" /\ skipped' = skipped /\ (log' = log \/ log' = Append(log, item))
    BY <1>4 DEF Publish
  <2>2. \A i \in 1..Len(log) : log'[i] = log[i] /\ i \in 1..Len(log')
    BY <2>1, Elements, AppendAdds
  <2> QED BY <1>1, <2>1, <2>2
<1>5. CASE \E k \in Keys \cup {NoText}, f \in BOOLEAN : Send(k, f)
  BY <1>5, <1>1 DEF Send
<1> QED BY <1>2, <1>3, <1>4, <1>5, StepKinds

-------------------------------------------------------------------------------
(* The sender: the theorems                                                  *)

LEMMA InvInit ==
  ASSUME Init PROVE IInv
<1>1. Shape
  BY ShapeInit
<1>2. Ordered /\ Apart /\ SuppressedWasSent
  BY DEF Init, Ordered, SentInOrder, Apart, NoRepeatInCooldown, SuppressedWasSent
<1>3. Remembered /\ Accounted
  BY DEF Init, Remembered, Accounted, Never
<1> QED BY <1>1, <1>2, <1>3 DEF IInv

LEMMA InvStep ==
  ASSUME IInv, [Next]_vars PROVE IInv'
BY ShapeStep, OrderedStep, RememberedStep, ApartStep, AccountedStep, SuppressedStep DEF IInv

\* The invariant holds in every state of every behaviour.
THEOREM Invariance == Spec => []IInv
BY InvInit, InvStep, PTL DEF Spec

\* The sender's variables keep to their ranges (PlateSender).
THEOREM TypeCorrect == Spec => []TypeOK
<1>1. IInv => TypeOK
  BY DEF IInv, Shape
<1> QED BY <1>1, Invariance, PTL

\* Plates leave in the order they were handed over, each at most once (run).
THEOREM InOrder == Spec => []SentInOrder
<1>1. IInv => SentInOrder
  BY DEF IInv, Ordered
<1> QED BY <1>1, Invariance, PTL

\* Two ordinary messages of one plate at one gate are a cooldown apart
\* (cooldownPasses).
THEOREM CooldownKept == Spec => []NoRepeatInCooldown
<1>1. IInv => NoRepeatInCooldown
  BY DEF IInv, Apart
<1> QED BY <1>1, Invariance, PTL

\* A plate is suppressed only for a message that went out (run, cooldownPasses,
\* Application::stop).
THEOREM SuppressedSafely == Spec => []SuppressedWasSent
<1>1. IInv => SuppressedWasSent
  BY DEF IInv
<1> QED BY <1>1, Invariance, PTL
===============================================================================
