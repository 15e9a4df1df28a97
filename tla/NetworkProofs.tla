---------------------------- MODULE NetworkProofs ----------------------------
(***************************************************************************)
(* Theorems about the network console: its monitor (NetworkProfile) and    *)
(* its traffic (TrafficCounters).                                          *)
(*                                                                         *)
(* Those of the monitor rest on what a category read between a SELECT and  *)
(* a COMMIT may still be: only an operator changes a category that is      *)
(* stored, so a stale one means that an operator was told something        *)
(* (StaleIsChosen).                                                        *)
(*                                                                         *)
(* That no traffic is invented rests on what a reading has to do with the  *)
(* sockets of later: of the bytes moved before it, they still count at     *)
(* most what it counted, because a socket that closes takes its bytes      *)
(* with it (PastReading).  So of two readings the younger counts at most   *)
(* what moved in between (Follows).                                        *)
(***************************************************************************)
EXTENDS NetworkProfile, TrafficCounters, FiniteSetTheorems, TLAPS

SweepType == [pc : SweepPc, at : Sighting, known : Category]
TabType == [pc : {"idle", "select", "commit"}, key : Key \cup {NoKey}, known : Category,
            category : VALID_CATEGORIES]

\* Under way with a network that was seen.
SeenKeys ==
  /\ sweep.pc # "idle" => sweep.at.key \in Key /\ Shows(sweep.at.at, sweep.at.key)
  /\ \A t \in Tab : tab[t].pc # "idle" => tab[t].key \in Key

NetworkInv == NetworkTypeOK /\ SeenKeys

\* Of a row read between SELECT and COMMIT: it is as read, or an operator
\* changed it.
StaleIsChosen ==
  /\ sweep.pc = "commit" /\ sweep.known # "none" /\ profiles[sweep.at.key] # sweep.known
       => chosen[sweep.at.key] # {}
  /\ \A t \in Tab :
       tab[t].pc = "commit" /\ tab[t].known # "none" /\ profiles[tab[t].key] # tab[t].known
         => chosen[tab[t].key] # {}

\* The key handed back, or about to be, has its row.
NotedIsStored ==
  /\ previous # NoKey => profiles[previous] # "none"
  /\ sweep.pc = "publish" => profiles[sweep.at.key] # "none"

\* NotedIsNudged, with a sweep under way too.
AlwaysNudged ==
  previous # NoKey /\ profiles[previous] = "public" /\ chosen[previous] = {} =>
    Shows(nudged, previous)

MonitorInv == StaleIsChosen /\ NotedIsStored /\ AlwaysNudged /\ CategoryIsOperators

LEMMA NoTypes == NoSweep \in SweepType /\ NoTab \in TabType /\ NoSweep.pc = "idle" /\ NoTab.pc = "idle"
<1>1. NoKey \in Key \cup {NoKey} /\ NoSighting \in Sighting
  BY DEF NoSighting, Sighting, VALID_CATEGORIES, Where
<1>2. NoSweep \in SweepType
  BY <1>1 DEF NoSweep, SweepType, SweepPc, Category
<1>3. NoTab \in TabType
  BY <1>1 DEF NoTab, TabType, Category, VALID_CATEGORIES
<1> QED
  BY <1>2, <1>3 DEF NoSweep, NoTab

\* What a detection reports is a network, whichever tool reports it.
LEMMA SeenType ==
  ASSUME NetworkTypeOK, NEW link \in Links, NEW seen \in detect_current_network(link),
         seen # NoSighting
  PROVE  seen \in Sighting /\ seen.key \in Key /\ Shows(seen.at, seen.key)
<1>1. platform.nla \in VALID_CATEGORIES /\ platform.os \in {"Darwin", "Linux", "Windows"}
  BY DEF NetworkTypeOK, Platform, VALID_CATEGORIES
<1>2. link.wifi \in Where /\ link.wired \in Where
  BY LinksAssumption
<1>3. ASSUME NEW id \in IdKind, NEW wifi \in BOOLEAN, NEW at \in Where,
             NEW default \in VALID_CATEGORIES, seen \in See(id, wifi, at, default)
      PROVE  seen \in Sighting /\ seen.key \in Key /\ Shows(seen.at, seen.key)
  <2>1. PICK name \in IF at = NoPlace THEN {} ELSE Names[id][at] :
          seen = [key |-> [id |-> id, wifi |-> wifi, name |-> name], at |-> at, default |-> default]
    BY <1>3 DEF See
  <2>2. at \in Place /\ name \in Names[id][at]
    BY <1>3, <2>1 DEF Where
  <2>3. name \in Name
    BY <2>2, LinksAssumption
  <2>4. /\ seen.at = at /\ seen.key = [id |-> id, wifi |-> wifi, name |-> name]
        /\ seen.key.id = id /\ seen.key.name = name /\ seen.default = default
    BY <2>1
  <2>5. seen.key \in Key
    BY <2>3, <2>4 DEF Key
  <2>6. seen \in Sighting
    BY <2>1, <2>4, <2>5 DEF Sighting
  <2> QED
    BY <2>2, <2>4, <2>5, <2>6 DEF Shows
<1>4. "public" \in VALID_CATEGORIES /\ {"ssid", "gateway_ip", "connection_uuid", "os_profile"} \subseteq IdKind
  BY DEF VALID_CATEGORIES, IdKind
<1>5. CASE seen \in _macos_detect_current_network(link)
  <2>1. \/ seen \in See("ssid", TRUE, link.wifi, "public")
        \/ seen \in See("gateway_ip", TRUE, link.wifi, "public")
        \/ seen \in See("gateway_ip", FALSE, link.wired, "public")
    BY <1>5 DEF _macos_detect_current_network
  <2> QED
    BY <1>2, <1>3, <1>4, <2>1
<1>6. CASE seen \in _linux_detect_current_network(link)
  <2>1. \/ seen \in See("connection_uuid", TRUE, link.wifi, "public")
        \/ seen \in See("connection_uuid", TRUE, link.wired, "public")
    BY <1>6 DEF _linux_detect_current_network
  <2> QED
    BY <1>2, <1>3, <1>4, <2>1
<1>7. CASE seen \in _windows_detect_current_network(link)
  <2>1. \/ seen \in See("os_profile", TRUE, link.wifi, platform.nla)
        \/ seen \in See("os_profile", TRUE, link.wired, platform.nla)
    BY <1>7 DEF _windows_detect_current_network
  <2> QED
    BY <1>1, <1>2, <1>3, <1>4, <2>1
<1>8. seen \in _detect_for_current_platform(link)
  BY DEF detect_current_network
<1> QED
  BY <1>1, <1>5, <1>6, <1>7, <1>8 DEF _detect_for_current_platform

LEMMA NetworkInitInv == NetworkInit => NetworkInv /\ MonitorInv
<1> SUFFICES ASSUME NetworkInit PROVE NetworkInv /\ MonitorInv
  OBVIOUS
<1>1. sweep \in SweepType /\ sweep.pc = "idle" /\ tab \in [Tab -> TabType]
      /\ \A t \in Tab : tab[t].pc = "idle"
  BY NoTypes DEF NetworkInit
<1>2. /\ profiles \in [Key -> Category] /\ chosen \in [Key -> SUBSET VALID_CATEGORIES]
      /\ \A k \in Key : profiles[k] = "none" /\ chosen[k] = {}
  BY DEF NetworkInit, Category
<1>3. NetworkInv
  BY <1>1, <1>2 DEF NetworkInit, NetworkInv, NetworkTypeOK, SeenKeys, SweepType, TabType, Where
<1>4. MonitorInv
  BY <1>1, <1>2 DEF NetworkInit, MonitorInv, StaleIsChosen, NotedIsStored, AlwaysNudged,
                    CategoryIsOperators
<1> QED
  BY <1>3, <1>4

LEMMA NetworkStep == NetworkInv /\ [NetworkNext]_networkVars => NetworkInv'
<1> SUFFICES ASSUME NetworkInv, [NetworkNext]_networkVars PROVE NetworkInv'
  OBVIOUS
<1>0. /\ platform \in Platform /\ profiles \in [Key -> Category] /\ previous \in Key \cup {NoKey}
      /\ sweep \in SweepType /\ tab \in [Tab -> TabType]
      /\ chosen \in [Key -> SUBSET VALID_CATEGORIES] /\ nudged \in Where
  BY DEF NetworkInv, NetworkTypeOK, SweepType, TabType
<1> DEFINE Typed == /\ platform' \in Platform /\ profiles' \in [Key -> Category]
                    /\ previous' \in Key \cup {NoKey}
                    /\ sweep' \in SweepType /\ tab' \in [Tab -> TabType]
                    /\ chosen' \in [Key -> SUBSET VALID_CATEGORIES] /\ nudged' \in Where
<1>t. Typed /\ SeenKeys' => NetworkInv'
  BY DEF NetworkInv, NetworkTypeOK, SweepType, TabType
<1>1. CASE SweepDetect
  <2>0. PICK link \in Links : \E seen \in detect_current_network(link) :
          IF seen = NoSighting THEN Return(NoKey) /\ nudged' = NoPlace
          ELSE /\ sweep' = [NoSweep EXCEPT !.pc = "select", !.at = seen]
               /\ UNCHANGED <<previous, nudged>>
    BY <1>1 DEF SweepDetect
  <2>1. PICK seen \in detect_current_network(link) :
          IF seen = NoSighting THEN Return(NoKey) /\ nudged' = NoPlace
          ELSE /\ sweep' = [NoSweep EXCEPT !.pc = "select", !.at = seen]
               /\ UNCHANGED <<previous, nudged>>
    BY <2>0
  <2>2. CASE seen = NoSighting
    BY <1>0, <1>1, <1>t, <2>1, <2>2, NoTypes DEF SweepDetect, Return, SeenKeys, NetworkInv, Where
  <2>3. CASE seen # NoSighting
    <3>1. seen \in Sighting /\ seen.key \in Key /\ Shows(seen.at, seen.key)
      BY <2>3, SeenType DEF NetworkInv
    <3>2. sweep' \in SweepType /\ sweep'.at = seen
      BY <2>1, <2>3, <3>1 DEF NoSweep, SweepType, SweepPc, Category
    <3> QED
      BY <1>0, <1>1, <1>t, <2>1, <2>3, <3>1, <3>2 DEF SweepDetect, SeenKeys, NetworkInv
  <2> QED
    BY <2>2, <2>3
<1>2. CASE SweepSelect
  <2>1. sweep.at.key \in Key
    BY <1>2 DEF SweepSelect, NetworkInv, SeenKeys
  <2>2. sweep' \in SweepType /\ sweep'.at = sweep.at
    BY <1>0, <1>2, <2>1 DEF SweepSelect, SweepType, SweepPc
  <2> QED
    BY <1>0, <1>2, <1>t, <2>1, <2>2 DEF SweepSelect, SeenKeys, NetworkInv
<1>3. CASE SweepCommit
  <2>1. sweep.at.key \in Key /\ sweep.at.default \in Category
    BY <1>0, <1>3 DEF SweepCommit, NetworkInv, SeenKeys, SweepType, Sighting, Category
  <2>2. profiles' \in [Key -> Category]
    BY <1>0, <1>3, <2>1 DEF SweepCommit, TouchColumns
  <2>3. CASE sweep' = [sweep EXCEPT !.pc = "publish"] /\ UNCHANGED <<previous, nudged>>
    <3>1. sweep' \in SweepType /\ sweep'.at = sweep.at
      BY <1>0, <2>3 DEF SweepType, SweepPc
    <3> QED
      BY <1>0, <1>3, <1>t, <2>1, <2>2, <2>3, <3>1 DEF SweepCommit, SeenKeys, NetworkInv
  <2>4. CASE Return(sweep.at.key) /\ nudged' = IF Arrives THEN NoPlace ELSE nudged
    <3>1. nudged' \in Where
      BY <1>0, <2>4 DEF Where
    <3> QED
      BY <1>0, <1>3, <1>t, <2>1, <2>2, <2>4, <3>1, NoTypes DEF SweepCommit, Return, SeenKeys, NetworkInv
  <2> QED
    BY <1>3, <2>3, <2>4 DEF SweepCommit
<1>4. CASE SweepPublish
  <2>1. sweep.at.at \in Where
    BY <1>0 DEF SweepType, Sighting
  <2> QED
    BY <1>0, <1>4, <1>t, <2>1, NoTypes DEF SweepPublish, Return, SeenKeys, NetworkInv
<1>5. CASE SweepFails
  BY <1>0, <1>5, <1>t, NoTypes DEF SweepFails, SeenKeys, NetworkInv
<1>6. ASSUME NEW t \in Tab, AskCategory(t) PROVE NetworkInv'
  <2>0. PICK link \in Links, c \in VALID_CATEGORIES :
          \E seen \in detect_current_network(link) \ {NoSighting} :
            tab' = [tab EXCEPT ![t] = [NoTab EXCEPT !.pc = "select", !.key = seen.key, !.category = c]]
    BY <1>6 DEF AskCategory
  <2>1. PICK seen \in detect_current_network(link) \ {NoSighting} :
          tab' = [tab EXCEPT ![t] = [NoTab EXCEPT !.pc = "select", !.key = seen.key, !.category = c]]
    BY <2>0
  <2>2. seen.key \in Key
    BY <2>1, SeenType DEF NetworkInv
  <2>3. [NoTab EXCEPT !.pc = "select", !.key = seen.key, !.category = c] \in TabType
        /\ [NoTab EXCEPT !.pc = "select", !.key = seen.key, !.category = c].key = seen.key
    BY <2>2 DEF NoTab, TabType, Category
  <2>4. tab' \in [Tab -> TabType] /\ \A u \in Tab : tab'[u].pc # "idle" => tab'[u].key \in Key
    BY <1>0, <2>1, <2>2, <2>3 DEF NetworkInv, SeenKeys
  <2> QED
    BY <1>0, <1>6, <1>t, <2>4 DEF AskCategory, SeenKeys, NetworkInv
<1>7. ASSUME NEW t \in Tab, TabSelect(t) PROVE NetworkInv'
  <2>1. tab[t].key \in Key
    BY <1>7 DEF TabSelect, NetworkInv, SeenKeys
  <2>2. tab' \in [Tab -> TabType] /\ \A u \in Tab : tab'[u].pc # "idle" => tab'[u].key \in Key
    BY <1>0, <1>7, <2>1 DEF TabSelect, TabType, NetworkInv, SeenKeys
  <2> QED
    BY <1>0, <1>7, <1>t, <2>2 DEF TabSelect, SeenKeys, NetworkInv
<1>8. ASSUME NEW t \in Tab, set_network_category(t) PROVE NetworkInv'
  <2>1. tab[t].key \in Key /\ tab[t].category \in VALID_CATEGORIES
    BY <1>0, <1>8 DEF set_network_category, NetworkInv, SeenKeys, TabType
  <2>2. profiles' \in [Key -> Category]
    BY <1>0, <1>8, <2>1 DEF set_network_category, Category
  <2>3. chosen' \in [Key -> SUBSET VALID_CATEGORIES]
    BY <1>0, <1>8, <2>1 DEF set_network_category
  <2>4. tab' \in [Tab -> TabType] /\ \A u \in Tab : tab'[u].pc # "idle" => tab'[u].key \in Key
    BY <1>0, <1>8, NoTypes DEF set_network_category, NetworkInv, SeenKeys
  <2> QED
    BY <1>0, <1>8, <1>t, <2>2, <2>3, <2>4 DEF set_network_category, SeenKeys, NetworkInv
<1>9. ASSUME NEW t \in Tab, TabFails(t) PROVE NetworkInv'
  <2>1. tab' \in [Tab -> TabType] /\ \A u \in Tab : tab'[u].pc # "idle" => tab'[u].key \in Key
    BY <1>0, <1>9, NoTypes DEF TabFails, NetworkInv, SeenKeys
  <2> QED
    BY <1>0, <1>9, <1>t, <2>1 DEF TabFails, SeenKeys, NetworkInv
<1>10. CASE MonitorEnds
  BY <1>0, <1>10, <1>t, NoTypes DEF MonitorEnds, SeenKeys, Where
<1>11. CASE UNCHANGED networkVars
  BY <1>0, <1>11, <1>t DEF networkVars, SeenKeys, NetworkInv
<1> QED
  BY <1>1, <1>2, <1>3, <1>4, <1>5, <1>6, <1>7, <1>8, <1>9, <1>10, <1>11 DEF NetworkNext

\* The sweeps, the requests and the stored categories keep their shapes.
THEOREM NetworkTypes == NetworkSpec => []NetworkTypeOK
<1>1. NetworkInit => NetworkInv
  BY NetworkInitInv
<1>2. NetworkInv /\ [NetworkNext]_networkVars => NetworkInv'
  BY NetworkStep
<1>3. NetworkInv => NetworkTypeOK
  BY DEF NetworkInv
<1> QED
  BY <1>1, <1>2, <1>3, PTL DEF NetworkSpec

(***************************************************************************)
(* The categories and the nudges.                                          *)
(***************************************************************************)

LEMMA NetworkAlways == NetworkSpec => []NetworkInv
<1>1. NetworkInit => NetworkInv
  BY NetworkInitInv
<1>2. NetworkInv /\ [NetworkNext]_networkVars => NetworkInv'
  BY NetworkStep
<1> QED
  BY <1>1, <1>2, PTL DEF NetworkSpec

\* The part of MonitorInv that is about one row.
RowInv(k, known) ==
  known # "none" /\ profiles[k] # known => chosen[k] # {}

\* A sweep stores a category only where there was none.
LEMMA CommitStores ==
  ASSUME NetworkInv, MonitorInv, SweepCommit
  PROVE  /\ sweep.at.key \in Key
         /\ \A k \in Key : profiles'[k] = profiles[k]
                         \/ /\ k = sweep.at.key /\ profiles[k] = "none" /\ sweep.known = "none"
                            /\ profiles'[k] = sweep.at.default /\ chosen[k] = {}
         /\ profiles'[sweep.at.key] # "none"
         /\ profiles'[sweep.at.key] = "public" /\ chosen[sweep.at.key] = {}
              => Touched(sweep.known, sweep.at.default) = "public"
<1>1. /\ sweep.at.key \in Key /\ sweep.pc = "commit" /\ sweep.at.default \in VALID_CATEGORIES
      /\ profiles \in [Key -> Category] /\ chosen \in [Key -> SUBSET VALID_CATEGORIES]
      /\ sweep.known \in Category
  BY DEF SweepCommit, NetworkInv, SeenKeys, NetworkTypeOK, Sighting
<1>2. CASE sweep.known = "none"
  <2>1. profiles[sweep.at.key] = "none" /\ profiles' = [profiles EXCEPT ![sweep.at.key] = sweep.at.default]
    BY <1>2 DEF SweepCommit, TouchColumns
  <2>2. chosen[sweep.at.key] = {}
    BY <1>1, <2>1 DEF MonitorInv, CategoryIsOperators, VALID_CATEGORIES
  <2>3. sweep.at.default # "none"
    BY <1>1 DEF VALID_CATEGORIES
  <2> QED
    BY <1>1, <1>2, <2>1, <2>2, <2>3 DEF Touched
<1>3. CASE sweep.known # "none"
  <2>1. profiles' = profiles
    BY <1>3 DEF SweepCommit, TouchColumns
  <2>2. profiles[sweep.at.key] = sweep.known \/ chosen[sweep.at.key] # {}
    BY <1>1, <1>3 DEF MonitorInv, StaleIsChosen
  <2>3. profiles[sweep.at.key] # "none"
    <3>1. chosen[sweep.at.key] # {} => profiles[sweep.at.key] \in VALID_CATEGORIES
      BY <1>1 DEF MonitorInv, CategoryIsOperators
    <3> QED
      BY <1>3, <2>2, <3>1 DEF VALID_CATEGORIES
  <2> QED
    BY <1>1, <1>3, <2>1, <2>2, <2>3 DEF Touched
<1> QED
  BY <1>2, <1>3

LEMMA MonitorStep == NetworkInv /\ NetworkInv' /\ MonitorInv /\ [NetworkNext]_networkVars => MonitorInv'
<1> SUFFICES ASSUME NetworkInv, NetworkInv', MonitorInv, [NetworkNext]_networkVars PROVE MonitorInv'
  OBVIOUS
<1> USE DEF MonitorInv
<1>0. /\ profiles \in [Key -> Category] /\ previous \in Key \cup {NoKey}
      /\ chosen \in [Key -> SUBSET VALID_CATEGORIES]
      /\ \A t \in Tab : tab[t].pc # "idle" => tab[t].key \in Key
      /\ sweep.pc # "idle" => sweep.at.key \in Key /\ Shows(sweep.at.at, sweep.at.key)
  BY DEF NetworkInv, NetworkTypeOK, SeenKeys
<1>1. CASE SweepDetect
  <2>1. sweep'.pc \in {"idle", "select"} /\ (previous' = NoKey \/ UNCHANGED <<previous, nudged>>)
    BY <1>1, NoTypes DEF SweepDetect, Return, NoSweep
  <2> QED
    BY <1>1, <2>1 DEF SweepDetect, StaleIsChosen, NotedIsStored, AlwaysNudged, CategoryIsOperators
<1>2. CASE SweepSelect
  <2>1. sweep'.pc = "commit" /\ sweep'.known = profiles[sweep'.at.key]
    BY <1>2 DEF SweepSelect, NetworkInv, NetworkTypeOK
  <2> QED
    BY <1>2, <2>1 DEF SweepSelect, StaleIsChosen, NotedIsStored, AlwaysNudged, CategoryIsOperators
<1>3. CASE SweepCommit
  <2> DEFINE key == sweep.at.key
  <2>1. /\ key \in Key /\ profiles'[key] # "none"
        /\ \A k \in Key : profiles'[k] = profiles[k]
                        \/ /\ k = key /\ profiles[k] = "none" /\ sweep.known = "none"
                           /\ profiles'[k] = sweep.at.default /\ chosen[k] = {}
        /\ profiles'[key] = "public" /\ chosen[key] = {}
              => Touched(sweep.known, sweep.at.default) = "public"
    BY <1>3, CommitStores
  <2>2. chosen' = chosen /\ tab' = tab
    BY <1>3 DEF SweepCommit
  <2>3. CategoryIsOperators'
    BY <2>1, <2>2 DEF CategoryIsOperators
  <2>4. ASSUME NEW t \in Tab, tab[t].pc = "commit", tab[t].known # "none",
               profiles'[tab[t].key] # tab[t].known
        PROVE  chosen[tab[t].key] # {}
    <3>1. tab[t].key \in Key
      BY <1>0, <2>4
    <3>2. profiles[tab[t].key] # tab[t].known
      BY <2>1, <2>4, <3>1
    <3> QED
      BY <2>4, <3>2 DEF StaleIsChosen
  <2>5. CASE sweep' = [sweep EXCEPT !.pc = "publish"] /\ UNCHANGED <<previous, nudged>> /\ Arrives
    <3>1. sweep'.pc = "publish" /\ sweep'.at.key = key
      BY <2>5 DEF NetworkInv, NetworkTypeOK
    <3>2. StaleIsChosen'
      BY <2>2, <2>4, <3>1 DEF StaleIsChosen
    <3>3. previous # NoKey => previous # key /\ profiles'[previous] = profiles[previous]
      BY <1>0, <2>1, <2>5 DEF Arrives
    <3>4. NotedIsStored' /\ AlwaysNudged'
      BY <2>1, <2>2, <2>5, <3>1, <3>3 DEF NotedIsStored, AlwaysNudged
    <3> QED
      BY <2>3, <3>2, <3>4
  <2>6. CASE /\ Return(key) /\ nudged' = IF Arrives THEN NoPlace ELSE nudged
             /\ ~(Arrives /\ Touched(sweep.known, sweep.at.default) = "public")
    <3>1. sweep'.pc = "idle" /\ previous' = key
      BY <2>6, NoTypes DEF Return
    <3>2. StaleIsChosen'
      BY <2>2, <2>4, <3>1 DEF StaleIsChosen
    <3>3. NotedIsStored'
      BY <2>1, <3>1 DEF NotedIsStored
    <3>4. CASE Arrives
      <4>1. ~(profiles'[key] = "public" /\ chosen'[key] = {})
        BY <2>1, <2>2, <2>6, <3>4
      <4>2. AlwaysNudged'
        BY <3>1, <4>1 DEF AlwaysNudged
      <4> QED
        BY <2>3, <3>2, <3>3, <4>2
    <3>5. CASE ~Arrives
      <4>1. previous = key /\ nudged' = nudged
        BY <2>6, <3>5 DEF Arrives, NetworkInv, NetworkTypeOK
      <4>2. previous # NoKey => profiles'[key] = profiles[key]
        BY <2>1, <4>1 DEF NotedIsStored
      <4>3. AlwaysNudged'
        BY <2>2, <3>1, <4>1, <4>2 DEF AlwaysNudged
      <4> QED
        BY <2>3, <3>2, <3>3, <4>3
    <3> QED
      BY <3>4, <3>5
  <2> QED
    BY <1>3, <2>5, <2>6 DEF SweepCommit
<1>4. CASE SweepPublish
  <2>1. sweep'.pc = "idle" /\ previous' = sweep.at.key /\ Shows(nudged', previous')
    BY <1>0, <1>4, NoTypes DEF SweepPublish, Return
  <2> QED
    BY <1>4, <2>1 DEF SweepPublish, StaleIsChosen, NotedIsStored, AlwaysNudged, CategoryIsOperators
<1>5. CASE SweepFails
  BY <1>5, NoTypes DEF SweepFails, StaleIsChosen, NotedIsStored, AlwaysNudged, CategoryIsOperators
<1>6. ASSUME NEW t \in Tab, AskCategory(t) \/ TabSelect(t) \/ TabFails(t) PROVE MonitorInv'
  <2>1. ASSUME NEW u \in Tab, tab'[u].pc = "commit"
        PROVE  tab'[u] = tab[u] \/ tab'[u].known = profiles[tab'[u].key]
    <3>1. tab \in [Tab -> TabType] /\ NoTab \in TabType
      BY NoTypes DEF NetworkInv, NetworkTypeOK, TabType
    <3>2. CASE AskCategory(t)
      <4>1. \E key, c : tab' = [tab EXCEPT ![t] = [NoTab EXCEPT !.pc = "select", !.key = key,
                                                                 !.category = c]]
        BY <3>2 DEF AskCategory
      <4> QED
        BY <2>1, <3>1, <4>1 DEF NoTab
    <3>3. CASE TabSelect(t)
      BY <2>1, <3>1, <3>3 DEF TabSelect, TabType
    <3>4. CASE TabFails(t)
      BY <2>1, <3>1, <3>4, NoTypes DEF TabFails
    <3> QED
      BY <1>6, <3>2, <3>3, <3>4
  <2>2. UNCHANGED <<profiles, previous, sweep, chosen, nudged>>
    BY <1>6 DEF AskCategory, TabSelect, TabFails
  <2>3. StaleIsChosen'
    BY <2>1, <2>2 DEF StaleIsChosen
  <2> QED
    BY <2>2, <2>3 DEF NotedIsStored, AlwaysNudged, CategoryIsOperators
<1>7. ASSUME NEW t \in Tab, set_network_category(t) PROVE MonitorInv'
  <2> DEFINE key == tab[t].key
             c == tab[t].category
  <2>1. key \in Key /\ c \in VALID_CATEGORIES /\ c # "none" /\ tab[t].pc = "commit"
    BY <1>0, <1>7 DEF set_network_category, NetworkInv, NetworkTypeOK, VALID_CATEGORIES
  <2>2. /\ \/ c \in chosen'[key] /\ chosen[key] \subseteq chosen'[key]
           \/ chosen'[key] = {c}
        /\ \A k \in Key : k # key => chosen'[k] = chosen[k] /\ profiles'[k] = profiles[k]
    BY <1>0, <1>7, <2>1 DEF set_network_category
  <2>3. \A k \in Key : profiles'[k] # "none" \/ profiles'[k] = profiles[k]
    BY <1>0, <1>7, <2>1 DEF set_network_category
  <2>4. UNCHANGED <<previous, sweep, nudged>>
    BY <1>7 DEF set_network_category
  <2>5. \A u \in Tab : tab'[u].pc = "commit" => tab'[u] = tab[u]
    BY <1>7, NoTypes DEF set_network_category, NetworkInv, NetworkTypeOK
  <2>6. chosen'[key] # {}
    BY <2>2
  <2>7. StaleIsChosen'
    <3>1. ASSUME NEW k \in Key, NEW known, RowInv(k, known) PROVE RowInv(k, known)'
      <4>1. CASE k = key
        BY <2>6, <4>1 DEF RowInv
      <4>2. CASE k # key
        BY <2>2, <3>1, <4>2 DEF RowInv
      <4> QED
        BY <4>1, <4>2
    <3>2. sweep.pc = "commit" => RowInv(sweep.at.key, sweep.known)'
      <4>1. sweep.pc = "commit" => sweep.at.key \in Key /\ RowInv(sweep.at.key, sweep.known)
        BY <1>0 DEF StaleIsChosen, RowInv
      <4>2. sweep' = sweep
        BY <2>4
      <4> QED
        BY <2>2, <2>6, <4>1, <4>2 DEF RowInv
    <3>3. ASSUME NEW u \in Tab, tab'[u].pc = "commit" PROVE RowInv(tab[u].key, tab[u].known)'
      <4>1. tab'[u] = tab[u]
        BY <2>5, <3>3
      <4>2. tab[u].key \in Key /\ RowInv(tab[u].key, tab[u].known)
        BY <1>0, <3>3, <4>1 DEF StaleIsChosen, RowInv
      <4> QED
        BY <2>2, <2>6, <4>1, <4>2 DEF RowInv
    <3> QED
      BY <2>4, <2>5, <3>2, <3>3 DEF StaleIsChosen, RowInv
  <2>8. NotedIsStored'
    BY <1>0, <2>3, <2>4 DEF NotedIsStored
  <2>9. AlwaysNudged'
    BY <1>0, <2>2, <2>4, <2>6 DEF AlwaysNudged
  <2>10. ASSUME NEW k \in Key, chosen'[k] # {} PROVE profiles'[k] \in chosen'[k]
    <3>1. CASE k # key
      BY <2>2, <2>10, <3>1 DEF CategoryIsOperators
    <3>2. CASE k = key /\ tab[t].known # c
      <4>1. profiles'[key] = c
        BY <1>0, <1>7, <2>1, <3>2 DEF set_network_category
      <4> QED
        BY <2>2, <3>2, <4>1
    <3>3. CASE k = key /\ tab[t].known = c
      <4>1. profiles' = profiles
        BY <1>7, <3>3 DEF set_network_category
      <4>2. CASE profiles[key] = c
        BY <2>2, <3>3, <4>1, <4>2
      <4>3. CASE profiles[key] # c
        <5>1. chosen[key] # {}
          BY <2>1, <3>3, <4>3 DEF StaleIsChosen
        <5>2. profiles[key] \in chosen[key]
          BY <2>1, <5>1 DEF CategoryIsOperators
        <5>3. chosen'[key] = chosen[key] \cup {c}
          BY <1>0, <1>7, <2>1, <3>3, <4>3 DEF set_network_category
        <5> QED
          BY <3>3, <4>1, <5>2, <5>3
      <4> QED
        BY <4>2, <4>3
    <3> QED
      BY <3>1, <3>2, <3>3
  <2> QED
    BY <2>7, <2>8, <2>9, <2>10 DEF CategoryIsOperators
<1>8. CASE MonitorEnds
  BY <1>8, NoTypes DEF MonitorEnds, StaleIsChosen, NotedIsStored, AlwaysNudged, CategoryIsOperators
<1>9. CASE UNCHANGED networkVars
  BY <1>9 DEF networkVars, StaleIsChosen, NotedIsStored, AlwaysNudged, CategoryIsOperators
<1> QED
  BY <1>1, <1>2, <1>3, <1>4, <1>5, <1>6, <1>7, <1>8, <1>9 DEF NetworkNext

LEMMA MonitorAlways == NetworkSpec => []MonitorInv
<1>1. NetworkInit => MonitorInv
  BY NetworkInitInv
<1>2. NetworkInv /\ NetworkInv' /\ MonitorInv /\ [NetworkNext]_networkVars => MonitorInv'
  BY MonitorStep
<1> QED
  BY <1>1, <1>2, NetworkAlways, PTL DEF NetworkSpec

\* The category an operator was told is stored stays, with any number of
\* sweeps and requests between their SELECT and their COMMIT
\* (touch_network_profile, set_network_category).
THEOREM CategoryLasts == NetworkSpec => []CategoryIsOperators
<1>1. MonitorInv => CategoryIsOperators
  BY DEF MonitorInv
<1> QED
  BY <1>1, MonitorAlways, PTL

\* A public network the monitor counts as known was announced in this stay,
\* unless an operator gave it its category (run_network_profile_sweep).
THEOREM KnownIsNudged == NetworkSpec => []NotedIsNudged
<1>1. MonitorInv => NotedIsNudged
  BY DEF MonitorInv, AlwaysNudged, NotedIsNudged
<1> QED
  BY <1>1, MonitorAlways, PTL

(***************************************************************************)
(* Traffic.                                                                *)
(***************************************************************************)

\* The counter of a reading, none standing for nothing.
SumOf(x) == IF x.sum = None THEN 0 ELSE x.sum

\* A reading made before now: what the sockets still count of the bytes moved
\* before it, it has counted.
Before(n) == {b \in Counted : b <= n}
PastReading(x) ==
  /\ x.at <= moved /\ x.number <= readings
  /\ Cardinality(Before(x.at)) <= SumOf(x)

\* Of two readings, the younger has counted at most what moved in between.
Follows(x, y) ==
  /\ x.number = y.number => x = y
  /\ x.number <= y.number => x.at <= y.at /\ SumOf(y) - SumOf(x) <= y.at - x.at

\* The readings still in use: the baseline, those of the polls under way.
Kept == {NoReading, baseline} \cup {reader[q].now : q \in Reader}

ReadingsInv ==
  /\ \A x \in Kept : PastReading(x)
  /\ \A x, y \in Kept : Follows(x, y)

\* The bytes of a socket go with it.
ClosedAreForgotten == \A s \in Socket : s \notin opened => carried[s] = {}

TrafficInv == TrafficTypeOK /\ ClosedAreForgotten /\ ReadingsInv /\ TrafficIsReal

PollType == [pc : {"idle", "read"}, now : Reading, row : Shown]

LEMMA NoReadingType == NoReading \in Reading /\ IdleReader \in PollType /\ NoRow \in Shown
<1> USE TrafficAssumption
<1>1. NoReading \in Reading
  BY DEF NoReading, Reading, Amount, None
<1>2. NoRow \in Shown
  BY DEF NoRow, Shown, Amount, None, Suspicion
<1> QED
  BY <1>1, <1>2 DEF IdleReader, PollType

LEMMA KeptAreReadings == ASSUME TrafficTypeOK PROVE Kept \subseteq Reading
  BY NoReadingType DEF TrafficTypeOK, Kept

LEMMA SumOfType == ASSUME NEW x \in Reading PROVE SumOf(x) \in Nat
  BY TrafficAssumption DEF Reading, SumOf, Amount, None

\* The bytes counted are bytes moved.
LEMMA CountedType ==
  ASSUME TrafficTypeOK
  PROVE  /\ Counted \subseteq 1 .. moved /\ IsFiniteSet(Counted)
         /\ Cardinality(Counted) \in 0 .. moved
<1>1. Counted \subseteq 1 .. moved
  BY DEF TrafficTypeOK, Counted
<1>2. moved \in Nat
  BY TrafficAssumption DEF TrafficTypeOK, Amount
<1>3. IsFiniteSet(1 .. moved) /\ Cardinality(1 .. moved) = moved
  BY <1>2, FS_Interval
<1>4. IsFiniteSet(Counted) /\ Cardinality(Counted) <= Cardinality(1 .. moved)
  BY <1>1, <1>3, FS_Subset
<1> QED
  BY <1>1, <1>2, <1>3, <1>4, FS_CardinalityType

\* What is counted now was counted by a reading, or moved since.
LEMMA CountedSince ==
  ASSUME TrafficTypeOK, NEW n \in Nat, n <= moved
  PROVE  /\ IsFiniteSet(Before(n)) /\ Cardinality(Before(n)) \in Nat
         /\ Cardinality(Counted) <= Cardinality(Before(n)) + (moved - n)
<1>1. moved \in Nat
  BY TrafficAssumption DEF TrafficTypeOK, Amount
<1>2. IsFiniteSet(Before(n)) /\ Before(n) \subseteq Counted
  BY CountedType, FS_Subset DEF Before
<1>3. Counted \ Before(n) \subseteq (n + 1) .. moved
  BY <1>1, CountedType DEF Before
<1>4. IsFiniteSet((n + 1) .. moved) /\ Cardinality((n + 1) .. moved) = moved - n
  <2> DEFINE m == n + 1
  <2>1. m \in Int /\ moved \in Int /\ (m > moved <=> n = moved) /\ moved - m + 1 = moved - n
    BY <1>1
  <2> HIDE DEF m
  <2>2. IsFiniteSet(m .. moved) /\ Cardinality(m .. moved) = IF m > moved THEN 0 ELSE moved - m + 1
    BY <2>1, FS_Interval
  <2>3. Cardinality(m .. moved) = moved - n
    BY <1>1, <2>1, <2>2
  <2> QED
    BY <2>2, <2>3 DEF m
<1>5. /\ IsFiniteSet(Counted \ Before(n))
      /\ Cardinality(Counted \ Before(n)) <= moved - n
  BY <1>3, <1>4, FS_Subset
<1>6. Counted \cap Before(n) = Before(n)
  BY <1>2
<1>7. Cardinality(Counted \ Before(n)) = Cardinality(Counted) - Cardinality(Before(n))
  BY <1>6, CountedType, FS_Difference
<1> QED
  BY <1>1, <1>2, <1>5, <1>7, CountedType, FS_CardinalityType

\* A poll shows no more than what moved between its reading and the baseline.
LEMMA DeltaIsBounded ==
  ASSUME NEW old \in Reading, NEW new \in Reading, Follows(old, new)
  PROVE  /\ Delta(new.sum, old.sum) \in Amount \cup {None}
         /\ old.number <= new.number => Delta(new.sum, old.sum) <= new.at - old.at
  BY TrafficAssumption DEF Reading, Amount, None, Follows, SumOf, Delta

\* No step of the sockets moves a byte counted into the past, and readings stay
\* as they are.
LEMMA SocketsKeepReadings ==
  ASSUME TrafficInv, TrafficTypeOK', UNCHANGED <<baseline, reader>>, readings' >= readings,
         moved' >= moved, Counted' \subseteq Counted \cup {moved + 1}
  PROVE  ReadingsInv' /\ TrafficIsReal'
<1>1. Kept' = Kept
  BY DEF Kept
<1>2. ASSUME NEW x \in Kept PROVE PastReading(x)'
  <2>1. x \in Reading /\ PastReading(x)
    BY <1>2, KeptAreReadings DEF TrafficInv, ReadingsInv
  <2>2. x.at \in Nat /\ moved \in Nat /\ moved' \in Nat /\ x.number \in Nat /\ readings \in Nat
        /\ readings' \in Nat
    BY <2>1, TrafficAssumption DEF TrafficInv, TrafficTypeOK, Reading, Amount
  <2>3. Before(x.at)' \subseteq Before(x.at)
    BY <2>1, <2>2, CountedType DEF Before, PastReading, TrafficInv
  <2>4. IsFiniteSet(Before(x.at)) /\ Cardinality(Before(x.at)) \in Nat
    BY <2>1, <2>2, CountedSince DEF PastReading, TrafficInv
  <2>5. Cardinality(Before(x.at)') <= Cardinality(Before(x.at)) /\ Cardinality(Before(x.at)') \in Nat
    BY <2>3, <2>4, FS_Subset, FS_CardinalityType
  <2> QED
    BY <2>1, <2>2, <2>4, <2>5, SumOfType DEF PastReading, SumOf
<1>3. ASSUME NEW x \in Kept, NEW y \in Kept PROVE Follows(x, y)
  BY <1>3 DEF TrafficInv, ReadingsInv
<1>4. TrafficIsReal'
  BY DEF TrafficInv, TrafficIsReal
<1> QED
  BY <1>1, <1>2, <1>3, <1>4 DEF ReadingsInv

\* Nor does a step of the polls that makes no reading.
LEMMA PollsKeepReadings ==
  ASSUME TrafficInv, UNCHANGED <<opened, carried, moved, readings>>, Kept' \subseteq Kept
  PROVE  ReadingsInv' /\ ClosedAreForgotten'
<1>1. ASSUME NEW x \in Kept PROVE PastReading(x)'
  BY DEF TrafficInv, ReadingsInv, PastReading, SumOf, Before, Counted
<1>2. ASSUME NEW x \in Kept, NEW y \in Kept PROVE Follows(x, y)
  BY DEF TrafficInv, ReadingsInv
<1> QED
  BY <1>1, <1>2 DEF ReadingsInv, TrafficInv, ClosedAreForgotten

LEMMA ReadCountersType ==
  ASSUME TrafficTypeOK, NEW q \in Reader, ReadCounters(q)
  PROVE  /\ TrafficTypeOK'
         /\ reader'[q].now \in Reading /\ reader'[q].now.at = moved
         /\ reader'[q].now.number = readings + 1
         /\ SumOf(reader'[q].now) = Cardinality(Counted)
<1> DEFINE sum == _cumulative_counters_for_current_platform
           now == [sum |-> sum, at |-> moved, number |-> readings + 1]
           poll == [pc |-> "read", row |-> NoRow, now |-> now]
<1>1. Cardinality(Counted) \in 0 .. moved /\ moved \in Amount /\ moved \in Nat
      /\ (opened = {} => Cardinality(Counted) = 0)
  BY CountedType, FS_EmptySet, TrafficAssumption DEF TrafficTypeOK, Counted, Amount
<1>2. sum \in Amount \cup {None}
  BY <1>1, TrafficAssumption DEF _cumulative_counters_for_current_platform, Amount, None
<1>3. readings + 1 \in 0 .. MaxReadings /\ readings' = readings + 1
  BY TrafficAssumption DEF ReadCounters, TrafficTypeOK
<1>4. now \in Reading /\ (IF sum = None THEN 0 ELSE sum) = Cardinality(Counted)
  BY <1>1, <1>2, <1>3 DEF Reading, _cumulative_counters_for_current_platform, None
<1>5. now.sum = sum /\ now.at = moved /\ now.number = readings + 1
  OBVIOUS
<1>6. reader' = [reader EXCEPT ![q] = poll]
  BY DEF ReadCounters
<1> HIDE DEF sum, now
<1>7. poll \in PollType /\ poll.now = now
  BY <1>4, NoReadingType DEF PollType
<1> HIDE DEF poll
<1>8. reader' \in [Reader -> PollType] /\ reader'[q] = poll
  BY <1>6, <1>7 DEF TrafficTypeOK, PollType
<1>9. TrafficTypeOK'
  BY <1>3, <1>8 DEF TrafficTypeOK, ReadCounters, PollType
<1> QED
  BY <1>4, <1>5, <1>7, <1>8, <1>9 DEF SumOf

\* A reading is younger than all that are kept, and counts what they counted or
\* what moved since.
LEMMA ReadCountersInv ==
  ASSUME TrafficInv, NEW q \in Reader, ReadCounters(q)
  PROVE  TrafficInv'
<1>0. PICK now : now = reader'[q].now
  OBVIOUS
<1>1. /\ TrafficTypeOK /\ TrafficTypeOK' /\ now \in Reading /\ now.at = moved
      /\ now.number = readings + 1 /\ SumOf(now) = Cardinality(Counted)
  BY <1>0, ReadCountersType DEF TrafficInv
<1>2. UNCHANGED <<opened, carried, moved, baseline>> /\ readings' = readings + 1 /\ Counted' = Counted
  BY DEF ReadCounters, Counted
<1>3. reader' \in [Reader -> PollType]
  BY <1>1 DEF TrafficTypeOK, PollType
<1>4. \A p \in Reader : p # q => reader'[p] = reader[p]
  BY DEF ReadCounters, TrafficInv, TrafficTypeOK
<1>5. Kept' \subseteq Kept \cup {now}
  BY <1>0, <1>2, <1>4 DEF Kept
<1>6. moved \in Nat /\ readings \in Nat
  BY <1>1, TrafficAssumption DEF TrafficTypeOK, Amount
<1>7. ASSUME NEW x \in Kept
      PROVE  /\ x \in Reading /\ x.at \in Nat /\ x.at <= moved /\ x.number \in Nat
             /\ x.number <= readings /\ SumOf(x) \in Nat
             /\ Cardinality(Before(x.at)) <= SumOf(x)
             /\ Cardinality(Counted) <= SumOf(x) + (moved - x.at)
  <2>1. x \in Reading /\ PastReading(x)
    BY <1>1, KeptAreReadings DEF TrafficInv, ReadingsInv
  <2>2. x.at \in Nat /\ x.number \in Nat /\ SumOf(x) \in Nat
    BY <2>1, TrafficAssumption, SumOfType DEF Reading, Amount
  <2>3. /\ Cardinality(Before(x.at)) \in Nat
        /\ Cardinality(Counted) <= Cardinality(Before(x.at)) + (moved - x.at)
    BY <1>1, <2>1, <2>2, CountedSince DEF PastReading
  <2>4. Cardinality(Counted) \in Nat
    BY <1>1, <1>6, CountedType
  <2> QED
    BY <1>6, <2>1, <2>2, <2>3, <2>4 DEF PastReading
<1>8. ASSUME NEW x \in Kept PROVE PastReading(x)'
  <2>1. Before(x.at)' = Before(x.at)
    BY <1>2 DEF Before
  <2>2. PastReading(x)
    BY DEF TrafficInv, ReadingsInv
  <2> QED
    BY <1>2, <1>6, <1>7, <2>1, <2>2 DEF PastReading, SumOf
<1>9. PastReading(now)'
  <2>1. Before(now.at)' \subseteq Counted
    BY <1>2 DEF Before
  <2>2. /\ Cardinality(Before(now.at)') <= Cardinality(Counted)
    BY <1>1, <2>1, CountedType, FS_Subset
  <2> QED
    BY <1>1, <1>2, <1>6, <2>2 DEF PastReading, SumOf
<1>10. Follows(now, now)
  BY <1>1, <1>6, SumOfType DEF Follows, SumOf, Reading, Amount
<1>11. ASSUME NEW x \in Kept PROVE Follows(x, now) /\ Follows(now, x)
  <2>1. x.number < now.number
    BY <1>1, <1>6, <1>7
  <2>2. SumOf(now) - SumOf(x) <= now.at - x.at
    <3>1. Cardinality(Counted) \in Nat
      BY <1>1, <1>6, CountedType
    <3> QED
      BY <1>1, <1>6, <1>7, <3>1
  <2> QED
    BY <1>1, <1>6, <1>7, <2>1, <2>2 DEF Follows, SumOf
<1>12. ASSUME NEW x \in Kept, NEW y \in Kept PROVE Follows(x, y)
  BY DEF TrafficInv, ReadingsInv, Follows, SumOf
<1>13. ReadingsInv'
  <2>1. \A x \in Kept' : x \in Kept \/ x = now
    BY <1>5
  <2>2. \A x \in Kept' : PastReading(x)'
    BY <1>8, <1>9, <2>1
  <2>3. \A x, y \in Kept' : Follows(x, y)
    BY <1>10, <1>11, <1>12, <2>1
  <2> QED
    BY <2>2, <2>3 DEF ReadingsInv
<1>14. TrafficIsReal'
  <2>1. reader'[q].row = NoRow
    BY DEF ReadCounters, TrafficInv, TrafficTypeOK
  <2>2. NoRow.bytes <= NoRow.over
    BY DEF NoRow, None
  <2> QED
    BY <1>4, <2>1, <2>2 DEF TrafficInv, TrafficIsReal
<1>15. ClosedAreForgotten'
  BY <1>2 DEF TrafficInv, ClosedAreForgotten
<1> QED
  BY <1>1, <1>13, <1>14, <1>15 DEF TrafficInv

LEMMA ReadingFailsInv ==
  ASSUME TrafficInv, NEW q \in Reader, ReadingFails(q)
  PROVE  TrafficInv'
<1>1. UNCHANGED <<opened, carried, moved, baseline, readings>> /\ reader' = [reader EXCEPT ![q] = IdleReader]
  BY DEF ReadingFails
<1>2. reader \in [Reader -> PollType]
  BY DEF TrafficInv, TrafficTypeOK, PollType
<1>3. reader' \in [Reader -> PollType] /\ TrafficTypeOK'
  BY <1>1, <1>2, NoReadingType DEF TrafficInv, TrafficTypeOK, PollType
<1>4. \A p \in Reader : reader'[p] = IF p = q THEN IdleReader ELSE reader[p]
  BY <1>1, <1>2
<1>5. Kept' \subseteq Kept
  BY <1>1, <1>4 DEF Kept, IdleReader
<1>6. TrafficIsReal'
  BY <1>4 DEF TrafficInv, TrafficIsReal, IdleReader, NoRow, None
<1> QED
  BY <1>1, <1>3, <1>5, <1>6, PollsKeepReadings DEF TrafficInv

LEMMA StoreSampleInv ==
  ASSUME TrafficInv, NEW q \in Reader, StoreSample(q)
  PROVE  TrafficInv'
<1> DEFINE now == reader[q].now
<1>1. reader \in [Reader -> PollType] /\ now \in Reading /\ baseline \in Reading /\ TrafficTypeOK
  BY DEF TrafficInv, TrafficTypeOK, PollType
<1>2. UNCHANGED <<opened, carried, moved, readings>> /\ baseline' = now
  BY DEF StoreSample
<1>3. PICK reputation \in Reputation :
        reader' = [reader EXCEPT ![q] =
                     [pc |-> "idle", now |-> NoReading,
                      row |-> [bytes |-> Delta(now.sum, baseline.sum),
                               over |-> now.at - baseline.at,
                               late |-> now.number < baseline.number,
                               suspicious |-> is_suspicious(reputation)]]]
  BY DEF StoreSample
<1> DEFINE bytes == Delta(now.sum, baseline.sum)
           over == now.at - baseline.at
           late == now.number < baseline.number
           suspicious == is_suspicious(reputation)
           row == [bytes |-> bytes, over |-> over, late |-> late, suspicious |-> suspicious]
           poll == [pc |-> "idle", now |-> NoReading, row |-> row]
<1>4. now \in Kept /\ baseline \in Kept /\ Follows(baseline, now)
  BY DEF Kept, TrafficInv, ReadingsInv
<1>5. bytes \in Amount \cup {None} /\ over \in Int /\ late \in BOOLEAN /\ (~late => bytes <= over)
  <2>1. now.at \in Nat /\ baseline.at \in Nat /\ now.number \in Nat /\ baseline.number \in Nat
    BY <1>1, TrafficAssumption DEF Reading, Amount
  <2> QED
    BY <1>1, <1>4, <2>1, DeltaIsBounded
<1>6. suspicious \in Suspicion
  BY DEF is_suspicious, Suspicion, Reputation
<1>7. reader' = [reader EXCEPT ![q] = poll]
  BY <1>3
<1> HIDE DEF bytes, over, late, suspicious
<1>8. row \in Shown /\ row.bytes = bytes /\ row.over = over /\ row.late = late
  BY <1>5, <1>6 DEF Shown
<1> HIDE DEF row
<1>9. poll \in PollType /\ poll.now = NoReading /\ poll.row = row
  BY <1>8, NoReadingType DEF PollType
<1> HIDE DEF poll
<1>10. reader' \in [Reader -> PollType] /\ \A p \in Reader : reader'[p] = IF p = q THEN poll ELSE reader[p]
  BY <1>1, <1>7, <1>9
<1>11. TrafficTypeOK'
  BY <1>1, <1>2, <1>10 DEF TrafficTypeOK, PollType
<1>12. Kept' \subseteq Kept
  BY <1>2, <1>4, <1>9, <1>10 DEF Kept
<1>13. TrafficIsReal'
  BY <1>5, <1>8, <1>9, <1>10 DEF TrafficInv, TrafficIsReal
<1> QED
  BY <1>2, <1>11, <1>12, <1>13, PollsKeepReadings DEF TrafficInv

LEMMA CountersEndInv == TrafficInv /\ CountersEnd => TrafficInv'
<1> SUFFICES ASSUME TrafficInv, CountersEnd PROVE TrafficInv'
  OBVIOUS
<1>1. /\ UNCHANGED <<opened, carried, moved, readings>> /\ baseline' = NoReading
      /\ reader' = [q \in Reader |-> IdleReader]
  BY DEF CountersEnd
<1>2. TrafficTypeOK'
  BY <1>1, NoReadingType DEF TrafficInv, TrafficTypeOK, PollType
<1>3. Kept' \subseteq Kept
  BY <1>1 DEF Kept, IdleReader
<1>4. TrafficIsReal'
  BY <1>1 DEF TrafficIsReal, IdleReader, NoRow, None
<1> QED
  BY <1>1, <1>2, <1>3, <1>4, PollsKeepReadings DEF TrafficInv

LEMMA SocketsInv ==
  ASSUME TrafficInv, NEW s \in Socket, OpenSocket(s) \/ CloseSocket(s) \/ Transfer(s)
  PROVE  TrafficInv'
<1>1. /\ opened \subseteq Socket /\ carried \in [Socket -> SUBSET (1 .. moved)] /\ moved \in Nat
      /\ moved \in Amount /\ readings \in Nat /\ TrafficTypeOK
  BY TrafficAssumption DEF TrafficInv, TrafficTypeOK, Amount
<1>2. CASE OpenSocket(s)
  <2>1. UNCHANGED <<carried, moved, baseline, reader, readings>> /\ opened' = opened \cup {s}
    BY <1>2 DEF OpenSocket
  <2>2. TrafficTypeOK'
    BY <1>1, <2>1 DEF TrafficTypeOK
  <2>3. carried[s] = {} /\ ClosedAreForgotten'
    BY <1>2, <2>1 DEF OpenSocket, TrafficInv, ClosedAreForgotten
  <2>4. Counted' \subseteq Counted
    BY <2>1, <2>3 DEF Counted
  <2>5. Counted' \subseteq Counted \cup {moved + 1} /\ readings' >= readings /\ moved' >= moved
    BY <1>1, <2>1, <2>4
  <2> QED
    BY <2>1, <2>2, <2>3, <2>5, SocketsKeepReadings DEF TrafficInv
<1>3. CASE CloseSocket(s)
  <2>1. /\ UNCHANGED <<moved, baseline, reader, readings>> /\ opened' = opened \ {s}
        /\ carried' = [carried EXCEPT ![s] = {}]
    BY <1>3 DEF CloseSocket
  <2>2. TrafficTypeOK'
    BY <1>1, <2>1 DEF TrafficTypeOK
  <2>3. \A z \in opened' : z \in opened /\ carried'[z] = carried[z]
    BY <1>1, <2>1
  <2>4. Counted' \subseteq Counted
    BY <2>3 DEF Counted
  <2>5. Counted' \subseteq Counted \cup {moved + 1} /\ readings' >= readings /\ moved' >= moved
    BY <1>1, <2>1, <2>4
  <2>6. ClosedAreForgotten'
    BY <1>1, <2>1 DEF TrafficInv, ClosedAreForgotten
  <2> QED
    BY <2>1, <2>2, <2>5, <2>6, SocketsKeepReadings DEF TrafficInv
<1>4. CASE Transfer(s)
  <2>1. /\ UNCHANGED <<opened, baseline, reader, readings>> /\ moved' = moved + 1 /\ moved < MaxBytes
        /\ carried' = [carried EXCEPT ![s] = carried[s] \cup {moved + 1}]
    BY <1>4 DEF Transfer
  <2>2. \A z \in Socket : carried'[z] \subseteq carried[z] \cup {moved + 1}
    BY <1>1, <2>1
  <2>3. moved' \in Amount /\ carried' \in [Socket -> SUBSET (1 .. moved')]
    <3>1. \A z \in Socket : carried'[z] \subseteq 1 .. moved'
      BY <1>1, <2>1, <2>2
    <3>2. carried' \in [Socket -> SUBSET (1 .. moved')]
      BY <1>1, <2>1, <3>1
    <3> QED
      BY <1>1, <2>1, <3>2, TrafficAssumption DEF Amount
  <2>4. TrafficTypeOK'
    BY <1>1, <2>1, <2>3 DEF TrafficTypeOK
  <2>5. Counted' \subseteq Counted \cup {moved + 1}
    BY <1>1, <2>1, <2>2 DEF Counted
  <2>6. ClosedAreForgotten' /\ readings' >= readings /\ moved' >= moved
    BY <1>1, <1>4, <2>1 DEF Transfer, TrafficInv, ClosedAreForgotten
  <2> QED
    BY <2>1, <2>4, <2>5, <2>6, SocketsKeepReadings DEF TrafficInv
<1> QED
  BY <1>2, <1>3, <1>4

LEMMA TrafficInitInv == TrafficInit => TrafficInv
<1> SUFFICES ASSUME TrafficInit PROVE TrafficInv
  OBVIOUS
<1>1. /\ opened = {} /\ carried = [s \in Socket |-> {}] /\ moved = 0 /\ baseline = NoReading
      /\ reader = [q \in Reader |-> IdleReader] /\ readings = 0
  BY DEF TrafficInit
<1>2. TrafficTypeOK
  BY <1>1, NoReadingType, TrafficAssumption DEF TrafficTypeOK, Amount, PollType
<1>3. Kept = {NoReading}
  BY <1>1 DEF Kept, IdleReader
<1>4. Before(NoReading.at) = {} /\ Cardinality({}) = 0
  BY <1>1, FS_EmptySet DEF Before, Counted
<1>5. PastReading(NoReading) /\ Follows(NoReading, NoReading)
  BY <1>1, <1>4 DEF PastReading, Follows, SumOf, NoReading, None
<1>6. TrafficIsReal /\ ClosedAreForgotten
  BY <1>1 DEF TrafficIsReal, ClosedAreForgotten, IdleReader, NoRow, None
<1> QED
  BY <1>2, <1>3, <1>5, <1>6 DEF TrafficInv, ReadingsInv

LEMMA TrafficStep == TrafficInv /\ [TrafficNext]_trafficVars => TrafficInv'
<1> SUFFICES ASSUME TrafficInv, [TrafficNext]_trafficVars PROVE TrafficInv'
  OBVIOUS
<1>1. ASSUME NEW q \in Reader, ReadCounters(q) \/ ReadingFails(q) \/ StoreSample(q)
      PROVE  TrafficInv'
  BY <1>1, ReadCountersInv, ReadingFailsInv, StoreSampleInv
<1>2. CASE CountersEnd
  BY <1>2, CountersEndInv
<1>3. CASE UNCHANGED trafficVars
  <2>1. UNCHANGED <<opened, carried, moved, baseline, reader, readings>>
    BY <1>3 DEF trafficVars
  <2>2. Kept' = Kept /\ TrafficTypeOK' /\ TrafficIsReal'
    BY <2>1 DEF Kept, TrafficInv, TrafficTypeOK, TrafficIsReal
  <2> QED
    BY <2>1, <2>2, PollsKeepReadings DEF TrafficInv
<1> QED
  BY <1>1, <1>2, <1>3, SocketsInv DEF TrafficNext

LEMMA TrafficInvariant == TrafficSpec => []TrafficInv
  BY TrafficInitInv, TrafficStep, PTL DEF TrafficSpec

\* The variables of the traffic keep their types (TrafficTypeOK).
THEOREM TrafficTypes == TrafficSpec => []TrafficTypeOK
<1>1. TrafficInv => TrafficTypeOK
  BY DEF TrafficInv
<1> QED
  BY <1>1, TrafficInvariant, PTL

\* A poll shows no traffic that did not happen, for any number of polls at
\* once, of sockets and of bytes (StoreSample): TrafficIsReal.
THEOREM NoTrafficInvented == TrafficSpec => []TrafficIsReal
<1>1. TrafficInv => TrafficIsReal
  BY DEF TrafficInv
<1> QED
  BY <1>1, TrafficInvariant, PTL
=============================================================================
