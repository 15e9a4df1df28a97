--------------------------- MODULE NetworkProfile ---------------------------
(***************************************************************************)
(* The monitor of the network the machine is on                            *)
(* (security_connectors/network_profile.py and its route): a loop detects  *)
(* the network, records the sighting and nudges the operator of a new      *)
(* public one, while the operator gives networks their category.           *)
(*                                                                         *)
(* A detection is several commands, a sighting a SELECT and a COMMIT, each *)
(* an await: requests may commit in between, and each detection may find   *)
(* the machine elsewhere.  The monitor knows a network by a key made of a  *)
(* name or an address, which networks may share: two of them behind        *)
(* gateways of one address are one network to it.                          *)
(***************************************************************************)
EXTENDS Naturals

CONSTANTS
  Place,        \* the networks there are
  Links,        \* where the machine goes: the places its interfaces have an address of
  Name,         \* what a network may be known by: SSIDs, addresses, UUIDs, profile names
  Names,        \* Names[id][p]: of these, what the place p shows for an identity of kind id
  Tab           \* the requests of the operator

NoPlace == "nowhere"
Where == Place \cup {NoPlace}

IdKind == {"ssid", "gateway_ip", "connection_uuid", "os_profile"}

ASSUME LinksAssumption ==
  /\ Links \subseteq [wifi : Where, wired : Where]
  /\ Names \in [IdKind -> [Place -> SUBSET Name]]

VARIABLES
  platform,     \* the operating system, and the category Windows has for a place
  profiles,     \* profiles[k]: category of the row of network_profiles, or "none"
  previous,     \* previous_key of the scheduler's closure, NoKey at the start
  sweep,        \* the sweep under way
  tab,          \* tab[t]: the request t to set a category
  chosen,       \* history: chosen[k]: what operators were last told is stored
  nudged        \* history: the place SECURITY_ALERT was published for in this stay

networkVars == <<platform, profiles, previous, sweep, tab, chosen, nudged>>

Platform == {[os |-> os, nla |-> "public"] : os \in {"Darwin", "Linux", "Windows"}}
            \cup {[os |-> "Windows", nla |-> "trusted"]}
Key == [id : IdKind, wifi : BOOLEAN, name : Name]
NoKey == [id |-> "none"]
VALID_CATEGORIES == {"public", "trusted"}
Category == VALID_CATEGORIES \cup {"none"}
Sighting == [key : Key \cup {NoKey}, at : Where, default : VALID_CATEGORIES]
SweepPc == {"idle", "select", "commit", "publish"}

NoSighting == [key |-> NoKey, at |-> NoPlace, default |-> "public"]
NoSweep == [pc |-> "idle", at |-> NoSighting, known |-> "none"]
NoTab == [pc |-> "idle", key |-> NoKey, known |-> "none", category |-> "public"]

NetworkInit ==
  /\ platform \in Platform
  /\ profiles = [k \in Key |-> "none"] /\ previous = NoKey /\ sweep = NoSweep
  /\ tab = [t \in Tab |-> NoTab] /\ chosen = [k \in Key |-> {}] /\ nudged = NoPlace

(***************************************************************************)
(* detect_current_network: what it may report of a machine with the links. *)
(***************************************************************************)

See(id, wifi, at, default) ==
  {[key |-> [id |-> id, wifi |-> wifi, name |-> name], at |-> at, default |-> default] :
     name \in IF at = NoPlace THEN {} ELSE Names[id][at]}

\* Wi-Fi first; its name may be unreadable though it carries an address, and
\* the network is then known by its gateway, or by the machine's own address.
_macos_detect_current_network(link) ==
  IF link.wifi # NoPlace
  THEN See("ssid", TRUE, link.wifi, "public") \cup See("gateway_ip", TRUE, link.wifi, "public")
  ELSE See("gateway_ip", FALSE, link.wired, "public")

\* The first of the active connections, in the order of the tool; the key does
\* not tell Wi-Fi from wire.
_linux_detect_current_network(link) ==
  See("connection_uuid", TRUE, link.wifi, "public")
    \cup See("connection_uuid", TRUE, link.wired, "public")
_windows_detect_current_network(link) ==
  See("os_profile", TRUE, link.wifi, platform.nla)
    \cup See("os_profile", TRUE, link.wired, platform.nla)

_detect_for_current_platform(link) ==
  CASE platform.os = "Darwin" -> _macos_detect_current_network(link)
    [] platform.os = "Linux" -> _linux_detect_current_network(link)
    [] platform.os = "Windows" -> _windows_detect_current_network(link)

\* A tool that fails is a machine without a network.
detect_current_network(link) == _detect_for_current_platform(link) \cup {NoSighting}

(***************************************************************************)
(* run_network_profile_sweep, one at a time in the loop.                   *)
(***************************************************************************)

\* The sweep is over and its key becomes the previous one.
Return(key) ==
  /\ sweep' = NoSweep
  /\ previous' = key

SweepDetect ==
  /\ sweep.pc = "idle"
  /\ \E link \in Links : \E seen \in detect_current_network(link) :
       IF seen = NoSighting THEN Return(NoKey) /\ nudged' = NoPlace
       ELSE /\ sweep' = [NoSweep EXCEPT !.pc = "select", !.at = seen]
            /\ UNCHANGED <<previous, nudged>>
  /\ UNCHANGED <<platform, profiles, tab, chosen>>

SweepSelect ==
  /\ sweep.pc = "select"
  /\ sweep' = [sweep EXCEPT !.pc = "commit", !.known = profiles[sweep.at.key]]
  /\ UNCHANGED <<platform, profiles, previous, tab, chosen, nudged>>

\* touch_network_profile: a first sighting gets the default category, a later
\* one only its name and time; the category of the row stays.
Touched(known, default) == IF known = "none" THEN default ELSE known
TouchCategory(key, known, default) == [profiles EXCEPT ![key] = default]
TouchColumns(key, known, default) ==
  IF known = "none" THEN [profiles EXCEPT ![key] = default] ELSE profiles

\* The row stays as it was read (expire_on_commit = False): a category the
\* operator stores in between is not seen by this sweep.
Arrives == sweep.at.key # previous
SweepCommit ==
  /\ sweep.pc = "commit"
  /\ LET seen == sweep.at IN
     /\ sweep.known = "none" => profiles[seen.key] = "none"
     /\ profiles' = TouchColumns(seen.key, sweep.known, seen.default)
     /\ IF Arrives /\ Touched(sweep.known, seen.default) = "public"
        THEN sweep' = [sweep EXCEPT !.pc = "publish"] /\ UNCHANGED <<previous, nudged>>
        ELSE Return(seen.key) /\ nudged' = IF Arrives THEN NoPlace ELSE nudged
  /\ UNCHANGED <<platform, tab, chosen>>

SweepPublish ==
  /\ sweep.pc = "publish"
  /\ Return(sweep.at.key) /\ nudged' = sweep.at.at
  /\ UNCHANGED <<platform, profiles, tab, chosen>>

\* The key is kept although the sweep came to no end.
SweepFailsNoted ==
  /\ sweep.pc \in {"select", "commit"}
  /\ Return(sweep.at.key)
  /\ UNCHANGED <<platform, profiles, tab, chosen, nudged>>

\* The database fails, or the row was inserted by another since the SELECT:
\* the loop goes on with its previous key.
SweepFails ==
  /\ sweep.pc \in {"select", "commit"}
  /\ sweep' = NoSweep
  /\ UNCHANGED <<platform, profiles, previous, tab, chosen, nudged>>

(***************************************************************************)
(* perimeter_set_network_category                                          *)
(***************************************************************************)

\* The network is detected anew; without one the answer is 409.
AskCategory(t) ==
  /\ tab[t].pc = "idle"
  /\ \E link \in Links, c \in VALID_CATEGORIES :
       \E seen \in detect_current_network(link) \ {NoSighting} :
         tab' = [tab EXCEPT ![t] = [NoTab EXCEPT !.pc = "select", !.key = seen.key,
                                                 !.category = c]]
  /\ UNCHANGED <<platform, profiles, previous, sweep, chosen, nudged>>

TabSelect(t) ==
  /\ tab[t].pc = "select"
  /\ tab' = [tab EXCEPT ![t].pc = "commit", ![t].known = profiles[tab[t].key]]
  /\ UNCHANGED <<platform, profiles, previous, sweep, chosen, nudged>>

\* Only a column that differs from what was read is written, so of two
\* requests that overlap either may be the one that lasts.
set_network_category(t) ==
  /\ tab[t].pc = "commit"
  /\ LET key == tab[t].key c == tab[t].category IN
     /\ tab[t].known = "none" => profiles[key] = "none"
     /\ profiles' = IF tab[t].known = c THEN profiles ELSE [profiles EXCEPT ![key] = c]
     /\ chosen' = [chosen EXCEPT ![key] = IF profiles[key] = tab[t].known THEN {c} ELSE @ \cup {c}]
  /\ tab' = [tab EXCEPT ![t] = NoTab]
  /\ UNCHANGED <<platform, previous, sweep, nudged>>

TabFails(t) ==
  /\ tab[t].pc # "idle"
  /\ tab' = [tab EXCEPT ![t] = NoTab]
  /\ UNCHANGED <<platform, profiles, previous, sweep, chosen, nudged>>

(***************************************************************************)
(* The panel ends.                                                         *)
(***************************************************************************)

MonitorEnds ==
  /\ previous' = NoKey /\ sweep' = NoSweep /\ tab' = [t \in Tab |-> NoTab] /\ nudged' = NoPlace
  /\ UNCHANGED <<platform, profiles, chosen>>

NetworkNext ==
  \/ SweepDetect \/ SweepSelect \/ SweepCommit \/ SweepPublish \/ SweepFails
  \/ \E t \in Tab : AskCategory(t) \/ TabSelect(t) \/ set_network_category(t) \/ TabFails(t)
  \/ MonitorEnds

NetworkSpec == NetworkInit /\ [][NetworkNext]_networkVars

-----------------------------------------------------------------------------
NetworkTypeOK ==
  /\ platform \in Platform
  /\ profiles \in [Key -> Category] /\ previous \in Key \cup {NoKey}
  /\ sweep \in [pc : SweepPc, at : Sighting, known : Category]
  /\ tab \in [Tab -> [pc : {"idle", "select", "commit"}, key : Key \cup {NoKey}, known : Category,
                      category : VALID_CATEGORIES]]
  /\ chosen \in [Key -> SUBSET VALID_CATEGORIES] /\ nudged \in Where

\* A public network the monitor counts as known has been announced in this
\* stay, however the sweeps before failed, roamed or met a request, unless an
\* operator gave it its category (run_network_profile_sweep hands back the key
\* only after the publication, and the scheduler keeps the old one otherwise).
\* What was announced is a network of this key: the one the machine is on where
\* no two share it, but where they do, the second one is never announced.
Shows(p, key) == p \in Place /\ key.name \in Names[key.id][p]
NotedIsNudged ==
  (sweep.pc = "idle" /\ previous # NoKey) =>
    (profiles[previous] = "public" /\ chosen[previous] = {} => Shows(nudged, previous))

\* What operators were told is stored for a network is what is stored, with
\* any number of sweeps between their SELECT and COMMIT ("a scheduler tick must
\* not silently revert it", touch_network_profile).
CategoryIsOperators == \A k \in Key : chosen[k] # {} => profiles[k] \in chosen[k]
=============================================================================
