------------------------------ MODULE Settings ------------------------------
(***************************************************************************)
(* The settings of the app that need TUN mode, and the rollback when       *)
(* Windows refuses the privileges (lib/services/vpn_controller.dart).      *)
(*                                                                         *)
(* A setter changes the settings at once.  When they then say TUN it waits *)
(* twice, for the settings to be saved and for the privileges, and restores*)
(* what it found if they are refused; the user goes on meanwhile.  Saves   *)
(* are written one after the other (AppStateStore); what is written is     *)
(* captured when the save is asked for.  A save may fail, which throws out *)
(* of the setter: it neither asks nor restores.                            *)
(* Bound: MaxSaves saves and questions under way.                          *)
(***************************************************************************)
EXTENDS Naturals, Sequences

CONSTANT MaxSaves

ASSUME SettingsAssumption == MaxSaves \in Nat

VARIABLES
  settings,   \* _trafficMode and the modes of the two split tunnels
  saved,      \* the same in the state file
  queued,     \* _persistDebounceTimer is active
  saves,      \* saves under way, and changes that await the privileges
  link,       \* "idle", "busy" or "connected"
  used,       \* the settings the connection was made with
  granted,    \* TUN mode was granted, or was the mode when the app started
  overlap,    \* a setting was changed, or a connection begun, during a change
  unasked     \* a change ended without asking, because its save failed

settingsVars ==
  <<settings, saved, queued, saves, link, used, granted, overlap, unasked>>

SettingsValues == [mode : {"proxy", "tun"}, apps : BOOLEAN, domains : BOOLEAN]

(* _restoreState: a split tunnel that is on brings TUN mode with it.       *)
Restored(state) ==
  [state EXCEPT !.mode = IF state.apps \/ state.domains THEN "tun" ELSE @]

Start(state) ==
  /\ settings = Restored(state)
  /\ queued = FALSE /\ saves = <<>> /\ overlap = FALSE /\ granted = TRUE
  /\ link = "idle" /\ used = settings /\ unasked = FALSE
SettingsInit == saved \in SettingsValues /\ Start(saved)

Asking == \E i \in DOMAIN saves : saves[i].step # "save"
CanChange == link = "idle"

-----------------------------------------------------------------------------
(* _applyTunSensitiveSettingsChange; the saving takes the timer away.      *)
Change(next) ==
  /\ CanChange /\ Len(saves) < MaxSaves
  /\ settings' = next
  /\ overlap' = (overlap \/ Asking)
  /\ granted' = (granted /\ settings.mode = "tun")
  /\ IF next.mode = "tun"
     THEN /\ saves' = Append(saves, [step |-> "saveThenAsk", captured |-> next,
                                     before |-> settings, had |-> granted])
          /\ queued' = FALSE
     ELSE queued' = TRUE /\ UNCHANGED saves
  /\ UNCHANGED <<saved, link, used, unasked>>

(* Mutant: the split tunnels stay on outside TUN mode.                     *)
BugSetTrafficMode(mode) ==
  settings.mode # mode /\ Change([settings EXCEPT !.mode = mode])
SetTrafficMode(mode) ==
  /\ settings.mode # mode
  /\ Change(IF mode = "tun" THEN [settings EXCEPT !.mode = mode]
            ELSE [mode |-> mode, apps |-> FALSE, domains |-> FALSE])

SetSplitTunnelMode(on) ==
  /\ settings.apps # on
  /\ Change([settings EXCEPT !.apps = on, !.mode = IF on THEN "tun" ELSE @])
SetDomainSplitTunnelMode(on) ==
  /\ settings.domains # on
  /\ Change([settings EXCEPT !.domains = on, !.mode = IF on THEN "tun" ELSE @])

(* The timer of _queuePersistState.                                        *)
Save == [step |-> "save", captured |-> settings, before |-> settings, had |-> FALSE]
PersistTimer ==
  /\ queued /\ Len(saves) < MaxSaves
  /\ queued' = FALSE
  /\ saves' = Append(saves, Save)
  /\ UNCHANGED <<settings, saved, link, used, granted, overlap, unasked>>

Without(i) == SubSeq(saves, 1, i - 1) \o SubSeq(saves, i + 1, Len(saves))

(* The save whose turn it is.                                              *)
Writing(i) ==
  /\ saves[i].step # "ask"
  /\ \A j \in 1 .. i - 1 : saves[j].step = "ask"

(* A save is done; nothing is asked if the mode is no longer TUN.          *)
SaveEnds(i) ==
  /\ Writing(i)
  /\ saved' = saves[i].captured
  /\ saves' = IF saves[i].step = "saveThenAsk" /\ settings.mode = "tun"
              THEN [saves EXCEPT ![i].step = "ask"] ELSE Without(i)
  /\ UNCHANGED <<settings, queued, link, used, granted, overlap, unasked>>

(* A file cannot be written: what the next start will find is the state    *)
(* there was or, from the temporary file, the new one.                     *)
SaveFails(i) ==
  /\ Writing(i)
  /\ saved' \in {saved, saves[i].captured}
  /\ saves' = Without(i)
  /\ unasked' = (unasked \/ saves[i].step = "saveThenAsk")
  /\ UNCHANGED <<settings, queued, link, used, granted, overlap>>

(* _ensureWindowsTunPrivilegesOrRollback.                                  *)
PrivilegesGranted(i) ==
  /\ saves[i].step = "ask"
  /\ saves' = Without(i) /\ granted' = TRUE
  /\ UNCHANGED <<settings, saved, queued, link, used, overlap, unasked>>
PrivilegesRefused(i) ==
  /\ saves[i].step = "ask"
  /\ settings' = saves[i].before
  /\ granted' = saves[i].had
  /\ saves' = Append(Without(i), [Save EXCEPT !.captured = settings'])
  /\ queued' = FALSE
  /\ UNCHANGED <<saved, link, used, overlap, unasked>>

(* The elevated instance is launched and this one exits, or the app        *)
(* crashes: the next instance reads the state file.                        *)
Relaunch ==
  /\ settings' = Restored(saved)
  /\ queued' = FALSE /\ saves' = <<>> /\ overlap' = FALSE /\ granted' = TRUE
  /\ link' = "idle" /\ used' = settings' /\ unasked' = FALSE
  /\ UNCHANGED saved

(* The connection, which does not look at the changes under way.           *)
LinkBegins ==
  /\ link = "idle"
  /\ link' = "busy" /\ used' = settings
  /\ overlap' = (overlap \/ Asking)
  /\ UNCHANGED <<settings, saved, queued, saves, granted, unasked>>
LinkEnds ==
  /\ link = "busy" /\ link' \in {"idle", "connected"}
  /\ UNCHANGED <<settings, saved, queued, saves, used, granted, overlap, unasked>>
LinkGoes ==
  /\ link = "connected" /\ link' = "idle"
  /\ UNCHANGED <<settings, saved, queued, saves, used, granted, overlap, unasked>>

SettingsNext ==
  \/ \E mode \in {"proxy", "tun"} : SetTrafficMode(mode)
  \/ \E on \in BOOLEAN : SetSplitTunnelMode(on) \/ SetDomainSplitTunnelMode(on)
  \/ PersistTimer \/ Relaunch \/ LinkBegins \/ LinkEnds \/ LinkGoes
  \/ \E i \in DOMAIN saves :
       SaveEnds(i) \/ SaveFails(i) \/ PrivilegesGranted(i) \/ PrivilegesRefused(i)

-----------------------------------------------------------------------------
(* Whatever changes and refusals overlap, a split tunnel is never on       *)
(* outside TUN mode, where it would do nothing (setTrafficMode,            *)
(* _enableTunForSplitTunnel, the rollback).  And as long as no two changes *)
(* overlapped: the instance that is relaunched with privileges finds the   *)
(* change the user made in the state file, TUN mode does not stay without  *)
(* the privileges, unless they were not asked for because a save failed,   *)
(* and the settings shown during a connection are those it was made with.  *)
SettingsCoherent ==
  /\ settings.apps \/ settings.domains => settings.mode = "tun"
  /\ ~overlap =>
       /\ \A i \in DOMAIN saves : saves[i].step = "ask" => saved = settings
       /\ settings.mode = "tun" /\ ~Asking => granted \/ unasked
       /\ link # "idle" => settings = used
=============================================================================
