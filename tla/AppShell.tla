------------------------------ MODULE AppShell ------------------------------
(***************************************************************************)
(* What the app keeps besides the connection: the subscriptions, the tray  *)
(* menu that shows them, the settings with their rollback, and the state   *)
(* file.  The tray works on the subscriptions, on a short list that is     *)
(* there from the start; the others, and the native library the app calls, *)
(* share nothing but the snapshot a save is made of and the profile a call *)
(* is given, so that a behaviour of the app is an interleaving of one      *)
(* behaviour of each; part names the one whose steps are looked at.        *)
(***************************************************************************)
EXTENDS TrayMenu, Settings, AppStateStore, NativeLibrary

VARIABLE part

shellVars == <<trayVars, settingsVars, storeVars, vars, part>>

TwoSources ==
  <<Source(1, "first", <<"p", "q", "r">>), Source(2, "second", <<"s">>)>>

ShellInit ==
  /\ part \in {"sources", "tray", "settings", "store", "library"}
  /\ SourcesInit(IF part = "tray" THEN TwoSources ELSE <<>>)
  /\ TrayInit /\ SettingsInit /\ StoreInit
  /\ part # "settings" => settings.mode = "proxy"
  /\ IF part = "library" THEN Init ELSE LibraryIdle /\ PingIdle

MenuVars ==
  <<lastPayload, changes, missed, toNative, answers, toDart, nativeVars>>

ShellNext ==
  /\ UNCHANGED part
  /\ \/ /\ part = "sources" /\ SourcesNext
        /\ UNCHANGED <<MenuVars, settingsVars, storeVars, vars>>
     \/ part = "tray" /\ TrayNext /\ UNCHANGED <<settingsVars, storeVars, vars>>
     \/ part = "settings" /\ SettingsNext /\ UNCHANGED <<trayVars, storeVars, vars>>
     \/ part = "store" /\ StoreNext /\ UNCHANGED <<trayVars, settingsVars, vars>>
     \/ part = "library" /\ Next /\ UNCHANGED <<trayVars, settingsVars, storeVars>>

ShellSpec == ShellInit /\ [][ShellNext]_shellVars
=============================================================================
