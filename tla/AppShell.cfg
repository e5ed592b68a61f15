\* Two operations under way on one source that is added, refreshed, measured
\* and removed; the menu through two changes; two changes of settings under
\* way; three states to save and three faults; the
\* links, options and imports of MCNativeLibrary.
SPECIFICATION ShellSpec
CONSTANTS
  Inputs = {"first"}
  Catalogs <- MCCatalogs
  MaxIds = 1
  MaxJobs = 2
  MaxCalls = 2
  MaxChanges = 2
  CursorRows = {20, 100}
  ScreenHeight = 130
  MaxSaves = 2
  MaxVersions = 3
  MaxFaults = 3
  Links <- MCLinks
  Texts <- MCTexts
  Imports <- MCImports
  Labels <- MCLabels
  Graphs <- MCGraphs
  Requests <- MCRequests
  MaxConcurrent = 2
INVARIANTS
  LinkIsDialled
  SplitTunnelHonoured
  ResolverAsNamed
  ImportRoundTrip
  ShownServerIsReached
  PingsAreTheirTargets
  SourcesAsMeasured
  SettingsCoherent
  SavedStateSurvives
  MenuIsTrue
PROPERTIES
  SelectionIsTheUsers
\* The app ends when it is quit from the tray.
CHECK_DEADLOCK FALSE
