------------------------------ MODULE TrayMenu ------------------------------
(***************************************************************************)
(* The tray icon and its menu (windows/runner/flutter_window.cpp) and the  *)
(* service that fills it (lib/services/windows_tray_menu_service.dart).    *)
(*                                                                         *)
(* The controller (Sources) runs in the Dart isolate, the menu in the      *)
(* window procedure of the runner; they exchange setItems with its answer, *)
(* and selectItem.  Every notification of the controller synchronises the  *)
(* menu.  An item is [kind, id, index, on, mark, label, rows]; a separator *)
(* and the toggle have no id.  Positions in a list start at 1, 0 is none.  *)
(* Heights are those at 96 dpi; of the horizontal layout nothing is kept.  *)
(* Bounds: MaxCalls setItems under way, MaxChanges notifications,          *)
(* CursorRows, the heights at which the mouse is seen, and ScreenHeight.   *)
(***************************************************************************)
EXTENDS Sources

CONSTANTS MaxCalls, MaxChanges, CursorRows, ScreenHeight

ASSUME TrayMenuAssumption ==
  /\ MaxCalls \in Nat /\ MaxChanges \in Nat
  /\ CursorRows \subseteq Nat /\ ScreenHeight \in Nat

VARIABLES
  lastPayload, \* _lastPayload
  toNative,    \* the setItems the runner has not seen
  answers,     \* the setItems whose answer Dart has not seen
  toDart,      \* the selectItem under way: a sequence of at most one item
  changes,     \* notifications so far
  missed,      \* a change equal to _lastPayload was skipped during a call
  switchItems, \* tray_switch_items_
  menu,        \* tray_menu_*: [open, items, hover, scroll, content, visible]
  sub,         \* tray_submenu_*: the same, and parent
  icon,        \* tray_icon_added_
  quitting,    \* is_quitting_
  window       \* the main window: "shown", "hidden" or "gone"

dartVars == <<sourceVars, lastPayload, changes, missed>>
channelVars == <<toNative, answers, toDart>>
nativeVars == <<switchItems, menu, sub, icon, quitting, window>>
trayVars == <<dartVars, channelVars, nativeVars>>

Item(kind, id, index, on, mark, label, rows) ==
  [kind |-> kind, id |-> id, index |-> index, on |-> on, mark |-> mark,
   label |-> label, rows |-> rows]
Separator == Item("separator", 0, 0, FALSE, FALSE, "none", <<>>)
Command(kind) == Item(kind, 0, 0, TRUE, FALSE, "none", <<>>)

-----------------------------------------------------------------------------
(* _buildItems, as the controller is now.                                  *)
ConnectionAction ==
  Item("toggle", 0, 0, IsConnected \/ (~IsBusy /\ sources # <<>>), FALSE, phase, <<>>)

ProfileRows(source, selected) ==
  [i \in DOMAIN source.profiles |->
     Item("profile", source.id, i, CanEditSources,
          selected /\ i = source.selected, source.profiles[i], <<>>)]

SourceRow(source) ==
  LET selected == source.id = SelectedSource.id
      many == Len(source.profiles) > 1 IN
  Item("source", source.id, 0, CanEditSources, selected,
       IF many THEN source.input ELSE SelectedKey(source),
       IF many THEN ProfileRows(source, selected) ELSE <<>>)

BuildItems ==
  <<ConnectionAction>> \o
  (IF sources = <<>> THEN <<>>
   ELSE <<Separator>> \o [i \in Indexes |-> SourceRow(sources[i])])

(* _sync, which every notification calls: _lastPayload is what was last    *)
(* answered, not what was last sent.                                       *)
Sync ==
  /\ changes < MaxChanges /\ changes' = changes + 1
  /\ IF BuildItems' = lastPayload
     THEN missed' = (toNative \o answers # <<>>) /\ UNCHANGED toNative
     ELSE /\ Len(toNative \o answers) < MaxCalls
          /\ toNative' = Append(toNative, BuildItems') /\ missed' = FALSE
  /\ UNCHANGED <<lastPayload, answers, nativeVars>>

Answered ==
  /\ answers # <<>>
  /\ lastPayload' = Head(answers) /\ answers' = Tail(answers)
  /\ UNCHANGED <<sourceVars, changes, missed, toNative, toDart, nativeVars>>

(* The controller goes on, by itself and by the hand of the user in the    *)
(* window; a country that became known notifies without a change of it.    *)
ControllerChanges ==
  /\ window # "gone"
  /\ \/ Connection
     \/ \E id \in 1 .. lastId : SelectSource(id) \/ RemoveSource(id) \/ RefreshSource(id)
     \/ \E j \in DOMAIN jobs : \E catalog \in Catalogs : RefreshEnds(j, catalog)
     \/ UNCHANGED sourceVars
  /\ Sync /\ UNCHANGED toDart

(* _selectItem: the profile is set on whatever source is selected then.    *)
SelectProfile(id, index) ==
  /\ CanEditSources
  /\ selectedId' = id
  /\ LET source == IF Has(id) THEN SourceById(id) ELSE sources[1] IN
     IF sources # <<>> /\ index \in DOMAIN source.profiles
     THEN ReplaceSource([source EXCEPT !.selected = index]) ELSE UNCHANGED sources
  /\ UNCHANGED <<lastId, phase, activeId, adding, jobs, marks>>

Honoured(item) ==
  IF item.kind = "toggle" THEN IsConnected \/ (~IsBusy /\ sources # <<>>)
  ELSE CanEditSources
SelectItem ==
  LET item == Head(toDart) IN
  /\ toDart # <<>> /\ toDart' = <<>>
  /\ IF ~Honoured(item) THEN UNCHANGED <<dartVars, toNative, answers, nativeVars>>
     ELSE /\ CASE item.kind = "toggle" -> ConnectBegins \/ Disconnects
                [] item.kind = "source" -> SelectSource(item.id)
                [] item.kind = "profile" -> SelectProfile(item.id, item.index)
          /\ Sync

-----------------------------------------------------------------------------
(* The layout: GetTrayMenuSize, GetTrayMenuItemRect and GetTrayMenuItem-   *)
(* IndexAtPoint, which sees neither separators nor what is not enabled.    *)
ItemHeight(item) == IF item.kind = "separator" THEN 6 ELSE 34
Bottom(items, index) ==
  LET bottom[i \in 0 .. Len(items)] ==
        IF i = 0 THEN 0 ELSE bottom[i - 1] + ItemHeight(items[i]) IN
  bottom[index]
MenuHeight(items) == Bottom(items, Len(items))
MinOf(a, b) == IF a < b THEN a ELSE b
MaxScroll(w) == IF w.content > w.visible THEN w.content - w.visible ELSE 0

IndexAt(items, y) ==
  IF \E i \in DOMAIN items :
       items[i].on /\ Bottom(items, i - 1) <= y /\ y < Bottom(items, i)
  THEN CHOOSE i \in DOMAIN items : Bottom(items, i - 1) <= y /\ y < Bottom(items, i)
  ELSE 0
IndexAtPoint(w, y) == IndexAt(w.items, y + w.scroll)

Opened(items) ==
  [open |-> TRUE, items |-> items, hover |-> 0, scroll |-> 0,
   content |-> MenuHeight(items), visible |-> MinOf(MenuHeight(items), ScreenHeight)]
Closed(items) ==
  [open |-> FALSE, items |-> items, hover |-> 0, scroll |-> 0,
   content |-> 0, visible |-> 0]

SubmenuOf(parent, w) ==
  [parent |-> parent, open |-> w.open, items |-> w.items, hover |-> w.hover,
   scroll |-> w.scroll, content |-> w.content, visible |-> w.visible]
NoSubmenu == SubmenuOf(0, Closed(<<>>))
Submenu(items, index) == SubmenuOf(index, Opened(items[index].rows))

(* RebuildTrayMenuItems.                                                   *)
MenuItems(items) ==
  <<Command("open"), Separator>>
    \o (IF items = <<>> THEN <<>> ELSE items \o <<Separator>>) \o <<Command("quit")>>

(* HideTrayMenu, with the submenu.                                         *)
HideTrayMenu == menu' = Closed(menu.items) /\ sub' = NoSubmenu

TrayInit ==
  /\ lastPayload = <<>> /\ toNative = <<BuildItems>> /\ answers = <<>> /\ toDart = <<>>
  /\ changes = 0 /\ missed = FALSE
  /\ switchItems = <<>> /\ menu = Closed(<<>>) /\ sub = NoSubmenu
  /\ icon = TRUE /\ quitting = FALSE /\ window = "shown"

-----------------------------------------------------------------------------
(* UpdateTraySwitchItems: an open menu is closed when it changes its       *)
(* shape, and the submenu when its parent does; hover and scroll stay.     *)
Shape(item) ==
  <<IF item.kind \in {"separator", "open", "quit"} THEN item.kind ELSE "item",
    item.rows = <<>>>>
SameShape(a, b) ==
  Len(a) = Len(b) /\ \A i \in DOMAIN a : Shape(a[i]) = Shape(b[i])

(* Mutant: the submenu is kept with its hovered row although its parent    *)
(* has other rows.                                                         *)
BugUpdatedSubmenu(items) ==
  IF sub.open /\ items[sub.parent].rows # <<>>
  THEN [sub EXCEPT !.items = items[sub.parent].rows] ELSE NoSubmenu
UpdatedSubmenu(items) ==
  IF sub.open /\ SameShape(sub.items, items[sub.parent].rows)
  THEN [sub EXCEPT !.items = items[sub.parent].rows] ELSE NoSubmenu

SetItems ==
  /\ toNative # <<>> /\ window # "gone"
  /\ switchItems' = Head(toNative)
  /\ LET items == MenuItems(switchItems') IN
     IF ~menu.open THEN menu' = [menu EXCEPT !.items = items] /\ UNCHANGED sub
     ELSE IF ~SameShape(menu.items, items)
     THEN menu' = Closed(items) /\ sub' = NoSubmenu
     ELSE menu' = [menu EXCEPT !.items = items] /\ sub' = UpdatedSubmenu(items)
  /\ toNative' = Tail(toNative) /\ answers' = Append(answers, Head(toNative))
  /\ UNCHANGED <<dartVars, toDart, icon, quitting, window>>

-----------------------------------------------------------------------------
(* The icon and the keyboard and mouse on the menu (MessageHandler and     *)
(* TrayMenuMessageHandler).                                                *)
MenuOnly == UNCHANGED <<dartVars, channelVars, switchItems, icon, quitting, window>>

(* ShowTrayMenu; without a window of its own if that cannot be created.    *)
ShowTrayMenu ==
  /\ window # "gone" /\ (icon \/ quitting)
  /\ menu' \in {Opened(MenuItems(switchItems)), Closed(MenuItems(switchItems))}
  /\ sub' = NoSubmenu
  /\ MenuOnly

(* Escape, another button, the loss of focus or of the capture.            *)
Dismiss == menu.open /\ HideTrayMenu /\ MenuOnly

(* UpdateTrayMenuHoverFromCursor, with ShowTraySubmenu and HideTraySubmenu.*)
HoverSubmenu(w, y) ==
  /\ sub' = [w EXCEPT !.hover = IndexAtPoint(w, y)]
  /\ menu' = [menu EXCEPT !.hover = sub.parent]
HoverMenu(w, index) ==
  /\ menu' = [w EXCEPT !.hover = index]
  /\ IF index # 0 /\ w.items[index].rows # <<>>
     THEN IF sub.open /\ sub.parent = index THEN UNCHANGED sub
          ELSE sub' \in {Submenu(w.items, index), NoSubmenu}
     ELSE sub' = NoSubmenu

MouseMove ==
  /\ menu.open
  /\ \/ HoverMenu(menu, 0)
     \/ \E y \in CursorRows :
          \/ y < menu.visible /\ HoverMenu(menu, IndexAtPoint(menu, y))
          \/ sub.open /\ y < sub.visible /\ HoverSubmenu(sub, y)
  /\ MenuOnly

(* WM_MOUSEWHEEL: by one item, then the hover of what is under the mouse.  *)
Scrolled(w, up) ==
  [w EXCEPT !.scroll = IF up THEN (IF @ > 34 THEN @ - 34 ELSE 0)
                       ELSE MinOf(@ + 34, MaxScroll(w))]
MouseWheel ==
  /\ menu.open
  /\ \E up \in BOOLEAN, y \in CursorRows :
       \/ /\ y < menu.visible /\ Scrolled(menu, up) # menu
          /\ HoverMenu(Scrolled(menu, up), IndexAtPoint(Scrolled(menu, up), y))
       \/ /\ sub.open /\ y < sub.visible /\ Scrolled(sub, up) # sub
          /\ HoverSubmenu(Scrolled(sub, up), y)
  /\ MenuOnly

(* ShowWindowFromTray and HideWindowToTray.                                *)
ShowWindow ==
  /\ window # "gone" /\ window' = "shown"
  /\ HideTrayMenu
  /\ UNCHANGED <<dartVars, channelVars, switchItems, icon, quitting>>
HideWindowToTray ==
  /\ window = "shown" /\ ~quitting /\ window' = "hidden"
  /\ HideTrayMenu
  /\ UNCHANGED <<dartVars, channelVars, switchItems, icon, quitting>>

(* QuitFromTray: the icon goes at once, the window when Dart has answered. *)
QuitFromTray ==
  /\ HideTrayMenu
  /\ IF quitting THEN UNCHANGED <<icon, quitting, window>>
     ELSE quitting' = TRUE /\ icon' = FALSE /\ window' = "hidden"
  /\ UNCHANGED <<dartVars, channelVars, switchItems>>

(* FinishQuit and OnDestroy; Dart ends with the window.                    *)
FinishQuit ==
  /\ quitting /\ window # "gone"
  /\ window' = "gone" /\ icon' = FALSE
  /\ HideTrayMenu
  /\ UNCHANGED <<dartVars, channelVars, switchItems, quitting>>

(* InvokeTrayMenuItem; the menu stays open for what it changes.            *)
InvokeTrayMenuItem(item) ==
  CASE item.kind = "open" -> ShowWindow
    [] item.kind = "quit" -> QuitFromTray
    [] item.kind \in {"toggle", "source", "profile"} ->
         /\ toDart = <<>> /\ toDart' = <<item>>
         /\ UNCHANGED <<dartVars, toNative, answers, nativeVars>>

(* WM_LBUTTONUP: outside every item it closes the menu.                    *)
Click ==
  /\ menu.open
  /\ \E y \in CursorRows, w \in {menu, sub} :
       /\ w.open /\ y < w.visible
       /\ LET index == IndexAtPoint(w, y) IN
          IF index = 0 THEN HideTrayMenu /\ MenuOnly
          ELSE InvokeTrayMenuItem(w.items[index])

(* Enter and Space: the hovered row, without a look at whether it is still *)
(* enabled; of the submenu if one is hovered there.                        *)
Enter ==
  /\ menu.open /\ (sub.hover # 0 \/ menu.hover # 0)
  /\ InvokeTrayMenuItem(IF sub.hover # 0 THEN sub.items[sub.hover]
                        ELSE menu.items[menu.hover])

TrayNext ==
  \/ (Answered /\ window # "gone")
  \/ ControllerChanges
  \/ SelectItem /\ window # "gone"
  \/ SetItems \/ ShowTrayMenu \/ Dismiss \/ MouseMove \/ MouseWheel
  \/ Click \/ Enter
  \/ (icon /\ ShowWindow) \/ HideWindowToTray \/ FinishQuit

-----------------------------------------------------------------------------
(* The menu shows the controller: once no setItems is under way its items  *)
(* are those of the controller, unless a change back to what was last      *)
(* answered came during a call and was skipped (_sync, missed).  While it  *)
(* is open its rows, its height and the rows of the submenu agree although *)
(* the items are replaced under the mouse, so that the hovered row and the *)
(* scroll offset are within them (UpdateTraySwitchItems, same_shape, Enter *)
(* and WM_MOUSEWHEEL use them unchecked); and nothing of it outlives quit. *)
MenuIsTrue ==
  /\ toNative \o answers = <<>> /\ ~missed /\ window # "gone" =>
       switchItems = BuildItems
  /\ menu.open =>
       /\ menu.items = MenuItems(switchItems)
       /\ menu.content = MenuHeight(menu.items)
       /\ menu.hover \in 0 .. Len(menu.items) /\ menu.scroll <= MaxScroll(menu)
  /\ sub.hover \in 0 .. Len(sub.items) /\ sub.scroll <= MaxScroll(sub)
  /\ sub.open =>
       /\ menu.open /\ sub.parent \in DOMAIN menu.items
       /\ sub.items = menu.items[sub.parent].rows
       /\ sub.content = MenuHeight(sub.items)
  /\ quitting => ~icon
  /\ window = "gone" => ~menu.open /\ ~sub.open
=============================================================================
