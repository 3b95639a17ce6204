---------------------------- MODULE ThemeProvider ----------------------------
(***************************************************************************)
(* The theme of the web application in the tabs of one browser.  The       *)
(* hotkey steps through the themes; a tab writes its choice to the local   *)
(* storage, and the storage events that the browser then sends to all      *)
(* other tabs make these follow.                                           *)
(*                                                                         *)
(* React renders what a storage event sets later, and what a key sets at   *)
(* once, together with what was set before.  The effects run after the     *)
(* render: they put the theme on the page and install the listeners, the   *)
(* first time too, so that a tab that opens hears nothing for a while.     *)
(***************************************************************************)
EXTENDS Integers, Sequences

CONSTANTS
  Tabs,
  Unset,      \* no theme: nothing stored, nothing set, no effect run
  MaxPresses, \* bound: uses of the hotkey
  MaxUpsets   \* bound: reloads, changes of the system, removals of the item

ASSUME UnsetAssumption == Unset \notin {"light", "dark", "system"}
ASSUME PressesAssumption == {MaxPresses, MaxUpsets} \subseteq Nat

VARIABLES
  saved,   \* the item in the local storage
  scheme,  \* the system's colour scheme
  theme,   \* what each tab has rendered
  update,  \* what it has set and not rendered
  applied, \* the theme of its last effect: "system" listens to the scheme
  class,   \* the class of its root element
  inbox,   \* the storage events on their way to it
  notice,  \* an event of the colour scheme is on its way to it
  loose,   \* no event will bring it what is saved: its choice was not stored,
           \* or older events follow its choice, or it heard the last one too early
  presses, upsets

themeVars == <<saved, scheme, theme, update, applied, class, inbox, notice, loose, presses, upsets>>

OnPage(t)  == IF t = "system" THEN scheme ELSE t
OrDefault(item) == IF item = Unset THEN "system" ELSE item

ThemeInit ==
  /\ saved = Unset /\ scheme \in {"light", "dark"}
  /\ theme = [t \in Tabs |-> "system"] /\ applied = [t \in Tabs |-> Unset]
  /\ class = [t \in Tabs |-> Unset] /\ update = [t \in Tabs |-> Unset]
  /\ inbox = [t \in Tabs |-> <<>>]
  /\ notice = [t \in Tabs |-> FALSE] /\ loose = [t \in Tabs |-> FALSE]
  /\ presses = 0 /\ upsets = 0

\* THEME_VALUES, one step on.
Following(t) ==
  CASE t = "light" -> "dark" [] t = "dark" -> "system" [] t = "system" -> "light"

\* The item changes by what one tab does, and the other tabs are told.
Write(tab, item) ==
  LET told == IF item = saved THEN {} ELSE Tabs \ {tab} IN
  /\ saved' = item
  /\ inbox' = [t \in Tabs |-> IF t \in told THEN Append(inbox[t], item) ELSE inbox[t]]
  /\ loose' = [t \in Tabs |-> IF t = tab THEN inbox[t] # <<>> ELSE loose[t] /\ t \notin told]

\* Seeded defect: an effect that runs for a fixed theme leaves the page alone.
EffectOfSystem(t) ==
  /\ applied[t] # theme[t]
  /\ applied' = [applied EXCEPT ![t] = theme[t]]
  /\ class' = IF theme[t] = "system" THEN [class EXCEPT ![t] = scheme] ELSE class
  /\ UNCHANGED <<saved, scheme, theme, update, inbox, notice, loose, presses, upsets>>

\* handleKeyDown: a write that is refused only loses the stored preference.
KeyDown(t, allowed) ==
  LET next == Following(IF update[t] = Unset THEN theme[t] ELSE update[t]) IN
  /\ applied[t] # Unset /\ presses < MaxPresses /\ presses' = presses + 1
  /\ IF allowed THEN Write(t, next)
     ELSE loose' = [loose EXCEPT ![t] = TRUE] /\ UNCHANGED <<saved, inbox>>
  /\ theme' = [theme EXCEPT ![t] = next] /\ update' = [update EXCEPT ![t] = Unset]
  /\ applied' = [applied EXCEPT ![t] = next] /\ class' = [class EXCEPT ![t] = OnPage(next)]
  /\ UNCHANGED <<scheme, notice, upsets>>

\* handleStorageChange, if it is installed.
StorageEvent(t) ==
  /\ inbox[t] # <<>> /\ inbox' = [inbox EXCEPT ![t] = Tail(@)]
  /\ IF applied[t] = Unset
     THEN loose' = [loose EXCEPT ![t] = @ \/ Len(inbox[t]) = 1] /\ UNCHANGED update
     ELSE update' = [update EXCEPT ![t] = OrDefault(Head(inbox[t]))] /\ UNCHANGED loose
  /\ UNCHANGED <<saved, scheme, theme, applied, class, notice, presses, upsets>>

RenderTheme(t) ==
  /\ update[t] # Unset
  /\ theme' = [theme EXCEPT ![t] = update[t]] /\ update' = [update EXCEPT ![t] = Unset]
  /\ UNCHANGED <<saved, scheme, applied, class, inbox, notice, loose, presses, upsets>>

\* The effect that calls applyTheme.
Effect(t) ==
  /\ applied[t] # theme[t]
  /\ applied' = [applied EXCEPT ![t] = theme[t]] /\ class' = [class EXCEPT ![t] = OnPage(theme[t])]
  /\ UNCHANGED <<saved, scheme, theme, update, inbox, notice, loose, presses, upsets>>

\* handleChange, if it is installed.
HandleChange(t) ==
  /\ notice[t] /\ notice' = [notice EXCEPT ![t] = FALSE]
  /\ class' = IF applied[t] = "system" THEN [class EXCEPT ![t] = scheme] ELSE class
  /\ UNCHANGED <<saved, scheme, theme, update, applied, inbox, loose, presses, upsets>>

Upset == upsets < MaxUpsets /\ upsets' = upsets + 1

\* The system's colour scheme changes.
SchemeChanges ==
  /\ Upset
  /\ scheme' = IF scheme = "dark" THEN "light" ELSE "dark"
  /\ notice' = [t \in Tabs |-> TRUE]
  /\ UNCHANGED <<saved, theme, update, applied, class, inbox, loose, presses>>

\* A tab is opened anew; its first render reads the item.
OpenTab(t) ==
  /\ Upset
  /\ theme' = [theme EXCEPT ![t] = OrDefault(saved)] /\ update' = [update EXCEPT ![t] = Unset]
  /\ applied' = [applied EXCEPT ![t] = Unset] /\ class' = [class EXCEPT ![t] = Unset]
  /\ inbox' = [inbox EXCEPT ![t] = <<>>] /\ notice' = [notice EXCEPT ![t] = FALSE]
  /\ loose' = [loose EXCEPT ![t] = FALSE]
  /\ UNCHANGED <<saved, scheme, presses>>

\* The user removes the item in one of the tabs, which is not told.
RemoveItem(t) ==
  /\ Upset /\ saved # Unset
  /\ saved' = Unset
  /\ inbox' = [u \in Tabs |-> IF u = t THEN inbox[u] ELSE Append(inbox[u], Unset)]
  /\ loose' = [u \in Tabs |-> u = t]
  /\ UNCHANGED <<scheme, theme, update, applied, class, notice, presses>>

ThemeNext ==
  \/ SchemeChanges
  \/ \E t \in Tabs :
       \/ \E allowed \in BOOLEAN : KeyDown(t, allowed)
       \/ StorageEvent(t) \/ RenderTheme(t) \/ Effect(t) \/ HandleChange(t)
       \/ OpenTab(t) \/ RemoveItem(t)

ThemeSpec == ThemeInit /\ [][ThemeNext]_themeVars

-----------------------------------------------------------------------------
\* Once a tab has rendered what it was told, its page shows its theme as the
\* system's colour scheme wants it, and the theme is the one that is saved: the
\* tabs agree, whichever of them used the hotkey, was opened or was told last.
\* The exceptions are tabs whose own last word is not the saved one (loose).
TabsAgree ==
  \A t \in Tabs :
    inbox[t] = <<>> /\ update[t] = Unset /\ applied[t] = theme[t] /\ ~notice[t] =>
      /\ class[t] = OnPage(theme[t])
      /\ loose[t] \/ theme[t] = OrDefault(saved)
=============================================================================
