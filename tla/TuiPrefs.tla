----------------------------- MODULE TuiPrefs -----------------------------
(***************************************************************************)
(* The preferences of the terminal UI (agentum-tui, prefs.rs and app.rs).  *)
(* They live three times: in tui_prefs.toml, in app.prefs, and, for what   *)
(* shapes the screen, in fields of the app that the renderer reads.  Keys, *)
(* chords, palette entries and the settings overlay change them in one,    *)
(* two or three of these places.                                           *)
(***************************************************************************)
EXTENDS Integers

CONSTANTS MaxWidth,     \* LAZYGIT_MAX_WIDTH, TERM_SPLIT_MAX_PCT, in steps
          MaxTtl        \* NOTIF_TTL_MAX_MS, in steps

ASSUME PrefsAssumption == MaxWidth \in Nat \ {0} /\ MaxTtl \in Nat \ {0}

VARIABLES
    prefs,      \* app.prefs
    screen,     \* the app's own fields, what the renderer reads
    disk,       \* contents of tui_prefs.toml, Torn when a write was cut short
    row,        \* row of the settings overlay, "closed" when it is not open
    chord,      \* Ctrl-K was typed and waits for its letter
    up          \* the UI runs

prefVars == <<prefs, screen, disk, row, chord, up>>

Prefs == [bar: BOOLEAN, panel: BOOLEAN, folded: BOOLEAN, scope: BOOLEAN,
          mark: BOOLEAN, width: 0..MaxWidth, ttl: 0..MaxTtl]
Screen == [bar: BOOLEAN, panel: BOOLEAN, folded: BOOLEAN, scope: BOOLEAN,
           width: 0..MaxWidth]
\* The settings overlay's rows, one of each kind: the sounds and the chips of
\* the status bar are all like "mark".
Rows == {"mark", "ttl", "bar", "panel", "all"}

Defaults == [bar |-> FALSE, panel |-> TRUE, folded |-> FALSE, scope |-> TRUE,
             mark |-> TRUE, width |-> 1, ttl |-> 1]
Torn == [Defaults EXCEPT !.ttl = -1]

\* The variables stay within their types.
PrefTypeOK ==
    /\ prefs \in Prefs
    /\ screen \in Screen
    /\ disk \in Prefs \cup {Torn}
    /\ row \in Rows \cup {"closed"}
    /\ chord \in BOOLEAN /\ up \in BOOLEAN

\* Fault: a width is kept from going below zero and may grow for ever.
ClampBelow(n, max) == IF n < 0 THEN 0 ELSE n

ClampWidth(n, max) == IF n < 0 THEN 0 ELSE IF n > max THEN max ELSE n

-----------------------------------------------------------------------------
(* The file.                                                               *)

\* prefs::load: an empty or unreadable file reads as the defaults.
Load == IF disk = Torn THEN Defaults ELSE disk

\* prefs::save truncates the file and then writes it: the process may die in
\* between.
Save(p) ==
    /\ prefs' = p
    /\ \/ disk' = p /\ UNCHANGED up
       \/ disk' = Torn /\ up' = FALSE

\* App::new.  The sidebar starts visible, whatever was saved.
OnScreen(p) == [bar |-> FALSE, panel |-> p.panel, folded |-> p.folded,
                scope |-> p.scope, width |-> p.width]

StartUi ==
    /\ ~up /\ up' = TRUE
    /\ prefs' = Load
    /\ screen' = OnScreen(Load)
    /\ row' = "closed" /\ chord' = FALSE
    /\ UNCHANGED disk

QuitUi ==
    /\ up /\ up' = FALSE
    /\ UNCHANGED <<prefs, screen, disk, row, chord>>

-----------------------------------------------------------------------------
(* Keys, chords and palette entries: the field of the app, the preference  *)
(* and the file, in this order.                                            *)

Assign(f, v) ==
    /\ screen' = [screen EXCEPT ![f] = v]
    /\ Save([prefs EXCEPT ![f] = v])

\* Ctrl-B, Ctrl-K B and the palette; Ctrl-K V and the palette; the palette's
\* scope entry (toggle_show_all_servers); Ctrl-T and the palette.
ToggleField(f) == Assign(f, ~screen[f])

\* Ctrl-K and < or >, + and -, Ctrl-Shift-arrows.
Resize(by) == Assign("width", ClampWidth(screen.width + by, MaxWidth))

\* A chord consumes the next key, whatever it is.
ArmChord ==
    /\ up /\ ~chord /\ chord' = TRUE
    /\ UNCHANGED <<prefs, screen, disk, row, up>>

RunChord ==
    /\ up /\ chord /\ chord' = FALSE
    /\ \/ \E f \in {"bar", "folded"} : ToggleField(f)
       \/ \E by \in {-1, 1} : Resize(by)
       \/ UNCHANGED <<prefs, screen, disk, up>>
    /\ UNCHANGED row

PressKey ==
    /\ up /\ ~chord
    /\ \/ \E f \in {"bar", "panel"} : ToggleField(f)
       \/ \E by \in {-1, 1} : Resize(by)
    /\ UNCHANGED <<row, chord>>

\* Ctrl-E from a pane makes the tree visible on the screen only.
RevealTree ==
    /\ up /\ ~chord /\ screen.bar
    /\ screen' = [screen EXCEPT !.bar = FALSE]
    /\ UNCHANGED <<prefs, disk, row, chord, up>>

\* mirror_layout_from_prefs
Mirror(p) == [screen EXCEPT !.width = p.width, !.bar = p.bar,
                            !.panel = p.panel]

BumpTtl(p, by) == [p EXCEPT !.ttl = ClampWidth(p.ttl + by, MaxTtl)]

\* run_palette_action
RunPalette ==
    /\ up /\ ~chord /\ row = "closed"
    /\ \/ \E f \in {"bar", "folded", "scope", "panel"} : ToggleField(f)
       \/ /\ Save([prefs EXCEPT !.mark = ~@])
          /\ UNCHANGED screen
       \/ /\ \E by \in {-1, 1} : Save(BumpTtl(prefs, by))
          /\ UNCHANGED screen
       \/ /\ Save(Defaults)
          /\ screen' = Mirror(Defaults)
    /\ UNCHANGED <<row, chord>>

-----------------------------------------------------------------------------
(* The settings overlay.                                                   *)

OpenSettings ==
    /\ up /\ ~chord
    /\ row' = "mark"
    /\ UNCHANGED <<prefs, screen, disk, chord, up>>

MoveRow ==
    /\ up /\ ~chord /\ row # "closed"
    /\ row' \in Rows \cup {"closed"}
    /\ UNCHANGED <<prefs, screen, disk, chord, up>>

\* toggle_settings_row
Toggled == CASE row \in {"mark", "bar", "panel"} -> [prefs EXCEPT ![row] = ~@]
             [] row = "ttl" -> BumpTtl(prefs, 1)
             [] row = "all" -> Defaults

ActivateRow ==
    /\ up /\ ~chord /\ row # "closed"
    /\ Save(Toggled)
    /\ screen' = Mirror(Toggled)
    /\ UNCHANGED <<row, chord>>

\* Left and right on a TTL row.
AdjustRow ==
    /\ up /\ ~chord /\ row = "ttl"
    /\ \E by \in {-1, 1} : Save(BumpTtl(prefs, by))
    /\ UNCHANGED <<screen, row, chord>>

\* r: apply_settings_row_from the defaults.
RowReset == IF row = "all" THEN Defaults
            ELSE [prefs EXCEPT ![row] = Defaults[row]]

ResetRow ==
    /\ up /\ ~chord /\ row # "closed"
    /\ Save(RowReset)
    /\ screen' = Mirror(RowReset)
    /\ UNCHANGED <<row, chord>>

-----------------------------------------------------------------------------
PrefInit ==
    /\ prefs = Defaults
    /\ screen = OnScreen(Defaults)
    /\ disk = Defaults
    /\ row = "closed" /\ chord = FALSE
    /\ up = TRUE

PrefNext ==
    \/ StartUi
    \/ QuitUi
    \/ ArmChord
    \/ RunChord
    \/ PressKey
    \/ RevealTree
    \/ RunPalette
    \/ OpenSettings
    \/ MoveRow
    \/ ActivateRow
    \/ AdjustRow
    \/ ResetRow

PrefSpec == PrefInit /\ [][PrefNext]_prefVars

-----------------------------------------------------------------------------
\* "Both `app.<field>` and `app.prefs.<field>` are kept in sync at every
\* keybinding mutation" (App::new), for the agent panel and the widths: a UI
\* that runs shows what it has saved and would come up the same after a
\* restart, through any mix of keys, chords, palette, settings and resets.  It
\* does not hold of the sidebar, the servers section and the scope.
SettingsStick ==
    up => /\ prefs = Load
          /\ screen.panel = prefs.panel
          /\ screen.width = prefs.width
=============================================================================
