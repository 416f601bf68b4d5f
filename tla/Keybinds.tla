------------------------------- MODULE Keybinds -------------------------------
(***************************************************************************)
(* How zrush lives with other plugins on the keys of the main keymap       *)
(* (zrush.zsh: _zrush_apply_keybinds, _zrush_bind_one, the teardown at the *)
(* head of the script).  Each key is bound to a widget; a widget of zrush  *)
(* or of a plugin falls back to the widget it found on the key.            *)
(***************************************************************************)
EXTENDS Integers, Sequences, SequencesExt

CONSTANTS Keys,        \* key sequences, 1..n
          TabKey,      \* the one that Tab sends
          Configs,     \* sequences of [action, key]; a key may occur twice
          MaxPlugins,  \* plugin layers over the run
          MaxApplied   \* times the bindings are applied

ASSUME KeybindsAssumption == Keys \in SUBSET Nat /\ TabKey \in Keys /\ MaxPlugins \in Nat /\ MaxApplied \in Nat

NoWidget == <<"none", 0>>
Base(k) == <<"base", k>>         \* what the key had before zrush
Dispatcher(n) == <<"zrush", n>>
PluginWidget(n) == <<"plugin", n>>

VARIABLES binding,   \* the widget of each key
          widgets,   \* the registered widgets of zrush and of plugins: [prev, action]
          wrapped,   \* widgets of zrush that a plugin has wrapped in place
          bound,     \* _zrush_bound: key -> dispatcher, or NoWidget
          ledger,    \* _zrush_dsp_prev: dispatcher -> predecessor
          active,    \* _zrush_active_dsp
          count,     \* _zrush_dsp_n
          plugins,   \* plugin layers that are installed: [key, widget]
          made,      \* plugin layers made so far
          applied    \* applications so far

vars == <<binding, widgets, wrapped, bound, ledger, active, count, plugins, made, applied>>

With(f, x, val) == [y \in DOMAIN f \cup {x} |-> IF y = x THEN val ELSE f[y]]
Without(f, x) == [y \in DOMAIN f \ {x} |-> f[y]]
Lookup(f, x) == IF x \in DOMAIN f THEN f[x] ELSE NoWidget

\* zrush owns a key directly: its widget is on it, and the widget is its own.
Owned(s, k, w) == w # NoWidget /\ s.binding[k] = w /\ w \in DOMAIN s.widgets /\ w \notin s.wrapped

Init ==
  /\ binding = [k \in Keys |-> Base(k)]
  /\ widgets = << >> /\ wrapped = {}
  /\ bound = [k \in Keys |-> NoWidget] /\ ledger = << >> /\ active = {}
  /\ count = 0 /\ plugins = {} /\ made = 0 /\ applied = 0

-----------------------------------------------------------------------------
(***************************************************************************)
(* One application, on a record s of the variables it changes.             *)
(***************************************************************************)
\* With a fault, for checking the properties: the layer on the key becomes
\* its own predecessor.
LayerForFault(s, k) ==
  LET cur == s.binding[k]
  IN  IF Owned(s, k, s.bound[k]) THEN [prev |-> cur, name |-> s.bound[k], count |-> s.count]
      ELSE [prev |-> cur, name |-> Dispatcher(s.count + 1), count |-> s.count + 1]

\* The predecessor and the name of the layer for a key: a layer that is still
\* directly on the key is kept with the predecessor it has.
LayerFor(s, k) ==
  LET cur == s.binding[k]
  IN  IF Owned(s, k, s.bound[k])
      THEN [prev |-> Lookup(s.ledger, s.bound[k]), name |-> s.bound[k], count |-> s.count]
      ELSE [prev |-> cur, name |-> Dispatcher(s.count + 1), count |-> s.count + 1]

\* With a fault: the layer is recorded for the key only when it is new.
BindOneFault(s, action, k) ==
  LET layer == LayerFor(s, k)
  IN  [s EXCEPT !.ledger = With(@, layer.name, layer.prev),
                !.widgets = With(@, layer.name, [prev |-> layer.prev, action |-> action]),
                !.binding[k] = layer.name, !.count = layer.count,
                !.new[k] = IF layer.count > s.count THEN layer.name ELSE @,
                !.wrapped = @ \ {layer.name}]

BindOne(s, action, k) ==
  LET layer == LayerFor(s, k)
  IN  [s EXCEPT !.ledger = With(@, layer.name, layer.prev),
                !.widgets = With(@, layer.name, [prev |-> layer.prev, action |-> action]),
                !.binding[k] = layer.name, !.count = layer.count, !.new[k] = layer.name,
                !.wrapped = @ \ {layer.name}]

\* A key that zrush gives up goes back to its predecessor, and the layer is
\* released, unless something else is on the key or around the layer.
Restore(s, k, w) ==
  IF Owned(s, k, w)
  THEN [s EXCEPT !.binding[k] = Lookup(s.ledger, w), !.widgets = Without(@, w), !.ledger = Without(@, w)]
  ELSE s

RestoreAll(s, keys) ==
  FoldLeft(LAMBDA t, k : IF t.bound[k] = NoWidget THEN t ELSE Restore(t, k, t.bound[k]), s, SetToSeq(keys))

\* Tab is bound whatever the settings, and last.
WithTab(config) == Append(config, [action |-> "tab", key |-> TabKey])

ApplyKeybinds(s, config) ==
  LET done == FoldLeft(LAMBDA t, e : BindOne(t, e.action, e.key),
                       [s EXCEPT !.new = [k \in Keys |-> NoWidget]], WithTab(config))
      rest == RestoreAll(done, {k \in Keys : done.new[k] = NoWidget})
  IN  [rest EXCEPT !.bound = done.new]

Now == [binding |-> binding, widgets |-> widgets, wrapped |-> wrapped, bound |-> bound,
        ledger |-> ledger, count |-> count, new |-> bound]

Active(s) == {s.bound[k] : k \in Keys} \ {NoWidget}

Become(s) ==
  /\ binding' = s.binding /\ widgets' = s.widgets /\ wrapped' = s.wrapped
  /\ bound' = s.bound /\ ledger' = s.ledger /\ count' = s.count
  /\ active' = Active(s)
  /\ applied < MaxApplied /\ applied' = applied + 1
  /\ UNCHANGED <<plugins, made>>

\* The settings have changed, at a prompt.
Reload(config) == applied > 0 /\ Become(ApplyKeybinds(Now, config))

\* The script is sourced, for the first time or again: what it owns directly
\* is given back before the ledgers are begun anew.
Source(config) ==
  LET torn == RestoreAll(Now, Keys)
  IN  Become(ApplyKeybinds([torn EXCEPT !.bound = [k \in Keys |-> NoWidget], !.ledger = << >>], config))

-----------------------------------------------------------------------------
(***************************************************************************)
(* Other plugins: a widget of theirs over whatever is on a key, a wrapper  *)
(* around the widget itself, and their removal when they are on top.       *)
(***************************************************************************)
Rebind(k) ==
  /\ made < MaxPlugins /\ made' = made + 1
  /\ widgets' = With(widgets, PluginWidget(made + 1), [prev |-> binding[k], action |-> "plugin"])
  /\ binding' = [binding EXCEPT ![k] = PluginWidget(made + 1)]
  /\ plugins' = plugins \cup {[key |-> k, widget |-> PluginWidget(made + 1)]}
  /\ UNCHANGED <<wrapped, bound, ledger, active, count, applied>>

Wrap(k) ==
  /\ made < MaxPlugins /\ made' = made + 1
  /\ binding[k] \in DOMAIN widgets /\ binding[k][1] = "zrush" /\ binding[k] \notin wrapped
  /\ wrapped' = wrapped \cup {binding[k]}
  /\ plugins' = plugins \cup {[key |-> k, widget |-> binding[k]]}
  /\ UNCHANGED <<binding, widgets, bound, ledger, active, count, applied>>

Unload(p) ==
  /\ p.widget[1] = "plugin" /\ binding[p.key] = p.widget
  /\ binding' = [binding EXCEPT ![p.key] = widgets[p.widget].prev]
  /\ widgets' = Without(widgets, p.widget)
  /\ plugins' = plugins \ {p}
  /\ UNCHANGED <<wrapped, bound, ledger, active, count, made, applied>>

Next ==
  \/ \E config \in Configs : Reload(config) \/ Source(config)
  \/ \E k \in Keys : Rebind(k) \/ Wrap(k)
  \/ \E p \in plugins : Unload(p)

Spec == Init /\ [][Next]_vars

-----------------------------------------------------------------------------
(***************************************************************************)
(* The widgets a key press goes through when every one of them falls back. *)
(***************************************************************************)
Chain(k) ==
  FoldLeft(LAMBDA chain, n : IF Last(chain) \in DOMAIN widgets THEN Append(chain, widgets[Last(chain)].prev)
                             ELSE chain,
           <<binding[k]>>, [n \in 1..(count + made + 1) |-> n])

TypeOK ==
  /\ DOMAIN binding = Keys /\ DOMAIN bound = Keys
  /\ \A k \in Keys : bound[k] = NoWidget \/ bound[k] \in {Dispatcher(n) : n \in 1..count}
  /\ wrapped \subseteq DOMAIN widgets
  /\ active \subseteq {Dispatcher(n) : n \in 1..count}
  /\ \A w \in DOMAIN ledger : w \in DOMAIN widgets /\ ledger[w] = widgets[w].prev

(***************************************************************************)
(* The chain of predecessors of every key ends in what the key did before  *)
(* zrush, without running in a circle, and goes through every plugin layer *)
(* that is installed on the key, however often the bindings were applied   *)
(* and the script sourced in between (behavior.md, Plugin Coexistence).    *)
(***************************************************************************)
NoPredecessorIsLost ==
  \A k \in Keys :
    /\ Last(Chain(k)) = Base(k)
    /\ \A p \in plugins : p.key = k =>
         p.widget \in ToSet(Chain(k)) /\ (p.widget[1] = "zrush" => p.widget \in wrapped)

(***************************************************************************)
(* A key press runs at most one action of zrush: of the layers of zrush in *)
(* a chain only the one of the last application is active, and nothing of  *)
(* zrush acts on a key that the settings no longer name (_zrush_dispatch). *)
(***************************************************************************)
OneLayerActs ==
  \A k \in Keys :
    LET acting == {w \in ToSet(Chain(k)) : w \in active}
    IN  acting \subseteq {bound[k]} \ {NoWidget}

(***************************************************************************)
(* Once the bindings are applied, each key named by the settings runs its  *)
(* action, the last one named for it, before any plugin's layer, and no    *)
(* layer of zrush is left in the way of a key that is not named, except    *)
(* under a plugin's (_zrush_apply_keybinds).                               *)
(***************************************************************************)
AppliedKeysAct ==
  [][\A config \in Configs : Reload(config) \/ Source(config) =>
       \A k \in Keys :
         LET all == WithTab(config)
             named == {n \in DOMAIN all : all[n].key = k}
             last == CHOOSE n \in named : \A m \in named : m <= n
         IN  /\ named # {} => /\ binding'[k] \in active'
                              /\ widgets'[binding'[k]].action = all[last].action
             /\ named = {} => binding'[k] \notin active']_vars
=============================================================================
