-------------------------------- MODULE Seat --------------------------------
(***************************************************************************)
(* The keyboard: from the host's key events to the shortcuts they fire and *)
(* to the client that is told about them.                                  *)
(*                                                                         *)
(* Every event is handed over twice.  The main world tracks the pressed    *)
(* keys and looks once per frame which shortcuts they amount to; the       *)
(* protocol world tracks them again, event by event, to withhold those     *)
(* that belong to a shortcut, and dispatches the rest to the client with   *)
(* the focus.  The two must agree.                                         *)
(*                                                                         *)
(* A frame is Extract (the backend hands over what the poll brought), Main *)
(* (the input schedule, and the focus the shell comes to) and Present (the *)
(* filter and the dispatch).  Keys, the session and clients act while the  *)
(* event loop is polled.  Key repeat is made by clients.                   *)
(*                                                                         *)
(* An operator that precedes its correct form under another name is a slip *)
(* the properties must catch: the specification does not use it.           *)
(***************************************************************************)
EXTENDS Naturals, FiniteSets, Sequences, SequencesExt

CONSTANTS Key, ModifierOf,  \* key codes, and the modifier a key stands for or None
          Shortcut,         \* ids of the registered shortcuts
          Trigger,          \* "press", "release" or "hold" for each of them
          Meaning,          \* what a token of a binding names: [kind, name] of "mod", "key" or "none"
          Default,          \* the default binding of each shortcut, a sequence of tokens
          Overrides,        \* what config.keybindings may be: ids to sequences of tokens
          Surface,
          Hosts,            \* backends a session may run on: "tty", "window"
          MaxEvents,        \* bound: events of one poll
          MaxStrokes,       \* bound: times a key goes down or up
          MaxReloads,       \* bound: changes of the configuration
          None

ASSUME KeysAssumption == None \notin Key \cup Surface
ASSUME MeaningAssumption ==
  \A t \in DOMAIN Meaning :
    /\ Meaning[t].kind \in {"mod", "key", "none"}
    /\ Meaning[t].kind = "key" => Meaning[t].name \in Key
ASSUME BindingsAssumption ==
  /\ Default \in [Shortcut -> Seq(DOMAIN Meaning)]
  /\ Trigger \in [Shortcut -> {"press", "release", "hold"}]
  /\ \A o \in Overrides : \A id \in DOMAIN o : o[id] \in Seq(DOMAIN Meaning)
ASSUME HostsAssumption == Hosts \subseteq {"tty", "window"}

VARIABLES
  host, stage,
  \* outside
  physical,   \* keys held down
  strokes,    \* how often one went down or up
  active,     \* DrmSessionState.active, or whether the host window has the focus
  alive,      \* surfaces the protocol server knows
  \* backend
  wasActive,  \* DrmSessionState.was_active
  queue,      \* pending_input_events
  frame,      \* the events of this frame, in both worlds
  \* main world
  config, configChanged, reloads,
  compiled,   \* CompiledShortcutMap
  keys,       \* PressedKeys
  on, fired,  \* ShortcutState: the active ones, and those just pressed or released
  focus,      \* KeyboardFocusState
  \* protocol world
  filter,     \* ShortcutInputFilterState
  seat,       \* SeatInputSyncState, and what smithay's keyboard knows
  \* history
  told,       \* what clients were told of in this frame: a key, up or down, and who
  withheld,   \* keys whose press a shortcut took, until they are let go or focus is lost
  excused,    \* keys that were down at the client when the host took the focus away
  lapse       \* the host held events back unnoticed, or the filter slept through some

outside == <<physical, strokes, active, alive>>
backend == <<wasActive, queue, frame>>
main    == <<config, configChanged, reloads, compiled, keys, on, fired, focus>>
history == <<told, withheld, excused, lapse>>
vars    == <<host, stage, outside, backend, main, filter, seat, history>>

Event == [kind : {"key"}, key : Key, down : BOOLEAN] \cup [kind : {"focus"}, focused : BOOLEAN]
Tracker == [held : SUBSET Key, mods : SUBSET {ModifierOf[k] : k \in Key},
            just : SUBSET Key, gone : SUBSET Key]
Combination == [mods : SUBSET {Meaning[t].name : t \in DOMAIN Meaning}, key : Key \cup {None}]

-----------------------------------------------------------------------------
(* PressedKeys                                                             *)

NoKeys == [held |-> {}, mods |-> {}, just |-> {}, gone |-> {}]

Settled(p) == [p EXCEPT !.just = {}, !.gone = {}]

\* A modifier has two keys on most keyboards; the last event of either counts.
Modifiers(mods, k, down) ==
  IF ModifierOf[k] = None THEN mods
  ELSE IF down THEN mods \cup {ModifierOf[k]} ELSE mods \ {ModifierOf[k]}

Recorded(p, k, down) ==
  [held |-> IF down THEN p.held \cup {k} ELSE p.held \ {k},
   mods |-> Modifiers(p.mods, k, down),
   just |-> IF down /\ k \notin p.held THEN p.just \cup {k} ELSE p.just,
   gone |-> IF ~down /\ k \in p.held THEN p.gone \cup {k} ELSE p.gone]

\* A combination of modifiers alone asks for at least those, one with a key for exactly those.
Holds(p, combo) ==
  IF combo.key = None THEN combo.mods \subseteq p.mods
                      ELSE combo.key \in p.held /\ p.mods = combo.mods

PressTriggered(p, combo, was) ==
  IF combo.key = None THEN Holds(p, combo) /\ ~was
                      ELSE combo.key \in p.just /\ p.mods = combo.mods

ReleaseTriggered(p, combo, was) ==
  IF combo.key = None THEN ~Holds(p, combo) /\ was
                      ELSE combo.key \in p.gone /\ p.mods = combo.mods

Triggered(id, p, combo, was) ==
  CASE Trigger[id] = "press"   -> PressTriggered(p, combo, was)
    [] Trigger[id] = "release" -> ReleaseTriggered(p, combo, was)
    [] Trigger[id] = "hold"    -> Holds(p, combo) # was

-----------------------------------------------------------------------------
(* shortcut_compile_system                                                 *)

\* KeyShortcut::parse_config: known tokens, at most one that is a key, and at least one of all.
Tokens(binding, kind) == {i \in DOMAIN binding : Meaning[binding[i]].kind = kind}

Parses(binding) ==
  /\ binding # <<>> /\ Tokens(binding, "none") = {}
  /\ \A i, j \in Tokens(binding, "key") : i = j

Combo(binding) ==
  [mods |-> {Meaning[binding[i]].name : i \in Tokens(binding, "mod")},
   key  |-> IF Tokens(binding, "key") = {} THEN None
            ELSE Meaning[binding[CHOOSE i \in Tokens(binding, "key") : TRUE]].name]

Binding(overrides, id) == IF id \in DOMAIN overrides THEN overrides[id] ELSE Default[id]

\* compile_shortcuts: all or nothing; no override of an unknown shortcut, no combination twice.
Compiles(overrides) ==
  /\ DOMAIN overrides \subseteq Shortcut
  /\ \A id \in Shortcut : Parses(Binding(overrides, id))
  /\ \A i, j \in Shortcut :
        Combo(Binding(overrides, i)) = Combo(Binding(overrides, j)) /\ Trigger[i] = Trigger[j] => i = j

Compiled ==
  IF Compiles(config) /\ (configChanged \/ compiled = <<>>)
  THEN [id \in Shortcut |-> Combo(Binding(config, id))] ELSE compiled

-----------------------------------------------------------------------------
(* Outside                                                                 *)

Init ==
  /\ host \in Hosts /\ stage = "poll"
  /\ physical = {} /\ strokes = 0 /\ active = TRUE /\ alive \in SUBSET Surface
  /\ wasActive = TRUE /\ queue = <<>> /\ frame = <<>>
  /\ config \in Overrides /\ configChanged = TRUE /\ reloads = 0
  /\ compiled = <<>> /\ keys = NoKeys /\ on = {} /\ fired = {} /\ focus = None
  /\ filter = [keys |-> NoKeys, consumed |-> {}]
  /\ seat = [host |-> TRUE, cached |-> None, focus |-> None, held |-> {}]
  /\ told = {} /\ withheld = {} /\ excused = {} /\ lapse = FALSE

KeyEvent(k, down) == [kind |-> "key", key |-> k, down |-> down]
FocusEvent(b)     == [kind |-> "focus", focused |-> b]

\* A key goes down or up; the session's callback drops what it is not meant for, and so does a
\* host window without the focus.
Strike(k) ==
  /\ stage = "poll" /\ Len(queue) < MaxEvents
  /\ strokes < MaxStrokes /\ strokes' = strokes + 1
  /\ physical' = IF k \in physical THEN physical \ {k} ELSE physical \cup {k}
  /\ queue' = IF active THEN Append(queue, KeyEvent(k, k \notin physical)) ELSE queue
  /\ UNCHANGED <<host, stage, active, alive, wasActive, frame, main, filter, seat, history>>

\* The session is paused or resumed; a host window learns of its focus in the order of its events.
ChangeActivity ==
  /\ stage = "poll" /\ Len(queue) < MaxEvents
  /\ active' = ~active
  /\ queue' = IF host = "window" THEN Append(queue, FocusEvent(active')) ELSE queue
  /\ lapse' = (lapse \/ (host = "tty" /\ active' = wasActive))
  /\ UNCHANGED <<host, stage, physical, strokes, alive, wasActive, frame, main, filter, seat,
                 told, withheld, excused>>

\* A client's surface goes, and with it the focus of smithay's keyboard.  No id comes back.
DestroySurface(s) ==
  /\ stage = "poll" /\ s \in alive
  /\ alive' = alive \ {s}
  /\ seat' = IF seat.focus = s THEN [seat EXCEPT !.focus = None] ELSE seat
  /\ UNCHANGED <<host, stage, physical, strokes, active, backend, main, filter, history>>

Reload(b) ==
  /\ stage = "poll" /\ reloads < MaxReloads
  /\ b # config /\ config' = b /\ configChanged' = TRUE /\ reloads' = reloads + 1
  /\ UNCHANGED <<host, stage, outside, backend, compiled, keys, on, fired, focus, filter, seat,
                 history>>

-----------------------------------------------------------------------------
(* The frame                                                               *)

\* extract_session (a pause clears the queue) and drain_drm_input, which looks again whether the
\* session is active; the winit backend hands over its queue.
Coming ==
  CASE host = "window"    -> queue
    [] active = wasActive /\ host # "window" -> IF active THEN queue ELSE <<>>
    [] active # wasActive /\ host # "window" ->
         IF active THEN <<FocusEvent(TRUE)>> \o queue ELSE <<FocusEvent(FALSE)>>

Extract ==
  /\ stage = "poll" /\ stage' = "main"
  /\ wasActive' = active /\ queue' = <<>>
  /\ frame' = Coming
  /\ told' = {}
  /\ UNCHANGED <<host, outside, main, filter, seat, withheld, excused, lapse>>

\* keyboard_input_system
Heard(p, e) ==
  IF e.kind = "key" THEN Recorded(p, e.key, e.down)
  ELSE IF e.focused THEN p ELSE NoKeys

HeardAll(p, events) ==
  LET heard[i \in 0..Len(events)] ==
        IF i = 0 THEN p ELSE Heard(heard[i - 1], events[i])
  IN  heard[Len(events)]

\* keyboard_input, shortcut_compile and shortcut_match; then the shell, which settles on a surface
\* the server still has or leaves the focus where it is.
Main ==
  /\ stage = "main" /\ stage' = "present"
  /\ keys' = HeardAll(keys, frame)
  /\ compiled' = Compiled
  /\ LET Is(id)  == Holds(keys', compiled'[id])
         Just(id) == Triggered(id, keys', compiled'[id], id \in on)
     IN  /\ on'    = {id \in DOMAIN compiled' : Is(id)}
         /\ fired' = {id \in DOMAIN compiled' : Just(id)}
  /\ focus' \in alive \cup {None, focus}
  /\ UNCHANGED <<host, outside, backend, config, configChanged, reloads, filter, seat, history>>

ConsumesPresses(f, e) ==
  LET next == Recorded(f.keys, e.key, e.down)
  IN  \/ ~e.down /\ e.key \in f.consumed
      \/ \E id \in DOMAIN compiled :
           Trigger[id] = "press" /\ PressTriggered(next, compiled[id], Holds(f.keys, compiled[id]))

\* should_consume_shortcut_key_event
Consumes(f, e) ==
  LET next == Recorded(f.keys, e.key, e.down)
  IN  \/ ~e.down /\ e.key \in f.consumed
      \/ \E id \in DOMAIN compiled :
           Triggered(id, next, compiled[id], Holds(f.keys, compiled[id]))

FilteredForgetful(f, e, taken) ==
  IF e.kind = "focus"
    THEN IF e.focused THEN f ELSE [keys |-> NoKeys, consumed |-> {}]
    ELSE [keys |-> Settled(Recorded(f.keys, e.key, e.down)),
          consumed |-> f.consumed \ {e.key}]

Filtered(f, e, taken) ==
  IF e.kind = "focus"
    THEN IF e.focused THEN f ELSE [keys |-> NoKeys, consumed |-> {}]
    ELSE [keys |-> Settled(Recorded(f.keys, e.key, e.down)),
          consumed |-> IF e.down /\ taken THEN f.consumed \cup {e.key}
                      ELSE IF e.down THEN f.consumed ELSE f.consumed \ {e.key}]

\* sync_keyboard_focus_if_needed: only a change of what was asked for reaches the server, whose
\* sync_keyboard_focus looks the surface up.
Synced(s) ==
  LET desired == IF s.host THEN focus ELSE None
  IN  IF s.cached = desired THEN s
      ELSE [s EXCEPT !.cached = desired,
                     !.focus = IF desired \in alive THEN desired ELSE None]

\* dispatch_keyboard_input
Typed(s, e) == [s EXCEPT !.held = IF e.down THEN @ \cup {e.key} ELSE @ \ {e.key}]

\* One event of dispatch_seat_input_system on the seat
Dispatched(s, e) ==
  IF e.kind = "focus" THEN Synced([Synced(s) EXCEPT !.host = e.focused])
  ELSE IF s.host THEN Typed(Synced(s), e) ELSE Synced(s)

\* filter_consumed_shortcut_input_system and dispatch_seat_input_system, whose passes over the
\* events are one here: neither reads what the other writes.
Pass(p, e) ==
  LET taken  == e.kind = "key" /\ compiled # <<>> /\ Consumes(p.filter, e)
      kept   == ~taken
      seat2  == IF kept THEN Dispatched(p.seat, e) ELSE p.seat
      typed  == kept /\ e.kind = "key" /\ p.seat.host
      lost   == e.kind = "focus" /\ ~e.focused
  IN  [filter |-> IF compiled = <<>> THEN p.filter ELSE Filtered(p.filter, e, taken),
       seat   |-> seat2,
       told   |-> IF ~typed THEN p.told
                  ELSE p.told \cup {[key |-> e.key, down |-> e.down, to |-> seat2.focus,
                                     taken |-> e.key \in p.withheld]},
       withheld |-> IF lost THEN {}
                    ELSE IF e.kind = "focus" THEN p.withheld
                    ELSE IF e.down /\ ~kept THEN p.withheld \cup {e.key}
                    ELSE IF e.down THEN p.withheld
                    ELSE p.withheld \ {e.key},
       excused  |-> IF lost THEN p.excused \cup p.seat.held
                    ELSE IF typed THEN p.excused \ {e.key} ELSE p.excused]

Outcome ==
  LET passed[i \in 0..Len(frame)] ==
        IF i = 0 THEN [filter |-> filter, seat |-> seat, told |-> {},
                       withheld |-> withheld, excused |-> excused]
                 ELSE Pass(passed[i - 1], frame[i])
  IN  passed[Len(frame)]

Present ==
  /\ stage = "present" /\ stage' = "poll"
  /\ \E o \in {Outcome} :
       /\ filter' = o.filter
       /\ seat' = Synced(o.seat)
       /\ told' = o.told /\ withheld' = o.withheld /\ excused' = o.excused
  /\ lapse' = IF compiled = <<>> THEN lapse \/ frame # <<>>
              ELSE lapse /\ FocusEvent(FALSE) \notin ToSet(frame)
  /\ frame' = <<>> /\ configChanged' = FALSE
  /\ keys' = Settled(keys) /\ fired' = {}  \* both are written before they are read again
  /\ UNCHANGED <<host, outside, wasActive, queue, config, reloads, compiled, on, focus>>

Next ==
  \/ \E k \in Key : Strike(k)
  \/ ChangeActivity
  \/ \E s \in Surface : DestroySurface(s)
  \/ \E b \in Overrides : Reload(b)
  \/ Extract \/ Main \/ Present

Spec == Init /\ [][Next]_vars

-----------------------------------------------------------------------------
(* Properties                                                              *)

Focusable == Surface \cup {None}
TypeOK ==
  /\ host \in Hosts /\ stage \in {"poll", "main", "present"}
  /\ physical \subseteq Key /\ active \in BOOLEAN /\ wasActive \in BOOLEAN /\ alive \subseteq Surface
  /\ queue \in Seq(Event) /\ frame \in Seq(Event)
  /\ config \in Overrides /\ configChanged \in BOOLEAN
  /\ compiled \in {<<>>} \cup [Shortcut -> Combination]
  /\ keys \in Tracker /\ on \subseteq Shortcut /\ fired \subseteq Shortcut /\ focus \in Focusable
  /\ filter \in [keys : Tracker, consumed : SUBSET Key]
  /\ seat \in [host : BOOLEAN, cached : Focusable, focus : Focusable, held : SUBSET Key]
  /\ told \subseteq [key : Key, down : BOOLEAN, to : Focusable, taken : BOOLEAN]
  /\ withheld \subseteq Key /\ excused \subseteq Key /\ lapse \in BOOLEAN

\* The two worlds agree about what is pressed whenever a frame is over (keyboard_input_system and
\* filter_consumed_shortcut_input_system), unless the filter had nothing to filter by.
TrackersAgree ==
  stage = "poll" /\ ~lapse =>
    filter.keys.held = keys.held /\ filter.keys.mods = keys.mods

\* A key event either fires a shortcut or is told to a client, never both, when a frame brings
\* one event (shortcut_match_system against should_consume_shortcut_key_event).
OneAddressee ==
  [][stage = "present" /\ stage' = "poll" /\ ~lapse /\ ~configChanged /\ Len(frame) = 1
       => fired = {} \/ told' = {}]_vars

\* Clients hear of keys only while they have the focus of the shell, and nobody has the focus of
\* the seat while the host does not give it to the compositor (sync_keyboard_focus_if_needed).
FocusFollows ==
  stage = "poll" =>
    /\ seat.focus = IF seat.host /\ focus \in alive THEN focus ELSE None
    /\ \A t \in told : t.to \in {None, focus}

\* A client is not told that a key went up whose press a shortcut took (consumed_keys).
NoOrphanRelease == \A t \in told : t.taken => t.down

\* Only a modifier, or a key some shortcut waits to go up, can stay down at the client after it
\* went up; any other key stays down only when the focus was lost meanwhile (consumed_keys).
Ending == {Combo(Binding(o, id)).key : o \in Overrides, id \in {i \in Shortcut : Trigger[i] # "press"}}
NoKeyStuck ==
  stage = "poll" /\ queue = <<>> /\ active = wasActive /\ ~lapse =>
    \A k \in seat.held \ (physical \cup excused) : ModifierOf[k] # None \/ k \in Ending

\* Nothing is held once every key is up, also when keys went up while the session was paused: no
\* switcher session or pan mode outlives the keys that began it (take_activity_transition).
HoldsEnd == stage = "present" /\ physical = {} /\ ~lapse => on = {}

\* With the types, the five together: what the worlds, the seat and the clients believe of the keys.
KeysTrue == TypeOK /\ TrackersAgree /\ FocusFollows /\ NoOrphanRelease /\ NoKeyStuck /\ HoldsEnd
=============================================================================
