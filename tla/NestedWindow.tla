---------------------------- MODULE NestedWindow ----------------------------
(***************************************************************************)
(* The winit backend: the compositor as a window of another desktop.  The  *)
(* host window has a size of its own, is focused, made fullscreen, redrawn *)
(* and closed by the host, and each of the two sides changes the size the  *)
(* other follows: the output takes the size of the window, the window is   *)
(* asked for the size of the configuration or of the output.               *)
(*                                                                         *)
(* A frame is Poll (the event loop delivers what the host queued), Extract *)
(* (the backend hands input, sizes and presentation times to the shell),   *)
(* Apply (the window is asked for a size) and Present.  The shell sees the *)
(* outputs as they were when the frame began.  The host acts at any time.  *)
(*                                                                         *)
(* Drawing, titles, icons, buttons and the host's protocols are left out;  *)
(* a frame that fails to draw changes nothing that is modelled.            *)
(*                                                                         *)
(* An operator that precedes its correct form under another name is a slip *)
(* the properties must catch: the specification does not use it.           *)
(***************************************************************************)
EXTENDS Naturals, Sequences, SequencesExt

CONSTANTS Sizes,    \* sizes of windows and modes
          Standard, \* 1280x720
          Scenes,   \* hosts: [driver, grabs, honours, inhibits, configs, acts, bound]
          Periods,  \* refresh intervals
          MaxTime,  \* bound: the clock stops there, what happens later has the same time
          None

SizesAssumption == Sizes \subseteq Nat /\ IsFiniteSet(Sizes) /\ Standard \in Sizes
ScenesAssumption ==
  \A s \in Scenes : /\ s.driver \in {"host", "timer"} /\ s.grabs \subseteq {"locked", "confined"}
                    /\ {s.honours, s.inhibits} \subseteq BOOLEAN /\ s.configs \subseteq Sizes \cup {None}
                    /\ s.bound \in Nat
PeriodsAssumption == Periods \subseteq Nat \ {0} /\ Periods # {}
\* None is not something there could be: a size, a switch, an output, a clock or a time.
NoneAssumption ==
  /\ None \notin Sizes /\ None \notin BOOLEAN
  /\ None \notin [id : Nat, size : Sizes, period : Periods]
  /\ None \notin [of : Nat, anchor : Nat, period : Periods, sequence : Nat]
  /\ None \notin [of : Nat, period : Periods, time : Nat, sequence : Nat]

VARIABLES
  scene,    \* the host, the same for ever
  stage,
  acts,     \* things done by the host, the user and the configuration so far
  now,
  host,     \* the window as the host knows it, and the events it queued; spoke: whether its
            \* size was set later than that of the output was by the shell
  shared,   \* WinitPresentCompletionShared
  shortcuts,\* wayland_shortcuts_inhibit: None, or whether the inhibitor exists
  config,   \* size of the enabled output in the configuration, or None
  output,   \* the output of this backend in the shell, or None
  seen,     \* output and configuration as copied when the frame began
  seeded,   \* seeded_output_name
  clock,    \* OutputPresentationRuntime
  timeline, \* OutputPresentationState
  absolute  \* last absolute position the shell got: None, "moved" or "centre"

backend == <<shared, shortcuts, seeded, clock>>
shell   == <<config, output, seen, timeline, absolute>>
vars    == <<scene, stage, acts, now, host, backend, shell>>

Name(c) == IF c = None THEN "Winit-1" ELSE "configured"

\* desired_window_spec: the configured size, else that of the output, else the standard one.
DesiredSpec(c, o) ==
  CASE c # None -> [name |-> "configured", size |-> c]
    [] c = None /\ o # None -> [name |-> "output", size |-> o.size]
    [] OTHER -> [name |-> "winit", size |-> Standard]

\* apply_window_spec: the window is asked for the size, which the host may refuse.
Asked(h, size) ==
  LET granted == scene.honours /\ size # h.size IN
  [h EXCEPT !.redraw = TRUE,
            !.size   = IF granted THEN size ELSE @, !.spoke = granted \/ @,
            !.queue  = IF granted THEN Append(@, [kind |-> "resized", size |-> size]) ELSE @]

------------------------------------------------------------------------------
\* Start.

Captured(want) ==
  CASE want /\ "locked" \in scene.grabs -> "locked"
    [] want /\ "locked" \notin scene.grabs /\ "confined" \in scene.grabs -> "confined"
    [] OTHER -> "free"

\* locked_pointer_seed_event: a locked pointer starts from the middle of the window.
Centre(capture) == IF capture = "locked" THEN <<"centre">> ELSE <<>>

Inhibits(h) == h.fullscreen /\ h.focused

\* sync_wayland_shortcuts_inhibitor; an error drops the state and its inhibitor with it.
Synced(s, h) == IF s = None \/ h.broken THEN None ELSE Inhibits(h)

Init ==
  /\ scene \in Scenes
  /\ stage = "poll" /\ acts = 0 /\ now = 0
  /\ config \in scene.configs
  /\ output = None /\ seen = [output |-> None, config |-> config]
  /\ seeded = None /\ clock = None /\ timeline = None /\ absolute = None
  /\ LET spec == DesiredSpec(config, None)
         opened == [size |-> Standard, focused |-> FALSE, fullscreen |-> FALSE, redraw |-> FALSE,
                    broken |-> FALSE, spoke |-> TRUE, queue |-> <<>>]
         hosted == scene.driver = "host"
     IN /\ host = IF hosted THEN Asked(opened, spec.size) ELSE opened
        /\ shared = [active |-> FALSE, input |-> IF hosted THEN Centre(Captured(TRUE)) ELSE <<>>,
                     stamps |-> <<>>, window |-> IF hosted THEN Standard ELSE None,
                     capture |-> IF hosted THEN Captured(TRUE) ELSE "free",
                     closed |-> FALSE, ready |-> FALSE, spec |-> spec]
        /\ shortcuts = IF hosted /\ scene.inhibits THEN FALSE ELSE None

------------------------------------------------------------------------------
\* The host and the user.

May(act) == act \in scene.acts /\ acts < scene.bound /\ acts' = acts + 1

HostChanges(h) == host' = h /\ UNCHANGED <<scene, stage, now, backend, shell>>
Queued(h, e) == [h EXCEPT !.queue = Append(@, e)]

UserResizes ==
  /\ May("resize")
  /\ \E s \in Sizes \ {host.size} :
       HostChanges(Queued([host EXCEPT !.size = s, !.spoke = TRUE], [kind |-> "resized", size |-> s]))

UserFocuses ==
  /\ May("focus")
  /\ HostChanges(Queued([host EXCEPT !.focused = ~@], [kind |-> "focus", on |-> ~host.focused]))

\* Leaving or entering fullscreen gives the window another size (the largest is the screen's).
UserFullscreens ==
  /\ May("fullscreen")
  /\ LET s == IF host.fullscreen THEN Standard ELSE CHOOSE t \in Sizes : \A u \in Sizes : u <= t IN
     HostChanges(Queued([host EXCEPT !.fullscreen = ~@, !.size = s, !.spoke = TRUE],
                        [kind |-> "resized", size |-> s]))

\* A motion over the window; the host reports positions unless the pointer is locked, and the
\* raw motion of the device to the window that has the focus.
UserPoints ==
  /\ May("point")
  /\ LET moved == IF shared.capture = "locked" THEN <<>> ELSE <<[kind |-> "moved"]>>
         raw   == IF host.focused THEN <<[kind |-> "motion"]>> ELSE <<>>
     IN HostChanges([host EXCEPT !.queue = @ \o moved \o raw])

UserCloses == May("close") /\ HostChanges(Queued(host, [kind |-> "close"]))

HostDisconnects == May("break") /\ ~host.broken /\ HostChanges([host EXCEPT !.broken = TRUE])

\* The host draws a window that asked for it.
HostRedraws ==
  /\ host.redraw
  /\ HostChanges(Queued([host EXCEPT !.redraw = FALSE], [kind |-> "redraw"]))
  /\ UNCHANGED acts

Tick ==
  /\ "time" \in scene.acts /\ now < MaxTime /\ now' = now + 1
  /\ UNCHANGED <<scene, stage, acts, host, backend, shell>>

------------------------------------------------------------------------------
\* Poll.

\* should_forward_host_winit_input
Forwards(capture, kind) ==
  /\ (kind = "moved" => capture # "locked")
  /\ (kind = "delta" => capture = "locked")

Input(st, what) == [st EXCEPT !.shared.input = Append(@, what)]
SyncedNow(st) == [st EXCEPT !.shortcuts = Synced(@, st.host)]

\* The callback of install_host_winit_source for a redraw, which asks for the next one.
Redrawn(st) ==
  LET sh == st.shared IN
  IF sh.closed THEN st
  ELSE SyncedNow([st EXCEPT !.shared = [sh EXCEPT !.ready = TRUE,
                            !.stamps = IF sh.active THEN Append(@, now) ELSE @],
                            !.host.redraw = TRUE])

FocusedUnseeded(st, on) ==
  Input(SyncedNow([st EXCEPT !.shared.capture = Captured(on)]), "focus")
FocusedNow(st, on) ==
  LET sh == st.shared IN
  Input(SyncedNow([st EXCEPT !.shared = [sh EXCEPT !.capture = Captured(on),
                                                   !.input = @ \o Centre(Captured(on))]]), "focus")

Delivered(st, e) ==
  CASE e.kind = "redraw"  -> Redrawn(st)
    [] e.kind = "resized" -> SyncedNow([st EXCEPT !.shared.window = e.size])
    [] e.kind = "focus"   -> FocusedNow(st, e.on)
    [] e.kind = "close"   -> [st EXCEPT !.shared.closed = TRUE]
    [] e.kind \in {"moved", "delta"} ->
         IF Forwards(st.shared.capture, e.kind) THEN Input(st, e.kind) ELSE st
    [] e.kind = "motion"  -> st

\* device_event: a raw motion is a delta while the pointer is locked, and nothing otherwise.
Translated(e, capture) ==
  IF e.kind = "motion" /\ capture = "locked" THEN [kind |-> "delta"] ELSE e

\* before_sleep pumps some of the events, translated as the pointer is then; process_events
\* delivers them and pumps the others.
Pumped(st, events, before) ==
  LET n == Len(events)
      early == st.shared.capture
      f[i \in 0..n] ==
        IF i = 0 THEN st
        ELSE Delivered(f[i-1], Translated(events[i], IF i <= before THEN early
                                                     ELSE f[i-1].shared.capture))
  IN f[n]

Poll ==
  /\ stage = "poll" /\ stage' = "extract"
  /\ seen' = [output |-> output, config |-> config]
  /\ \E before \in 0..Len(host.queue) :
       \E st \in {Pumped([host |-> [host EXCEPT !.queue = <<>>], shared |-> shared,
                          shortcuts |-> shortcuts], host.queue, before)} :
         host' = st.host /\ shared' = st.shared /\ shortcuts' = st.shortcuts
  /\ UNCHANGED <<scene, acts, now, seeded, clock, config, output, timeline, absolute>>

\* install_timer_source: without a window the backend presents by a timer.
Timer ==
  /\ scene.driver = "timer" /\ stage = "poll" /\ shared.active /\ shared.stamps = <<>>
  /\ shared' = [shared EXCEPT !.stamps = <<now>>]
  /\ UNCHANGED <<scene, stage, acts, now, host, shortcuts, seeded, clock, shell>>

------------------------------------------------------------------------------
\* Presentation times.

\* emit_present_completion_events_at for one output: times are counted from an anchor in whole
\* intervals; another refresh rate starts a new count.
CompletedAnchored(c, o, t) ==
  LET base == IF c = None \/ c.of # o.id THEN [of |-> o.id, anchor |-> t, period |-> o.period, sequence |-> 0]
              ELSE IF c.period = o.period THEN [c EXCEPT !.anchor = t, !.sequence = 0] ELSE [c EXCEPT !.period = o.period]
      done == (t - base.anchor) \div base.period
  IN [clock |-> [base EXCEPT !.sequence = done + 1],
      event |-> [of |-> o.id, period |-> o.period, time |-> base.anchor + done * base.period,
                 sequence |-> done + 1]]
Completed(c, o, t) ==
  LET base == IF c = None \/ c.of # o.id \/ c.period # o.period
              THEN [of |-> o.id, anchor |-> t, period |-> o.period, sequence |-> 0] ELSE c
      done == (t - base.anchor) \div base.period
  IN [clock |-> [base EXCEPT !.sequence = done + 1],
      event |-> [of |-> o.id, period |-> o.period, time |-> base.anchor + done * base.period,
                 sequence |-> done + 1]]

\* One round per pending timestamp; a round with no output forgets the clocks.
Emitted(stamps, c, o) ==
  LET f[i \in 0..Len(stamps)] ==
        IF i = 0 THEN [clock |-> c, event |-> None]
        ELSE IF o = None THEN [clock |-> None, event |-> None]
        ELSE Completed(f[i-1].clock, o, stamps[i])
  IN f[Len(stamps)]

\* apply_output_presentation_events_system: the last event of an output that is known counts.
Presented(line, event, o) ==
  CASE event # None -> event
    [] event = None /\ line # None /\ o # None /\ line.of = o.id -> line
    [] OTHER -> None

------------------------------------------------------------------------------
\* Extract.

\* seed_output_blueprint: the size the window reported, else the configured one.
Blueprint(window, c) ==
  CASE window # None -> window [] window = None /\ c # None -> c [] OTHER -> Standard

ResizedTaken(sh) == IF seen.output # None THEN [sh EXCEPT !.window = None] ELSE sh

LastAbsolute(input) ==
  LET at == {i \in DOMAIN input : input[i] \in {"moved", "centre"}} IN
  IF at = {} THEN absolute ELSE input[CHOOSE i \in at : \A j \in at : j <= i]

\* WinitRuntime::extract, and what the shell does with it in the same frame: an announced output
\* comes into being, a reported size is that of the output.
Extract ==
  /\ stage = "extract" /\ stage' = "apply"
  /\ LET name  == Name(seen.config)
         seeds == seen.output = None /\ seeded # name
         done  == Emitted(shared.stamps, clock, seen.output)
     IN /\ seeded' = IF seeds THEN name ELSE seeded
        /\ output' =
             CASE seeds /\ output = None ->
                    [id |-> acts, size |-> Blueprint(shared.window, seen.config),
                     period |-> CHOOSE p \in Periods : \A q \in Periods : p <= q]
               [] seen.output # None /\ shared.window # None /\ output # None ->
                    [output EXCEPT !.size = shared.window]
               [] OTHER -> output
        /\ clock' = done.clock
        /\ timeline' = Presented(timeline, done.event, seen.output)
        /\ absolute' = LastAbsolute(shared.input)
        /\ shared' = [ResizedTaken(shared) EXCEPT !.input = <<>>, !.stamps = <<>>,
                                                  !.active = seen.output # None /\ ~shared.closed]
  /\ UNCHANGED <<scene, acts, now, host, shortcuts, config, seen>>

\* The window is asked when what it should be changed; the rest of WinitRuntime::apply is status.
Apply ==
  /\ stage = "apply" /\ stage' = "present"
  /\ LET spec == DesiredSpec(seen.config, seen.output) IN
     /\ shared' = [shared EXCEPT !.spec = spec]
     /\ host' = IF scene.driver = "host" /\ spec # shared.spec THEN Asked(host, spec.size) ELSE host
  /\ UNCHANGED <<scene, acts, now, shortcuts, seeded, clock, shell>>

\* WinitRuntime::present: a window that was never drawn is asked to be, else the frame is shown.
Present ==
  /\ stage = "present" /\ stage' = "poll"
  /\ host' = IF scene.driver = "host" /\ seen.output # None /\ ~shared.closed /\ ~shared.ready
             THEN [host EXCEPT !.redraw = TRUE] ELSE host
  /\ UNCHANGED <<scene, acts, now, backend, shell>>

------------------------------------------------------------------------------
\* Meanwhile in the shell, between two frames.

ShellChanges == stage = "poll" /\ UNCHANGED <<scene, stage, now, backend, seen, timeline, absolute>>
SizedByShell == host' = [host EXCEPT !.spoke = FALSE]

OutputOff ==
  /\ May("toggle") /\ output # None /\ output' = None
  /\ SizedByShell /\ ShellChanges /\ UNCHANGED config

\* seed_output: an output that is turned on again knows neither the window nor the configuration.
OutputOn ==
  /\ May("toggle") /\ output = None /\ seeded # None
  /\ output' = [id |-> acts', size |-> Blueprint(None, None),
                period |-> CHOOSE p \in Periods : \A q \in Periods : p <= q]
  /\ ShellChanges /\ UNCHANGED <<config, host>>

ModeSet ==
  /\ May("mode") /\ output # None
  /\ \E s \in Sizes, p \in Periods :
       output' = [output EXCEPT !.size = s, !.period = p]
  /\ SizedByShell /\ ShellChanges /\ UNCHANGED config

Reconfigured ==
  /\ May("config")
  /\ config' \in ({None} \cup Sizes) \ {config}
  /\ ShellChanges /\ UNCHANGED <<output, host>>

Frame == Poll \/ Extract \/ Apply \/ Present
Outside == \/ UserResizes \/ UserFocuses \/ UserFullscreens \/ UserPoints \/ UserCloses
           \/ HostDisconnects \/ HostRedraws \/ Tick \/ Timer
Shell == OutputOff \/ OutputOn \/ ModeSet \/ Reconfigured

Next == Frame \/ Outside \/ Shell

Spec == Init /\ [][Next]_vars

------------------------------------------------------------------------------
\* Types: the shape of what each side keeps.
TypeOK ==
  /\ stage \in {"poll", "extract", "apply", "present"}
  /\ host.size \in Sizes
  /\ shared.capture \in {"locked", "confined", "free"} /\ shared.window \in Sizes \cup {None}
  /\ shortcuts \in BOOLEAN \cup {None}
  /\ config \in Sizes \cup {None}
  /\ output # None => output.size \in Sizes /\ output.period \in Periods

\* Nothing is on its way between the window, the output and the configuration.
Rest == /\ stage = "poll" /\ shared.window = None
        /\ seen = [output |-> output, config |-> config]
        /\ \A i \in DOMAIN host.queue : host.queue[i].kind # "resized"

\* When all reports and requests have arrived, the output has the size of the window it is shown
\* in, whatever order they crossed in and even when the window changed while the output was
\* off, unless the shell set its mode, or turned it off, later than the window changed
\* (backend.rs 289-407).
SizesAgree ==
  Rest /\ scene.driver = "host" /\ output # None /\ host.spoke => output.size = host.size

\* A relative motion reaches the shell only after the position it is relative to: the pointer was
\* put in the middle when it was locked, and no absolute position came since, whichever side of
\* a change of focus the motion was queued on (backend.rs 813-831, 940-970, 1012-1021).
DeltasAreSeeded ==
  \A i \in DOMAIN shared.input :
    shared.input[i] = "delta" =>
      LastAbsolute(SubSeq(shared.input, 1, i)) = "centre"

Queues(kind) == \E i \in DOMAIN host.queue : host.queue[i].kind = kind

\* The host's shortcuts are given back: while they are held for a window that lost the focus or
\* left fullscreen, an event that makes the backend look again is on its way, even when nobody
\* draws the window any more (host.rs 91-106, 307-331).
ShortcutsReturned ==
  shortcuts = TRUE /\ ~Inhibits(host) =>
    Queues("focus") \/ Queues("resized") \/ host.broken

\* A window that is open never stops being drawn, so its outputs never stop getting presentation
\* times: a redraw is asked for or queued at every moment (backend.rs 409-446, 777-781, 921-935).
KeepsDrawing == scene.driver = "host" /\ ~shared.closed => host.redraw \/ Queues("redraw")

\* With the types, the four together.
NestedTrue == TypeOK /\ SizesAgree /\ DeltasAreSeeded /\ ShortcutsReturned /\ KeepsDrawing

\* Presentation times and sequence numbers of an output never go back, until its refresh rate
\* changes, and a time is less than an interval old when it is emitted (presentation.rs 99-171).
TimelineForward ==
  [][/\ timeline # None /\ timeline' # None /\ timeline.of = timeline'.of /\ timeline.period = timeline'.period =>
          timeline'.time >= timeline.time /\ timeline'.sequence >= timeline.sequence
     /\ shared.stamps # <<>> /\ stage = "extract" /\ stage' = "apply" /\ seen.output # None =>
          /\ timeline'.time <= Last(shared.stamps)
          /\ timeline'.time + timeline'.period > Last(shared.stamps)]_vars
==============================================================================
