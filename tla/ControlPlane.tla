---------------------------- MODULE ControlPlane ----------------------------
(***************************************************************************)
(* How the compositor is driven from outside the Wayland protocol: the IPC *)
(* socket with its replies and subscriptions, the configuration file and   *)
(* its reloads, keyboard layouts, and commands that are launched.          *)
(*                                                                         *)
(* A frame is Accept (the first pass over the connections and the fan-out  *)
(* of events), Flush (the second pass), Shell (startup actions, commands,  *)
(* the world) and Render (the snapshot that queries are answered from, and *)
(* the events that lead from the last one to it).  hot_reload_system runs  *)
(* in the same schedule as the two passes, before or after them.           *)
(*                                                                         *)
(* A connection carries one request.  A message is moved into a socket     *)
(* whole; one cut in two by a full socket is not told from one that waits. *)
(* The connection "stream" subscribes to everything; when it has its       *)
(* answer, "query" asks for the snapshot, and a mirror follows from both.  *)
(***************************************************************************)
EXTENDS Integers, Sequences, FiniteSets, SequencesExt

CONSTANTS Others,     \* connections that make one request each
          Configs,    \* the contents the file may have: layouts, current, limit, startup
          Capacity,   \* bound: messages a socket holds
          Scenes,     \* bounds: what the others ask for, if they may be careless, how often the
                      \* file and the world change, the states XWayland starts in, and if
                      \* inotify watches the file
          None

Commands == {"spawn", "next", "reload", "quit", "control"}

ASSUME ScenesAssumption ==
  \A s \in Scenes : /\ s.requests \subseteq Commands
                    /\ s.careless \in BOOLEAN /\ s.edits \in Nat /\ s.changes \in Nat
                    /\ s.xwayland \subseteq {"off", "starting"} /\ s.watched \in BOOLEAN
ASSUME CapacityAssumption == Capacity \in Nat \ {0}
ASSUME OthersAssumption == IsFiniteSet(Others) /\ Others \cap {"stream", "query", "startup"} = {}
\* normalize_keyboard_layouts refuses everything else.
ASSUME ConfigsAssumption ==
  /\ Configs \in Seq([layouts : Seq(STRING), current : STRING, limit : Nat, startup : BOOLEAN]) \ {<<>>}
  /\ \A v \in DOMAIN Configs : /\ IsInjective(Configs[v].layouts)
                              /\ Configs[v].current \in ToSet(Configs[v].layouts)

VARIABLES
  scene,       \* the environment of this behaviour
  reloadFirst, \* the order the schedule gives hot_reload_system and accept_connections_system
  stage,
  conns,    \* IpcConnection and its socket, for each connection
  queue,    \* the connections the server keeps, in the order they came
  events,   \* PendingSubscriptionEvents
  cache,    \* IpcQueryCache
  seen,     \* SubscriptionSnapshotState: the cache the last events led to
  mirror,   \* what the subscriber believes, None before the query is answered
  file,     \* the configuration file: what a reload makes of it
  notice,   \* a notification of inotify that was not read
  watch,    \* pending_change of the watcher; without it, whether the file has another time than
            \* last_observed_modified
  config,   \* the configuration in force, LoadedConfigSource
  layouts,  \* KeyboardLayoutState
  requests, \* requested, quit_requested, PendingExternalCommandRequests, the control queues
  startup,  \* StartupActionState and the state of XWayland
  messages, \* ExternalCommandLaunched and ExternalCommandFailed of this frame
  results,  \* every launch or failure so far
  history,  \* CommandHistoryState
  world,    \* what the snapshot shows of windows, focus, outputs and workspaces, and of a popup
  edits, changes

socket == <<conns, queue, events, mirror>>
disk   == <<file, notice, edits>>
vars   == <<scene, reloadFirst, stage, socket, cache, seen, disk, watch, config, layouts, requests, startup,
            messages, results, history, world, changes>>

Conns == {"stream", "query"} \cup Others
Event(topic, value) == [topic |-> topic, value |-> value]

Closed == [link |-> "none", asks |-> None, sent |-> "nothing", eof |-> FALSE, reads |-> TRUE,
           done |-> FALSE, subscribed |-> FALSE, out |-> <<>>, down |-> <<>>]

Snapshot(w, c, l, h) == [tree |-> w.tree, popup |-> w.popup, config |-> c, layouts |-> l,
                         commands |-> h.items]

Position(names, name) == CHOOSE i \in DOMAIN names : names[i] = name
LayoutsOf(v) ==
  [names |-> Configs[v].layouts, active |-> Position(Configs[v].layouts, Configs[v].current)]

Init ==
  /\ scene \in Scenes /\ reloadFirst \in BOOLEAN /\ stage = "poll"
  /\ conns = [c \in Conns |-> Closed] /\ queue = <<>> /\ events = <<>> /\ mirror = None
  /\ file = [kind |-> "good", v |-> 1] /\ notice = FALSE /\ edits = 0 /\ watch = FALSE
  /\ config = [v |-> 1, error |-> None] /\ layouts = LayoutsOf(1)
  /\ requests = [reload |-> FALSE, quit |-> FALSE, commands |-> <<>>, controls |-> 0]
  /\ startup \in [queued : {FALSE}, xwayland : scene.xwayland]
  /\ messages = <<>> /\ results = <<>> /\ history = [limit |-> Configs[1].limit, items |-> <<>>]
  /\ world = [tree |-> 0, popup |-> None] /\ changes = 0
  /\ cache = Snapshot(world, config, layouts, history) /\ seen = None

-----------------------------------------------------------------------------
(* Clients (send_request_to_path, subscribe_to_path, and ones less careful) *)

Outside == UNCHANGED <<scene, reloadFirst, stage, queue, events, cache, seen, watch, config, layouts,
                       requests, startup, messages, results, history, world, changes>>

Connect(c, request) ==
  /\ stage = "poll" /\ conns[c].link = "none"
  /\ c = "stream" => request = "subscribe"
  /\ c = "query" => request = "query" /\ conns["stream"].asks = "answered"
  /\ c \in Others => request \in scene.requests
  /\ conns' = [conns EXCEPT ![c].link = "waits", ![c].asks = request]
  /\ UNCHANGED <<mirror, disk>> /\ Outside

\* A part of the request, all of it but the newline, or all of it
Send(c, amount) ==
  /\ stage \in {"poll", "mid"} /\ conns[c].link \in {"waits", "kept"}
  /\ ~conns[c].eof /\ conns[c].reads /\ ~conns[c].done
  /\ amount = "line" \/ (c \in Others /\ scene.careless)
  /\ \/ conns[c].sent = "nothing" /\ amount \in {"part", "bare", "line"}
     \/ conns[c].sent = "part"    /\ amount \in {"bare", "line"}
  /\ conns' = [conns EXCEPT ![c].sent = amount]
  /\ UNCHANGED <<mirror, disk>> /\ Outside

\* The client closes its end for writing, or altogether.
Shut(c, reading) ==
  /\ stage = "poll" /\ conns[c].link \in {"waits", "kept"} /\ conns[c].reads
  /\ c \in Others /\ scene.careless /\ (conns[c].eof => ~reading)
  /\ conns' = [conns EXCEPT ![c].eof = TRUE, ![c].reads = reading]
  /\ UNCHANGED <<mirror, disk>> /\ Outside

\* What an event tells the mirror
Told(m, e) ==
  CASE e.topic \in {"tree", "config", "layouts"} -> [m EXCEPT ![e.topic] = e.value]
    [] e.topic = "command"   -> [m EXCEPT !.commands = @ \cup {e.value}]
    [] e.topic = "created"   -> [m EXCEPT !.popup = e.value]
    [] e.topic = "dismissed" -> [m EXCEPT !.popup = None]
    [] e.topic = "geometry"  -> [m EXCEPT !.popup.box = e.value]
    [] e.topic = "grab"      -> [m EXCEPT !.popup.grab = e.value]

\* The client reads a message.  The subscriber reads its answer, then the reply to its query, and
\* only then the events.
Read(c) ==
  /\ stage = "poll" /\ conns[c].reads /\ conns[c].down # <<>>
  /\ LET message == Head(conns[c].down)
     IN  /\ message.topic # "reply" => mirror # None
         /\ conns' = [conns EXCEPT ![c].down = Tail(@),
                                   ![c].asks = IF c = "stream" THEN "answered" ELSE @]
         /\ mirror' = IF c = "query" THEN [message.value EXCEPT !.commands = ToSet(@)]
                      ELSE IF message.topic = "reply" THEN mirror
                      ELSE Told(mirror, message)
  /\ UNCHANGED disk /\ Outside

-----------------------------------------------------------------------------
(* The file                                                                *)

\* Editors truncate, write, rename; each leaves a notification, and gives the file another time, of
\* which only a server that is not notified takes notice.  "invalid" parses but is refused when it is
\* normalized.
Edit(kind, v) ==
  /\ stage \in {"poll", "mid"} /\ edits < scene.edits /\ edits' = edits + 1
  /\ file' = [kind |-> kind, v |-> v] /\ file' # file
  /\ IF scene.watched THEN notice' = TRUE /\ UNCHANGED watch ELSE watch' = TRUE /\ UNCHANGED notice
  /\ UNCHANGED <<scene, reloadFirst, stage, socket, cache, seen, config, layouts, requests, startup,
                 messages, results, history, world, changes>>

\* drain_inotify_events, while the event loop is polled
Notified ==
  /\ stage = "poll" /\ notice /\ notice' = FALSE /\ watch' = TRUE
  /\ UNCHANGED <<scene, reloadFirst, stage, socket, cache, seen, file, edits, config, layouts, requests,
                 startup, messages, results, history, world, changes>>

\* apply_layouts: the layout in use stays in use if it still exists.
AppliedByIndex(names, current, l) == [names |-> names, active |-> l.active]

Applied(names, current, l) ==
  LET name == l.names[l.active]
  IN  [names |-> names, active |-> Position(names, IF name \in ToSet(names) THEN name ELSE current)]

\* hot_reload_system, on s = [requests, config, layouts, watch].  Reading the time of the file is what
\* it does on request and when it is not notified; a change the watcher reported stays to be read.
Reloaded(s) ==
  IF ~s.requests.reload /\ ~s.watch THEN s
  ELSE LET t == [s EXCEPT !.requests.reload = FALSE,
                          !.watch = @ /\ s.requests.reload /\ scene.watched]
       IN  CASE file.kind = "good" ->
                  [t EXCEPT !.config = [v |-> file.v, error |-> None],
                            !.layouts = Applied(Configs[file.v].layouts,
                                                Configs[file.v].current, @)]
             [] file.kind = "invalid"    -> t
             [] file.kind = "unreadable" -> [t EXCEPT !.config.error = file.kind]

-----------------------------------------------------------------------------
(* The server                                                              *)

\* take_request_frame and parse_request_frame: None while a request is incomplete
Frame(k) ==
  CASE k.sent = "line"            -> k.asks
    [] k.sent = "bare" /\ k.eof   -> k.asks
    [] k.sent = "part" /\ k.eof   -> "junk"
    [] OTHER                      -> None

\* reply_for_request, what a request changes: a layout is switched at once (activate_next), the
\* rest is queued for those whose it is.
Switched(l) == [l EXCEPT !.active = (@ % Len(l.names)) + 1]

Queued(r, request, c) ==
  CASE request = "reload"  -> [r EXCEPT !.reload = TRUE]
    [] request = "quit"    -> [r EXCEPT !.quit = TRUE]
    [] request = "spawn"   -> [r EXCEPT !.commands = Append(@, c)]
    [] request = "control" -> [r EXCEPT !.controls = @ + 1]
    [] OTHER               -> r

Effect(s, request, c) ==
  [s EXCEPT !.layouts  = IF request = "next" THEN Switched(@) ELSE @,
            !.requests = Queued(@, request, c)]

\* build_reply and the other replies
Reply(request) ==
  Event("reply", CASE request = "query" -> cache
                   [] request = "junk"  -> "error"
                   [] OTHER             -> "ok")

\* The first half of IpcConnection::pump
Answered(s, c) ==
  LET k       == s.conns[c]
      request == Frame(k)
  IN  IF k.done \/ request = None THEN s
      ELSE [Effect(s, request, c) EXCEPT
              !.conns[c] = [k EXCEPT !.done = TRUE, !.out = <<Reply(request)>>,
                                     !.subscribed = (request = "subscribe")]]

\* The second half: write what the socket takes (write_reply), and close when it is over: the peer
\* cannot be written to, the reply is out, or the peer of a subscription is gone
\* (poll_subscription_peer).
Written(s, c, full) ==
  LET k    == s.conns[c]
      room == IF c \in full THEN 0 ELSE Capacity - Len(k.down)
      n    == IF Len(k.out) < room THEN Len(k.out) ELSE room
      rest == SubSeq(k.out, n + 1, Len(k.out))
      over == \/ k.out # <<>> /\ ~k.reads
              \/ rest = <<>> /\ k.done /\ (k.subscribed => k.eof)
  IN  [s EXCEPT !.conns[c] = [k EXCEPT !.out  = IF k.reads THEN rest ELSE @,
                                       !.down = IF k.reads THEN @ \o SubSeq(k.out, 1, n) ELSE @,
                                       !.link = IF over THEN "closed" ELSE @]]

\* Vec::retain, or a filter: the members of s that are in S, in their order
Those(s, S) ==
  LET kept[i \in 0..Len(s)] ==
        IF i = 0 THEN <<>> ELSE IF s[i] \in S THEN Append(kept[i - 1], s[i]) ELSE kept[i - 1]
  IN  kept[Len(s)]

\* process_connections; a socket may be full although its peer reads, because a reply can be larger
\* than a socket's buffer.
Processed(s, full) ==
  LET pass[i \in 0..Len(s.queue)] ==
        IF i = 0 THEN s ELSE Written(Answered(pass[i - 1], s.queue[i]), s.queue[i], full)
      end == pass[Len(s.queue)]
  IN  [end EXCEPT !.queue = Those(@, {c \in Conns : end.conns[c].link = "kept"})]

\* accept_connections, in any order
Accepted(s, order) ==
  [s EXCEPT !.queue = @ \o order,
            !.conns = [c \in Conns |-> IF s.conns[c].link = "waits"
                                         THEN [s.conns[c] EXCEPT !.link = "kept"] ELSE s.conns[c]]]

\* dispatch_subscription_events
Fanned(s) ==
  [s EXCEPT !.conns = [c \in Conns |->
      IF s.conns[c].subscribed /\ s.conns[c].link = "kept"
        THEN [s.conns[c] EXCEPT !.out = @ \o events] ELSE s.conns[c]]]

State == [conns |-> conns, queue |-> queue, requests |-> requests, layouts |-> layouts,
          config |-> config, watch |-> watch]
Becomes(s) ==
  /\ conns' = s.conns /\ queue' = s.queue /\ requests' = s.requests /\ layouts' = s.layouts
  /\ config' = s.config /\ watch' = s.watch

\* Sequences of all the members of S
Orders(S) == {f \in [1..Cardinality(S) -> S] : ToSet(f) = S}

Blocked == SUBSET {c \in Others : scene.careless /\ conns[c].sent # "nothing"}

Accept ==
  /\ stage = "poll" /\ stage' = "mid"
  /\ \E order \in Orders({c \in Conns : conns[c].link = "waits"}), full \in Blocked :
       LET start == IF reloadFirst THEN Reloaded(State) ELSE State
       IN  \E s \in {Fanned(Processed(Accepted(start, order), full))} : Becomes(s)
  /\ events' = <<>>
  /\ UNCHANGED <<scene, reloadFirst, cache, seen, mirror, disk, startup, messages, results,
                 history, world, changes>>

Flush ==
  /\ stage = "mid" /\ stage' = "shell"
  /\ \E full \in Blocked : \E s \in {Processed(State, full)} : Becomes(IF reloadFirst THEN s ELSE Reloaded(s))
  /\ UNCHANGED <<scene, reloadFirst, events, cache, seen, mirror, disk, startup, messages, results,
                 history, world, changes>>

-----------------------------------------------------------------------------
(* The shell                                                               *)

\* startup_action_queue_system, which queues behind the commands of clients; the Wayland socket is there
\* from the beginning.
StartupDue == ~startup.queued /\ startup.xwayland \in {"off", "ready"}

\* command_history_system: a new limit first, then the results of this frame
Trimmed(items, limit) ==
  IF Len(items) <= limit THEN items ELSE SubSeq(items, Len(items) - limit + 1, Len(items))

RememberedFirst(new) ==
  [limit |-> Configs[config.v].limit, 
   items |-> IF Len(history.items \o new) <= Configs[config.v].limit THEN history.items \o new
             ELSE SubSeq(history.items \o new, 1, Configs[config.v].limit)]

Remembered(new) ==
  [limit |-> Configs[config.v].limit, items |-> Trimmed(history.items \o new, Configs[config.v].limit)]

\* What windows, focus, outputs and workspaces do in a frame, with or without a control
WorldMoves ==
  \/ world' = world /\ changes' = changes
  \/ /\ changes < scene.changes /\ changes' = changes + 1
     /\ \/ world' = [world EXCEPT !.tree = @ + 1]
        \/ /\ world.popup = None
           /\ world' = [world EXCEPT !.popup = [box |-> 0, grab |-> FALSE]]
        \/ world.popup # None /\ world' = [world EXCEPT !.popup = None]
        \/ world.popup # None /\ world' = [world EXCEPT !.popup.box = 1 - @]
        \/ world.popup # None /\ world' = [world EXCEPT !.popup.grab = ~@, !.tree = @ + 1]

\* external_command_launch_system: one result for each command, launches before failures
Launched(due, ok) ==
  LET ends == [i \in DOMAIN due |-> [origin |-> due[i], launched |-> ok[i]]]
      Of(launched) == Those(ends, [origin : ToSet(due), launched : {launched}])
  IN  Of(TRUE) \o Of(FALSE)

Shell ==
  /\ stage = "shell" /\ stage' = "render"
  /\ startup' = [startup EXCEPT !.queued = @ \/ StartupDue]
  /\ LET due == IF StartupDue /\ Configs[config.v].startup
                  THEN requests.commands \o <<"startup">> ELSE requests.commands
     IN  \E ok \in [DOMAIN due -> BOOLEAN] : messages' = Launched(due, ok)
  /\ results' = results \o messages'
  /\ history' = Remembered(messages')
  /\ requests' = [requests EXCEPT !.commands = <<>>, !.controls = 0]
  /\ IF requests.controls > 0
       THEN world' = [world EXCEPT !.tree = @ + 1] /\ UNCHANGED changes
       ELSE WorldMoves
  /\ UNCHANGED <<scene, reloadFirst, socket, cache, seen, disk, watch, config, layouts>>

\* XWayland reports that it is ready, or that it is not going to be.
XWayland(outcome) ==
  /\ stage = "poll" /\ startup.xwayland = "starting"
  /\ startup' = [startup EXCEPT !.xwayland = outcome]
  /\ UNCHANGED <<scene, reloadFirst, stage, socket, cache, seen, disk, watch, config, layouts, requests,
                 messages, results, history, world, changes>>

-----------------------------------------------------------------------------
(* subscription_dispatch_system                                            *)

If(condition, topic, value) == IF condition THEN <<Event(topic, value)>> ELSE <<>>

\* Popups by what became of each
PopupEvents(old, new) ==
  IF old = None \/ new = None
    THEN If(old = None /\ new # None, "created", new) \o If(old # None /\ new = None, "dismissed", None)
    ELSE If(old.box # new.box, "geometry", new.box) \o If(old.grab # new.grab, "grab", new.grab)

\* The rest by its value.  Events that repeat the payload of another one are left out.
ValueEvents(old, new) ==
  If(old.tree # new.tree, "tree", new.tree) \o If(old.config # new.config, "config", new.config)
    \o If(old.layouts # new.layouts, "layouts", new.layouts)

\* The first snapshot is only remembered; messages are passed on in any case.
Render ==
  LET new == Snapshot(world, config, layouts, history)
  IN  /\ stage = "render" /\ stage' = IF requests.quit THEN "stopped" ELSE "poll"
      /\ cache' = new /\ seen' = new
      /\ events' = [i \in DOMAIN messages |-> Event("command", messages[i])]
                     \o IF seen = None THEN <<>>
                        ELSE PopupEvents(seen.popup, new.popup) \o ValueEvents(seen, new)
      /\ messages' = <<>>
      /\ UNCHANGED <<scene, reloadFirst, conns, queue, mirror, disk, watch, config, layouts, requests,
                     startup, results, history, world, changes>>

Stopped == stage = "stopped" /\ UNCHANGED vars

Next ==
  \/ \E c \in Conns, request \in scene.requests \cup {"subscribe", "query"} : Connect(c, request)
  \/ \E c \in Conns, amount \in {"part", "bare", "line"} : Send(c, amount)
  \/ \E c \in Conns, reading \in BOOLEAN : Shut(c, reading)
  \/ \E c \in Conns : Read(c)
  \/ \E kind \in {"good", "invalid", "unreadable"}, v \in DOMAIN Configs : Edit(kind, v)
  \/ \E outcome \in {"ready", "failed"} : XWayland(outcome)
  \/ Notified \/ Accept \/ Flush \/ Shell \/ Render \/ Stopped

Spec == Init /\ [][Next]_vars

-----------------------------------------------------------------------------
(* Properties                                                              *)

ConfigFiles == [kind : {"good", "invalid", "unreadable"}, v : DOMAIN Configs]
Configurations == [v : DOMAIN Configs, error : {None, "unreadable"}]
StartupStates == [queued : BOOLEAN, xwayland : {"off", "starting", "ready", "failed"}]
Popups == [box : {0, 1}, grab : BOOLEAN]
Worlds == [tree : Nat, popup : {None} \cup Popups]
LayoutStates == UNION {[names : {Configs[v].layouts}, active : DOMAIN Configs[v].layouts] : v \in DOMAIN Configs}
Outcomes == [origin : Others \cup {"startup"}, launched : BOOLEAN]
Snapshots == [tree : Nat, popup : {None} \cup Popups, config : Configurations, layouts : LayoutStates,
              commands : Seq(Outcomes)]

ASSUME NoneAssumption ==
  /\ None \notin Commands \cup {"subscribe", "query", "answered", "junk"}
  /\ None \notin {0, 1} /\ None \notin BOOLEAN /\ None \notin Popups /\ None \notin Snapshots

TypeOK ==
  /\ stage \in {"poll", "mid", "shell", "render", "stopped"}
  /\ file \in ConfigFiles /\ config \in Configurations
  /\ startup \in StartupStates /\ world \in Worlds
  /\ \A c \in Conns : conns[c].link \in {"none", "waits", "kept", "closed"}
  /\ \A c \in Conns : Len(conns[c].down) <= Capacity
  /\ layouts \in LayoutStates /\ cache \in Snapshots

\* A subscriber that asked for the snapshot once knows what it shows as soon as everything on its
\* way was read, whatever happened between its two requests and however slowly it reads
\* (dispatch_subscription_events, subscription_dispatch_system).
Mirrors ==
  /\ stage = "poll" /\ mirror # None /\ events = <<>>
  /\ conns["stream"].out = <<>> /\ conns["stream"].down = <<>>
  => /\ <<mirror.tree, mirror.popup, mirror.config, mirror.layouts>>
          = <<cache.tree, cache.popup, cache.config, cache.layouts>>
     /\ ToSet(cache.commands) \subseteq mirror.commands

\* The server drops a connection only when its reply is out or nobody can read it, and after a
\* frame it keeps none that is gone, except those that never sent anything (take_request_frame).
Delivered ==
  /\ \A c \in Conns : conns[c].link = "closed" =>
       conns[c].out = <<>> \/ ~conns[c].reads \/ (conns[c].eof /\ conns[c].subscribed)
  /\ stage = "shell" =>
       \A c \in Conns : conns[c].link = "kept" /\ ~conns[c].reads => conns[c].sent = "nothing"

\* Every command that was accepted is launched or fails once, startup actions at most once and not
\* before XWayland is there; the history shows the latest, as many as it may.
ReportedOnce ==
  /\ \A i, j \in DOMAIN results : results[i].origin = results[j].origin => i = j
  /\ stage = "poll" => \A c \in Others : conns[c].done /\ conns[c].asks = "spawn" /\ conns[c].sent # "part" =>
       \E i \in DOMAIN results : results[i].origin = c
  /\ \A i \in DOMAIN results : results[i].origin = "startup" => startup.xwayland \in {"off", "ready"}
  /\ Len(history.items) <= history.limit
  /\ \E n \in 0..Len(results) : history.items = SubSeq(results, n + 1, Len(results))

\* When no notification is left, the configuration in force is the one in the file if that can be
\* used, however reloads, requests and edits crossed (hot_reload_system, drain_inotify_events); the same
\* when nobody notifies and the file's time is compared with the one observed last.
ReloadSettles ==
  stage = "poll" /\ ~notice /\ ~watch /\ file.kind = "good" =>
    config = [v |-> file.v, error |-> None]

\* A reload leaves the layout in use alone while it exists; only a request changes it otherwise.
LayoutKept ==
  [][LET name  == layouts.names[layouts.active]
         Asked == \E c \in Others : conns[c].asks = "next" /\ ~conns[c].done /\ conns'[c].done
     IN  ~Asked => \/ layouts'.names[layouts'.active] = name
                   \/ /\ name \notin ToSet(layouts'.names)
                      /\ layouts'.names[layouts'.active] = Configs[config'.v].current]_vars

\* Subscribers, connections, commands and the configuration, all at once.
ControlTrue == TypeOK /\ Mirrors /\ Delivered /\ ReportedOnce /\ ReloadSettles
=============================================================================
