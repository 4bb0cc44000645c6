----------------------------- MODULE Selections -----------------------------
(***************************************************************************)
(* A selection (the clipboard; the primary selection is another of the     *)
(* same) that is meant to outlive the client that set it: the compositor   *)
(* asks the client for its data in every kind it offers, reads the pipes   *)
(* without waiting, and when the last is over takes the selection itself.  *)
(*                                                                         *)
(* Clients act while the event loop is polled.  A frame asks for what was  *)
(* copied since the last one, polls the pipes, and tells the shell.        *)
(*                                                                         *)
(* An operator that precedes its correct form under another name is a slip *)
(* the properties must catch: the specification does not use it.           *)
(***************************************************************************)
EXTENDS Integers, Sequences, FiniteSets, SequencesExt, FiniteSetsExt

CONSTANTS Clients,
          Kinds,      \* MIME types
          Big,        \* those whose data is longer than MAX_PERSISTED_SELECTION_BYTES
          MaxCopies,  \* bound: times a selection is set or cleared
          None

BigAssumption == Big \subseteq Kinds
CopiesAssumption == MaxCopies \in Nat

\* What clients and the shell have of a selection.
Datum  == [kind : Kinds, copy : Nat, whole : BOOLEAN]
Source == [by : Clients, copy : Nat, kinds : SUBSET Kinds]
Taken  == [by : {"compositor"}, data : SUBSET Datum]
Shown  == [kinds : SUBSET Kinds, owner : {"client", "compositor"}, persisted : SUBSET Kinds]

\* The compositor is no client, and nothing is none of what may be there.
AbsenceAssumption ==
  /\ "compositor" \notin Clients
  /\ None \notin Nat /\ None \notin [generation : Nat, kinds : SUBSET Kinds]
  /\ None \notin Source /\ None \notin Taken /\ None \notin Shown

VARIABLES
  alive,    \* the clients that run
  copies,   \* what was set, one after the other: [by, kinds]; no kinds: cleared
  holder,   \* what smithay offers: None, the client's source or the compositor's data
  capture,  \* SelectionCaptureState
  events,   \* for the shell
  selection \* ClipboardSelectionState of the shell

vars == <<alive, copies, holder, capture, events, selection>>

Latest == Len(copies)

Init ==
  /\ alive = Clients /\ copies = <<>> /\ holder = None
  /\ capture = [generation |-> 0, installed |-> None, request |-> None, active |-> {}, captured |-> {}]
  /\ events = <<>> /\ selection = None

-----------------------------------------------------------------------------
(* note_selection_change: what was on its way is dropped.                  *)
Noted(kinds) ==
  [generation |-> capture.generation + 1, installed |-> None,
   request |-> [generation |-> capture.generation + 1, kinds |-> kinds],
   active |-> {}, captured |-> {}]

(* new_selection, of a source that offers these kinds or of none.          *)
Copy(c, kinds) ==
  /\ c \in alive /\ Latest < MaxCopies
  /\ copies' = Append(copies, [by |-> c, kinds |-> kinds])
  /\ holder' = IF kinds = {} THEN None ELSE [by |-> c, copy |-> Latest + 1, kinds |-> kinds]
  /\ capture' = Noted(kinds)
  /\ events' = Append(events, [is |-> "changed", kinds |-> kinds])
  /\ UNCHANGED <<alive, selection>>

(* The source's client writes to a pipe: a part, or all and closes it.     *)
Serve(c) ==
  /\ c \in alive
  /\ \E p \in capture.active :
       /\ copies[p.copy].by = c /\ ~p.closed
       /\ \/ p.got = "none" /\ capture' = [capture EXCEPT !.active = (@ \ {p}) \cup {[p EXCEPT !.got = "part"]}]
          \/ capture' = [capture EXCEPT !.active = (@ \ {p}) \cup {[p EXCEPT !.got = "all", !.closed = TRUE]}]
  /\ UNCHANGED <<alive, copies, holder, events, selection>>

(* A client's end closes its pipes; what it wrote can still be read.       *)
Die(c) ==
  /\ c \in alive /\ alive' = alive \ {c}
  /\ capture' = [capture EXCEPT !.active =
       {IF copies[p.copy].by = c THEN [p EXCEPT !.closed = TRUE] ELSE p : p \in @}]
  /\ UNCHANGED <<copies, holder, events, selection>>

-----------------------------------------------------------------------------
(* process_selection_capture_requests: one pipe per kind, if the selection *)
(* is a client's.  One that has ended cannot answer: smithay refuses, or   *)
(* drops the pipe.                                                         *)
Asked(cap, refuses) ==
  IF cap.request = None THEN cap
  ELSE [cap EXCEPT
          !.request = None, !.installed = None, !.captured = {},
          !.generation = IF cap.request.kinds = {} THEN @ ELSE cap.request.generation,
          !.active = IF holder # None /\ ~(refuses /\ holder.by \notin alive)
                     THEN {[kind |-> k, copy |-> holder.copy, got |-> "none",
                            closed |-> holder.by \notin alive] : k \in cap.request.kinds}
                     ELSE {}]

(* poll_selection_captures: the end of a pipe completes its kind, whatever *)
(* came before; too much drops it.                                         *)
TooMuch(p) == p.got = "all" /\ p.kind \in Big
Complete(cap) ==
  {[kind |-> p.kind, copy |-> p.copy, whole |-> p.got = "all"] :
     p \in {q \in cap.active : q.closed /\ ~TooMuch(q)}}

Polled(cap) ==
  [cap EXCEPT !.active = {p \in @ : ~p.closed}, !.captured = @ \cup Complete(cap)]

(* Whether the compositor takes the selection now.                         *)
InstallsEarly(cap) == cap.captured # {} /\ cap.installed # cap.generation
Installs(cap) == cap.active = {} /\ cap.captured # {} /\ cap.installed # cap.generation

KindsOf(data) == {d.kind : d \in data}

(* What the shell makes of an event.                                       *)
Told(sel, e) ==
  CASE e.is = "changed" /\ e.kinds = {} -> None
    [] e.is = "changed" /\ e.kinds # {} -> [kinds |-> e.kinds, owner |-> "client", persisted |-> {}]
    [] e.is = "persisted" /\ sel # None -> [sel EXCEPT !.owner = "compositor", !.persisted = e.kinds]
    [] OTHER -> sel

ToldAll(sel, queue) ==
  LET told[i \in 0..Len(queue)] == IF i = 0 THEN sel ELSE Told(told[i - 1], queue[i])
  IN  told[Len(queue)]

Frame == \E refuses \in BOOLEAN :
  LET cap  == Polled(Asked(capture, refuses))
      take == Installs(cap)
      told == IF take THEN Append(events, [is |-> "persisted", kinds |-> KindsOf(cap.captured)]) ELSE events
  IN /\ capture' = IF take THEN [cap EXCEPT !.installed = cap.generation] ELSE cap
     /\ holder' = IF take THEN [by |-> "compositor", data |-> cap.captured]
                  ELSE IF capture.request # None /\ capture.request.kinds = {} THEN None ELSE holder
     /\ events' = <<>> /\ selection' = ToldAll(selection, told)
     /\ UNCHANGED <<alive, copies>>

Next ==
  \/ \E c \in Clients : \/ \E kinds \in SUBSET Kinds : Copy(c, kinds)
                        \/ Serve(c) \/ Die(c)
  \/ Frame

Spec == Init /\ [][Next]_vars

-----------------------------------------------------------------------------
ByCompositor == holder # None /\ holder.by = "compositor"

(* However the reading of pipes, new copies and the ends of clients        *)
(* interleave, the compositor never offers data of an older copy than the  *)
(* latest, offers nothing that was cleared, offers what it took once all   *)
(* of it was read (a kind is missing only if it was too long), and offers  *)
(* a cut payload only of a client that ended while it wrote.               *)
NoStalePaste ==
  ByCompositor =>
    /\ \A d \in holder.data : d.copy = Latest /\ (d.whole \/ copies[d.copy].by \notin alive)
    /\ copies[Latest].kinds \ KindsOf(holder.data) \subseteq Big

(* After a frame, the shell, and the reports that IPC makes from it, agree *)
(* with what clients are offered: the kinds of the latest copy, who serves *)
(* them, and which of them outlive their client.                           *)
ShellAgrees ==
  events = <<>> /\ capture.request = None =>
    /\ (selection = None) = (holder = None)
    /\ selection # None =>
         /\ selection.kinds = copies[Latest].kinds
         /\ selection.owner = (IF ByCompositor THEN "compositor" ELSE "client")
         /\ selection.persisted = (IF ByCompositor THEN KindsOf(holder.data) ELSE {})

(* Once every pipe has been closed, the selection no longer hangs on its   *)
(* client, unless all its data was too long.                               *)
OutlivesItsClient ==
  (/\ Latest > 0 /\ capture.request = None /\ capture.active = {} /\ holder # None
   /\ copies[Latest].kinds \ Big # {})
  => ByCompositor \/ copies[Latest].by \notin alive

(* What is offered is fresh, known to the shell and outlives its client.   *)
SelectionsTrue == NoStalePaste /\ ShellAgrees /\ OutlivesItsClient
=============================================================================
