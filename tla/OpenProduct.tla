------------------------------ MODULE OpenProduct ------------------------------
(***************************************************************************)
(* Opening a product in MarkDesk: the open flow of the web UI              *)
(* (apps/markdesk/src/app/useProduct.ts), and the sidecar processes behind *)
(* it (SidecarSlot and start in src-tauri/src/sidecar.rs, open_product and *)
(* run in lib.rs).                                                         *)
(*                                                                         *)
(* A client of the desk API is named by the sidecar it calls.  A sidecar   *)
(* may die at any time.  The recent list, names, and what the screen says  *)
(* besides "lost" are left out.                                            *)
(***************************************************************************)
EXTENDS Naturals, FiniteSets

CONSTANTS Sidecars, NoSidecar, MaxCalls

ASSUME OpenAssumption == NoSidecar \notin Sidecars /\ MaxCalls \in Nat

VARIABLES
  process,  \* the process of each sidecar
  slot,     \* SidecarSlot: the live sidecar
  opens,    \* the opens in progress, by the sidecar they start, and how far
  product,  \* the product shown, by its client
  lost,     \* the connection to it was lost
  calls,    \* requests of the panes that are not answered, by client
  made,     \* number of requests, for the bound
  shell     \* the window is open; it is closed; the shell has ended

vars == <<process, slot, opens, product, lost, calls, made, shell>>

TypeOK ==
  /\ process \in [Sidecars -> {"new", "starting", "serving", "dead"}]
  /\ slot \in Sidecars \cup {NoSidecar}
  /\ opens \subseteq [sidecar : Sidecars, at : {"start", "opened", "shown"}]
  /\ product \in Sidecars \cup {NoSidecar}
  /\ lost \in BOOLEAN
  /\ calls \subseteq Sidecars /\ made \in 0..MaxCalls
  /\ shell \in {"window", "closed", "ended"}

Init ==
  /\ process = [s \in Sidecars |-> "new"]
  /\ slot = NoSidecar /\ opens = {}
  /\ product = NoSidecar /\ lost = FALSE
  /\ calls = {} /\ made = 0 /\ shell = "window"

-------------------------------------------------------------------------------
\* A mutant of Busy: the flag is reset when the shell answers.
BusyInShell == \E o \in opens : o.at = "start"

\* busyRef: one open at a time.
Busy == opens # {}

Begin(s) == [sidecar |-> s, at |-> "start"]

\* open: from the launch, the menu, the folder picker, or Reopen.
Open(s) ==
  /\ shell = "window" /\ ~Busy /\ process[s] = "new"
  /\ process' = [process EXCEPT ![s] = "starting"]
  /\ opens' = opens \cup {Begin(s)}
  /\ UNCHANGED <<slot, product, lost, calls, made, shell>>

\* No handshake in time, none that can be read, another version, an early
\* exit: the new sidecar is stopped, and the product shown stays.
StartFails(s) ==
  /\ Begin(s) \in opens /\ shell # "ended"
  /\ process' = [process EXCEPT ![s] = "dead"]
  /\ opens' = opens \ {Begin(s)}
  /\ UNCHANGED <<slot, product, lost, calls, made, shell>>

\* SidecarSlot.open after the handshake: the previous sidecar is stopped.
Replace(s) ==
  /\ Begin(s) \in opens /\ shell # "ended"
  /\ process' = [p \in Sidecars |->
       IF p = s THEN "serving" ELSE IF p = slot THEN "dead" ELSE process[p]]
  /\ slot' = s
  /\ opens' = (opens \ {Begin(s)}) \cup {[sidecar |-> s, at |-> "opened"]}
  /\ UNCHANGED <<product, lost, calls, made, shell>>

\* The shell has answered, the tree is read or not: the product is shown.
Show(s) ==
  LET o == [sidecar |-> s, at |-> "opened"]
  IN  /\ o \in opens /\ shell = "window"
      /\ product' = s /\ lost' = FALSE
      /\ opens' = (opens \ {o}) \cup {[sidecar |-> s, at |-> "shown"]}
      /\ UNCHANGED <<process, slot, calls, made, shell>>

\* The recent list is read again, and the next open may start.
EndOpen(s) ==
  LET o == [sidecar |-> s, at |-> "shown"]
  IN  /\ o \in opens /\ shell = "window"
      /\ opens' = opens \ {o}
      /\ UNCHANGED <<process, slot, product, lost, calls, made, shell>>

-------------------------------------------------------------------------------
\* A pane reads, previews or applies.
Call ==
  /\ shell = "window" /\ product # NoSidecar /\ made < MaxCalls
  /\ made' = made + 1
  /\ calls' = calls \cup {product}
  /\ UNCHANGED <<process, slot, opens, product, lost, shell>>

CallAnswered(s) ==
  /\ s \in calls /\ process[s] = "serving"
  /\ calls' = calls \ {s}
  /\ UNCHANGED <<process, slot, opens, product, lost, made, shell>>

\* A mutant of CallLost: every late failure counts.
CallLostAny(s) ==
  /\ s \in calls /\ process[s] = "dead" /\ shell = "window"
  /\ calls' = calls \ {s}
  /\ lost' = TRUE
  /\ UNCHANGED <<process, slot, opens, product, made, shell>>

\* watchConnection: a failure of an earlier client does not count.
CallLost(s) ==
  /\ s \in calls /\ process[s] = "dead" /\ shell = "window"
  /\ calls' = calls \ {s}
  /\ lost' = (lost \/ product = s)
  /\ UNCHANGED <<process, slot, opens, product, made, shell>>

-------------------------------------------------------------------------------
Crash(s) ==
  /\ process[s] = "serving"
  /\ process' = [process EXCEPT ![s] = "dead"]
  /\ UNCHANGED <<slot, opens, product, lost, calls, made, shell>>

\* WindowEvent::Destroyed, and later RunEvent::Exit: the slot is emptied.
Close ==
  /\ shell' = IF shell = "window" THEN "closed" ELSE "ended"
  /\ shell # "ended"
  /\ process' = [p \in Sidecars |-> IF p = slot THEN "dead" ELSE process[p]]
  /\ slot' = NoSidecar
  /\ UNCHANGED <<opens, product, lost, calls, made>>

\* The shell dies without running its handler.
Die ==
  /\ shell # "ended" /\ shell' = "ended"
  /\ UNCHANGED <<process, slot, opens, product, lost, calls, made>>

\* --exit-on-stdin-eof: the pipe closed with the shell.
SidecarEof(s) ==
  /\ shell = "ended" /\ process[s] \in {"starting", "serving"}
  /\ process' = [process EXCEPT ![s] = "dead"]
  /\ UNCHANGED <<slot, opens, product, lost, calls, made, shell>>

Next ==
  \/ \E s \in Sidecars :
       \/ Open(s) \/ StartFails(s) \/ Replace(s) \/ Show(s) \/ EndOpen(s)
       \/ CallAnswered(s) \/ CallLost(s) \/ Crash(s) \/ SidecarEof(s)
  \/ Call \/ Close \/ Die

Spec == Init /\ [][Next]_vars

-------------------------------------------------------------------------------
(***************************************************************************)
(* The product on the screen is the one whose sidecar is live: once no     *)
(* open is in progress its client calls the sidecar in the slot, whatever  *)
(* opens failed or followed each other.  And no sidecar runs outside the   *)
(* slot but one that starts.                                               *)
(***************************************************************************)
ShownIsLive ==
  /\ shell = "window" /\ opens = {} => product = slot
  /\ shell # "ended" => \A s \in Sidecars : process[s] = "serving" => s = slot

(***************************************************************************)
(* The screen says the connection is lost only when the sidecar of the     *)
(* product shown is gone: no late answer for an earlier product says it of *)
(* the new one.                                                            *)
(***************************************************************************)
LostIsTrue == lost => process[product] = "dead"

\* What the screen says of the sidecars is so.
ScreenIsTrue == ShownIsLive /\ LostIsTrue
=============================================================================
