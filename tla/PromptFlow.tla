------------------------------- MODULE PromptFlow -------------------------------
(***************************************************************************)
(* The prompt flow of MarkDesk: usePrompt (apps/markdesk/src/assistant),   *)
(* the one assistant run of the shell (TestGuard and the prompt commands   *)
(* in src-tauri/src/lib.rs), and the desk server (DeskProposals), which    *)
(* answers each request here in one step.                                  *)
(*                                                                         *)
(* Each async call of the hook is a flow with the run number it took; it   *)
(* goes on at each await, while the author cancels, selects another entry, *)
(* leaves the panel, or edits the file in another application.  The file   *)
(* holds all entries; its tag is its version.  A body is the entry, the    *)
(* version it was read at, and how often it was formatted: a formatted     *)
(* body is not the body that was sent (see MCDesk).                        *)
(***************************************************************************)
EXTENDS Naturals, FiniteSets

CONSTANTS Entries, None, MaxRuns, MaxVersions

ASSUME PromptAssumption == None \notin Entries /\ MaxRuns \in Nat /\ MaxVersions \in Nat

VARIABLES
  version,   \* the file
  selected,  \* the entry selected, or None
  phase,     \* what the box shows
  run,       \* the run number: results of earlier numbers are ignored
  flows,     \* the calls of submit and accept that go on
  running,   \* the flow whose run holds the guard of the shell, or 0
  cancel,    \* the flag of the shell
  replaced,  \* the bodies written, each with the version it replaced
  unseen     \* something was written since the panes last read again

promptVars == <<version, selected, phase, run, flows, running, cancel, replaced, unseen>>

Body == [entry : Entries, read : 0..MaxVersions, formatted : 0..2]

Idle == [kind |-> "idle"]
Error == [kind |-> "error"]
Running == [kind |-> "running"]

Phase == {Idle, Error, Running} \cup
  [kind : {"proposal", "applying"}, etag : 0..MaxVersions, proposed : Body, raw : Body]

Flow ==
  [run : 1..MaxRuns, at : {"tag", "entry", "shell", "ran", "preview", "apply", "applied"},
   entry : Entries, etag : 0..MaxVersions, body : Body,
   end : {"none", "ok", "failed", "cancelled"}]

PromptTypeOK ==
  /\ version \in 0..MaxVersions /\ selected \in Entries \cup {None}
  /\ phase \in Phase /\ run \in 0..MaxRuns /\ flows \subseteq Flow
  /\ running \in 0..MaxRuns /\ cancel \in BOOLEAN
  /\ replaced \subseteq [body : Body, over : 0..MaxVersions]
  /\ unseen \in BOOLEAN

PromptInit ==
  /\ version = 0 /\ selected = None /\ phase = Idle /\ run = 0 /\ flows = {}
  /\ running = 0 /\ cancel = FALSE /\ replaced = {} /\ unseen = FALSE

IsCurrent(f) == f.run = run

FormatBody(body) == [body EXCEPT !.formatted = @ + 1]

\* Flow f goes on as g.
GoOn(f, g) == flows' = (flows \ {f}) \cup {g}

\* A mutant of End: the result of an earlier run is shown too.
EndLate(f, shown) ==
  /\ flows' = flows \ {f}
  /\ phase' = shown

\* Flow f ends; the box shows it if the flow is current.
End(f, shown) ==
  /\ flows' = flows \ {f}
  /\ phase' = IF IsCurrent(f) THEN shown ELSE phase

shellVars == <<running, cancel>>
fileVars == <<version, replaced, unseen>>

-------------------------------------------------------------------------------
\* submit: the entry is loaded and the assistant ready.
Submit ==
  /\ phase.kind \in {"idle", "error"} /\ selected # None /\ run < MaxRuns
  /\ run' = run + 1
  /\ phase' = Running
  /\ flows' = flows \cup
       {[run |-> run + 1, at |-> "tag", entry |-> selected, etag |-> 0,
         body |-> [entry |-> selected, read |-> 0, formatted |-> 0], end |-> "none"]}
  /\ UNCHANGED <<selected, shellVars, fileVars>>

\* The tag of the document, first.
ReadTag(f) ==
  /\ f.at = "tag"
  /\ GoOn(f, [f EXCEPT !.at = "entry", !.etag = version])
  /\ UNCHANGED <<selected, phase, run, shellVars, fileVars>>

\* Then the entry; the run is asked of the shell.
ReadEntry(f) ==
  /\ f.at = "entry" /\ IsCurrent(f)
  /\ GoOn(f, [f EXCEPT !.at = "shell", !.body.read = version])
  /\ UNCHANGED <<selected, phase, run, shellVars, fileVars>>

\* A read fails (the connection is lost: Idle), the entry cannot be prompted
\* for any more, or the author is gone meanwhile.
GiveUp(f) ==
  /\ f.at \in {"tag", "entry"}
  /\ \E shown \in {Idle, Error} : End(f, shown)
  /\ UNCHANGED <<selected, run, shellVars, fileVars>>

-------------------------------------------------------------------------------
\* A mutant of StartRun: a call that finds the guard taken is not answered.
StartRunSilent(f) ==
  /\ f.at = "shell" /\ running # f.run
  /\ IF running = 0
       THEN running' = f.run /\ cancel' = FALSE /\ UNCHANGED flows
       ELSE flows' = flows \ {f} /\ UNCHANGED shellVars
  /\ UNCHANGED <<selected, phase, run, fileVars>>

\* A mutant of StartRun: the flag keeps what an earlier cancel has set.
StartRunUncleared(f) ==
  /\ f.at = "shell" /\ running # f.run
  /\ IF running = 0
       THEN running' = f.run /\ UNCHANGED <<cancel, flows>>
       ELSE GoOn(f, [f EXCEPT !.at = "ran", !.end = "failed"]) /\ UNCHANGED shellVars
  /\ UNCHANGED <<selected, phase, run, fileVars>>

\* with_assistant_guard: one run at a time; the flag is cleared, and with it
\* a cancel that came before (the known gap of cancel_assistant_prompt).
StartRun(f) ==
  /\ f.at = "shell" /\ running # f.run
  /\ IF running = 0
       THEN running' = f.run /\ cancel' = FALSE /\ UNCHANGED flows
       ELSE GoOn(f, [f EXCEPT !.at = "ran", !.end = "failed"]) /\ UNCHANGED shellVars
  /\ UNCHANGED <<selected, phase, run, fileVars>>

\* run_prompt returns: a reply, a failure, the timeout, or the cancel.
EndRun(f) ==
  /\ f.at = "shell" /\ running = f.run
  /\ running' = 0
  /\ \E end \in {"ok", "failed"} \cup (IF cancel THEN {"cancelled"} ELSE {}) :
       GoOn(f, [f EXCEPT !.at = "ran", !.end = end])
  /\ UNCHANGED <<selected, phase, run, cancel, fileVars>>

\* The outcome reaches the hook: a reply goes to the preview.
Outcome(f) ==
  /\ f.at = "ran"
  /\ \/ /\ f.end = "ok" /\ IsCurrent(f)
        /\ GoOn(f, [f EXCEPT !.at = "preview"]) /\ UNCHANGED phase
     \/ f.end = "cancelled" /\ End(f, Idle)
     \/ f.end # "cancelled" /\ End(f, Error)  \* of a reply: an empty one
  /\ UNCHANGED <<selected, run, shellVars, fileVars>>

Shown(f) ==
  [kind |-> "proposal", etag |-> f.etag, proposed |-> FormatBody(f.body), raw |-> f.body]

\* previewProposal: the server refuses another version of the file.
Preview(f) ==
  /\ f.at = "preview"
  /\ \/ f.etag = version /\ End(f, Shown(f))
     \/ \E shown \in {Idle, Error} : End(f, shown)
  /\ UNCHANGED <<selected, run, shellVars, fileVars>>

-------------------------------------------------------------------------------
\* The server formats what it gets, so the raw body is sent.
Sent(shown) == shown.raw

Accept ==
  /\ phase.kind = "proposal"
  /\ phase' = [phase EXCEPT !.kind = "applying"]
  /\ flows' = flows \cup
       {[run |-> run, at |-> "apply", entry |-> phase.raw.entry, etag |-> phase.etag,
         body |-> Sent(phase), end |-> "none"]}
  /\ UNCHANGED <<selected, run, shellVars, fileVars>>

\* The server writes, or refuses another version (see DeskProposals).
ServeApply(f) ==
  /\ f.at = "apply"
  /\ IF f.etag = version /\ version < MaxVersions
       THEN /\ version' = version + 1
            /\ replaced' = replaced \cup {[body |-> FormatBody(f.body), over |-> version]}
            /\ unseen' = TRUE
            /\ GoOn(f, [f EXCEPT !.at = "applied", !.end = "ok"])
       ELSE /\ GoOn(f, [f EXCEPT !.at = "applied", !.end = "failed"])
            /\ UNCHANGED fileVars
  /\ UNCHANGED <<selected, phase, run, shellVars>>

\* A mutant of ApplyEnds: after a lost answer nothing is read again.
ApplyEndsUnseen(f) ==
  /\ f.at \in {"apply", "applied"}
  /\ \/ f.end = "ok" /\ End(f, Idle) /\ unseen' = FALSE
     \/ f.end = "failed" /\ End(f, Error) /\ UNCHANGED unseen
     \/ End(f, Error) /\ UNCHANGED unseen
  /\ UNCHANGED <<selected, run, shellVars, version, replaced>>

\* The answer: written, refused, or lost (before the server wrote, or after).
ApplyEnds(f) ==
  /\ f.at \in {"apply", "applied"}
  /\ \/ f.end = "ok" /\ End(f, Idle) /\ unseen' = FALSE
     \/ f.end = "failed" /\ End(f, Error) /\ UNCHANGED unseen
     \/ End(f, Error) /\ unseen' = FALSE
  /\ UNCHANGED <<selected, run, shellVars, version, replaced>>

-------------------------------------------------------------------------------
\* The run number moves on, and a running prompt is cancelled.
Withdraw ==
  /\ run < MaxRuns /\ run' = run + 1
  /\ phase' = Idle
  /\ cancel' = (cancel \/ phase = Running)
  /\ UNCHANGED <<flows, running, fileVars>>

Cancel == phase = Running /\ Withdraw /\ UNCHANGED selected

Reject ==
  /\ phase.kind = "proposal" /\ phase' = Idle
  /\ UNCHANGED <<selected, run, flows, shellVars, fileVars>>

\* Another entry: a write in progress is kept.
Select(e) ==
  /\ e # selected /\ selected' = e
  /\ \/ phase.kind # "applying" /\ Withdraw
     \/ phase.kind = "applying" /\ UNCHANGED <<phase, run, flows, shellVars, fileVars>>

\* The panel is left and shown again; a write in progress is not reported.
Remount == Withdraw /\ UNCHANGED selected

\* An edit in another application, and the focus that follows.
EditOutside ==
  /\ version < MaxVersions /\ version' = version + 1
  /\ UNCHANGED <<selected, phase, run, flows, shellVars, replaced, unseen>>

Focus ==
  /\ unseen' = FALSE
  /\ UNCHANGED <<selected, phase, run, flows, shellVars, version, replaced>>

Advance(f) ==
  \/ ReadTag(f) \/ ReadEntry(f) \/ GiveUp(f) \/ StartRun(f) \/ EndRun(f) \/ Outcome(f)
  \/ Preview(f) \/ ServeApply(f) \/ ApplyEnds(f)

PromptNext ==
  \/ \E f \in flows : Advance(f)
  \/ \E e \in Entries \cup {None} : Select(e)
  \/ Submit \/ Accept \/ Cancel \/ Reject \/ Remount \/ EditOutside \/ Focus

PromptSpec == PromptInit /\ [][PromptNext]_promptVars

\* Every await is answered: the runtime, the server, and the timeout of a run.
PromptFairSpec ==
  PromptSpec /\ \A r \in 1..MaxRuns : WF_promptVars(\E f \in flows : f.run = r /\ Advance(f))

-------------------------------------------------------------------------------
(***************************************************************************)
(* A proposal that is shown belongs to the entry selected now and was made *)
(* by the last submit: no cancelled or earlier run shows through, however  *)
(* late the shell and the server answer it.                                *)
(***************************************************************************)
ProposalIsCurrent ==
  phase.kind = "proposal" => phase.raw.entry = selected /\ ~\E f \in flows : IsCurrent(f)

(***************************************************************************)
(* A body that was written is the one the author saw, and replaced the     *)
(* very version that the assistant was given: an edit that came after that *)
(* is never overwritten, whenever it came.                                 *)
(***************************************************************************)
WrittenAsSeen ==
  \A w \in replaced : w.body.read = w.over /\ w.body.formatted = 1

(***************************************************************************)
(* The author decides: what may be accepted is a current proposal, and     *)
(* what was written is what was accepted, over what it was made from.      *)
(***************************************************************************)
AuthorDecides == ProposalIsCurrent /\ WrittenAsSeen

(***************************************************************************)
(* What the prompt flow wrote is read again by the panes, also when the    *)
(* answer was lost, the author selected another entry, or the panel was    *)
(* left meanwhile.                                                         *)
(***************************************************************************)
WritesAreShown == unseen => \E f \in flows : f.at = "applied"

(***************************************************************************)
(* A cancel never stops the run of a later submit: the flag is not set     *)
(* while the run of the current submit holds the shell.                    *)
(***************************************************************************)
CancelHitsNoLater == cancel /\ running # 0 => running # run

(***************************************************************************)
(* The box comes back from a run, also when a cancelled run still holds    *)
(* the shell, and from a write.                                            *)
(***************************************************************************)
BoxComesBack ==
  phase.kind \in {"running", "applying"} ~> phase.kind \in {"idle", "error", "proposal"}
=============================================================================
