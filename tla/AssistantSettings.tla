---------------------------- MODULE AssistantSettings ----------------------------
(***************************************************************************)
(* The assistant settings of MarkDesk: AssistantProvider in the web view   *)
(* (apps/markdesk/src/assistant), the commands of the shell that read and  *)
(* change them (src-tauri/src/lib.rs, assistant_settings.rs), and the Test *)
(* that confirms the sign-in of Copilot.                                   *)
(*                                                                         *)
(* The shell runs `get` and `set` on its main thread, in the order of the  *)
(* calls; a Test and a detection run on threads of their own.  Each of     *)
(* them loads the settings and, if it changes them, saves all of them: two *)
(* steps.  The web view goes on at each reply.  A stored value that cannot *)
(* be read counts as the defaults and is moved aside: the store holds the  *)
(* defaults then.                                                          *)
(***************************************************************************)
EXTENDS Naturals, Sequences

CONSTANTS Assistants, Copilot, Nobody, Unread, MaxTurns

VARIABLES
  stored,    \* the settings in the store of the shell
  shown,     \* the settings of the web view, or Unread
  calls,     \* its calls of get and set that are not answered, in order
  test,      \* the Test that runs
  rechecks,  \* the detections that are under way
  ready,     \* whether the web view shows that Copilot is signed in, or Unread
  author,    \* what was asked for: the last choices, and what the last Test proved
  left,      \* how many choices, Tests, detections and faults may still come
  spoilt     \* what has gone wrong: see SettingsHold

settingsVars == <<stored, shown, calls, test, rechecks, ready, author, left, spoilt>>

Settings ==
  [selected : Assistants \cup {Nobody}, dismissed : BOOLEAN, confirmed : BOOLEAN]

ASSUME SettingsAssumption ==
  /\ Copilot \in Assistants /\ Nobody \notin Assistants
  /\ Unread \notin Settings
  /\ MaxTurns \in Nat

\* A change of the author: another assistant, or the setup card put away.
Changes == {[field |-> "selected", value |-> x] : x \in Assistants \cup {Nobody}} \cup
           {[field |-> "dismissed", value |-> TRUE]}

Change(s, c) == [s EXCEPT ![c.field] = c.value]

Call == [kind : {"get", "set"}, change : Changes \cup {Unread}, sent : Settings \cup {Unread},
         at : {"sent", "loaded", "done", "failed"}, copy : Settings \cup {Unread}]

NoTest == [at |-> "idle"]

Outcomes == {"ok", "failed", "noReply", "other"}

SettingsTypeOK ==
  /\ stored \in Settings /\ shown \in Settings \cup {Unread}
  /\ calls \in Seq(Call)
  /\ test = NoTest \/ test \in
       [at : {"running", "ran", "loaded", "ended", "reread", "recheck"},
        id : Assistants, copy : Settings, end : Outcomes]
  /\ rechecks \subseteq [by : {"mount", "author", "test"}, number : 0..MaxTurns,
                         at : {"sent", "probing"}, confirmed : BOOLEAN]
  /\ ready \in BOOLEAN \cup {Unread} /\ author \in Settings
  /\ left \in 0..MaxTurns
  /\ spoilt \subseteq {"crossed", "overlapped", "halfway", "unread", "late"}

Get == [kind |-> "get", change |-> Unread, sent |-> Unread, at |-> "sent", copy |-> Unread]

\* A detection; `number` tells those of the author apart.
Detection(by, number) == [by |-> by, number |-> number, at |-> "sent", confirmed |-> FALSE]

\* The window opens: the provider asks for the settings and for the statuses.
SettingsInit ==
  /\ stored \in Settings /\ author = stored
  /\ shown = Unread /\ ready = Unread /\ test = NoTest /\ spoilt = {}
  /\ calls = <<Get>> /\ rechecks = {Detection("mount", 0)}
  /\ left = MaxTurns

Turn == left > 0 /\ left' = left - 1

Spoil(what, happens) == spoilt' = IF happens THEN spoilt \cup {what} ELSE spoilt

-------------------------------------------------------------------------------
(***************************************************************************)
(* The author chooses an assistant or puts the card away: `store` sends    *)
(* the settings that the web view shows, with the change.  A change that   *)
(* is not answered yet is not among them.                                  *)
(***************************************************************************)
Store(c) ==
  /\ shown # Unread /\ Turn
  /\ calls' = Append(calls, [Get EXCEPT !.kind = "set", !.change = c, !.sent = Change(shown, c)])
  /\ author' = Change(author, c)
  /\ Spoil("crossed", \E n \in DOMAIN calls : calls[n].kind = "set")
  /\ UNCHANGED <<stored, shown, test, rechecks, ready>>

\* The call that the main thread is at: those before it are done.
AtShell(n) ==
  /\ calls[n].at \in {"sent", "loaded"}
  /\ \A m \in 1..(n - 1) : calls[m].at \in {"done", "failed"}

\* get_assistant_settings and set_assistant_settings load the settings.
LoadForCall(n) ==
  /\ AtShell(n) /\ calls[n].at = "sent"
  /\ calls' = [calls EXCEPT ![n].copy = stored,
                            ![n].at = IF calls[n].kind = "get" THEN "done" ELSE "loaded"]
  /\ UNCHANGED <<stored, shown, test, rechecks, ready, author, left, spoilt>>

\* merge_from_ui: the web view does not say what was confirmed.
MergeFromUi(loaded, fromUi) == [fromUi EXCEPT !.confirmed = loaded.confirmed]

SaveForCall(n) ==
  /\ AtShell(n) /\ calls[n].at = "loaded"
  /\ stored' = MergeFromUi(calls[n].copy, calls[n].sent)
  /\ calls' = [calls EXCEPT ![n].at = "done"]
  /\ Spoil("overlapped", test.at = "loaded")
  /\ UNCHANGED <<shown, test, rechecks, ready, author, left>>

\* The store cannot be opened: the call fails, and a choice is as if not made.
CallFails(n) ==
  /\ AtShell(n) /\ Turn
  /\ calls' = [calls EXCEPT ![n].at = "failed"]
  /\ IF calls[n].kind = "get" THEN Spoil("unread", TRUE) /\ UNCHANGED author
     ELSE /\ author' = [stored EXCEPT !.confirmed = author.confirmed]
          /\ UNCHANGED spoilt
  /\ UNCHANGED <<stored, shown, test, rechecks, ready>>

\* It cannot be written: the call fails, but what was set in memory stays set.
SaveFails(n) ==
  /\ AtShell(n) /\ calls[n].at = "loaded" /\ Turn
  /\ calls' = [calls EXCEPT ![n].at = "failed"]
  /\ stored' = MergeFromUi(calls[n].copy, calls[n].sent)
  /\ spoilt' = spoilt \cup {"halfway"} \cup {x \in {"overlapped"} : test.at = "loaded"}
  /\ UNCHANGED <<shown, test, rechecks, ready, author>>

DefaultSettings == [selected |-> Nobody, dismissed |-> FALSE, confirmed |-> FALSE]

\* The oldest call has come back.
Answered == calls # <<>> /\ Head(calls).at \in {"done", "failed"}

\* What the web view shows then.  A change that was stored is made to the
\* settings shown; one that failed is not.
ShownAfter(c) ==
  CASE c.at = "failed" -> IF shown = Unread THEN DefaultSettings ELSE shown
    [] c.at = "done" /\ c.kind = "get" -> c.copy
    [] c.at = "done" /\ c.kind = "set" -> Change(shown, c.change)

OfTest(c) == c.kind = "get" /\ test.at = "reread"

Answer ==
  /\ Answered /\ ~OfTest(Head(calls))
  /\ shown' = ShownAfter(Head(calls)) /\ calls' = Tail(calls)
  /\ UNCHANGED <<stored, test, rechecks, ready, author, left, spoilt>>

\* The settings that a Test of Copilot asked for: the statuses are next.
AnswerToTest ==
  /\ Answered /\ OfTest(Head(calls))
  /\ shown' = ShownAfter(Head(calls)) /\ calls' = Tail(calls)
  /\ test' = [test EXCEPT !.at = "recheck"]
  /\ rechecks' = rechecks \cup {Detection("test", 0)}
  /\ Spoil("late", rechecks # {})
  /\ UNCHANGED <<stored, ready, author, left>>

-------------------------------------------------------------------------------
\* runTest, for the assistant shown as selected; the shell loads the settings
\* to find it.  No second Test starts before this one is done with.
RunTest ==
  /\ shown # Unread /\ shown.selected # Nobody /\ test = NoTest /\ Turn
  /\ test' = [at |-> "running", id |-> shown.selected, copy |-> stored, end |-> "other"]
  /\ UNCHANGED <<stored, shown, calls, rechecks, ready, author, spoilt>>

\* copilot_confirmed_after: what a Test of Copilot that ends so says.
ConfirmedAfter(confirmed, end) ==
  CASE end = "ok" -> TRUE [] end = "failed" -> FALSE [] OTHER -> confirmed

\* The assistant has answered, failed, timed out or been cancelled.
EndRun ==
  /\ test.at = "running"
  /\ \E end \in Outcomes :
       /\ test' = [test EXCEPT !.at = "ran", !.end = end]
       /\ author' = IF test.id # Copilot THEN author
                    ELSE [author EXCEPT !.confirmed = ConfirmedAfter(@, end)]
  /\ UNCHANGED <<stored, shown, calls, rechecks, ready, left, spoilt>>

\* Nothing runs: a prompt holds the guard, or the program is not installed.
RefuseTest ==
  /\ test.at = "running"
  /\ test' = [test EXCEPT !.at = "ended"]
  /\ UNCHANGED <<stored, shown, calls, rechecks, ready, author, left, spoilt>>

\* A mutant of LoadAfterTest: the settings are those that the Test started with.
KeepFromStart ==
  /\ test.at = "ran"
  /\ test' = [test EXCEPT !.at = "loaded"]
  /\ UNCHANGED <<stored, shown, calls, rechecks, ready, author, left, spoilt>>

\* store_settings_after_test loads the settings again.
LoadAfterTest ==
  /\ test.at = "ran"
  /\ test' = [test EXCEPT !.at = "loaded", !.copy = stored]
  /\ UNCHANGED <<stored, shown, calls, rechecks, ready, author, left, spoilt>>

\* settings_after_test: a Test of Copilot alone changes what was confirmed.
SettingsAfterTest ==
  IF test.id # Copilot THEN test.copy
  ELSE [test.copy EXCEPT !.confirmed = ConfirmedAfter(@, test.end)]

SaveAfterTest ==
  /\ test.at = "loaded"
  /\ test' = [test EXCEPT !.at = "ended"]
  /\ IF SettingsAfterTest = test.copy THEN UNCHANGED <<stored, spoilt>>
     ELSE /\ stored' = SettingsAfterTest
          /\ Spoil("overlapped", \E n \in DOMAIN calls : calls[n].at = "loaded")
  /\ UNCHANGED <<shown, calls, rechecks, ready, author, left>>

\* The store cannot be opened: what the Test proved is not kept.
SavingAfterTestFails ==
  /\ test.at \in {"ran", "loaded"} /\ Turn
  /\ test' = [test EXCEPT !.at = "ended"]
  /\ author' = [author EXCEPT !.confirmed = stored.confirmed]
  /\ UNCHANGED <<stored, shown, calls, rechecks, ready, spoilt>>

\* The web view has the result; one of Copilot makes it read the settings.
EndTest ==
  /\ test.at = "ended"
  /\ IF test.id = Copilot
       THEN test' = [test EXCEPT !.at = "reread"] /\ calls' = Append(calls, Get)
       ELSE test' = NoTest /\ UNCHANGED calls
  /\ UNCHANGED <<stored, shown, rechecks, ready, author, left, spoilt>>

-------------------------------------------------------------------------------
\* recheck, by the author: nothing keeps two detections apart.
Recheck ==
  /\ Turn
  /\ rechecks' = rechecks \cup {Detection("author", left)}
  /\ Spoil("late", rechecks # {})
  /\ UNCHANGED <<stored, shown, calls, test, ready, author>>

\* detect_assistants loads the settings, then looks at each program.
LoadForDetection(d) ==
  /\ d.at = "sent"
  /\ rechecks' = (rechecks \ {d}) \cup {[d EXCEPT !.at = "probing", !.confirmed = stored.confirmed]}
  /\ UNCHANGED <<stored, shown, calls, test, ready, author, left, spoilt>>

\* A Test of Copilot is done with when its detection is.
TestAfter(d) == IF d.by = "test" THEN NoTest ELSE test

EndDetection(d) ==
  /\ d.at = "probing"
  /\ rechecks' = rechecks \ {d} /\ ready' = d.confirmed /\ test' = TestAfter(d)
  /\ UNCHANGED <<stored, shown, calls, author, left, spoilt>>

\* No assistant is shown as installed.
DetectionFails(d) ==
  /\ Turn
  /\ rechecks' = rechecks \ {d} /\ ready' = Unread /\ test' = TestAfter(d)
  /\ UNCHANGED <<stored, shown, calls, author, spoilt>>

SettingsNext ==
  \/ \E c \in Changes : Store(c)
  \/ \E n \in DOMAIN calls : LoadForCall(n) \/ SaveForCall(n) \/ CallFails(n) \/ SaveFails(n)
  \/ Answer \/ AnswerToTest
  \/ RunTest \/ EndRun \/ RefuseTest \/ LoadAfterTest \/ SaveAfterTest \/ SavingAfterTestFails
  \/ EndTest
  \/ Recheck \/ \E d \in rechecks : LoadForDetection(d) \/ EndDetection(d) \/ DetectionFails(d)

SettingsSpec == SettingsInit /\ [][SettingsNext]_settingsVars

-------------------------------------------------------------------------------
(***************************************************************************)
(* No choice is lost and no Test forgotten, whatever ran in between: when  *)
(* no change is on its way, the store holds the last choice and the last   *)
(* dismissal; when no Test is about to be saved, it holds what the last    *)
(* Test of Copilot proved, which no change of the web view touches.  And   *)
(* when all is quiet, the web view shows the stored settings, and Copilot  *)
(* as signed in if and only if that is what they say.                      *)
(*                                                                         *)
(* What is excused: a save that follows a load from before another save    *)
(* (overlapped: the window between the two steps); a choice made before    *)
(* the last one was answered, which undoes that one in the store           *)
(* (crossed); a save that fails after the store was changed in memory,     *)
(* which the web view takes for no change (halfway); an answer to get that *)
(* failed, the first of which leaves the web view with defaults, that the  *)
(* next choice stores (unread); and, of two detections at a time, the      *)
(* older one that is shown last (late).                                    *)
(***************************************************************************)
ChoicesAreKept ==
  (\A n \in DOMAIN calls : calls[n].kind = "get" \/ calls[n].at \in {"done", "failed"}) =>
    stored.selected = author.selected /\ stored.dismissed = author.dismissed

ProofIsKept == test.at \notin {"ran", "loaded"} => stored.confirmed = author.confirmed

ScreenAgrees == calls = <<>> /\ test = NoTest => shown = stored

StatusAgrees == rechecks = {} /\ test = NoTest /\ ready # Unread => ready = stored.confirmed

SettingsHold ==
  "overlapped" \notin spoilt =>
    /\ ProofIsKept
    /\ "late" \notin spoilt => StatusAgrees
    /\ {"crossed", "halfway", "unread"} \cap spoilt = {} => ChoicesAreKept /\ ScreenAgrees
================================================================================
