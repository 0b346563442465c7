----------------------------- MODULE AtomicReplace -----------------------------
(***************************************************************************)
(* What the desk server promises of one file (the comments of              *)
(* createDeskHandler in packages/markspec/desk/api.ts, and of desk/write): *)
(* a proposal replaces the text it was made for and no other, in one step, *)
(* one proposal after the other.                                           *)
(*                                                                         *)
(* A claim is a write that was checked and is not done.  An edit by another *)
(* application after the check is replaced with the rest of the text: the  *)
(* server cannot see it (README).                                          *)
(***************************************************************************)
CONSTANTS
  Values,   \* the texts of the file, and its absence
  Changes   \* the pairs of a text and what a proposal makes of it

VARIABLES value, claims

vars == <<value, claims>>

Init == value \in Values /\ claims = {}

\* Another application saves or removes the file.
Edit ==
  /\ value' \in Values
  /\ UNCHANGED claims

\* The text is the one the proposal was made for.
Check ==
  /\ claims = {}
  /\ \E new \in Values : <<value, new>> \in Changes /\ claims' = {new}
  /\ UNCHANGED value

Replace ==
  /\ value' \in claims
  /\ claims' = {}

\* The write fails, or the server is killed.
Drop ==
  /\ claims' = {}
  /\ UNCHANGED value

Next == Edit \/ Check \/ Replace \/ Drop

Spec == Init /\ [][Next]_vars
=============================================================================
