---------------------------- MODULE IdReservations ----------------------------
(***************************************************************************)
(* Display-ID numbers handed out by scaffold completion                    *)
(* (packages/markspec/lsp/id_reservations.ts, with the minting of          *)
(* onCompletionResolve in server.ts and the release of                     *)
(* releaseObservedReservations in project_context.ts).                     *)
(*                                                                         *)
(* The index lags the documents by the debounced parse, so a number that   *)
(* was handed out is reserved until a parse observes it or the reservation *)
(* is too old.  The table is keyed by the (prefix, suffix) of the type and *)
(* not by project; this module follows one (prefix, suffix).  A stale      *)
(* reservation and none at all are the same thing to every reader, because *)
(* each one evicts stale reservations before it looks.                     *)
(***************************************************************************)
EXTENDS Naturals

CONSTANTS
  Docs,       \* open documents
  Projects,
  ProjectOf,  \* document -> the project that owns it
  Saved,      \* documents whose text is on disk and outlives their buffer
  Ttl,        \* RESERVATION_TTL_MS, in ticks
  MaxNumber,  \* bound on the numbers of IDs
  MaxMints    \* bound on the numbers handed out

ASSUME ReservationAssumption ==
  /\ ProjectOf \in [Docs -> Projects]
  /\ Saved \subseteq Docs
  /\ Ttl \in Nat \ {0}
  /\ MaxNumber \in Nat
  /\ MaxMints \in Nat

Numbers == 1..MaxNumber

(***************************************************************************)
(* text    document -> the numbers its text declares                       *)
(* index   document -> the numbers the index holds for it                  *)
(* age     number -> the age of its reservation; Ttl when there is none    *)
(* offers  the numbers handed out, from the answer of the completion to    *)
(*         the parse that observes the inserted entry                      *)
(* mints   the number of completions resolved so far                       *)
(***************************************************************************)
VARIABLES text, index, age, offers, mints

vars == <<text, index, age, offers, mints>>

Offer == [doc : Docs, number : Numbers, mint : 1..MaxMints, inserted : BOOLEAN]

TypeOK ==
  /\ text \in [Docs -> SUBSET Numbers]
  /\ index \in [Docs -> SUBSET Numbers]
  /\ age \in [Numbers -> 0..Ttl]
  /\ offers \subseteq Offer
  /\ mints \in 0..MaxMints

\* reservedNumbersFor
Live == {n \in Numbers : age[n] < Ttl}

Indexed(p) == UNION {index[d] : d \in {e \in Docs : ProjectOf[e] = p}}

-------------------------------------------------------------------------------
\* The documents were indexed; nothing was handed out.
Init ==
  /\ text \in [Docs -> SUBSET Numbers]
  /\ index = text
  /\ age = [n \in Numbers |-> Ttl]
  /\ offers = {}
  /\ mints = 0

\* Mutant: only the index is asked.
IsNextFreeIgnoringReserved(p, n) ==
  /\ \A m \in Indexed(p) : m < n
  /\ n # 1 => n - 1 \in Indexed(p)

(***************************************************************************)
(* getNextDisplayIdNumber: one more than the largest number the index of   *)
(* the project or the reservation table holds, 1 when they hold none.      *)
(***************************************************************************)
IsNextFree(p, n) ==
  /\ \A m \in Indexed(p) \cup Live : m < n
  /\ n # 1 => n - 1 \in Indexed(p) \cup Live

(***************************************************************************)
(* completionItem/resolve: mintReservedNumber hands out the next free      *)
(* number of the document's project and reserves it in one step.           *)
(***************************************************************************)
Mint(d) ==
  /\ mints < MaxMints
  /\ \E n \in Numbers :
       /\ IsNextFree(ProjectOf[d], n)
       /\ age' = [age EXCEPT ![n] = 0]
       /\ offers' = offers \cup
            {[doc |-> d, number |-> n, mint |-> mints + 1, inserted |-> FALSE]}
  /\ mints' = mints + 1
  /\ UNCHANGED <<text, index>>

\* The author accepts the completion; the text of the document has the entry.
Accept(o) ==
  /\ ~o.inserted
  /\ text' = [text EXCEPT ![o.doc] = @ \cup {o.number}]
  /\ offers' = (offers \ {o}) \cup {[o EXCEPT !.inserted = TRUE]}
  /\ UNCHANGED <<index, age, mints>>

\* The author picks another completion; the reservation stays until its TTL.
Abandon(o) ==
  /\ ~o.inserted
  /\ offers' = offers \ {o}
  /\ UNCHANGED <<text, index, age, mints>>

\* The author deletes an entry.
Erase(d, n) ==
  /\ n \in text[d]
  /\ text' = [text EXCEPT ![d] = @ \ {n}]
  /\ offers' = {o \in offers : ~(o.doc = d /\ o.inserted /\ o.number = n)}
  /\ UNCHANGED <<index, age, mints>>

\* Mutant: the parse releases the whole bucket.
ParseReleasingBucket(d) ==
  /\ index' = [index EXCEPT ![d] = text[d]]
  /\ age' = [n \in Numbers |-> Ttl]
  /\ offers' = {o \in offers : ~(o.doc = d /\ o.inserted)}
  /\ UNCHANGED <<text, mints>>

(***************************************************************************)
(* The debounced parse of a document: the index holds what the text        *)
(* declares, and each observed number is released.                         *)
(***************************************************************************)
Parse(d) ==
  /\ index' = [index EXCEPT ![d] = text[d]]
  /\ age' = [n \in Numbers |-> IF n \in text[d] THEN Ttl ELSE age[n]]
  /\ offers' = {o \in offers : ~(o.doc = d /\ o.inserted)}
  /\ UNCHANGED <<text, mints>>

(***************************************************************************)
(* onDidClose takes the entries of the document out of the index, saved or *)
(* not; the reservations stay.                                             *)
(***************************************************************************)
Close(d) ==
  /\ index' = [index EXCEPT ![d] = {}]
  /\ text' = IF d \in Saved THEN text ELSE [text EXCEPT ![d] = {}]
  /\ offers' = {o \in offers : o.doc # d}
  /\ UNCHANGED <<age, mints>>

(***************************************************************************)
(* Time passes.  The TTL (60 s) is long against what it waits for: an      *)
(* offer is accepted and parsed (50 ms after the edit), or dropped, before *)
(* its reservation is too old.                                             *)
(***************************************************************************)
Tick ==
  /\ \A o \in offers : age[o.number] + 1 < Ttl
  /\ age' = [n \in Numbers |-> IF age[n] < Ttl THEN age[n] + 1 ELSE Ttl]
  /\ UNCHANGED <<text, index, offers, mints>>

Next ==
  \/ \E d \in Docs : Mint(d) \/ Parse(d) \/ Close(d)
  \/ \E o \in offers : Accept(o) \/ Abandon(o)
  \/ \E d \in Docs, n \in Numbers : Erase(d, n)
  \/ Tick

Spec == Init /\ [][Next]_vars

-------------------------------------------------------------------------------
(***************************************************************************)
(* Two completions of one project never hold the same number, however the  *)
(* resolves, the accepts and the parses interleave: the duplicate that     *)
(* id_reservations.ts exists to prevent.                                   *)
(***************************************************************************)
NoDuplicateMint ==
  \A a, b \in offers :
    ProjectOf[a.doc] = ProjectOf[b.doc] /\ a.number = b.number => a = b

(***************************************************************************)
(* A number that was handed out is not in the index before the parse that  *)
(* releases it, and stays reserved up to that parse: nobody else's parse   *)
(* takes the reservation away.                                             *)
(***************************************************************************)
OffersReserved ==
  \A o \in offers :
    o.number \in Live /\ o.number \notin Indexed(ProjectOf[o.doc])

-------------------------------------------------------------------------------
(***************************************************************************)
(* What NoDuplicateMint and OffersReserved rest on: an accepted offer is   *)
(* in the text of its document, and a number in a text that the index does *)
(* not hold for that document is an accepted offer of it.                  *)
(***************************************************************************)
TextExplained ==
  /\ \A o \in offers : o.inserted => o.number \in text[o.doc]
  /\ \A d \in Docs : \A n \in text[d] \ index[d] :
       \E o \in offers : o.doc = d /\ o.inserted /\ o.number = n

ReservationInv == TypeOK /\ NoDuplicateMint /\ OffersReserved /\ TextExplained

=============================================================================
