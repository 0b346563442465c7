----------------------------- MODULE SessionProofs -----------------------------
(***************************************************************************)
(* Two parts of a session with an editor or an assistant: the numbers that *)
(* the LSP server reserves, and the projects that the MCP server keeps     *)
(* open.                                                                   *)
(***************************************************************************)
EXTENDS IdReservations, McpWorkspace, TLAPS

-------------------------------------------------------------------------------
(***************************************************************************)
(* For any documents of one project that leave no text behind when they    *)
(* close, any TTL and any bounds, two scaffold completions never hold the  *)
(* same number.                                                            *)
(***************************************************************************)

OneProjectOnly == \A d, e \in Docs : ProjectOf[d] = ProjectOf[e]

\* No document leaves the index while its text remains.
NothingSaved == Saved = {}

\* In one project the index of any document is the index of the project.
LEMMA IndexedOfOneProject ==
  ASSUME OneProjectOnly, NEW d \in Docs, NEW e \in Docs, NEW n,
         n \in index[e]
  PROVE  n \in Indexed(ProjectOf[d])
BY DEF Indexed, OneProjectOnly

LEMMA InitReservationInv == Init => ReservationInv
BY ReservationAssumption
   DEF Init, ReservationInv, TypeOK, NoDuplicateMint, OffersReserved,
       TextExplained, Numbers, Offer

\* The number handed out is above every number an offer holds or a text holds
\* that the index holds too.
LEMMA MintReservationInv ==
  ASSUME OneProjectOnly, ReservationInv, NEW d \in Docs, Mint(d)
  PROVE  ReservationInv'
<1> USE ReservationAssumption
<1>1. PICK n \in Numbers :
        /\ IsNextFree(ProjectOf[d], n)
        /\ age' = [age EXCEPT ![n] = 0]
        /\ offers' = offers \cup
             {[doc |-> d, number |-> n, mint |-> mints + 1, inserted |-> FALSE]}
  BY DEF Mint
<1> DEFINE new == [doc |-> d, number |-> n, mint |-> mints + 1, inserted |-> FALSE]
<1>2. mints < MaxMints /\ mints' = mints + 1 /\ text' = text /\ index' = index
  BY DEF Mint
<1>3. new \in Offer
  BY <1>2 DEF Offer, ReservationInv, TypeOK
<1>4. TypeOK'
  <2>1. offers' \subseteq Offer
    BY <1>1, <1>3 DEF ReservationInv, TypeOK
  <2>2. age' \in [Numbers -> 0..Ttl]
    BY <1>1 DEF ReservationInv, TypeOK
  <2>3. mints' \in 0..MaxMints
    BY <1>2 DEF ReservationInv, TypeOK
  <2> QED BY <1>2, <2>1, <2>2, <2>3 DEF ReservationInv, TypeOK
<1>5. \A m \in Indexed(ProjectOf[d]) \cup Live : m < n
  BY <1>1 DEF IsNextFree
<1>6. n \notin Live /\ n \notin Indexed(ProjectOf[d])
  BY <1>5 DEF Numbers
<1>7. \A o \in offers : o.number # n
  BY <1>6 DEF ReservationInv, OffersReserved
<1>8. NoDuplicateMint'
  <2> SUFFICES ASSUME NEW a \in offers', NEW b \in offers',
                      ProjectOf[a.doc] = ProjectOf[b.doc], a.number = b.number
               PROVE  a = b
    BY DEF NoDuplicateMint
  <2>1. a \in offers \/ a = new
    BY <1>1
  <2>2. b \in offers \/ b = new
    BY <1>1
  <2>3. new.number = n
    OBVIOUS
  <2> QED BY <2>1, <2>2, <2>3, <1>7 DEF NoDuplicateMint, ReservationInv
<1>9. OffersReserved'
  <2>1. \A e \in Docs : n \notin index[e]
    BY <1>6, IndexedOfOneProject
  <2>2. ASSUME NEW o \in offers'
        PROVE  o.number \in Live' /\ o.number \notin Indexed(ProjectOf[o.doc])'
    <3>1. CASE o \in offers
      <4>1. o.number \in Live /\ o.number \notin Indexed(ProjectOf[o.doc])
        BY <3>1 DEF ReservationInv, OffersReserved
      <4>2. age'[o.number] < Ttl
        BY <1>1, <1>7, <3>1, <4>1 DEF Live, ReservationInv, TypeOK
      <4> QED BY <1>2, <4>1, <4>2 DEF Live, Indexed
    <3>2. CASE o = new
      <4>1. age'[n] < Ttl
        BY <1>1 DEF ReservationInv, TypeOK
      <4> QED BY <1>2, <1>6, <3>2, <4>1 DEF Live, Indexed
    <3> QED BY <1>1, <3>1, <3>2
  <2> QED BY <2>2 DEF OffersReserved
<1>10. TextExplained'
  BY <1>1, <1>2 DEF TextExplained, ReservationInv
<1> QED BY <1>4, <1>8, <1>9, <1>10 DEF ReservationInv

LEMMA AcceptReservationInv ==
  ASSUME ReservationInv, NEW o \in offers, Accept(o)
  PROVE  ReservationInv'
<1> DEFINE oi == [o EXCEPT !.inserted = TRUE]
<1>1. /\ ~o.inserted
      /\ text' = [text EXCEPT ![o.doc] = @ \cup {o.number}]
      /\ offers' = (offers \ {o}) \cup {oi}
      /\ index' = index /\ age' = age /\ mints' = mints
  BY DEF Accept
<1>2. o \in Offer /\ oi \in Offer
  BY DEF ReservationInv, TypeOK, Offer
<1>3. oi.doc = o.doc /\ oi.number = o.number /\ oi.inserted
  BY <1>2 DEF Offer
<1> HIDE DEF oi
<1>4. TypeOK'
  <2>1. offers' \subseteq Offer
    BY <1>1, <1>2 DEF ReservationInv, TypeOK
  <2>2. text' \in [Docs -> SUBSET Numbers]
    BY <1>1, <1>2 DEF ReservationInv, TypeOK, Offer
  <2> QED BY <1>1, <2>1, <2>2 DEF ReservationInv, TypeOK
<1>5. NoDuplicateMint'
  BY <1>1, <1>3 DEF NoDuplicateMint, ReservationInv
<1>6. OffersReserved'
  <2> SUFFICES ASSUME NEW a \in offers'
               PROVE  a.number \in Live' /\ a.number \notin Indexed(ProjectOf[a.doc])'
    BY DEF OffersReserved
  <2>1. PICK b \in offers : b.number = a.number /\ b.doc = a.doc
    BY <1>1, <1>3
  <2> QED BY <1>1, <2>1 DEF ReservationInv, OffersReserved, Live, Indexed
<1>7. TextExplained'
  <2>1. ASSUME NEW a \in offers', a.inserted
        PROVE  a.number \in text'[a.doc]
    <3>1. CASE a = oi
      BY <1>1, <1>2, <1>3, <3>1 DEF ReservationInv, TypeOK, Offer
    <3>2. CASE a \in offers
      <4>1. a.number \in text[a.doc] /\ a.doc \in Docs
        BY <2>1, <3>2 DEF ReservationInv, TextExplained, TypeOK, Offer
      <4> QED BY <1>1, <4>1 DEF ReservationInv, TypeOK
    <3> QED BY <1>1, <3>1, <3>2
  <2>2. ASSUME NEW d \in Docs, NEW n \in text'[d] \ index'[d]
        PROVE  \E a \in offers' : a.doc = d /\ a.inserted /\ a.number = n
    <3>1. CASE d = o.doc /\ n = o.number
      BY <1>1, <1>3, <3>1
    <3>2. CASE ~(d = o.doc /\ n = o.number)
      <4>1. n \in text[d] \ index[d]
        BY <1>1, <2>2, <3>2 DEF ReservationInv, TypeOK
      <4>2. PICK a \in offers : a.doc = d /\ a.inserted /\ a.number = n
        BY <4>1 DEF ReservationInv, TextExplained
      <4> QED BY <1>1, <4>2
    <3> QED BY <3>1, <3>2
  <2> QED BY <2>1, <2>2 DEF TextExplained
<1> QED BY <1>4, <1>5, <1>6, <1>7 DEF ReservationInv

LEMMA AbandonReservationInv ==
  ASSUME ReservationInv, NEW o \in offers, Abandon(o)
  PROVE  ReservationInv'
<1>1. /\ ~o.inserted /\ offers' = offers \ {o}
      /\ text' = text /\ index' = index /\ age' = age /\ mints' = mints
  BY DEF Abandon
<1>2. TypeOK' /\ NoDuplicateMint'
  BY <1>1 DEF ReservationInv, TypeOK, NoDuplicateMint
<1>3. OffersReserved'
  BY <1>1 DEF ReservationInv, OffersReserved, Live, Indexed
<1>4. TextExplained'
  <2>1. ASSUME NEW d \in Docs, NEW n \in text'[d] \ index'[d]
        PROVE  \E a \in offers' : a.doc = d /\ a.inserted /\ a.number = n
    <3>1. PICK a \in offers : a.doc = d /\ a.inserted /\ a.number = n
      BY <1>1, <2>1 DEF ReservationInv, TextExplained
    <3> QED BY <1>1, <3>1
  <2> QED BY <1>1, <2>1 DEF ReservationInv, TextExplained
<1> QED BY <1>2, <1>3, <1>4 DEF ReservationInv

LEMMA EraseReservationInv ==
  ASSUME ReservationInv, NEW d \in Docs, NEW n \in Numbers, Erase(d, n)
  PROVE  ReservationInv'
<1>1. /\ text' = [text EXCEPT ![d] = @ \ {n}]
      /\ offers' = {o \in offers : ~(o.doc = d /\ o.inserted /\ o.number = n)}
      /\ index' = index /\ age' = age /\ mints' = mints
  BY DEF Erase
<1>2. TypeOK'
  <2>1. text' \in [Docs -> SUBSET Numbers]
    BY <1>1 DEF ReservationInv, TypeOK
  <2> QED BY <1>1, <2>1 DEF ReservationInv, TypeOK
<1>3. NoDuplicateMint'
  BY <1>1 DEF ReservationInv, NoDuplicateMint
<1>4. OffersReserved'
  BY <1>1 DEF ReservationInv, OffersReserved, Live, Indexed
<1>5. TextExplained'
  <2>1. ASSUME NEW o \in offers', o.inserted
        PROVE  o.number \in text'[o.doc]
    <3>1. o \in offers /\ ~(o.doc = d /\ o.number = n)
      BY <1>1, <2>1
    <3>2. o.number \in text[o.doc] /\ o.doc \in Docs
      BY <2>1, <3>1 DEF ReservationInv, TextExplained, TypeOK, Offer
    <3> QED BY <1>1, <3>1, <3>2 DEF ReservationInv, TypeOK
  <2>2. ASSUME NEW e \in Docs, NEW m \in text'[e] \ index'[e]
        PROVE  \E a \in offers' : a.doc = e /\ a.inserted /\ a.number = m
    <3>1. m \in text[e] \ index[e] /\ ~(e = d /\ m = n)
      BY <1>1, <2>2 DEF ReservationInv, TypeOK
    <3>2. PICK a \in offers : a.doc = e /\ a.inserted /\ a.number = m
      BY <3>1 DEF ReservationInv, TextExplained
    <3> QED BY <1>1, <3>1, <3>2
  <2> QED BY <2>1, <2>2 DEF TextExplained
<1> QED BY <1>2, <1>3, <1>4, <1>5 DEF ReservationInv

\* A parse observes no number of an offer that outlives it.
LEMMA ParseReservationInv ==
  ASSUME OneProjectOnly, ReservationInv, NEW d \in Docs, Parse(d)
  PROVE  ReservationInv'
<1> USE ReservationAssumption
<1>1. /\ index' = [index EXCEPT ![d] = text[d]]
      /\ age' = [n \in Numbers |-> IF n \in text[d] THEN Ttl ELSE age[n]]
      /\ offers' = {o \in offers : ~(o.doc = d /\ o.inserted)}
      /\ text' = text /\ mints' = mints
  BY DEF Parse
<1>2. TypeOK'
  <2>1. index' \in [Docs -> SUBSET Numbers] /\ age' \in [Numbers -> 0..Ttl]
    BY <1>1 DEF ReservationInv, TypeOK
  <2> QED BY <1>1, <2>1 DEF ReservationInv, TypeOK
<1>3. NoDuplicateMint'
  BY <1>1 DEF ReservationInv, NoDuplicateMint
<1>4. ASSUME NEW o \in offers'
      PROVE  o.number \notin text[d]
  <2>1. o \in offers /\ ~(o.doc = d /\ o.inserted) /\ o \in Offer
    BY <1>1 DEF ReservationInv, TypeOK
  <2>2. o.number \notin index[d]
    BY <2>1, IndexedOfOneProject DEF ReservationInv, OffersReserved, Offer
  <2>3. ASSUME o.number \in text[d] PROVE FALSE
    <3>1. PICK a \in offers : a.doc = d /\ a.inserted /\ a.number = o.number
      BY <2>2, <2>3 DEF ReservationInv, TextExplained
    <3>2. ProjectOf[a.doc] = ProjectOf[o.doc]
      BY <2>1, <3>1 DEF OneProjectOnly, Offer
    <3>3. a = o
      BY <2>1, <3>1, <3>2 DEF ReservationInv, NoDuplicateMint
    <3> QED BY <2>1, <3>1, <3>3
  <2> QED BY <2>3
<1>5. OffersReserved'
  <2> SUFFICES ASSUME NEW o \in offers'
               PROVE  o.number \in Live' /\ o.number \notin Indexed(ProjectOf[o.doc])'
    BY DEF OffersReserved
  <2>1. o \in offers /\ o \in Offer
    BY <1>1 DEF ReservationInv, TypeOK
  <2>2. o.number \in Live /\ o.number \notin Indexed(ProjectOf[o.doc])
    BY <2>1 DEF ReservationInv, OffersReserved
  <2>3. o.number \in Live'
    BY <1>1, <1>4, <2>2 DEF Live
  <2>4. ASSUME NEW e \in Docs, o.number \in index'[e] PROVE FALSE
    <3>1. CASE e = d
      BY <1>1, <1>4, <2>4, <3>1 DEF ReservationInv, TypeOK
    <3>2. CASE e # d
      <4>1. o.number \in index[e]
        BY <1>1, <2>4, <3>2 DEF ReservationInv, TypeOK
      <4> QED BY <2>1, <2>2, <4>1, IndexedOfOneProject DEF Offer
    <3> QED BY <3>1, <3>2
  <2> QED BY <2>3, <2>4 DEF Indexed
<1>6. TextExplained'
  <2>1. \A o \in offers' : o.inserted => o.number \in text'[o.doc]
    BY <1>1 DEF ReservationInv, TextExplained
  <2>2. ASSUME NEW e \in Docs, NEW m \in text'[e] \ index'[e]
        PROVE  \E a \in offers' : a.doc = e /\ a.inserted /\ a.number = m
    <3>1. e # d /\ m \in text[e] \ index[e]
      BY <1>1, <2>2 DEF ReservationInv, TypeOK
    <3>2. PICK a \in offers : a.doc = e /\ a.inserted /\ a.number = m
      BY <3>1 DEF ReservationInv, TextExplained
    <3> QED BY <1>1, <3>1, <3>2
  <2> QED BY <2>1, <2>2 DEF TextExplained
<1> QED BY <1>2, <1>3, <1>5, <1>6 DEF ReservationInv

\* A document that closes leaves neither text nor offers.
LEMMA CloseReservationInv ==
  ASSUME NothingSaved, ReservationInv, NEW d \in Docs, Close(d)
  PROVE  ReservationInv'
<1> USE ReservationAssumption
<1>1. /\ index' = [index EXCEPT ![d] = {}]
      /\ text' = [text EXCEPT ![d] = {}]
      /\ offers' = {o \in offers : o.doc # d}
      /\ age' = age /\ mints' = mints
  BY DEF Close, NothingSaved
<1>2. TypeOK' /\ NoDuplicateMint'
  BY <1>1 DEF ReservationInv, TypeOK, NoDuplicateMint
<1>3. ASSUME NEW e \in Docs PROVE index'[e] \subseteq index[e]
  BY <1>1 DEF ReservationInv, TypeOK
<1>4. OffersReserved'
  BY <1>1, <1>3 DEF ReservationInv, OffersReserved, Live, Indexed
<1>5. TextExplained'
  <2>1. ASSUME NEW o \in offers', o.inserted
        PROVE  o.number \in text'[o.doc]
    <3>1. o \in offers /\ o.doc # d /\ o.doc \in Docs
      BY <1>1 DEF ReservationInv, TypeOK, Offer
    <3> QED BY <1>1, <2>1, <3>1 DEF ReservationInv, TypeOK, TextExplained
  <2>2. ASSUME NEW e \in Docs, NEW m \in text'[e] \ index'[e]
        PROVE  \E a \in offers' : a.doc = e /\ a.inserted /\ a.number = m
    <3>1. e # d /\ m \in text[e] \ index[e]
      BY <1>1, <2>2 DEF ReservationInv, TypeOK
    <3>2. PICK a \in offers : a.doc = e /\ a.inserted /\ a.number = m
      BY <3>1 DEF ReservationInv, TextExplained
    <3> QED BY <1>1, <3>1, <3>2
  <2> QED BY <2>1, <2>2 DEF TextExplained
<1> QED BY <1>2, <1>4, <1>5 DEF ReservationInv

LEMMA TickReservationInv ==
  ASSUME ReservationInv, Tick
  PROVE  ReservationInv'
<1> USE ReservationAssumption
<1>1. /\ \A o \in offers : age[o.number] + 1 < Ttl
      /\ age' = [n \in Numbers |-> IF age[n] < Ttl THEN age[n] + 1 ELSE Ttl]
      /\ text' = text /\ index' = index /\ offers' = offers /\ mints' = mints
  BY DEF Tick
<1>2. age' \in [Numbers -> 0..Ttl]
  BY <1>1 DEF ReservationInv, TypeOK
<1>3. TypeOK' /\ NoDuplicateMint' /\ TextExplained'
  BY <1>1, <1>2 DEF ReservationInv, TypeOK, NoDuplicateMint, TextExplained
<1>4. OffersReserved'
  <2> SUFFICES ASSUME NEW o \in offers
               PROVE  o.number \in Live' /\ o.number \notin Indexed(ProjectOf[o.doc])
    BY <1>1 DEF OffersReserved, Indexed
  <2>1. o.number \in Live /\ o.number \notin Indexed(ProjectOf[o.doc])
    BY DEF ReservationInv, OffersReserved
  <2>2. o.number \in Numbers /\ age[o.number] + 1 < Ttl /\ age[o.number] \in 0..Ttl
    BY <1>1, <2>1 DEF Live, ReservationInv, TypeOK
  <2>3. age'[o.number] < Ttl
    BY <1>1, <2>2
  <2> QED BY <2>1, <2>2, <2>3 DEF Live
<1> QED BY <1>3, <1>4 DEF ReservationInv

LEMMA NextReservationInv ==
  ASSUME OneProjectOnly, NothingSaved, ReservationInv, [Next]_vars
  PROVE  ReservationInv'
<1>1. CASE \E d \in Docs : Mint(d)
  BY <1>1, MintReservationInv
<1>2. CASE \E d \in Docs : Parse(d)
  BY <1>2, ParseReservationInv
<1>3. CASE \E o \in offers : Accept(o)
  BY <1>3, AcceptReservationInv
<1>4. CASE \E o \in offers : Abandon(o)
  BY <1>4, AbandonReservationInv
<1>5. CASE \E d \in Docs, n \in Numbers : Erase(d, n)
  BY <1>5, EraseReservationInv
<1>6. CASE Tick
  BY <1>6, TickReservationInv
<1>7. CASE \E d \in Docs : Close(d)
  BY <1>7, CloseReservationInv
<1>8. CASE UNCHANGED vars
  BY <1>8 DEF vars, ReservationInv, TypeOK, NoDuplicateMint, OffersReserved,
              TextExplained, Live, Indexed
<1> QED BY <1>1, <1>2, <1>3, <1>4, <1>5, <1>6, <1>7, <1>8 DEF Next

\* Within one project two completions never hold the same number.
THEOREM MintsAreUnique ==
  ASSUME OneProjectOnly, NothingSaved
  PROVE  Spec => []NoDuplicateMint
<1>1. Init => ReservationInv
  BY InitReservationInv
<1>2. ReservationInv /\ [Next]_vars => ReservationInv'
  BY NextReservationInv
<1>3. ReservationInv => NoDuplicateMint
  BY DEF ReservationInv
<1> QED BY <1>1, <1>2, <1>3, PTL DEF Spec

\* Within one project a number handed out stays reserved until it is observed.
THEOREM OffersStayReserved ==
  ASSUME OneProjectOnly, NothingSaved
  PROVE  Spec => []OffersReserved
<1>1. Init => ReservationInv
  BY InitReservationInv
<1>2. ReservationInv /\ [Next]_vars => ReservationInv'
  BY NextReservationInv
<1>3. ReservationInv => OffersReserved
  BY DEF ReservationInv
<1> QED BY <1>1, <1>2, <1>3, PTL DEF Spec

-------------------------------------------------------------------------------
(***************************************************************************)
(* The MCP server's projects, for any tree of directories, any number of   *)
(* callers and any failures: between two discoveries the owner of a file   *)
(* is the deepest open project above it, and what a refresh answers was    *)
(* found after it was called.                                              *)
(*                                                                         *)
(* The invariant ties the discovery that runs to the call it runs for: the *)
(* refreshes that have begun and not ended are the one that runs and those *)
(* in the chain, each once.                                                *)
(***************************************************************************)

Typed == WorkspaceTypeOK

Waits(c) == calls[c].at \in {"load", "chain"}

\* The loader's attempt is under way while its discovery is.
OneAttempt ==
  /\ attempt = "running" <=> run.at # "idle" /\ run.by = None
  /\ attempt # "ready" => rediscoverChain = <<>> /\ \A c \in Callers : calls[c].at # "chain"

\* A refresh that has begun: it runs, or waits in the chain.
Refreshing(call) == call.kind = "refresh" /\ call.at = "chain"

RunsForItsCall ==
  /\ run.at # "idle" /\ run.by # None => Refreshing(calls[run.by])
  /\ run.at = "idle" => run.by = None
  /\ \A i \in 1..Len(rediscoverChain) :
       Refreshing(calls[rediscoverChain[i]]) /\ rediscoverChain[i] # run.by
  /\ \A i, j \in 1..Len(rediscoverChain) : rediscoverChain[i] = rediscoverChain[j] => i = j

\* Between two steps of apply the projects follow the roots.
Installing ==
  /\ run.at = "open" => currentRoots = run.next /\ run.todo \subseteq run.next \ opened
  /\ run.at # "open" => currentRoots = opened
  /\ \A r \in Roots : subscribed[r] =
       IF r \in opened \/ (run.at = "open" /\ r \in run.next \ run.todo) THEN 1 ELSE 0

\* What a call that waits knows of each root is what was there since it was made.
SinceIsSince == \A c \in Callers : Waits(c) =>
  /\ calls[c].before <= failures
  /\ \A r \in Roots : (r \in present) \in calls[c].since[r]

\* What one scan found, for a call made before it began: all that it passed over
\* was not there.
Scanned(scan, since) ==
  /\ scan.candidate \in 1..Len(Candidates)
  /\ scan.todo \subseteq Candidates[scan.candidate]
  /\ scan.next \subseteq Candidates[scan.candidate]
  /\ \A r \in scan.next : TRUE \in since[r]
  /\ \A r \in Candidates[scan.candidate] \ (scan.todo \cup scan.next) : FALSE \in since[r]
  /\ \A i \in 1..(scan.candidate - 1) : \A r \in Candidates[i] : FALSE \in since[r]

\* What RefreshIsFresh says of an answer.
Found(since, answer) ==
  /\ \A r \in answer : TRUE \in since[r]
  /\ \A i \in 1..Len(Candidates) : \A r \in Candidates[i] \ answer :
       since[r] = {TRUE} =>
         \E j \in 1..(i - 1) : \E q \in Candidates[j] : TRUE \in since[q]

FindsFresh ==
  /\ run.at = "scan" /\ run.by # None => Scanned(run, calls[run.by].since)
  /\ run.at = "open" /\ run.by # None => Found(calls[run.by].since, run.next)
  /\ \A c \in Callers : calls[c].kind = "refresh" /\ calls[c].at = "answered" =>
       Found(calls[c].since, calls[c].answer)

WorkspaceInv ==
  /\ Typed /\ OneAttempt /\ RunsForItsCall /\ Installing /\ SinceIsSince
  /\ ErrorsAreFresh /\ FindsFresh

-------------------------------------------------------------------------------
(***************************************************************************)
(* Records.                                                                *)
(***************************************************************************)
LEMMA CandidatesAreRoots ==
  /\ Len(Candidates) \in Nat \ {0}
  /\ \A i \in 1..Len(Candidates) : Candidates[i] \subseteq Roots
BY McpWorkspaceAssumption

LEMMA NoRunIsRun == NoRun \in Run /\ NoRun.at = "idle" /\ NoRun.by = None /\ NoRun.next = {}
BY CandidatesAreRoots DEF NoRun, Run

LEMMA DiscoverIsRun ==
  ASSUME NEW c \in Callers \cup {None}
  PROVE  /\ Discover(c) \in Run /\ Discover(c).at = "scan" /\ Discover(c).by = c
         /\ Discover(c).candidate = 1 /\ Discover(c).todo = Candidates[1] /\ Discover(c).next = {}
<1>1. Candidates[1] \in SUBSET Roots /\ 1 \in 0..Len(Candidates)
  BY CandidatesAreRoots
<1> QED
  BY <1>1, NoRunIsRun DEF Discover, Run

LEMMA NoCallIsCall ==
  NoCall \in Call /\ NoCall.at = "idle" /\ NoCall.kind = "none" /\ NoCall.before = 0
BY McpWorkspaceAssumption DEF NoCall, Call

LEMMA MadeIsCall ==
  ASSUME Typed, NEW kind \in {"refresh", "read"}
  PROVE  /\ Made(kind) \in Call /\ Made(kind).at = "idle" /\ Made(kind).kind = kind
         /\ Made(kind).before = failures
         /\ \A r \in Roots : (r \in present) \in Made(kind).since[r]
<1> DEFINE since == [r \in Roots |-> {there \in BOOLEAN : there <=> r \in present}]
<1>1. since \in [Roots -> SUBSET BOOLEAN]
  OBVIOUS
<1>2. failures \in 0..MaxFailures
  BY DEF Typed, WorkspaceTypeOK
<1>3. Made(kind) = [NoCall EXCEPT !.kind = kind, !.before = failures, !.since = since]
  BY DEF Made
<1>4. ASSUME NEW r \in Roots PROVE (r \in present) \in since[r]
  <2>1. since[r] = {there \in BOOLEAN : there <=> r \in present}
    OBVIOUS
  <2> HIDE DEF since
  <2>2. CASE r \in present
    <3>1. TRUE \in since[r]
      BY <2>1, <2>2
    <3> QED
      BY <2>2, <3>1
  <2>3. CASE r \notin present
    <3>1. FALSE \in since[r]
      BY <2>1, <2>3
    <3>2. (r \in present) = FALSE
      BY <2>3
    <3> QED
      BY <3>1, <3>2
  <2> QED
    BY <2>2, <2>3
<1> HIDE DEF since
<1> QED
  BY <1>1, <1>2, <1>3, <1>4, NoCallIsCall DEF Call

\* A call that moves on is the same call.
LEMMA CallMoves ==
  ASSUME NEW call \in Call, NEW place \in {"load", "chain", "failed"}
  PROVE  /\ [call EXCEPT !.at = place] \in Call
         /\ [call EXCEPT !.at = place].at = place
         /\ [call EXCEPT !.at = place].kind = call.kind
         /\ [call EXCEPT !.at = place].since = call.since
         /\ [call EXCEPT !.at = place].before = call.before
BY DEF Call

LEMMA CallAnswered ==
  ASSUME NEW call \in Call, NEW answer \in SUBSET Roots
  PROVE  /\ [call EXCEPT !.at = "answered", !.answer = answer] \in Call
         /\ [call EXCEPT !.at = "answered", !.answer = answer].at = "answered"
         /\ [call EXCEPT !.at = "answered", !.answer = answer].answer = answer
         /\ [call EXCEPT !.at = "answered", !.answer = answer].kind = call.kind
         /\ [call EXCEPT !.at = "answered", !.answer = answer].since = call.since
BY DEF Call

\* A scan that has just begun has passed over nothing.
LEMMA DiscoverIsScanned ==
  ASSUME NEW scan, NEW since,
         scan.candidate = 1, scan.todo = Candidates[1], scan.next = {}
  PROVE  Scanned(scan, since)
<1>1. 1 \in 1..Len(Candidates) /\ 1..(1 - 1) = {}
  BY CandidatesAreRoots
<1> QED
  BY <1>1 DEF Scanned

\* What was found stays found while more is learnt of each root.
LEMMA SinceGrows ==
  ASSUME NEW since, NEW later, NEW scan, NEW answer \in SUBSET Roots,
         \A r \in Roots : since[r] \subseteq later[r] /\ since[r] # {},
         scan.next \subseteq Roots
  PROVE  /\ Scanned(scan, since) => Scanned(scan, later)
         /\ Found(since, answer) => Found(later, answer)
<1>1. \A i \in 1..Len(Candidates) : \A r \in Candidates[i] : r \in Roots
  BY CandidatesAreRoots
<1>2. ASSUME Scanned(scan, since) PROVE Scanned(scan, later)
  <2>1. scan.candidate \in 1..Len(Candidates)
    BY <1>2 DEF Scanned
  <2>2. \A i \in 1..(scan.candidate - 1) : i \in 1..Len(Candidates)
    BY <2>1, CandidatesAreRoots
  <2> QED
    BY <1>1, <1>2, <2>1, <2>2 DEF Scanned
<1>3. ASSUME Found(since, answer) PROVE Found(later, answer)
  <2>1. \A r \in answer : TRUE \in later[r]
    BY <1>3 DEF Found
  <2>2. ASSUME NEW i \in 1..Len(Candidates), NEW r \in Candidates[i] \ answer, later[r] = {TRUE}
        PROVE  \E j \in 1..(i - 1) : \E q \in Candidates[j] : TRUE \in later[q]
    <3>1. since[r] = {TRUE}
      BY <1>1, <2>2
    <3>2. PICK j \in 1..(i - 1) : \E q \in Candidates[j] : TRUE \in since[q]
      BY <1>3, <3>1 DEF Found
    <3>3. j \in 1..Len(Candidates)
      BY CandidatesAreRoots
    <3> QED
      BY <1>1, <3>2, <3>3
  <2> QED
    BY <2>1, <2>2 DEF Found
<1> QED
  BY <1>2, <1>3

\* What was found is as good an answer later, when the scan is over.
LEMMA ScannedIsFound ==
  ASSUME NEW scan, NEW since \in [Roots -> SUBSET BOOLEAN], Scanned(scan, since), scan.todo = {},
         scan.next # {} \/ scan.candidate = Len(Candidates)
  PROVE  Found(since, scan.next)
<1>1. \A r \in scan.next : TRUE \in since[r]
  BY DEF Scanned
<1>2. ASSUME NEW i \in 1..Len(Candidates), NEW r \in Candidates[i] \ scan.next, since[r] = {TRUE}
      PROVE  \E j \in 1..(i - 1) : \E q \in Candidates[j] : TRUE \in since[q]
  <2>1. FALSE \notin since[r]
    BY <1>2
  <2>2. scan.candidate \in 1..Len(Candidates) /\ ~(i \in 1..(scan.candidate - 1)) /\ i # scan.candidate
    BY <1>2, <2>1 DEF Scanned
  <2>3. scan.candidate \in 1..(i - 1)
    BY <2>2, CandidatesAreRoots
  <2>4. PICK q \in scan.next : TRUE
    BY <2>2, <2>3, CandidatesAreRoots
  <2>5. q \in Candidates[scan.candidate] /\ TRUE \in since[q]
    BY <2>4 DEF Scanned
  <2> QED
    BY <2>3, <2>5
<1> QED
  BY <1>1, <1>2 DEF Found

-------------------------------------------------------------------------------
(***************************************************************************)
(* The calls stay as they are: a discovery goes on.                        *)
(***************************************************************************)
LEMMA ScanKeeps == ASSUME WorkspaceInv, NEW r \in Roots, Scan(r) PROVE WorkspaceInv'
<1> DEFINE to == [run EXCEPT !.todo = @ \ {r}, !.next = @ \cup ({r} \cap present)]
<1>1. /\ run.at = "scan" /\ r \in run.todo /\ run' = to
      /\ UNCHANGED <<present, changes, called, failures, attempt, rediscoverChain,
                     currentRoots, opened, subscribed, calls>>
  BY DEF Scan, workspaceCounters, installed
<1>2. run \in Run
  BY DEF WorkspaceInv, Typed, WorkspaceTypeOK
<1>3. /\ to \in Run /\ to.at = "scan" /\ to.by = run.by /\ to.candidate = run.candidate
      /\ to.todo = run.todo \ {r} /\ to.next = run.next \cup ({r} \cap present)
  BY <1>1, <1>2 DEF Run
<1> HIDE DEF to
<1>4. Typed' /\ OneAttempt' /\ RunsForItsCall' /\ SinceIsSince' /\ ErrorsAreFresh'
  BY <1>1, <1>3 DEF WorkspaceInv, Typed, WorkspaceTypeOK, OneAttempt, RunsForItsCall, Refreshing,
                    SinceIsSince, Waits, ErrorsAreFresh
<1>5. Installing'
  BY <1>1, <1>3 DEF WorkspaceInv, Installing
<1>6. ASSUME run.by # None PROVE Scanned(to, calls[run.by].since)
  <2> DEFINE since == calls[run.by].since
  <2>1. Scanned(run, since)
    BY <1>1, <1>6 DEF WorkspaceInv, FindsFresh
  <2>2. run.by \in Callers /\ calls[run.by].at = "chain"
    BY <1>1, <1>2, <1>6 DEF WorkspaceInv, RunsForItsCall, Refreshing, Run
  <2>3. (r \in present) \in since[r]
    BY <2>2 DEF WorkspaceInv, SinceIsSince, Waits
  <2> HIDE DEF since
  <2>4. r \in present => TRUE \in since[r]
    BY <2>3
  <2>5. r \notin present => FALSE \in since[r]
    <3>1. CASE r \notin present
      <4>1. (r \in present) = FALSE
        BY <3>1
      <4> QED
        BY <2>3, <4>1
    <3> QED
      BY <3>1
  <2>6. r \in Candidates[run.candidate]
    BY <1>1, <2>1 DEF Scanned
  <2>7. \A q \in to.next : TRUE \in since[q]
    BY <1>3, <2>1, <2>4 DEF Scanned
  <2>8. \A q \in Candidates[to.candidate] \ (to.todo \cup to.next) : FALSE \in since[q]
    BY <1>3, <2>1, <2>5 DEF Scanned
  <2> QED
    BY <1>3, <2>1, <2>6, <2>7, <2>8 DEF Scanned, since
<1>7. FindsFresh'
  BY <1>1, <1>3, <1>6 DEF WorkspaceInv, FindsFresh
<1> QED
  BY <1>4, <1>5, <1>7 DEF WorkspaceInv

LEMMA NextCandidateKeeps == ASSUME WorkspaceInv, NextCandidate PROVE WorkspaceInv'
<1> DEFINE to == [run EXCEPT !.candidate = @ + 1, !.todo = Candidates[run.candidate + 1]]
<1>1. /\ run.at = "scan" /\ run.todo = {} /\ run.next = {} /\ run.candidate < Len(Candidates)
      /\ run' = to
      /\ UNCHANGED <<present, changes, called, failures, attempt, rediscoverChain,
                     currentRoots, opened, subscribed, calls>>
  BY DEF NextCandidate, workspaceCounters, installed
<1>2. run \in Run
  BY DEF WorkspaceInv, Typed, WorkspaceTypeOK
<1>3. run.candidate \in Nat /\ run.candidate + 1 \in 1..Len(Candidates)
  BY <1>1, <1>2, CandidatesAreRoots DEF Run
<1>4. Candidates[run.candidate + 1] \in SUBSET Roots /\ run.candidate + 1 \in 0..Len(Candidates)
  BY <1>3, CandidatesAreRoots
<1>5. /\ to \in Run /\ to.at = "scan" /\ to.by = run.by /\ to.candidate = run.candidate + 1
      /\ to.todo = Candidates[run.candidate + 1] /\ to.next = {}
  <2>1. ASSUME NEW i \in 0..Len(Candidates), NEW todo \in SUBSET Roots
        PROVE  LET q == [run EXCEPT !.candidate = i, !.todo = todo] IN
                 /\ q \in Run /\ q.at = run.at /\ q.by = run.by /\ q.candidate = i
                 /\ q.todo = todo /\ q.next = run.next
    BY <1>2 DEF Run
  <2> QED
    BY <1>1, <1>4, <2>1
<1> HIDE DEF to
<1>6. Typed' /\ OneAttempt' /\ RunsForItsCall' /\ SinceIsSince' /\ ErrorsAreFresh' /\ Installing'
  BY <1>1, <1>5 DEF WorkspaceInv, Typed, WorkspaceTypeOK, OneAttempt, RunsForItsCall, Refreshing,
                    SinceIsSince, Waits, ErrorsAreFresh, Installing
<1>7. ASSUME run.by # None PROVE Scanned(to, calls[run.by].since)
  <2>1. Scanned(run, calls[run.by].since)
    BY <1>1, <1>7 DEF WorkspaceInv, FindsFresh
  <2>2. \A i \in 1..(to.candidate - 1) : i = run.candidate \/ i \in 1..(run.candidate - 1)
    BY <1>3, <1>5
  <2> QED
    BY <1>1, <1>3, <1>5, <2>1, <2>2 DEF Scanned
<1>8. FindsFresh'
  BY <1>1, <1>5, <1>7 DEF WorkspaceInv, FindsFresh
<1> QED
  BY <1>6, <1>8 DEF WorkspaceInv

\* The roots are installed; what was found does not change any more.
LEMMA ApplyKeeps == ASSUME WorkspaceInv, Apply PROVE WorkspaceInv'
<1> DEFINE to == [run EXCEPT !.at = "open", !.todo = run.next \ opened]
<1>1. /\ run.at = "scan" /\ run.todo = {} /\ (run.next # {} \/ run.candidate = Len(Candidates))
      /\ run' = to /\ currentRoots' = run.next
      /\ UNCHANGED <<present, changes, called, failures, attempt, rediscoverChain,
                     opened, subscribed, calls>>
  BY DEF Apply, workspaceCounters
<1>2. run \in Run
  BY DEF WorkspaceInv, Typed, WorkspaceTypeOK
<1>3. /\ to \in Run /\ to.at = "open" /\ to.by = run.by
      /\ to.todo = run.next \ opened /\ to.next = run.next
  BY <1>1, <1>2 DEF Run
<1> HIDE DEF to
<1>4. Typed'
  BY <1>1, <1>2, <1>3 DEF WorkspaceInv, Typed, WorkspaceTypeOK, Run
<1>5. OneAttempt' /\ RunsForItsCall' /\ SinceIsSince' /\ ErrorsAreFresh'
  BY <1>1, <1>3 DEF WorkspaceInv, OneAttempt, RunsForItsCall, Refreshing,
                    SinceIsSince, Waits, ErrorsAreFresh
<1>6. Installing'
  BY <1>1, <1>3 DEF WorkspaceInv, Installing
<1>7. ASSUME run.by # None PROVE Found(calls[run.by].since, run.next)
  <2>1. Scanned(run, calls[run.by].since)
    BY <1>1, <1>7 DEF WorkspaceInv, FindsFresh
  <2>2. calls[run.by].since \in [Roots -> SUBSET BOOLEAN]
    BY <1>2, <1>7 DEF WorkspaceInv, Typed, WorkspaceTypeOK, Run, Call
  <2> QED
    BY <1>1, <2>1, <2>2, ScannedIsFound
<1>8. FindsFresh'
  BY <1>1, <1>3, <1>7 DEF WorkspaceInv, FindsFresh
<1> QED
  BY <1>4, <1>5, <1>6, <1>8 DEF WorkspaceInv

LEMMA OpenProjectKeeps == ASSUME WorkspaceInv, NEW r \in Roots, OpenProject(r) PROVE WorkspaceInv'
<1> DEFINE to == [run EXCEPT !.todo = @ \ {r}]
<1>1. /\ run.at = "open" /\ r \in run.todo /\ run' = to
      /\ subscribed' = [subscribed EXCEPT ![r] = @ + 1]
      /\ UNCHANGED <<present, changes, called, failures, attempt, rediscoverChain,
                     currentRoots, opened, calls>>
  BY DEF OpenProject, workspaceCounters
<1>2. run \in Run /\ subscribed \in [Roots -> Nat]
  BY DEF WorkspaceInv, Typed, WorkspaceTypeOK
<1>3. /\ to \in Run /\ to.at = "open" /\ to.by = run.by
      /\ to.todo = run.todo \ {r} /\ to.next = run.next
  BY <1>1, <1>2 DEF Run
<1> HIDE DEF to
<1>4. Typed' /\ OneAttempt' /\ RunsForItsCall' /\ SinceIsSince' /\ ErrorsAreFresh'
  BY <1>1, <1>2, <1>3 DEF WorkspaceInv, Typed, WorkspaceTypeOK, OneAttempt, RunsForItsCall, Refreshing,
                          SinceIsSince, Waits, ErrorsAreFresh
<1>5. r \in run.next \ opened /\ subscribed[r] = 0
  BY <1>1 DEF WorkspaceInv, Installing
<1>6. subscribed'[r] = 1 /\ \A q \in Roots \ {r} : subscribed'[q] = subscribed[q]
  BY <1>1, <1>2, <1>5
<1>7. Installing'
  BY <1>1, <1>3, <1>5, <1>6 DEF WorkspaceInv, Installing
<1>8. FindsFresh'
  BY <1>1, <1>3 DEF WorkspaceInv, FindsFresh
<1> QED
  BY <1>4, <1>7, <1>8 DEF WorkspaceInv

-------------------------------------------------------------------------------
(***************************************************************************)
(* A discovery ends, and the next one in the chain begins.                 *)
(***************************************************************************)
LEMMA NextBegins ==
  ASSUME WorkspaceInv, NextInChain
  PROVE  /\ run' \in Run /\ rediscoverChain' \in Seq(Callers)
         /\ \/ run'.at = "idle" /\ run'.by = None /\ rediscoverChain = <<>>
            \/ /\ rediscoverChain # <<>>
               /\ run' = Discover(rediscoverChain[1]) /\ rediscoverChain[1] \in Callers
         /\ \A i \in 1..Len(rediscoverChain') :
              i + 1 \in 2..Len(rediscoverChain) /\ rediscoverChain'[i] = rediscoverChain[i + 1]
<1>1. rediscoverChain \in Seq(Callers)
  BY DEF WorkspaceInv, Typed, WorkspaceTypeOK
<1>2. CASE rediscoverChain = <<>>
  BY <1>1, <1>2, NoRunIsRun DEF NextInChain
<1>3. CASE rediscoverChain # <<>>
  <2>1. Head(rediscoverChain) = rediscoverChain[1] /\ rediscoverChain[1] \in Callers
    BY <1>1, <1>3
  <2>2. run' = Discover(rediscoverChain[1]) /\ rediscoverChain' = Tail(rediscoverChain)
    BY <1>3, <2>1 DEF NextInChain
  <2> QED
    BY <1>1, <1>3, <2>1, <2>2, DiscoverIsRun
<1> QED
  BY <1>2, <1>3

\* The calls in the chain are as they were: what the invariant says of the next run.
LEMMA NextRunKeeps ==
  ASSUME WorkspaceInv, NextInChain,
         \A i \in 1..Len(rediscoverChain) :
           calls'[rediscoverChain[i]] = calls[rediscoverChain[i]]
  PROVE  /\ RunsForItsCall'
         /\ run'.at # "open"
         /\ run'.at = "scan" => run'.by # None /\ Scanned(run', calls'[run'.by].since)
<1>1. /\ run' \in Run /\ rediscoverChain' \in Seq(Callers)
      /\ \/ run'.at = "idle" /\ run'.by = None /\ rediscoverChain = <<>>
         \/ /\ rediscoverChain # <<>>
            /\ run' = Discover(rediscoverChain[1]) /\ rediscoverChain[1] \in Callers
      /\ \A i \in 1..Len(rediscoverChain') :
           i + 1 \in 2..Len(rediscoverChain) /\ rediscoverChain'[i] = rediscoverChain[i + 1]
  BY NextBegins
<1>2. rediscoverChain \in Seq(Callers)
  BY DEF WorkspaceInv, Typed, WorkspaceTypeOK
<1>3. \A i \in 1..Len(rediscoverChain) : Refreshing(calls'[rediscoverChain[i]])
  BY DEF WorkspaceInv, RunsForItsCall
<1>4. \A i, j \in 1..Len(rediscoverChain') : rediscoverChain'[i] = rediscoverChain'[j] => i = j
  <2> TAKE i, j \in 1..Len(rediscoverChain')
  <2>1. /\ i + 1 \in 1..Len(rediscoverChain) /\ j + 1 \in 1..Len(rediscoverChain)
        /\ rediscoverChain'[i] = rediscoverChain[i + 1] /\ rediscoverChain'[j] = rediscoverChain[j + 1]
    BY <1>1, <1>2
  <2>2. rediscoverChain'[i] = rediscoverChain'[j] => i + 1 = j + 1
    BY <2>1 DEF WorkspaceInv, RunsForItsCall
  <2> QED
    BY <2>2
<1>5. CASE rediscoverChain = <<>>
  <2>1. Len(rediscoverChain') = 0
    BY <1>1, <1>5
  <2> QED
    BY <1>1, <1>5, <2>1 DEF RunsForItsCall
<1>6. CASE rediscoverChain # <<>>
  <2> DEFINE first == rediscoverChain[1]
  <2>1. /\ run'.at = "scan" /\ run'.by = first /\ first \in Callers /\ run'.candidate = 1
        /\ run'.todo = Candidates[1] /\ run'.next = {}
    BY <1>1, <1>6, DiscoverIsRun
  <2>2. 1 \in 1..Len(rediscoverChain)
    BY <1>2, <1>6
  <2>3. Refreshing(calls'[first])
    BY <1>3, <2>2
  <2>4. \A i \in 1..Len(rediscoverChain') : rediscoverChain'[i] # first
    <3> TAKE i \in 1..Len(rediscoverChain')
    <3>1. i + 1 \in 1..Len(rediscoverChain) /\ i + 1 # 1 /\ rediscoverChain'[i] = rediscoverChain[i + 1]
      BY <1>1, <1>2
    <3> QED
      BY <2>2, <3>1 DEF WorkspaceInv, RunsForItsCall
  <2>5. first # None
    BY <2>1, McpWorkspaceAssumption
  <2>6. \A i \in 1..Len(rediscoverChain') : Refreshing(calls'[rediscoverChain'[i]])
    <3> TAKE i \in 1..Len(rediscoverChain')
    <3>1. i + 1 \in 1..Len(rediscoverChain) /\ rediscoverChain'[i] = rediscoverChain[i + 1]
      BY <1>1, <1>2
    <3> QED
      BY <1>3, <3>1
  <2>7. RunsForItsCall'
    <3> HIDE DEF first
    <3> QED
      BY <1>4, <2>1, <2>3, <2>4, <2>5, <2>6 DEF RunsForItsCall
  <2>8. Scanned(run', calls'[run'.by].since)
    BY <2>1, DiscoverIsScanned
  <2> QED
    BY <2>1, <2>5, <2>7, <2>8
<1> QED
  BY <1>5, <1>6

\* The projects that are gone are dropped; the refresh is answered.
LEMMA InstallKeeps == ASSUME WorkspaceInv, Install PROVE WorkspaceInv'
<1>1. /\ run.at = "open" /\ run.todo = {} /\ opened' = run.next /\ attempt' = "ready"
      /\ UNCHANGED <<present, changes, called, failures, currentRoots>> /\ NextInChain
  BY DEF Install, workspaceCounters
<1>2. /\ run \in Run /\ calls \in [Callers -> Call] /\ run.next \subseteq Roots
      /\ subscribed \in [Roots -> Nat] /\ rediscoverChain \in Seq(Callers)
  BY DEF WorkspaceInv, Typed, WorkspaceTypeOK, Run
<1>3. /\ calls' \in [Callers -> Call]
      /\ \A c \in Callers : c # run.by => calls'[c] = calls[c]
      /\ run.by # None =>
           /\ calls'[run.by].at = "answered" /\ calls'[run.by].answer = run.next
           /\ calls'[run.by].since = calls[run.by].since
  <2>1. CASE run.by = None
    BY <1>2, <2>1 DEF Install
  <2>2. CASE run.by # None
    <3> DEFINE c == run.by
               to == [calls[c] EXCEPT !.at = "answered", !.answer = run.next]
    <3>1. c \in Callers /\ calls[c] \in Call
      BY <1>2, <2>2 DEF Run
    <3>2. /\ to \in Call /\ to.at = "answered" /\ to.answer = run.next
          /\ to.since = calls[c].since
      BY <1>2, <3>1, CallAnswered
    <3>3. calls' = [calls EXCEPT ![c] = to]
      BY <1>2, <2>2, <3>1 DEF Install
    <3> HIDE DEF to
    <3> QED
      BY <1>2, <3>1, <3>2, <3>3
  <2> QED
    BY <2>1, <2>2
<1>4. \A i \in 1..Len(rediscoverChain) : rediscoverChain[i] \in Callers /\ rediscoverChain[i] # run.by
  BY <1>2 DEF WorkspaceInv, RunsForItsCall
<1>5. /\ RunsForItsCall' /\ run'.at # "open"
      /\ run'.at = "scan" => run'.by # None /\ Scanned(run', calls'[run'.by].since)
  BY <1>1, <1>3, <1>4, NextRunKeeps
<1>6. run' \in Run /\ rediscoverChain' \in Seq(Callers)
  BY <1>1, NextBegins
<1>7. subscribed' \in [Roots -> Nat] /\ \A r \in Roots : subscribed'[r] = IF r \in run.next THEN 1 ELSE 0
  <2>1. \A r \in Roots : subscribed[r] = IF r \in opened \cup run.next THEN 1 ELSE 0
    BY <1>1 DEF WorkspaceInv, Installing
  <2>2. subscribed' = [r \in Roots |-> IF r \in opened \ run.next THEN subscribed[r] - 1 ELSE subscribed[r]]
    BY DEF Install
  <2> QED
    BY <2>1, <2>2
<1>8. Typed'
  BY <1>1, <1>2, <1>3, <1>6, <1>7 DEF WorkspaceInv, Typed, WorkspaceTypeOK
<1>9. OneAttempt'
  <2>1. run'.at \in {"idle", "scan"}
    BY <1>5, <1>6 DEF Run
  <2> QED
    BY <1>1, <1>5, <2>1 DEF OneAttempt
<1>10. Installing'
  BY <1>1, <1>5, <1>7 DEF WorkspaceInv, Installing
<1>11. SinceIsSince' /\ ErrorsAreFresh'
  <2>1. \A c \in Callers : calls'[c].at \in {"load", "chain", "failed"} => calls'[c] = calls[c]
    BY <1>3, McpWorkspaceAssumption
  <2> QED
    BY <1>1, <2>1 DEF WorkspaceInv, SinceIsSince, Waits, ErrorsAreFresh
<1>12. FindsFresh'
  <2>1. run.by # None => Found(calls[run.by].since, run.next)
    BY <1>1 DEF WorkspaceInv, FindsFresh
  <2>2. \A c \in Callers : calls'[c].kind = "refresh" /\ calls'[c].at = "answered" =>
          Found(calls'[c].since, calls'[c].answer)
    BY <1>3, <2>1, McpWorkspaceAssumption DEF WorkspaceInv, FindsFresh
  <2> QED
    BY <1>5, <2>2 DEF FindsFresh
<1> QED
  BY <1>5, <1>8, <1>9, <1>10, <1>11, <1>12 DEF WorkspaceInv

\* The calls that waited for this discovery get its error.
LEMMA FailDiscoveryKeeps == ASSUME WorkspaceInv, FailDiscovery PROVE WorkspaceInv'
<1>1. /\ run.at = "scan" /\ failures < MaxFailures /\ failures' = failures + 1
      /\ attempt' = IF run.by = None THEN "none" ELSE attempt
      /\ UNCHANGED <<present, changes, called, currentRoots, opened, subscribed>> /\ NextInChain
  BY DEF FailDiscovery, installed
<1>2. /\ run \in Run /\ calls \in [Callers -> Call] /\ rediscoverChain \in Seq(Callers)
      /\ failures \in 0..MaxFailures /\ MaxFailures \in Nat
  BY McpWorkspaceAssumption DEF WorkspaceInv, Typed, WorkspaceTypeOK
<1> DEFINE fails(c) == run.by \in {None, c} /\ calls[c].at \in {"load", "chain"}
<1>3. \A c \in Callers :
        /\ calls'[c] \in Call
        /\ ~fails(c) => calls'[c] = calls[c]
        /\ fails(c) => calls'[c].at = "failed" /\ calls'[c].before = calls[c].before
  <2> TAKE c \in Callers
  <2>1. calls'[c] = IF fails(c) THEN [calls[c] EXCEPT !.at = "failed"] ELSE calls[c]
    BY DEF FailDiscovery
  <2>2. [calls[c] EXCEPT !.at = "failed"] \in Call
        /\ [calls[c] EXCEPT !.at = "failed"].at = "failed"
        /\ [calls[c] EXCEPT !.at = "failed"].before = calls[c].before
    BY <1>2, CallMoves
  <2> HIDE DEF fails
  <2> QED
    BY <1>2, <2>1, <2>2
<1>4. calls' \in [Callers -> Call]
  BY <1>3 DEF FailDiscovery
<1>5. run.by = None => rediscoverChain = <<>> /\ \A c \in Callers : calls[c].at # "chain"
  BY <1>1 DEF WorkspaceInv, OneAttempt
<1>6. \A i \in 1..Len(rediscoverChain) : calls'[rediscoverChain[i]] = calls[rediscoverChain[i]]
  <2> TAKE i \in 1..Len(rediscoverChain)
  <2>1. rediscoverChain[i] \in Callers /\ rediscoverChain[i] # run.by
    BY <1>2 DEF WorkspaceInv, RunsForItsCall
  <2>2. run.by # None
    BY <1>2, <1>5
  <2> QED
    BY <1>3, <2>1, <2>2
<1>7. /\ RunsForItsCall' /\ run'.at # "open"
      /\ run'.at = "scan" => run'.by # None /\ Scanned(run', calls'[run'.by].since)
  BY <1>1, <1>6, NextRunKeeps
<1>8. run' \in Run /\ rediscoverChain' \in Seq(Callers)
  BY <1>1, NextBegins
<1>9. Typed'
  BY <1>1, <1>2, <1>4, <1>8 DEF WorkspaceInv, Typed, WorkspaceTypeOK
<1>10. OneAttempt'
  <2>1. CASE run.by = None
    <3>1. attempt' = "none" /\ run'.at = "idle" /\ rediscoverChain' = <<>>
      BY <1>1, <1>5, <2>1, NoRunIsRun DEF NextInChain
    <3>2. \A c \in Callers : calls'[c].at # "chain"
      BY <1>3, <1>5, <2>1
    <3> QED
      BY <3>1, <3>2 DEF OneAttempt
  <2>2. CASE run.by # None
    <3>1. attempt' = attempt /\ calls[run.by].at = "chain" /\ run.by \in Callers
      BY <1>1, <1>2, <2>2 DEF WorkspaceInv, RunsForItsCall, Refreshing, Run
    <3>2. attempt = "ready"
      BY <3>1 DEF WorkspaceInv, OneAttempt
    <3>3. ~(run'.at # "idle" /\ run'.by = None)
      BY <1>7, <1>8 DEF Run
    <3> QED
      BY <3>1, <3>2, <3>3 DEF OneAttempt
  <2> QED
    BY <2>1, <2>2
<1>11. Installing'
  BY <1>1, <1>7 DEF WorkspaceInv, Installing
<1>12. SinceIsSince'
  <2>1. ASSUME NEW c \in Callers, Waits(c)'
        PROVE  calls'[c].before <= failures' /\ \A r \in Roots : (r \in present') \in calls'[c].since[r]
    <3>1. calls'[c] = calls[c] /\ Waits(c)
      BY <1>3, <2>1 DEF Waits
    <3>2. calls[c].before <= failures /\ calls[c].before \in Nat
      BY <1>2, <3>1 DEF WorkspaceInv, SinceIsSince, Call
    <3> QED
      BY <1>1, <1>2, <3>1, <3>2 DEF WorkspaceInv, SinceIsSince
  <2> QED
    BY <2>1 DEF SinceIsSince
<1>13. ErrorsAreFresh'
  <2>1. ASSUME NEW c \in Callers, calls'[c].at = "failed" PROVE failures' > calls'[c].before
    <3>1. calls[c].before \in Nat /\ failures \in Nat
      BY <1>2 DEF Call
    <3>2. CASE fails(c)
      BY <1>1, <1>3, <3>1, <3>2 DEF WorkspaceInv, SinceIsSince, Waits
    <3>3. CASE ~fails(c)
      <4>1. calls'[c] = calls[c] /\ failures > calls[c].before
        BY <1>3, <2>1, <3>3 DEF WorkspaceInv, ErrorsAreFresh
      <4> QED
        BY <1>1, <3>1, <4>1
    <3> QED
      BY <3>2, <3>3
  <2> QED
    BY <2>1 DEF ErrorsAreFresh
<1>14. FindsFresh'
  <2>1. \A c \in Callers : calls'[c].at = "answered" => calls'[c] = calls[c]
    BY <1>3
  <2> QED
    BY <1>7, <2>1 DEF WorkspaceInv, FindsFresh
<1> QED
  BY <1>7, <1>9, <1>10, <1>11, <1>12, <1>13, <1>14 DEF WorkspaceInv

-------------------------------------------------------------------------------
(***************************************************************************)
(* The calls.                                                              *)
(***************************************************************************)
\* A call that no discovery runs for becomes another.
LEMMA CallKeeps ==
  ASSUME WorkspaceInv, NEW c \in Callers, NEW call \in Call, calls[c].at # "chain",
         calls' = [calls EXCEPT ![c] = call],
         call.at \in {"load", "chain"} =>
           /\ call.before <= failures
           /\ \A r \in Roots : (r \in present) \in call.since[r],
         call.at # "failed", call.at = "answered" => call.kind # "refresh",
         UNCHANGED <<present, failures, installed>>,
         \/ UNCHANGED run
         \/ run.at = "idle" /\ \E by \in {None, c} : run' = Discover(by)
  PROVE  /\ Installing' /\ SinceIsSince' /\ ErrorsAreFresh' /\ FindsFresh'
         /\ calls' \in [Callers -> Call] /\ calls'[c] = call /\ run' \in Run
         /\ \A k \in Callers \ {c} : calls'[k] = calls[k]
<1>1. /\ calls \in [Callers -> Call] /\ run \in Run
      /\ UNCHANGED <<present, failures, currentRoots, opened, subscribed>>
  BY DEF WorkspaceInv, Typed, WorkspaceTypeOK, installed
<1>2. /\ calls' \in [Callers -> Call] /\ calls'[c] = call
      /\ \A k \in Callers \ {c} : calls'[k] = calls[k]
  BY <1>1
<1>3. SinceIsSince' /\ ErrorsAreFresh'
  BY <1>1, <1>2 DEF WorkspaceInv, SinceIsSince, Waits, ErrorsAreFresh
<1>4. \A k \in Callers : calls'[k].kind = "refresh" /\ calls'[k].at = "answered" =>
        Found(calls'[k].since, calls'[k].answer)
  BY <1>2 DEF WorkspaceInv, FindsFresh
<1>5. CASE UNCHANGED run
  <2>1. run.at # "idle" /\ run.by # None => run.by \in Callers \ {c}
    BY <1>1 DEF WorkspaceInv, RunsForItsCall, Refreshing, Run
  <2>2. Installing'
    BY <1>1, <1>5 DEF WorkspaceInv, Installing
  <2>3. FindsFresh'
    BY <1>2, <1>4, <1>5, <2>1 DEF WorkspaceInv, FindsFresh
  <2> QED
    BY <1>1, <1>2, <1>3, <1>5, <2>2, <2>3
<1>6. ASSUME run.at = "idle", NEW by \in {None, c}, run' = Discover(by)
      PROVE  Installing' /\ FindsFresh' /\ run' \in Run
  <2>1. /\ run' \in Run /\ run'.at = "scan" /\ run'.by = by
        /\ run'.candidate = 1 /\ run'.todo = Candidates[1] /\ run'.next = {}
    BY <1>6, DiscoverIsRun
  <2>2. Installing'
    BY <1>1, <1>6, <2>1 DEF WorkspaceInv, Installing
  <2>3. Scanned(run', calls'[run'.by].since)
    BY <2>1, DiscoverIsScanned
  <2> QED
    BY <1>4, <2>1, <2>2, <2>3 DEF FindsFresh
<1> QED
  BY <1>2, <1>3, <1>5, <1>6

\* A handler that has its workspace goes on.
LEMMA EnterKeeps ==
  ASSUME WorkspaceInv, NEW c \in Callers, NEW call \in Call, attempt = "ready", attempt' = attempt,
         calls[c].at # "chain", Enter(c, call), call.before <= failures,
         \A r \in Roots : (r \in present) \in call.since[r],
         UNCHANGED <<present, changes, failures, installed>>, called' \in 0..MaxCalls
  PROVE  WorkspaceInv'
<1>1. /\ calls \in [Callers -> Call] /\ run \in Run /\ rediscoverChain \in Seq(Callers)
      /\ UNCHANGED <<present, failures, currentRoots, opened, subscribed>>
      /\ opened \subseteq Roots /\ c # None
  BY McpWorkspaceAssumption DEF WorkspaceInv, Typed, WorkspaceTypeOK, installed
<1>2. \A i \in 1..Len(rediscoverChain) :
        /\ rediscoverChain[i] \in Callers \ {c} /\ Refreshing(calls[rediscoverChain[i]])
        /\ rediscoverChain[i] # run.by
  BY <1>1 DEF WorkspaceInv, RunsForItsCall, Refreshing
<1>3. run.at # "idle" => run.by \in Callers \ {c}
  BY <1>1 DEF WorkspaceInv, OneAttempt, RunsForItsCall, Refreshing, Run
<1>4. CASE call.kind # "refresh"
  <2> DEFINE to == [call EXCEPT !.at = "answered", !.answer = opened]
  <2>1. to \in Call /\ to.at = "answered" /\ to.kind = call.kind
    BY <1>1, CallAnswered
  <2>2. calls' = [calls EXCEPT ![c] = to] /\ UNCHANGED <<run, rediscoverChain>>
    BY <1>4 DEF Enter
  <2> HIDE DEF to
  <2>3. /\ Installing' /\ SinceIsSince' /\ ErrorsAreFresh' /\ FindsFresh'
        /\ calls' \in [Callers -> Call] /\ calls'[c] = to
        /\ \A k \in Callers \ {c} : calls'[k] = calls[k]
    BY <1>4, <2>1, <2>2, CallKeeps
  <2>4. RunsForItsCall'
    BY <1>2, <1>3, <2>2, <2>3 DEF WorkspaceInv, RunsForItsCall
  <2>5. OneAttempt'
    BY <2>2 DEF WorkspaceInv, OneAttempt
  <2>6. Typed'
    BY <2>2, <2>3 DEF WorkspaceInv, Typed, WorkspaceTypeOK, installed
  <2> QED
    BY <2>3, <2>4, <2>5, <2>6 DEF WorkspaceInv
<1>5. CASE call.kind = "refresh"
  <2> DEFINE to == [call EXCEPT !.at = "chain"]
  <2>1. /\ to \in Call /\ to.at = "chain" /\ to.kind = "refresh"
        /\ to.since = call.since /\ to.before = call.before
    BY <1>5, CallMoves
  <2>2. calls' = [calls EXCEPT ![c] = to]
    BY <1>5 DEF Enter
  <2>3. /\ run.at = "idle" => run' = Discover(c) /\ rediscoverChain' = rediscoverChain
        /\ run.at # "idle" => run' = run /\ rediscoverChain' = Append(rediscoverChain, c)
    BY <1>5 DEF Enter
  <2> HIDE DEF to
  <2>4. /\ Installing' /\ SinceIsSince' /\ ErrorsAreFresh' /\ FindsFresh'
        /\ calls' \in [Callers -> Call] /\ calls'[c] = to /\ run' \in Run
        /\ \A k \in Callers \ {c} : calls'[k] = calls[k]
    BY <2>1, <2>2, <2>3, CallKeeps
  <2>5. Refreshing(calls'[c])
    BY <2>1, <2>4 DEF Refreshing
  <2>6. RunsForItsCall' /\ OneAttempt' /\ rediscoverChain' \in Seq(Callers)
    <3>1. CASE run.at = "idle"
      <4>1. run'.at = "scan" /\ run'.by = c /\ rediscoverChain' = rediscoverChain
        BY <2>3, <3>1, DiscoverIsRun
      <4>2. RunsForItsCall'
        BY <1>1, <1>2, <2>4, <2>5, <4>1 DEF WorkspaceInv, RunsForItsCall
      <4>3. OneAttempt'
        BY <1>1, <4>1 DEF OneAttempt
      <4> QED
        BY <1>1, <4>1, <4>2, <4>3
    <3>2. CASE run.at # "idle"
      <4>1. run' = run /\ rediscoverChain' = Append(rediscoverChain, c)
        BY <2>3, <3>2
      <4>2. /\ rediscoverChain' \in Seq(Callers) /\ Len(rediscoverChain') = Len(rediscoverChain) + 1
            /\ \A i \in 1..Len(rediscoverChain) : rediscoverChain'[i] = rediscoverChain[i]
            /\ rediscoverChain'[Len(rediscoverChain) + 1] = c
            /\ \A i \in 1..Len(rediscoverChain') :
                 i \in 1..Len(rediscoverChain) \/ i = Len(rediscoverChain) + 1
        BY <1>1, <4>1
      <4>3. \A i \in 1..Len(rediscoverChain') :
              Refreshing(calls'[rediscoverChain'[i]]) /\ rediscoverChain'[i] # run'.by
        <5> TAKE i \in 1..Len(rediscoverChain')
        <5>1. CASE i \in 1..Len(rediscoverChain)
          BY <1>2, <2>4, <4>1, <4>2, <5>1
        <5>2. CASE i = Len(rediscoverChain) + 1
          BY <1>3, <2>5, <3>2, <4>1, <4>2, <5>2
        <5> QED
          BY <4>2, <5>1, <5>2
      <4>4. \A i, j \in 1..Len(rediscoverChain') : rediscoverChain'[i] = rediscoverChain'[j] => i = j
        BY <1>2, <4>2 DEF WorkspaceInv, RunsForItsCall
      <4>5. Refreshing(calls'[run'.by]) /\ run'.at # "idle"
        BY <1>3, <2>4, <3>2, <4>1, McpWorkspaceAssumption DEF WorkspaceInv, RunsForItsCall
      <4>6. RunsForItsCall'
        BY <4>3, <4>4, <4>5 DEF RunsForItsCall
      <4>7. OneAttempt'
        BY <4>1 DEF WorkspaceInv, OneAttempt
      <4> QED
        BY <4>2, <4>6, <4>7
    <3> QED
      BY <3>1, <3>2
  <2>7. Typed'
    BY <2>4, <2>6 DEF WorkspaceInv, Typed, WorkspaceTypeOK, installed
  <2> QED
    BY <2>4, <2>6, <2>7 DEF WorkspaceInv
<1> QED
  BY <1>4, <1>5

LEMMA ArriveKeeps ==
  ASSUME WorkspaceInv, NEW c \in Callers, NEW kind \in {"refresh", "read"}, Arrive(c, kind)
  PROVE  WorkspaceInv'
<1> DEFINE made == Made(kind)
<1>1. /\ made \in Call /\ made.at = "idle" /\ made.kind = kind /\ made.before = failures
      /\ \A r \in Roots : (r \in present) \in made.since[r]
  BY MadeIsCall DEF WorkspaceInv
<1>2. /\ calls[c].at = "idle" /\ called' \in 0..MaxCalls /\ failures \in Nat
      /\ UNCHANGED <<present, changes, failures, installed>>
  BY McpWorkspaceAssumption DEF Arrive, WorkspaceInv, Typed, WorkspaceTypeOK
<1>3. CASE attempt = "ready"
  <2>1. Enter(c, made) /\ attempt' = attempt
    BY <1>3 DEF Arrive
  <2> HIDE DEF made
  <2> QED
    BY <1>1, <1>2, <1>3, <2>1, EnterKeeps
<1>4. CASE attempt # "ready"
  <2> DEFINE to == [made EXCEPT !.at = "load"]
  <2>1. /\ calls' = [calls EXCEPT ![c] = to] /\ attempt' = "running"
        /\ run' = IF attempt = "none" THEN Discover(None) ELSE run
        /\ rediscoverChain' = rediscoverChain
    BY <1>4 DEF Arrive
  <2> HIDE DEF made
  <2>2. /\ to \in Call /\ to.at = "load" /\ to.since = made.since /\ to.before = made.before
    BY <1>1, CallMoves
  <2> HIDE DEF to
  <2>3. attempt \in {"none", "running"}
    BY <1>4 DEF WorkspaceInv, Typed, WorkspaceTypeOK
  <2>4. /\ attempt = "none" => run.at = "idle" /\ run' = Discover(None)
        /\ attempt = "running" => run.at # "idle" /\ run.by = None /\ run' = run
    <3>1. \A k \in Callers : calls[k].at # "chain"
      BY <1>4 DEF WorkspaceInv, OneAttempt
    <3>2. run.at # "idle" => run.by = None
      BY <3>1 DEF WorkspaceInv, RunsForItsCall, Refreshing, Typed, WorkspaceTypeOK, Run
    <3> QED
      BY <2>1, <2>3, <3>2 DEF WorkspaceInv, OneAttempt, RunsForItsCall
  <2>5. /\ Installing' /\ SinceIsSince' /\ ErrorsAreFresh' /\ FindsFresh'
        /\ calls' \in [Callers -> Call] /\ calls'[c] = to /\ run' \in Run
        /\ \A k \in Callers \ {c} : calls'[k] = calls[k]
    <3>1. to.before <= failures /\ \A r \in Roots : (r \in present) \in to.since[r]
      BY <1>1, <1>2, <2>2
    <3> QED
      BY <1>2, <2>1, <2>2, <2>3, <2>4, <3>1, CallKeeps
  <2>6. run'.at # "idle" /\ run'.by = None
    BY <2>3, <2>4, DiscoverIsRun
  <2>7. rediscoverChain = <<>> /\ \A k \in Callers : calls[k].at # "chain"
    BY <1>4 DEF WorkspaceInv, OneAttempt
  <2>8. OneAttempt' /\ RunsForItsCall'
    BY <2>1, <2>2, <2>5, <2>6, <2>7 DEF OneAttempt, RunsForItsCall
  <2>9. Typed'
    BY <1>2, <2>1, <2>5 DEF WorkspaceInv, Typed, WorkspaceTypeOK, installed
  <2> QED
    BY <2>5, <2>8, <2>9 DEF WorkspaceInv
<1> QED
  BY <1>3, <1>4

LEMMA LoadedKeeps == ASSUME WorkspaceInv, NEW c \in Callers, Loaded(c) PROVE WorkspaceInv'
<1>1. /\ calls[c].at = "load" /\ attempt = "ready" /\ Enter(c, calls[c])
      /\ UNCHANGED <<present, changes, called, failures, attempt, installed>>
  BY DEF Loaded, workspaceCounters
<1>2. calls[c] \in Call /\ called' \in 0..MaxCalls
  BY <1>1 DEF WorkspaceInv, Typed, WorkspaceTypeOK
<1>3. calls[c].before <= failures /\ \A r \in Roots : (r \in present) \in calls[c].since[r]
  BY <1>1 DEF WorkspaceInv, SinceIsSince, Waits
<1> QED
  BY <1>1, <1>2, <1>3, EnterKeeps

LEMMA ReturnKeeps == ASSUME WorkspaceInv, NEW c \in Callers, Return(c) PROVE WorkspaceInv'
<1>1. /\ calls[c].at \in {"answered", "failed"} /\ calls' = [calls EXCEPT ![c] = NoCall]
      /\ UNCHANGED <<present, changes, called, failures, attempt, run, rediscoverChain,
                     currentRoots, opened, subscribed>>
  BY DEF Return, workspaceCounters, installed
<1>2. /\ Installing' /\ SinceIsSince' /\ ErrorsAreFresh' /\ FindsFresh'
      /\ calls' \in [Callers -> Call] /\ calls'[c] = NoCall
      /\ \A k \in Callers \ {c} : calls'[k] = calls[k]
  BY <1>1, NoCallIsCall, CallKeeps DEF installed
<1>3. /\ run \in Run /\ rediscoverChain \in Seq(Callers)
      /\ run.at # "idle" /\ run.by # None => run.by \in Callers \ {c}
      /\ \A i \in 1..Len(rediscoverChain) : rediscoverChain[i] \in Callers \ {c}
  BY <1>1 DEF WorkspaceInv, Typed, WorkspaceTypeOK, RunsForItsCall, Refreshing, Run
<1>4. RunsForItsCall'
  BY <1>1, <1>2, <1>3 DEF WorkspaceInv, RunsForItsCall
<1>5. OneAttempt'
  BY <1>1, <1>2, NoCallIsCall DEF WorkspaceInv, OneAttempt
<1>6. Typed'
  BY <1>1, <1>2 DEF WorkspaceInv, Typed, WorkspaceTypeOK
<1> QED
  BY <1>2, <1>4, <1>5, <1>6 DEF WorkspaceInv

\* A project comes or goes: the calls that wait have seen both.
LEMMA ChangeKeeps == ASSUME WorkspaceInv, NEW r \in Roots, Change(r) PROVE WorkspaceInv'
<1> DEFINE more(c) == [calls[c] EXCEPT !.since[r] = @ \cup {r \notin present}]
<1>1. /\ changes' = changes + 1 /\ changes < MaxChanges
      /\ present' = IF r \in present THEN present \ {r} ELSE present \cup {r}
      /\ calls' = [c \in Callers |-> IF Waits(c) THEN more(c) ELSE calls[c]]
      /\ UNCHANGED <<called, failures, attempt, run, rediscoverChain,
                     currentRoots, opened, subscribed>>
  BY DEF Change, Waits, installed
<1>2. calls \in [Callers -> Call] /\ run \in Run /\ present \subseteq Roots
  BY DEF WorkspaceInv, Typed, WorkspaceTypeOK
<1>3. ASSUME NEW c \in Callers
      PROVE  /\ more(c) \in Call /\ more(c).at = calls[c].at /\ more(c).kind = calls[c].kind
             /\ more(c).answer = calls[c].answer /\ more(c).before = calls[c].before
             /\ more(c).since[r] = calls[c].since[r] \cup {r \notin present}
             /\ \A q \in Roots \ {r} : more(c).since[q] = calls[c].since[q]
  <2> DEFINE since == [calls[c].since EXCEPT ![r] = @ \cup {r \notin present}]
  <2>1. calls[c] \in Call /\ calls[c].since \in [Roots -> SUBSET BOOLEAN]
    BY <1>2 DEF Call
  <2>2. /\ since \in [Roots -> SUBSET BOOLEAN]
        /\ since[r] = calls[c].since[r] \cup {r \notin present}
        /\ \A q \in Roots \ {r} : since[q] = calls[c].since[q]
    <3>1. calls[c].since[r] \cup {r \notin present} \in SUBSET BOOLEAN
      BY <2>1
    <3> QED
      BY <2>1, <3>1
  <2>3. more(c) = [calls[c] EXCEPT !.since = since]
    OBVIOUS
  <2> HIDE DEF since, more
  <2> QED
    BY <2>1, <2>2, <2>3 DEF Call
<1> HIDE DEF more
<1>4. \A c \in Callers :
        /\ calls'[c] \in Call /\ calls'[c].at = calls[c].at /\ calls'[c].kind = calls[c].kind
        /\ calls'[c].answer = calls[c].answer /\ calls'[c].before = calls[c].before
        /\ ~Waits(c) => calls'[c] = calls[c]
        /\ \A q \in Roots : calls[c].since[q] \subseteq calls'[c].since[q]
  <2> TAKE c \in Callers
  <2>1. CASE Waits(c)
    BY <1>1, <1>3, <2>1
  <2>2. CASE ~Waits(c)
    BY <1>1, <1>2, <2>2
  <2> QED
    BY <2>1, <2>2
<1>5. calls' \in [Callers -> Call]
  BY <1>1, <1>4
<1>6. Typed'
  <2>1. changes' \in 0..MaxChanges
    BY <1>1, McpWorkspaceAssumption DEF WorkspaceInv, Typed, WorkspaceTypeOK
  <2> QED
    BY <1>1, <1>2, <1>5, <2>1 DEF WorkspaceInv, Typed, WorkspaceTypeOK
<1>7. OneAttempt' /\ Installing' /\ ErrorsAreFresh'
  BY <1>1, <1>4 DEF WorkspaceInv, OneAttempt, Installing, ErrorsAreFresh
<1>8. RunsForItsCall'
  <2>1. rediscoverChain \in Seq(Callers)
    BY DEF WorkspaceInv, Typed, WorkspaceTypeOK
  <2>2. \A i \in 1..Len(rediscoverChain) : rediscoverChain[i] \in Callers
    BY <2>1
  <2>3. run.by # None => run.by \in Callers
    BY <1>2 DEF Run
  <2> QED
    BY <1>1, <1>4, <2>2, <2>3 DEF WorkspaceInv, RunsForItsCall, Refreshing
<1>9. SinceIsSince'
  <2>1. ASSUME NEW c \in Callers, Waits(c) PROVE \A q \in Roots : (q \in present') \in calls'[c].since[q]
    <3> TAKE q \in Roots
    <3>1. CASE q = r
      <4>1. (q \in present') = (r \notin present)
        BY <1>1, <3>1
      <4>2. calls'[c].since[r] = calls[c].since[r] \cup {r \notin present}
        BY <1>1, <1>3, <2>1
      <4> QED
        BY <3>1, <4>1, <4>2
    <3>2. CASE q # r
      <4>1. (q \in present') = (q \in present)
        BY <1>1, <3>2
      <4>2. (q \in present) \in calls[c].since[q]
        BY <2>1 DEF WorkspaceInv, SinceIsSince
      <4> QED
        BY <1>4, <4>1, <4>2
    <3> QED
      BY <3>1, <3>2
  <2> QED
    BY <1>1, <1>4, <2>1 DEF WorkspaceInv, SinceIsSince, Waits
<1>10. FindsFresh'
  <2>1. ASSUME run.at # "idle", run.by # None
        PROVE  /\ run.at = "scan" => Scanned(run, calls'[run.by].since)
               /\ run.at = "open" => Found(calls'[run.by].since, run.next)
    <3>1. run.by \in Callers /\ Waits(run.by)
      BY <1>2, <2>1 DEF WorkspaceInv, RunsForItsCall, Refreshing, Run, Waits
    <3>2. \A q \in Roots : calls[run.by].since[q] \subseteq calls'[run.by].since[q] /\ calls[run.by].since[q] # {}
      BY <1>4, <3>1 DEF WorkspaceInv, SinceIsSince
    <3>3. run.next \in SUBSET Roots
      BY <1>2 DEF Run
    <3>4. /\ Scanned(run, calls[run.by].since) => Scanned(run, calls'[run.by].since)
          /\ Found(calls[run.by].since, run.next) => Found(calls'[run.by].since, run.next)
      BY <3>2, <3>3, SinceGrows
    <3> QED
      BY <2>1, <3>4 DEF WorkspaceInv, FindsFresh
  <2>2. \A c \in Callers : calls'[c].at = "answered" => calls'[c] = calls[c]
    BY <1>4 DEF Waits
  <2> QED
    BY <1>1, <2>1, <2>2 DEF WorkspaceInv, FindsFresh
<1> QED
  BY <1>6, <1>7, <1>8, <1>9, <1>10 DEF WorkspaceInv

-------------------------------------------------------------------------------
LEMMA WorkspaceInitInv == ASSUME WorkspaceInit PROVE WorkspaceInv
<1>1. /\ run = Discover(None) /\ calls = [c \in Callers |-> NoCall] /\ rediscoverChain = <<>>
      /\ attempt = "running" /\ opened = {} /\ currentRoots = {}
      /\ subscribed = [r \in Roots |-> 0] /\ present \subseteq Roots
      /\ changes = 0 /\ called = 0 /\ failures = 0
  BY DEF WorkspaceInit
<1>2. run \in Run /\ run.at = "scan" /\ run.by = None
  BY <1>1, DiscoverIsRun
<1>3. \A c \in Callers : calls[c] = NoCall
  BY <1>1
<1>4. Typed
  BY <1>1, <1>2, NoCallIsCall, McpWorkspaceAssumption DEF Typed, WorkspaceTypeOK
<1>5. OneAttempt /\ RunsForItsCall /\ SinceIsSince /\ ErrorsAreFresh /\ FindsFresh
  BY <1>1, <1>2, <1>3, NoCallIsCall
    DEF OneAttempt, RunsForItsCall, SinceIsSince, Waits, ErrorsAreFresh, FindsFresh
<1>6. Installing
  BY <1>1, <1>2 DEF Installing
<1> QED
  BY <1>4, <1>5, <1>6 DEF WorkspaceInv

LEMMA WorkspaceNextInv == ASSUME WorkspaceInv, [WorkspaceNext]_workspaceVars PROVE WorkspaceInv'
<1>1. CASE WorkspaceNext
  BY <1>1, ScanKeeps, NextCandidateKeeps, ApplyKeeps, OpenProjectKeeps, InstallKeeps,
     FailDiscoveryKeeps, ArriveKeeps, LoadedKeeps, ReturnKeeps, ChangeKeeps DEF WorkspaceNext
<1>2. CASE UNCHANGED workspaceVars
  <2>1. UNCHANGED <<present, changes, called, failures, attempt, run, rediscoverChain,
                    currentRoots, opened, subscribed, calls>>
    BY <1>2 DEF workspaceVars, workspaceCounters, installed
  <2> QED
    BY <2>1 DEF WorkspaceInv, Typed, WorkspaceTypeOK, OneAttempt, RunsForItsCall, Installing,
                SinceIsSince, Waits, ErrorsAreFresh, FindsFresh
<1> QED
  BY <1>1, <1>2

THEOREM WorkspaceInvariant == WorkspaceSpec => []WorkspaceInv
<1>1. WorkspaceInit => WorkspaceInv
  BY WorkspaceInitInv
<1>2. WorkspaceInv /\ [WorkspaceNext]_workspaceVars => WorkspaceInv'
  BY WorkspaceNextInv
<1> QED
  BY <1>1, <1>2, PTL DEF WorkspaceSpec

(***************************************************************************)
(* What markspec_refresh promises, and that no failure is remembered: the  *)
(* answer is of a discovery that began after the call, however many        *)
(* refreshes overlap, fail, or meet projects that come and go.             *)
(***************************************************************************)
THEOREM RefreshesFindAnew == WorkspaceSpec => []RefreshIsFresh
<1>1. WorkspaceInv => RefreshIsFresh
  BY DEF WorkspaceInv, FindsFresh, Found, RefreshIsFresh
<1> QED
  BY <1>1, WorkspaceInvariant, PTL

(***************************************************************************)
(* Between two discoveries the owner of a file is the deepest open project *)
(* above it, and each open project, and no other, is subscribed once: the  *)
(* roots and the projects, installed in two steps, come to agree.          *)
(***************************************************************************)
THEOREM OwnersAreOpen == WorkspaceSpec => []OwnersOpen
<1>1. ASSUME WorkspaceInv, run.at # "open" PROVE OwnersOpen
  <2>1. currentRoots = opened /\ opened \subseteq Roots
    BY <1>1 DEF WorkspaceInv, Installing, Typed, WorkspaceTypeOK
  <2>2. ASSUME NEW r \in Roots PROVE OwnerOf(r) = NearestRoot(r, opened)
    <3> DEFINE above == opened \cap (Within[r] \cup {r})
    <3>1. CASE above = {}
      BY <2>1, <3>1, McpWorkspaceAssumption DEF OwnerOf, NearestRoot
    <3>2. CASE above # {}
      <4>1. \E q \in above : above \subseteq Within[q] \cup {q}
        <5>1. above \in SUBSET (Within[r] \cup {r})
          OBVIOUS
        <5> HIDE DEF above
        <5> QED
          BY <3>2, <5>1, McpWorkspaceAssumption
      <4>2. (CHOOSE q \in above : above \subseteq Within[q] \cup {q}) \in above
        BY <4>1
      <4>3. NearestRoot(r, opened) \in opened
        BY <3>2, <4>2 DEF NearestRoot
      <4> QED
        BY <2>1, <4>3 DEF OwnerOf
    <3> QED
      BY <3>1, <3>2
  <2> QED
    BY <1>1, <2>2 DEF WorkspaceInv, Installing, OwnersOpen
<1>2. WorkspaceInv => OwnersOpen
  BY <1>1 DEF OwnersOpen
<1> QED
  BY <1>2, WorkspaceInvariant, PTL
================================================================================
