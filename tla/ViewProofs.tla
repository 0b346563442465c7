------------------------------ MODULE ViewProofs -------------------------------
(***************************************************************************)
(* What a reader sees: the panes of MarkDesk, and the index of a document  *)
(* of the editor.                                                          *)
(***************************************************************************)
EXTENDS DeskPanes, DocumentSync, SequenceTheorems, WellFoundedInduction, TLAPS

-------------------------------------------------------------------------------
(***************************************************************************)
(* PanesAreCurrent: the panes of MarkDesk, for any entries, files, writes  *)
(* and events.  The answer to a request is of a moment since the request   *)
(* was sent, and that is since its read began; so what a read carries from *)
(* one request to the next stays within its time (EntryRead).  A view that *)
(* is revalidated may be older than the read, but its tag says all that it *)
(* shows (TagIsView): it is the view that a full answer would have         *)
(* brought.  A read only waits for a load that there is (HasLoad).         *)
(***************************************************************************)
EntryRead(r) == \E d \in SinceThen(r.since) : r.entry = EntryView(d, r.id)

HasLoad(n) ==
  n \in DOMAIN reads /\ reads[n].at \notin {"entry", "previous"} /\ reads[n].load \in LoadStates

ReadFits(r) ==
  /\ r.since \in 1..Now /\ r.sent \in r.since..Now
  /\ r.at \in {"previous", "document", "html"} => EntryRead(r)
  /\ r.at \in {"previous", "document"} => r.entry.place \in Documents
  /\ r.at = "previous" => HasLoad(r.before)

ReadsFit == \A n \in DOMAIN reads : ReadFits(reads[n])

LoadsFit == \A p \in Documents : documents[p] # 0 => HasLoad(documents[p])

SincesFit == tree.since \in 1..Now /\ (drawer.at # "closed" => drawer.since \in 1..Now)

PanesInv ==
  PanesTypeOK /\ ReadsFit /\ LoadsFit /\ SincesFit /\ PanesAreCurrent

\* What is shown when the read r has ended.
PageFits(seen, r) ==
  /\ seen # None /\ seen.id = r.id
  /\ seen.is = "failed" => faults > 0
  /\ seen.is = "gone" => \E d \in SinceThen(r.since) : d.place[r.id] = Gone
  /\ seen.is = "reading" =>
       /\ \E d \in SinceThen(r.since) : seen.entry = EntryView(d, r.id)
       /\ IF seen.source \in Documents
            THEN \E d, g \in SinceThen(r.since) : seen.html = DocumentView(g, d, seen.source)
            ELSE \E d \in SinceThen(r.since) : seen.html = HtmlView(d, r.id)


-------------------------------------------------------------------------------
(***************************************************************************)
(* Views and answers.                                                      *)
(***************************************************************************)
LEMMA PastIs ==
  ASSUME PanesTypeOK
  PROVE  /\ past \in Seq(Disks) /\ Now \in Nat /\ Now >= 1 /\ DOMAIN past = 1..Now
         /\ \A n \in 1..Now : past[n] \in Disks
         /\ \A s \in 1..Now : SinceThen(s) \subseteq Disks /\ past[Now] \in SinceThen(s)
<1>1. past \in Seq(Disks) /\ Now \in Nat /\ Now >= 1 /\ DOMAIN past = 1..Now
  BY PanesAssumption DEF PanesTypeOK, Now
<1>2. \A n \in 1..Now : past[n] \in Disks
  BY <1>1
<1>3. \A s \in 1..Now : SinceThen(s) \subseteq Disks /\ past[Now] \in SinceThen(s)
  BY <1>1, <1>2 DEF SinceThen
<1> QED
  BY <1>1, <1>2, <1>3

LEMMA ViewsAre ==
  ASSUME NEW d \in Disks, NEW g \in Disks, NEW id \in Ids
  PROVE  /\ EntryView(d, id) \in EntryViews /\ EntryView(d, id).place = d.place[id]
         /\ HtmlView(d, id) \in HtmlViews
         /\ TreeView(d) \in [Ids -> EntryViews]
         /\ \A p \in Paths : DocumentView(g, d, p) \in DocumentViews /\ d.text[p] \in Nat
<1>1. \A x \in Ids : EntryView(d, x) \in EntryViews /\ EntryView(d, x).place = d.place[x]
  <2> SUFFICES ASSUME NEW x \in Ids
               PROVE  EntryView(d, x) \in EntryViews /\ EntryView(d, x).place = d.place[x]
    OBVIOUS
  <2>1. d.place[x] \in Places /\ \A p \in Paths : d.text[p] \in Nat
    BY DEF Disks
  <2>2. (IF d.place[x] \in Paths THEN d.text[d.place[x]] ELSE 0) \in Nat
    BY <2>1
  <2> QED
    BY <2>1, <2>2 DEF EntryView, EntryViews
<1>2. KnownIds(d) \subseteq Ids /\ KnownIds(g) \subseteq Ids /\ \A p : IdsIn(g, p) \subseteq Ids
  BY DEF KnownIds, IdsIn
<1>3. HtmlView(d, id) \in HtmlViews
  BY <1>1, <1>2 DEF HtmlView, HtmlViews
<1>4. \A p \in Paths : d.text[p] \in Nat
  BY DEF Disks
<1>5. \A p \in Paths : DocumentView(g, d, p) \in DocumentViews
  BY <1>2, <1>4 DEF DocumentView, DocumentViews
<1>6. TreeView(d) \in [Ids -> EntryViews]
  BY <1>1 DEF TreeView
<1> QED
  BY <1>1, <1>3, <1>4, <1>5, <1>6

LEMMA AnswerIs ==
  /\ \A v : Ok(v).is = "ok" /\ Ok(v).view = v
  /\ NotFound.is = "notFound" /\ Failed.is = "failed" /\ Network.is = "network" /\ Loading.is = "loading"
  /\ Loading.view = None /\ Failed.view = None
BY DEF Ok, NotFound, Failed, Network, Loading

\* The tag of a rendered document says all that it shows.
LEMMA TagIsView ==
  ASSUME NEW v \in DocumentViews, NEW w \in DocumentViews, Tag(v) = Tag(w)
  PROVE  v = w
BY DEF DocumentViews, Tag

\* The faults that an answer may bring.
LEMMA FaultsGrow ==
  ASSUME PanesTypeOK, NEW got, NEW answers, Arrives(got, answers)
  PROVE  /\ faults' \in 0..MaxEvents /\ faults' >= faults
         /\ got \in answers \/ (got = Failed /\ faults' > 0) \/ got = Network
<1>1. /\ events \in Nat /\ faults \in Nat /\ faults <= MaxEvents /\ MaxEvents \in Nat
  BY PanesAssumption DEF PanesTypeOK
<1> QED
  BY <1>1 DEF Arrives

\* What was sent no earlier than the read began is answered from its time.
LEMMA SentIsSince ==
  ASSUME NEW since \in 1..Now, NEW sent \in since..Now, Now \in Nat
  PROVE  GraphsSince(sent) \subseteq SinceThen(since)
BY DEF GraphsSince, SinceThen

LEMMA ReadIs ==
  ASSUME PanesInv, NEW n \in DOMAIN reads
  PROVE  /\ reads \in Seq(Reads) /\ reads[n] \in Reads /\ ReadFits(reads[n])
         /\ DOMAIN reads = 1..Len(reads) /\ Len(reads) \in Nat /\ Now \in Nat
         /\ reads[n].id \in Ids /\ reads[n].since \in 1..Now /\ reads[n].sent \in reads[n].since..Now
         /\ SinceThen(reads[n].since) \subseteq Disks
<1>1. reads \in Seq(Reads) /\ Now \in Nat /\ PanesTypeOK
  BY PastIs DEF PanesInv, PanesTypeOK
<1>2. DOMAIN reads = 1..Len(reads) /\ Len(reads) \in Nat /\ reads[n] \in Reads
  BY <1>1
<1>3. ReadFits(reads[n])
  BY DEF PanesInv, ReadsFit
<1>4. reads[n].id \in Ids
  BY <1>2 DEF Reads
<1>5. reads[n].since \in 1..Now /\ reads[n].sent \in reads[n].since..Now
  BY <1>3 DEF ReadFits
<1> QED
  BY <1>1, <1>2, <1>3, <1>4, <1>5, PastIs

LEMMA EntryArrived ==
  ASSUME PanesInv, NEW n \in DOMAIN reads, NEW got, Arrives(got, EntryAnswers(reads[n].sent, reads[n].id))
  PROVE  /\ faults' \in 0..MaxEvents /\ faults' >= faults
         /\ got.is = "ok" => /\ got.view \in EntryViews
                             /\ \E d \in SinceThen(reads[n].since) : got.view = EntryView(d, reads[n].id)
         /\ got = NotFound => \E d \in SinceThen(reads[n].since) : d.place[reads[n].id] = Gone
         /\ got.is # "ok" => got \in {NotFound, Failed, Network}
         /\ got = Failed => faults' > 0
<1>1. Now \in Nat /\ reads[n].id \in Ids /\ reads[n].since \in 1..Now /\ reads[n].sent \in reads[n].since..Now
  BY ReadIs
<1>2. SinceThen(reads[n].since) \subseteq Disks
  BY ReadIs
<1>3. /\ faults' \in 0..MaxEvents /\ faults' >= faults
      /\ \/ got \in EntryAnswers(reads[n].sent, reads[n].id) \/ (got = Failed /\ faults' > 0)
         \/ got = Network
  BY FaultsGrow DEF PanesInv
<1>4. ASSUME got \in EntryAnswers(reads[n].sent, reads[n].id)
      PROVE  \E d \in SinceThen(reads[n].since) :
               got = IF d.place[reads[n].id] = Gone THEN NotFound ELSE Ok(EntryView(d, reads[n].id))
  BY <1>1, <1>4, SentIsSince DEF EntryAnswers
<1> QED
  BY <1>1, <1>2, <1>3, <1>4, AnswerIs, ViewsAre

LEMMA HtmlArrived ==
  ASSUME PanesInv, NEW n \in DOMAIN reads, NEW got, Arrives(got, HtmlAnswers(reads[n].sent, reads[n].id))
  PROVE  /\ faults' \in 0..MaxEvents /\ faults' >= faults
         /\ got.is = "ok" => /\ got.view \in HtmlViews
                             /\ \E d \in SinceThen(reads[n].since) : got.view = HtmlView(d, reads[n].id)
         /\ got = NotFound => \E d \in SinceThen(reads[n].since) : d.place[reads[n].id] = Gone
         /\ got.is # "ok" => got \in {NotFound, Failed, Network}
         /\ got = Failed => faults' > 0
<1>1. Now \in Nat /\ reads[n].id \in Ids /\ reads[n].since \in 1..Now /\ reads[n].sent \in reads[n].since..Now
  BY ReadIs
<1>2. SinceThen(reads[n].since) \subseteq Disks
  BY ReadIs
<1>3. /\ faults' \in 0..MaxEvents /\ faults' >= faults
      /\ \/ got \in HtmlAnswers(reads[n].sent, reads[n].id) \/ (got = Failed /\ faults' > 0)
         \/ got = Network
  BY FaultsGrow DEF PanesInv
<1>4. ASSUME got \in HtmlAnswers(reads[n].sent, reads[n].id)
      PROVE  \E d \in SinceThen(reads[n].since) :
               got = IF d.place[reads[n].id] = Gone THEN NotFound ELSE Ok(HtmlView(d, reads[n].id))
  BY <1>1, <1>4, SentIsSince DEF HtmlAnswers
<1> QED
  BY <1>1, <1>2, <1>3, <1>4, AnswerIs, ViewsAre

LEMMA DocumentArrived ==
  ASSUME PanesInv, NEW n \in DOMAIN reads, NEW p \in Documents, NEW got,
         Arrives(got, DocumentAnswers(reads[n].sent, p))
  PROVE  /\ faults' \in 0..MaxEvents /\ faults' >= faults
         /\ got.is = "ok" => /\ got.view \in DocumentViews
                             /\ \E d, g \in SinceThen(reads[n].since) : got.view = DocumentView(g, d, p)
<1>1. Now \in Nat /\ reads[n].id \in Ids /\ reads[n].since \in 1..Now /\ reads[n].sent \in reads[n].since..Now
  BY ReadIs
<1>2. SinceThen(reads[n].since) \subseteq Disks
  BY ReadIs
<1>3. /\ faults' \in 0..MaxEvents /\ faults' >= faults
      /\ got \in DocumentAnswers(reads[n].sent, p) \/ got = Failed \/ got = Network
  BY FaultsGrow DEF PanesInv
<1>4. ASSUME got \in DocumentAnswers(reads[n].sent, p), got.is = "ok"
      PROVE  \E d, g \in SinceThen(reads[n].since) : got = Ok(DocumentView(g, d, p))
  <2>1. PICK m \in reads[n].sent..Now :
          \E k \in m..Now :
            got = IF IdsIn(past[m], p) = {} THEN NotFound ELSE Ok(DocumentView(past[m], past[k], p))
    BY <1>4 DEF DocumentAnswers
  <2>2. PICK k \in m..Now :
          got = IF IdsIn(past[m], p) = {} THEN NotFound ELSE Ok(DocumentView(past[m], past[k], p))
    BY <2>1
  <2>3. m \in reads[n].since..Now /\ k \in reads[n].since..Now
    BY <1>1
  <2>4. past[m] \in SinceThen(reads[n].since) /\ past[k] \in SinceThen(reads[n].since)
    BY <2>3 DEF SinceThen
  <2>5. got = Ok(DocumentView(past[m], past[k], p))
    BY <1>4, <2>2, AnswerIs
  <2> QED
    BY <2>4, <2>5
<1>5. ASSUME got.is = "ok"
      PROVE  /\ got.view \in DocumentViews
             /\ \E d, g \in SinceThen(reads[n].since) : got.view = DocumentView(g, d, p)
  <2>1. got \in DocumentAnswers(reads[n].sent, p)
    BY <1>3, <1>5, AnswerIs
  <2>2. PICK d \in SinceThen(reads[n].since), g \in SinceThen(reads[n].since) : got = Ok(DocumentView(g, d, p))
    BY <1>4, <1>5, <2>1
  <2>3. got.view = DocumentView(g, d, p)
    BY <2>2, AnswerIs
  <2>4. d \in Disks /\ g \in Disks /\ p \in Paths
    BY <1>2 DEF Paths
  <2>5. DocumentView(g, d, p) \in DocumentViews
    BY <1>1, <2>4, ViewsAre
  <2> QED
    BY <2>3, <2>5
<1> QED
  BY <1>3, <1>5

-------------------------------------------------------------------------------
(***************************************************************************)
(* The reads.                                                              *)
(***************************************************************************)
LEMMA ReadRecord ==
  ASSUME NEW r \in Reads
  PROVE  r = [id |-> r.id, at |-> r.at, since |-> r.since, sent |-> r.sent, entry |-> r.entry,
              before |-> r.before, cached |-> r.cached, load |-> r.load]
BY DEF Reads

LEMMA NewReadFits ==
  ASSUME PanesTypeOK, NEW id \in Ids
  PROVE  /\ Read(id) \in Reads /\ Read(id).id = id /\ Read(id).at = "entry"
         /\ Read(id).since = Now /\ ReadFits(Read(id))
<1>1. Now \in Nat /\ Now >= 1
  BY PastIs
<1>2. Read(id) = [id |-> id, at |-> "entry", since |-> Now, sent |-> Now, entry |-> None,
                  before |-> 0, cached |-> None, load |-> None]
  BY DEF Read
<1>3. Read(id) \in Reads
  BY <1>1, <1>2 DEF Reads
<1>4. Read(id).at = "entry" /\ Read(id).since = Now /\ Read(id).sent = Now /\ Read(id).id = id
  BY <1>2
<1>5. ReadFits(Read(id))
  BY <1>1, <1>4 DEF ReadFits
<1> QED
  BY <1>3, <1>4, <1>5

\* A read goes on: what it has fits, and a load is not lost.
LEMMA ReadGoesOn ==
  ASSUME PanesInv, NEW n \in DOMAIN reads, NEW r \in Reads, reads' = [reads EXCEPT ![n] = r],
         UNCHANGED past, ReadFits(r), r.at # "entry",
         HasLoad(n) => r.at # "previous" /\ r.load \in LoadStates,
         r.at = "previous" => reads[n].at = "entry",
         documents' \in [Documents -> 0..Len(reads)],
         \A p \in Documents : \/ documents'[p] \in {0, documents[p]}
                              \/ documents'[p] = n /\ r.at # "previous" /\ r.load \in LoadStates
  PROVE  /\ reads' \in Seq(Reads) /\ ReadsFit' /\ LoadsFit' /\ documents' \in [Documents -> 0..Len(reads')]
         /\ Len(reads') = Len(reads) /\ DOMAIN reads' = DOMAIN reads /\ reads'[n] = r
         /\ \A m \in DOMAIN reads : m # n => reads'[m] = reads[m]
<1>1. reads \in Seq(Reads) /\ DOMAIN reads = 1..Len(reads)
  BY ReadIs
<1>2. /\ reads' \in Seq(Reads) /\ Len(reads') = Len(reads) /\ DOMAIN reads' = DOMAIN reads /\ reads'[n] = r
      /\ \A m \in DOMAIN reads : m # n => reads'[m] = reads[m]
  BY <1>1
<1>3. \A m : HasLoad(m) => HasLoad(m)'
  BY <1>2 DEF HasLoad
<1>4. \A x : ReadFits(x) => ReadFits(x)'
  BY <1>3 DEF ReadFits, EntryRead, SinceThen, Now
<1>5. ReadsFit'
  BY <1>2, <1>4 DEF PanesInv, ReadsFit
<1>6. r.at # "previous" /\ r.load \in LoadStates => HasLoad(n)'
  BY <1>2 DEF HasLoad
<1>7. LoadsFit'
  BY <1>3, <1>6 DEF PanesInv, LoadsFit
<1> QED
  BY <1>2, <1>5, <1>7

\* One more read begins.
LEMMA ReadBegins ==
  ASSUME PanesInv, NEW id \in Ids, reads' = Append(reads, Read(id)), UNCHANGED <<past, documents>>
  PROVE  /\ reads' \in Seq(Reads) /\ ReadsFit' /\ LoadsFit' /\ documents' \in [Documents -> 0..Len(reads')]
         /\ reads' # <<>> /\ reads'[Len(reads')].id = id /\ reads'[Len(reads')].at = "entry"
<1>1. reads \in Seq(Reads) /\ documents \in [Documents -> 0..Len(reads)] /\ Read(id) \in Reads
  BY NewReadFits DEF PanesInv, PanesTypeOK
<1>2. /\ reads' \in Seq(Reads) /\ Len(reads') = Len(reads) + 1 /\ Len(reads) \in Nat
      /\ DOMAIN reads' = DOMAIN reads \cup {Len(reads) + 1} /\ reads'[Len(reads) + 1] = Read(id)
      /\ \A m \in DOMAIN reads : reads'[m] = reads[m]
  BY <1>1
<1>3. \A m : HasLoad(m) => HasLoad(m)'
  BY <1>2 DEF HasLoad
<1>4. \A x : ReadFits(x) => ReadFits(x)'
  BY <1>3 DEF ReadFits, EntryRead, SinceThen, Now
<1>5. ReadsFit'
  BY <1>2, <1>4, NewReadFits DEF PanesInv, ReadsFit
<1>6. LoadsFit'
  BY <1>3 DEF PanesInv, LoadsFit
<1>7. documents' \in [Documents -> 0..Len(reads')]
  BY <1>1, <1>2
<1>8. reads' # <<>> /\ reads'[Len(reads')] = Read(id)
  BY <1>1, <1>2
<1> QED
  BY <1>2, <1>5, <1>6, <1>7, <1>8, NewReadFits DEF PanesInv

-------------------------------------------------------------------------------
(***************************************************************************)
(* The page and the drawer.                                                *)
(***************************************************************************)
\* What the last read shows, if it has ended.
LEMMA DocumentFollows ==
  ASSUME PanesInv, NEW n \in DOMAIN reads, NEW r \in Reads, reads'[n] = r,
         Len(reads') = Len(reads), \A m \in DOMAIN reads : m # n => reads'[m] = reads[m],
         UNCHANGED <<past, history>>, faults' \in Nat, faults' >= faults, r.id = reads[n].id, r.since = reads[n].since,
         n = Len(reads) /\ r.at = "shown" => PageFits(page, r)',
         n # Len(reads) => page' = page
  PROVE  DocumentIsCurrent'
<1>1. reads \in Seq(Reads) /\ DOMAIN reads = 1..Len(reads) /\ Len(reads) \in Nat /\ n \in 1..Len(reads)
      /\ Len(reads) \in DOMAIN reads /\ reads # <<>>
  BY ReadIs
<1>2. faults > 0 => faults' > 0
  <2>1. MaxEvents \in Nat /\ faults \in 0..MaxEvents
    BY PanesAssumption DEF PanesInv, PanesTypeOK
  <2>2. \A x \in Nat, y \in Nat : x > 0 /\ y >= x => y > 0
    OBVIOUS
  <2> QED
    BY <2>1, <2>2
<1>3. reads[Len(reads)].id = Selected(history) /\ Selected(history)' = Selected(history)
  BY <1>1 DEF PanesInv, PanesAreCurrent, DocumentIsCurrent, Selected
<1>4. CASE n = Len(reads)
  <2>1. r.id = Selected(history)'
    BY <1>3, <1>4
  <2>2. reads'[Len(reads')] = r
    BY <1>4
  <2> QED
    BY <1>4, <2>1, <2>2 DEF DocumentIsCurrent, PageFits
<1>5. CASE n # Len(reads)
  <2>1. reads'[Len(reads')] = reads[Len(reads)] /\ page' = page
    BY <1>1, <1>5
  <2>2. \A s : SinceThen(s)' = SinceThen(s)
    BY DEF SinceThen, Now
  <2> QED
    BY <1>1, <1>2, <1>3, <2>1, <2>2 DEF PanesInv, PanesAreCurrent, DocumentIsCurrent
<1> QED
  BY <1>4, <1>5

LEMMA ShowingIs ==
  ASSUME NEW seen \in Pages \cup {None}, NEW id, NEW open
  PROVE  Showing(seen, id, open) \in Paths \cup {None}
BY DEF Showing, Pages

\* The drawer follows the page that is shown.
LEMMA DrawerFollows ==
  ASSUME PanesInv, UNCHANGED past, NEW p \in Paths \cup {None}, NEW revised \in BOOLEAN,
         drawer' = DrawerFor(p, revised),
         p = Showing(page', Selected(history'), sourceOpen')
  PROVE  drawer' \in Drawers /\ (drawer'.at # "closed" => drawer'.since \in 1..Now) /\ SourceIsCurrent'
<1>1. Now \in Nat /\ Now >= 1 /\ drawer \in Drawers
  BY PastIs DEF PanesInv, PanesTypeOK
<1>2. p = Showing(page, Selected(history), sourceOpen)'
  BY DEF Selected
<1>3. CASE p = None
  <2>1. drawer' = Closed /\ Closed \in Drawers /\ Closed.at = "closed" /\ Closed.path = None
    BY <1>3 DEF DrawerFor, Closed, Drawers
  <2> QED
    BY <1>2, <1>3, <2>1 DEF SourceIsCurrent
<1>4. CASE p # None /\ p = drawer.path /\ ~revised
  <2>1. drawer' = drawer
    BY <1>4 DEF DrawerFor
  <2> QED
    BY <1>1, <1>2, <1>4, <2>1 DEF PanesInv, SincesFit, PanesAreCurrent, SourceIsCurrent, SinceThen, Now
<1>5. CASE p # None /\ ~(p = drawer.path /\ ~revised)
  <2>1. drawer' = Fetch(p)
    BY <1>5 DEF DrawerFor
  <2>2. Fetch(p) = [path |-> p, at |-> "sent", since |-> Now, text |-> None]
    BY DEF Fetch
  <2>3. drawer' \in Drawers /\ drawer'.at = "sent" /\ drawer'.path = p /\ drawer'.since = Now
    BY <1>1, <1>5, <2>1, <2>2 DEF Drawers
  <2> QED
    BY <1>1, <1>2, <2>3 DEF SourceIsCurrent
<1> QED
  BY <1>3, <1>4, <1>5

\* With nothing else opened or shown, it is as it was.
LEMMA DrawerStays ==
  ASSUME PanesInv, UNCHANGED <<past, drawer, page, sourceOpen>>, Selected(history') = Selected(history)
  PROVE  drawer' \in Drawers /\ (drawer'.at # "closed" => drawer'.since \in 1..Now) /\ SourceIsCurrent'
<1>1. Selected(history)' = Selected(history)
  BY DEF Selected
<1> QED
  BY <1>1 DEF PanesInv, PanesTypeOK, SincesFit, PanesAreCurrent, SourceIsCurrent, SinceThen, Now

\* What an action leaves alone.
LEMMA NumbersAre ==
  ASSUME PanesTypeOK
  PROVE  /\ MaxEvents \in Nat /\ MaxWrites \in Nat /\ events \in 0..MaxEvents /\ faults \in 0..MaxEvents
         /\ Event => events' \in 0..MaxEvents
<1>1. MaxEvents \in Nat /\ MaxWrites \in Nat /\ events \in 0..MaxEvents /\ faults \in 0..MaxEvents
  BY PanesAssumption DEF PanesTypeOK
<1>2. \A x, y, z \in Nat : x + y < z => x + 1 \in 0..z
  OBVIOUS
<1>3. Event => events' \in 0..MaxEvents
  <2> SUFFICES ASSUME Event PROVE events' \in 0..MaxEvents
    OBVIOUS
  <2>1. events' = events + 1 /\ events + faults < MaxEvents
    BY DEF Event
  <2>2. events \in Nat /\ faults \in Nat /\ MaxEvents \in Nat
    BY <1>1
  <2>3. events + 1 \in 0..MaxEvents
    BY ONLY <1>2, <2>1, <2>2
  <2> QED
    BY <2>1, <2>3
<1> QED
  BY <1>1, <1>3

LEMMA ReadsStay ==
  ASSUME PanesInv, UNCHANGED <<past, reads, documents>>
  PROVE  reads' \in Seq(Reads) /\ ReadsFit' /\ LoadsFit' /\ documents' \in [Documents -> 0..Len(reads')]
<1>1. \A m : HasLoad(m)' = HasLoad(m)
  BY DEF HasLoad
<1>2. \A x : ReadFits(x) => ReadFits(x)'
  BY <1>1 DEF ReadFits, EntryRead, SinceThen, Now
<1>3. ReadsFit'
  BY <1>2 DEF PanesInv, ReadsFit
<1>4. LoadsFit'
  BY <1>1 DEF PanesInv, LoadsFit
<1> QED
  BY <1>3, <1>4 DEF PanesInv, PanesTypeOK

LEMMA DocumentStays ==
  ASSUME PanesInv, UNCHANGED <<past, reads, page>>, Selected(history') = Selected(history),
         faults' \in 0..MaxEvents, faults' >= faults
  PROVE  DocumentIsCurrent'
<1>1. faults > 0 => faults' > 0
  <2>1. MaxEvents \in Nat /\ faults \in 0..MaxEvents
    BY NumbersAre DEF PanesInv
  <2> QED
    BY <2>1
<1>2. Selected(history)' = Selected(history)
  BY DEF Selected
<1>3. \A s : SinceThen(s)' = SinceThen(s)
  BY DEF SinceThen, Now
<1> QED
  BY <1>1, <1>2, <1>3 DEF PanesInv, PanesAreCurrent, DocumentIsCurrent

LEMMA TreeStays ==
  ASSUME PanesInv, UNCHANGED <<past, tree>>, faults' \in 0..MaxEvents, faults' >= faults
  PROVE  tree' \in Trees /\ tree'.since \in 1..Now' /\ TreeIsCurrent'
<1>1. faults > 0 => faults' > 0
  <2>1. MaxEvents \in Nat /\ faults \in 0..MaxEvents
    BY NumbersAre DEF PanesInv
  <2> QED
    BY <2>1
<1>2. tree' \in Trees /\ tree'.since \in 1..Now'
  BY DEF PanesInv, PanesTypeOK, SincesFit, Now
<1>3. TreeIsCurrent'
  BY <1>1 DEF PanesInv, PanesAreCurrent, TreeIsCurrent, SinceThen, Now
<1> QED
  BY <1>2, <1>3

\* What is shown when a read has ended.
LEMMA ReadEnds ==
  ASSUME PanesInv, NEW n \in DOMAIN reads, NEW r \in Reads, reads'[n] = r,
         Len(reads') = Len(reads), \A m \in DOMAIN reads : m # n => reads'[m] = reads[m],
         UNCHANGED <<past, history, sourceOpen>>, faults' \in 0..MaxEvents, faults' >= faults,
         r.id = reads[n].id, r.since = reads[n].since,
         NEW what \in Pages, Shows(n, what), PageFits(what, r)'
  PROVE  /\ page' \in Pages \cup {None} /\ DocumentIsCurrent'
         /\ drawer' \in Drawers /\ (drawer'.at # "closed" => drawer'.since \in 1..Now) /\ SourceIsCurrent'
<1>1. /\ page' = IF n = Len(reads) THEN what ELSE page
      /\ drawer' = DrawerFor(Showing(page', Selected(history), sourceOpen), FALSE)
  BY DEF Shows, Current
<1>2. page' \in Pages \cup {None}
  BY <1>1 DEF PanesInv, PanesTypeOK
<1>3. faults' \in Nat
  BY NumbersAre DEF PanesInv
<1>4. n = Len(reads) => PageFits(page, r)'
  BY <1>1 DEF PageFits
<1>5. DocumentIsCurrent'
  BY <1>1, <1>3, <1>4, DocumentFollows
<1>6. PICK p : p = Showing(page', Selected(history), sourceOpen)
  OBVIOUS
<1>7. p \in Paths \cup {None} /\ p = Showing(page', Selected(history'), sourceOpen')
  BY <1>2, <1>6, ShowingIs
<1>8. drawer' = DrawerFor(p, FALSE)
  BY <1>1, <1>6
<1> QED
  BY <1>2, <1>5, <1>7, <1>8, DrawerFollows

-------------------------------------------------------------------------------
(***************************************************************************)
(* The files and the server.                                               *)
(***************************************************************************)
\* With one more state of the files, what was of some time is of it still.
LEMMA PastGrows ==
  ASSUME PanesInv, NEW d \in Disks, Now <= MaxWrites, past' = Append(past, d),
         UNCHANGED <<serving, history, documents, reads, page, tree, drawer, sourceOpen, events, faults>>
  PROVE  PanesInv'
<1>1. /\ past \in Seq(Disks) /\ Now \in Nat /\ Now >= 1 /\ MaxWrites \in Nat
  BY PastIs, NumbersAre DEF PanesInv
<1>2. /\ past' \in Seq(Disks) /\ Len(past') = Len(past) + 1
      /\ \A n \in 1..Len(past) : past'[n] = past[n]
  BY <1>1
<1>3. Now' = Now + 1 /\ \A n \in 1..Now : past'[n] = past[n]
  BY <1>2 DEF Now
<1>4. \A s \in 1..Now : SinceThen(s) \subseteq SinceThen(s)'
  <2> SUFFICES ASSUME NEW s \in 1..Now, NEW x \in SinceThen(s) PROVE x \in SinceThen(s)'
    OBVIOUS
  <2>1. PICK n \in s..Now : x = past[n]
    BY DEF SinceThen
  <2>2. n \in 1..Now /\ n \in s..(Now + 1)
    BY <1>1
  <2>3. past'[n] = x /\ n \in s..Now'
    BY <1>3, <2>1, <2>2
  <2> QED
    BY <2>3 DEF SinceThen
<1>5. PanesTypeOK'
  <2>1. Now' \in 1..(MaxWrites + 1)
    BY <1>1, <1>3
  <2> QED
    BY <1>2, <2>1 DEF PanesInv, PanesTypeOK
<1>6. \A m : HasLoad(m)' = HasLoad(m)
  BY DEF HasLoad
<1>7. \A x : ReadFits(x) => ReadFits(x)'
  <2> SUFFICES ASSUME NEW x, ReadFits(x) PROVE ReadFits(x)'
    OBVIOUS
  <2>1. x.since \in 1..Now /\ x.sent \in x.since..Now
    BY DEF ReadFits
  <2>2. x.since \in 1..Now' /\ x.sent \in x.since..Now'
    BY <1>1, <1>3, <2>1
  <2>3. EntryRead(x) => EntryRead(x)'
    BY <1>4, <2>1 DEF EntryRead
  <2> QED
    BY <1>6, <2>2, <2>3 DEF ReadFits
<1>8. ReadsFit' /\ LoadsFit'
  BY <1>6, <1>7 DEF PanesInv, ReadsFit, LoadsFit
<1>9. SincesFit'
  BY <1>1, <1>3 DEF PanesInv, SincesFit
<1>10. DocumentIsCurrent'
  <2>1. CASE reads = <<>>
    BY <2>1 DEF DocumentIsCurrent
  <2>2. CASE reads # <<>>
    <3>1. PICK r : r = reads[Len(reads)]
      OBVIOUS
    <3>2. Len(reads) \in DOMAIN reads
      BY <2>2 DEF PanesInv, PanesTypeOK
    <3>3. r.since \in 1..Now
      BY <3>1, <3>2, ReadIs
    <3>4. r.id = Selected(history) /\ (r.at = "shown" => PageFits(page, r))
      BY <2>2, <3>1 DEF PanesInv, PanesAreCurrent, DocumentIsCurrent, PageFits
    <3>5. PageFits(page, r) => PageFits(page, r)'
      BY <1>4, <3>3 DEF PageFits
    <3>6. r = reads'[Len(reads')] /\ r.id = Selected(history)'
      BY <3>1, <3>4 DEF Selected
    <3> QED
      BY <3>4, <3>5, <3>6 DEF DocumentIsCurrent, PageFits
  <2> QED
    BY <2>1, <2>2
<1>11. TreeIsCurrent'
  <2>1. PICK s : s = tree.since
    OBVIOUS
  <2>2. s \in 1..Now
    BY <2>1 DEF PanesInv, SincesFit
  <2>3. tree.at = "current" => \E x \in SinceThen(s) : tree.view = TreeView(x)
    BY <2>1 DEF PanesInv, PanesAreCurrent, TreeIsCurrent
  <2>4. tree.at = "current" => \E x \in SinceThen(s)' : tree.view = TreeView(x)
    BY <1>4, <2>2, <2>3
  <2>5. tree'.since = s /\ (tree.failed => faults > 0)
    BY <2>1 DEF PanesInv, PanesAreCurrent, TreeIsCurrent
  <2> QED
    BY <2>4, <2>5 DEF TreeIsCurrent
<1>12. SourceIsCurrent'
  <2>1. PICK s : s = drawer.since
    OBVIOUS
  <2>2. drawer.at = "shown" => s \in 1..Now
    BY <2>1 DEF PanesInv, SincesFit
  <2>3. drawer.at = "shown" => \E x \in SinceThen(s) : drawer.text = x.text[drawer.path]
    BY <2>1 DEF PanesInv, PanesAreCurrent, SourceIsCurrent
  <2>4. drawer.at = "shown" => \E x \in SinceThen(s)' : drawer.text = x.text[drawer.path]
    BY <1>4, <2>2, <2>3
  <2>5. drawer'.since = s /\ drawer.path = Showing(page, Selected(history), sourceOpen)
    BY <2>1 DEF PanesInv, PanesAreCurrent, SourceIsCurrent
  <2> QED
    BY <2>4, <2>5 DEF SourceIsCurrent, Selected
<1> QED
  BY <1>5, <1>8, <1>9, <1>10, <1>11, <1>12 DEF PanesInv, PanesAreCurrent

LEMMA FileIsWritten ==
  ASSUME PanesInv, WriteFile
  PROVE  PanesInv'
<1>1. Now \in Nat /\ Disk \in Disks
  BY PastIs DEF PanesInv, Disk
<1>2. Disk.place \in [Ids -> Places] /\ Disk.text \in [Paths -> Nat]
      /\ Disk = [place |-> Disk.place, text |-> Disk.text]
  BY <1>1 DEF Disks
<1>3. ASSUME NEW id \in Ids, NEW to \in Paths \cup {Gone}
      PROVE  [place |-> [Disk.place EXCEPT ![id] = to],
              text |-> [p \in Paths |->
                          IF p \in {to, Disk.place[id]} THEN Now ELSE Disk.text[p]]] \in Disks
  <2>1. [Disk.place EXCEPT ![id] = to] \in [Ids -> Places]
    BY <1>2 DEF Places
  <2>2. [p \in Paths |-> IF p \in {to, Disk.place[id]} THEN Now ELSE Disk.text[p]] \in [Paths -> Nat]
    BY <1>1, <1>2
  <2> QED
    BY <2>1, <2>2 DEF Disks
<1>4. ASSUME NEW p \in Paths PROVE [Disk EXCEPT !.text[p] = Now] \in Disks
  <2>1. [Disk.text EXCEPT ![p] = Now] \in [Paths -> Nat]
    BY <1>1, <1>2
  <2>2. [Disk EXCEPT !.text[p] = Now] = [place |-> Disk.place, text |-> [Disk.text EXCEPT ![p] = Now]]
    BY <1>2
  <2> QED
    BY <1>2, <2>1, <2>2 DEF Disks
<1>5. PICK d \in Disks : past' = Append(past, d)
  BY <1>3, <1>4 DEF WriteFile
<1>6. Now <= MaxWrites
      /\ UNCHANGED <<serving, history, documents, reads, page, tree, drawer, sourceOpen, events, faults>>
  BY DEF WriteFile
<1> QED
  BY <1>5, <1>6, PastGrows

LEMMA ServerDies ==
  ASSUME PanesInv, Die
  PROVE  PanesInv'
<1>1. UNCHANGED <<past, history, documents, reads, page, tree, drawer, sourceOpen, events>>
      /\ serving' = FALSE /\ faults' = faults + 1 /\ events + faults < MaxEvents
  BY DEF Die
<1>2. faults' \in 0..MaxEvents /\ faults' >= faults
  BY <1>1, NumbersAre DEF PanesInv
<1>3. ReadsFit' /\ LoadsFit'
  BY <1>1, ReadsStay
<1>4. DocumentIsCurrent'
  BY <1>1, <1>2, DocumentStays
<1>5. tree'.since \in 1..Now' /\ TreeIsCurrent'
  BY <1>1, <1>2, TreeStays
<1>6. (drawer'.at # "closed" => drawer'.since \in 1..Now) /\ SourceIsCurrent' /\ Now' = Now
  BY <1>1, DrawerStays DEF Now
<1>7. PanesTypeOK'
  BY <1>1, <1>2 DEF PanesInv, PanesTypeOK, Now
<1> QED
  BY <1>3, <1>4, <1>5, <1>6, <1>7 DEF PanesInv, PanesAreCurrent, SincesFit

-------------------------------------------------------------------------------
(***************************************************************************)
(* The author and the window.                                              *)
(***************************************************************************)
Histories == {h \in [entries : Seq(Ids), index : Nat] : h.index <= Len(h.entries)}

LEMMA SelectedIs ==
  ASSUME NEW h \in Histories
  PROVE  Selected(h) \in Ids \cup {None} /\ (Selected(h) = None <=> h.index = 0)
<1>1. h.entries \in Seq(Ids) /\ h.index \in Nat /\ h.index <= Len(h.entries)
  BY DEF Histories
<1>2. None \notin Ids
  BY PanesAssumption
<1>3. h.index # 0 => h.entries[h.index] \in Ids
  BY <1>1
<1> QED
  BY <1>2, <1>3 DEF Selected

\* An event that does not touch the server or the files.
LEMMA GoneTo ==
  ASSUME PanesInv, NEW h \in Histories, Selected(h) \in Ids, Event, GoTo(h)
  PROVE  PanesInv'
<1>1. /\ UNCHANGED <<past, serving, documents, page, tree, sourceOpen, faults>> /\ history' = h
      /\ IF Selected(h) = Selected(history) THEN UNCHANGED <<reads, drawer>>
         ELSE /\ reads' = Append(reads, Read(Selected(h)))
              /\ drawer' = DrawerFor(Showing(page, Selected(h), sourceOpen), FALSE)
  BY DEF GoTo
<1>2. events' \in 0..MaxEvents /\ faults' \in 0..MaxEvents /\ faults' >= faults
  BY <1>1, NumbersAre DEF PanesInv
<1>3. tree' \in Trees /\ tree'.since \in 1..Now' /\ TreeIsCurrent' /\ Now' = Now
  BY <1>1, <1>2, TreeStays DEF Now
<1>4. history' \in [entries : Seq(Ids), index : Nat] /\ history'.index <= Len(history'.entries)
  BY <1>1 DEF Histories
<1>5. /\ reads' \in Seq(Reads) /\ ReadsFit' /\ LoadsFit' /\ documents' \in [Documents -> 0..Len(reads')]
      /\ drawer' \in Drawers /\ (drawer'.at # "closed" => drawer'.since \in 1..Now) /\ SourceIsCurrent'
      /\ DocumentIsCurrent'
  <2>1. CASE Selected(h) = Selected(history)
    <3>1. UNCHANGED <<reads, drawer>> /\ Selected(history') = Selected(history)
      BY <1>1, <2>1
    <3>2. DocumentIsCurrent'
      BY <1>1, <1>2, <3>1, DocumentStays
    <3> QED
      BY <1>1, <3>1, <3>2, ReadsStay, DrawerStays
  <2>2. CASE Selected(h) # Selected(history)
    <3>1. PICK id \in Ids : id = Selected(h)
      OBVIOUS
    <3>2. reads' = Append(reads, Read(id)) /\ drawer' = DrawerFor(Showing(page, id, sourceOpen), FALSE)
      BY <1>1, <2>2, <3>1
    <3>3. /\ reads' \in Seq(Reads) /\ ReadsFit' /\ LoadsFit' /\ documents' \in [Documents -> 0..Len(reads')]
          /\ reads' # <<>> /\ reads'[Len(reads')].id = id /\ reads'[Len(reads')].at = "entry"
      BY <1>1, <3>2, ReadBegins
    <3>4. DocumentIsCurrent'
      BY <1>1, <3>1, <3>3 DEF DocumentIsCurrent, Selected
    <3>5. PICK p : p = Showing(page, id, sourceOpen)
      OBVIOUS
    <3>6. p \in Paths \cup {None} /\ p = Showing(page', Selected(history'), sourceOpen')
      BY <1>1, <3>1, <3>5, ShowingIs DEF PanesInv, PanesTypeOK
    <3>7. drawer' \in Drawers /\ (drawer'.at # "closed" => drawer'.since \in 1..Now) /\ SourceIsCurrent'
      BY <1>1, <3>2, <3>5, <3>6, DrawerFollows
    <3> QED
      BY <3>3, <3>4, <3>7
  <2> QED
    BY <2>1, <2>2
<1>6. PanesTypeOK'
  BY <1>1, <1>2, <1>3, <1>4, <1>5 DEF PanesInv, PanesTypeOK
<1> QED
  BY <1>3, <1>5, <1>6 DEF PanesInv, PanesAreCurrent, SincesFit

LEMMA HistoryMoves ==
  ASSUME PanesInv, (\E id \in Ids : Select(id)) \/ Back \/ Forward
  PROVE  PanesInv'
<1>1. history \in Histories /\ history.entries \in Seq(Ids) /\ history.index \in Nat
      /\ history.index <= Len(history.entries)
      /\ history = [entries |-> history.entries, index |-> history.index]
  BY DEF PanesInv, PanesTypeOK, Histories
<1>2. ASSUME NEW id \in Ids, Select(id) PROVE PanesInv'
  <2>1. PICK h : h = [entries |-> Append(SubSeq(history.entries, 1, history.index), id),
                      index |-> history.index + 1]
    OBVIOUS
  <2>2. SubSeq(history.entries, 1, history.index) \in Seq(Ids)
        /\ Len(SubSeq(history.entries, 1, history.index)) = history.index
    BY <1>1
  <2>3. PICK e \in Seq(Ids) : e = SubSeq(history.entries, 1, history.index)
    BY <2>2
  <2>4. h.entries = Append(e, id) /\ h.index = history.index + 1 /\ Len(e) = history.index
    BY <2>1, <2>2, <2>3
  <2>5. Append(e, id) \in Seq(Ids) /\ Len(Append(e, id)) = history.index + 1
        /\ Append(e, id)[history.index + 1] = id
    BY <2>3, <2>4
  <2>6. h \in Histories
    BY <1>1, <2>1, <2>3, <2>4, <2>5 DEF Histories
  <2>7. Selected(h) = id
    BY <1>1, <2>4, <2>5 DEF Selected
  <2>8. Event /\ GoTo(h)
    BY <1>2, <2>1 DEF Select
  <2> QED
    BY <2>6, <2>7, <2>8, GoneTo
<1>3. ASSUME NEW i \in 1..Len(history.entries), Event, GoTo([entries |-> history.entries, index |-> i])
      PROVE  PanesInv'
  <2>1. PICK h : h = [entries |-> history.entries, index |-> i]
    OBVIOUS
  <2>2. h \in Histories /\ h.index # 0
    BY <1>1, <2>1 DEF Histories
  <2>3. Selected(h) \in Ids
    BY <2>2, SelectedIs
  <2> QED
    BY <1>3, <2>1, <2>2, <2>3, GoneTo
<1>4. ASSUME Back PROVE PanesInv'
  <2>1. [history EXCEPT !.index = @ - 1] = [entries |-> history.entries, index |-> history.index - 1]
    BY <1>1
  <2>2. Event /\ GoTo([entries |-> history.entries, index |-> history.index - 1]) /\ history.index > 1
    BY <1>4, <2>1 DEF Back
  <2>3. history.index - 1 \in 1..Len(history.entries)
    BY <1>1, <2>2
  <2> QED
    BY <1>3, <2>2, <2>3
<1>5. ASSUME Forward PROVE PanesInv'
  <2>1. [history EXCEPT !.index = @ + 1] = [entries |-> history.entries, index |-> history.index + 1]
    BY <1>1
  <2>2. Event /\ GoTo([entries |-> history.entries, index |-> history.index + 1])
        /\ history.index < Len(history.entries)
    BY <1>5, <2>1 DEF Forward
  <2>3. history.index + 1 \in 1..Len(history.entries)
    BY <1>1, <2>2
  <2> QED
    BY <1>3, <2>2, <2>3
<1> QED
  BY <1>2, <1>4, <1>5

LEMMA WindowRefreshes ==
  ASSUME PanesInv, Refresh
  PROVE  PanesInv'
<1>1. /\ UNCHANGED <<past, serving, history, documents, page, sourceOpen, faults>> /\ Event
      /\ reads' = IF Selected(history) = None THEN reads ELSE Append(reads, Read(Selected(history)))
      /\ tree' = [Check(tree.view) EXCEPT !.failed = tree.failed /\ tree.view # None]
      /\ drawer' = DrawerFor(Showing(page, Selected(history), sourceOpen), TRUE)
  BY DEF Refresh
<1>2. events' \in 0..MaxEvents /\ faults' \in 0..MaxEvents /\ faults' >= faults
  BY <1>1, NumbersAre DEF PanesInv
<1>3. Selected(history) \in Ids \cup {None} /\ Now' = Now /\ Now \in Nat /\ Now >= 1
  BY <1>1, SelectedIs, PastIs DEF PanesInv, PanesTypeOK, Histories, Now
<1>4. /\ reads' \in Seq(Reads) /\ ReadsFit' /\ LoadsFit' /\ documents' \in [Documents -> 0..Len(reads')]
      /\ DocumentIsCurrent'
  <2>1. CASE Selected(history) = None
    <3>1. reads' = reads /\ Selected(history') = Selected(history)
      BY <1>1, <2>1
    <3> QED
      BY <1>1, <1>2, <3>1, ReadsStay, DocumentStays
  <2>2. CASE Selected(history) # None
    <3>1. PICK id \in Ids : id = Selected(history)
      BY <1>3, <2>2
    <3>2. reads' = Append(reads, Read(id))
      BY <1>1, <2>2, <3>1
    <3>3. /\ reads' \in Seq(Reads) /\ ReadsFit' /\ LoadsFit' /\ documents' \in [Documents -> 0..Len(reads')]
          /\ reads' # <<>> /\ reads'[Len(reads')].id = id /\ reads'[Len(reads')].at = "entry"
      BY <1>1, <3>2, ReadBegins
    <3>4. DocumentIsCurrent'
      BY <1>1, <3>1, <3>3 DEF DocumentIsCurrent, Selected
    <3> QED
      BY <3>3, <3>4
  <2> QED
    BY <2>1, <2>2
<1>5. /\ tree' \in Trees /\ tree'.since \in 1..Now /\ TreeIsCurrent'
  <2>1. PICK f \in BOOLEAN : f = (tree.failed /\ tree.view # None)
    OBVIOUS
  <2>2. tree' = [view |-> tree.view, failed |-> f, at |-> "sent", since |-> Now]
    BY <1>1, <2>1 DEF Check
  <2>3. tree.view \in [Ids -> EntryViews] \cup {None}
    BY DEF PanesInv, PanesTypeOK, Trees
  <2>4. tree' \in Trees /\ tree'.since = Now /\ tree'.at = "sent" /\ tree'.failed = f
    BY <1>3, <2>2, <2>3 DEF Trees
  <2>5. f => faults > 0
    BY <2>1 DEF PanesInv, PanesAreCurrent, TreeIsCurrent
  <2> QED
    BY <1>1, <1>3, <2>4, <2>5 DEF TreeIsCurrent
<1>6. drawer' \in Drawers /\ (drawer'.at # "closed" => drawer'.since \in 1..Now) /\ SourceIsCurrent'
  <2>1. PICK p : p = Showing(page, Selected(history), sourceOpen)
    OBVIOUS
  <2>2. p \in Paths \cup {None} /\ p = Showing(page', Selected(history'), sourceOpen')
    BY <1>1, <2>1, ShowingIs DEF PanesInv, PanesTypeOK
  <2> QED
    BY <1>1, <2>1, <2>2, DrawerFollows
<1>7. PanesTypeOK'
  BY <1>1, <1>2, <1>3, <1>4, <1>5, <1>6 DEF PanesInv, PanesTypeOK
<1> QED
  BY <1>3, <1>4, <1>5, <1>6, <1>7 DEF PanesInv, PanesAreCurrent, SincesFit

LEMMA PanesBeginAnew ==
  ASSUME PanesInv, BeginAnew, Event, serving' \in BOOLEAN, sourceOpen' \in BOOLEAN
  PROVE  PanesInv'
<1>1. /\ UNCHANGED <<past, history, faults>> /\ documents' = [p \in Documents |-> 0] /\ page' = None
      /\ reads' = IF Selected(history) = None THEN <<>> ELSE <<Read(Selected(history))>>
      /\ tree' = Check(None) /\ drawer' = Closed
  BY DEF BeginAnew
<1>2. events' \in 0..MaxEvents /\ faults' \in 0..MaxEvents
  BY <1>1, NumbersAre DEF PanesInv
<1>3. Selected(history) \in Ids \cup {None} /\ Now' = Now /\ Now \in Nat /\ Now >= 1
      /\ Selected(history)' = Selected(history)
  BY <1>1, SelectedIs, PastIs DEF PanesInv, PanesTypeOK, Histories, Now, Selected
<1>4. /\ reads' \in Seq(Reads) /\ ReadsFit' /\ DocumentIsCurrent' /\ Len(reads') \in Nat
  <2>1. CASE Selected(history) = None
    <3>1. reads' = <<>>
      BY <1>1, <2>1
    <3> QED
      BY <3>1 DEF ReadsFit, DocumentIsCurrent
  <2>2. CASE Selected(history) # None
    <3>1. PICK id \in Ids : id = Selected(history)
      BY <1>3, <2>2
    <3>2. PICK r \in Reads : r = Read(id) /\ r.id = id /\ r.at = "entry" /\ r.since = Now /\ ReadFits(r)
      BY NewReadFits DEF PanesInv
    <3>3. reads' = <<r>>
      BY <1>1, <2>2, <3>1, <3>2
    <3>4. reads' \in Seq(Reads) /\ Len(reads') = 1 /\ DOMAIN reads' = {1} /\ reads'[1] = r /\ reads' # <<>>
      BY <3>3
    <3>5. r.since \in 1..Now' /\ r.sent \in r.since..Now'
      BY <1>3, <3>2 DEF ReadFits
    <3>6. ReadFits(r)'
      BY <3>2, <3>5 DEF ReadFits
    <3>7. ReadsFit'
      BY <3>4, <3>6 DEF ReadsFit
    <3>8. DocumentIsCurrent'
      BY <1>3, <3>1, <3>2, <3>4 DEF DocumentIsCurrent
    <3> QED
      BY <3>4, <3>7, <3>8
  <2> QED
    BY <2>1, <2>2
<1>5. documents' \in [Documents -> 0..Len(reads')] /\ LoadsFit'
  BY <1>1, <1>4 DEF LoadsFit
<1>6. tree' \in Trees /\ tree'.since = Now /\ TreeIsCurrent'
  <2>1. tree' = [view |-> None, failed |-> FALSE, at |-> "sent", since |-> Now]
    BY <1>1 DEF Check
  <2> QED
    BY <1>3, <2>1 DEF Trees, TreeIsCurrent
<1>7. drawer' \in Drawers /\ drawer'.at = "closed" /\ SourceIsCurrent'
  <2>1. drawer' = [path |-> None, at |-> "closed", since |-> 0, text |-> None]
    BY <1>1 DEF Closed
  <2> QED
    BY <1>1, <2>1 DEF Drawers, SourceIsCurrent, Showing
<1>8. PanesTypeOK'
  BY <1>1, <1>2, <1>3, <1>4, <1>5, <1>6, <1>7 DEF PanesInv, PanesTypeOK
<1> QED
  BY <1>3, <1>4, <1>5, <1>6, <1>7, <1>8 DEF PanesInv, PanesAreCurrent, SincesFit

LEMMA PanesReturn ==
  ASSUME PanesInv, Reopen \/ Return
  PROVE  PanesInv'
<1>1. BeginAnew /\ Event /\ serving' \in BOOLEAN /\ sourceOpen' \in BOOLEAN
  BY DEF PanesInv, PanesTypeOK, Reopen, Return
<1> QED
  BY <1>1, PanesBeginAnew

LEMMA SourceIsToggled ==
  ASSUME PanesInv, ToggleSource
  PROVE  PanesInv'
<1>1. /\ UNCHANGED <<past, serving, history, documents, reads, page, tree, faults>> /\ Event
      /\ sourceOpen' = ~sourceOpen
      /\ drawer' = DrawerFor(Showing(page, Selected(history), ~sourceOpen), FALSE)
  BY DEF ToggleSource
<1>2. events' \in 0..MaxEvents /\ faults' \in 0..MaxEvents /\ faults' >= faults
  BY <1>1, NumbersAre DEF PanesInv
<1>3. reads' \in Seq(Reads) /\ ReadsFit' /\ LoadsFit' /\ documents' \in [Documents -> 0..Len(reads')]
  BY <1>1, ReadsStay
<1>4. DocumentIsCurrent'
  BY <1>1, <1>2, DocumentStays
<1>5. tree' \in Trees /\ tree'.since \in 1..Now' /\ TreeIsCurrent' /\ Now' = Now
  BY <1>1, <1>2, TreeStays DEF Now
<1>6. drawer' \in Drawers /\ (drawer'.at # "closed" => drawer'.since \in 1..Now) /\ SourceIsCurrent'
  <2>1. PICK p : p = Showing(page, Selected(history), ~sourceOpen)
    OBVIOUS
  <2>2. p \in Paths \cup {None} /\ p = Showing(page', Selected(history'), sourceOpen')
    BY <1>1, <2>1, ShowingIs DEF PanesInv, PanesTypeOK
  <2> QED
    BY <1>1, <2>1, <2>2, DrawerFollows
<1>7. sourceOpen' \in BOOLEAN
  BY <1>1
<1>8. PanesTypeOK'
  BY <1>1, <1>2, <1>3, <1>5, <1>6, <1>7 DEF PanesInv, PanesTypeOK
<1> QED
  BY <1>3, <1>4, <1>5, <1>6, <1>8 DEF PanesInv, PanesAreCurrent, SincesFit

-------------------------------------------------------------------------------
(***************************************************************************)
(* The answers to the reads of the document pane.                          *)
(***************************************************************************)
\* What an answer leaves alone, and what holds of it all the same.
LEMMA AnswerLeaves ==
  ASSUME PanesInv, UNCHANGED <<past, serving, history, tree, sourceOpen, events>>,
         faults' \in 0..MaxEvents, faults' >= faults,
         reads' \in Seq(Reads), ReadsFit', LoadsFit', documents' \in [Documents -> 0..Len(reads')],
         page' \in Pages \cup {None}, DocumentIsCurrent',
         drawer' \in Drawers, drawer'.at # "closed" => drawer'.since \in 1..Now, SourceIsCurrent'
  PROVE  PanesInv'
<1>1. tree' \in Trees /\ tree'.since \in 1..Now' /\ TreeIsCurrent' /\ Now' = Now
  BY TreeStays DEF Now
<1>2. PanesTypeOK'
  BY <1>1 DEF PanesInv, PanesTypeOK
<1> QED
  BY <1>1, <1>2 DEF PanesInv, PanesAreCurrent, SincesFit

\* A read that goes on to another request shows nothing yet.
LEMMA NothingShown ==
  ASSUME PanesInv, NEW n \in DOMAIN reads, NEW r \in Reads, reads' = [reads EXCEPT ![n] = r],
         UNCHANGED <<past, serving, history, tree, sourceOpen, events, page, drawer>>,
         faults' \in 0..MaxEvents, faults' >= faults,
         r.id = reads[n].id, r.since = reads[n].since, r.at \notin {"entry", "shown"}, ReadFits(r),
         HasLoad(n) => r.at # "previous" /\ r.load \in LoadStates,
         r.at = "previous" => reads[n].at = "entry",
         documents' \in [Documents -> 0..Len(reads)],
         \A p \in Documents : \/ documents'[p] \in {0, documents[p]}
                              \/ documents'[p] = n /\ r.at # "previous" /\ r.load \in LoadStates
  PROVE  PanesInv'
<1>1. /\ reads' \in Seq(Reads) /\ ReadsFit' /\ LoadsFit' /\ documents' \in [Documents -> 0..Len(reads')]
      /\ Len(reads') = Len(reads) /\ reads'[n] = r
      /\ \A m \in DOMAIN reads : m # n => reads'[m] = reads[m]
  BY ReadGoesOn
<1>2. faults' \in Nat
  BY NumbersAre DEF PanesInv
<1>3. DocumentIsCurrent'
  BY <1>1, <1>2, DocumentFollows
<1>4. drawer' \in Drawers /\ (drawer'.at # "closed" => drawer'.since \in 1..Now) /\ SourceIsCurrent'
  BY DrawerStays
<1>5. page' \in Pages \cup {None}
  BY DEF PanesInv, PanesTypeOK
<1> QED
  BY <1>1, <1>3, <1>4, <1>5, AnswerLeaves

\* A read that has ended shows what it has brought.
LEMMA SomethingShown ==
  ASSUME PanesInv, NEW n \in DOMAIN reads, NEW r \in Reads, reads' = [reads EXCEPT ![n] = r],
         UNCHANGED <<past, serving, history, tree, sourceOpen, events>>,
         faults' \in 0..MaxEvents, faults' >= faults,
         r.id = reads[n].id, r.since = reads[n].since, r.at = "shown", ReadFits(r),
         HasLoad(n) => r.load \in LoadStates,
         documents' \in [Documents -> 0..Len(reads)],
         \A p \in Documents : documents'[p] \in {0, documents[p]},
         NEW what \in Pages, Shows(n, what), PageFits(what, r)'
  PROVE  PanesInv'
<1>1. /\ reads' \in Seq(Reads) /\ ReadsFit' /\ LoadsFit' /\ documents' \in [Documents -> 0..Len(reads')]
      /\ Len(reads') = Len(reads) /\ reads'[n] = r
      /\ \A m \in DOMAIN reads : m # n => reads'[m] = reads[m]
  BY ReadGoesOn
<1>2. /\ page' \in Pages \cup {None} /\ DocumentIsCurrent'
      /\ drawer' \in Drawers /\ (drawer'.at # "closed" => drawer'.since \in 1..Now) /\ SourceIsCurrent'
  BY <1>1, ReadEnds
<1> QED
  BY <1>1, <1>2, AnswerLeaves

\* An answer that ends the read without a reading.
LEMMA EndedWithout ==
  ASSUME PanesInv, NEW n \in DOMAIN reads, NEW got \in {NotFound, Failed, Network},
         NEW load \in LoadStates \cup {None}, EndsWithout(n, got, load),
         UNCHANGED <<past, serving, history, tree, sourceOpen, events>>,
         faults' \in 0..MaxEvents, faults' >= faults, got = Failed => faults' > 0,
         got = NotFound => \E d \in SinceThen(reads[n].since) : d.place[reads[n].id] = Gone,
         HasLoad(n) => load \in LoadStates,
         documents' \in [Documents -> 0..Len(reads)],
         \A p \in Documents : documents'[p] \in {0, documents[p]}
  PROVE  PanesInv'
<1>1. PICK q \in Reads : /\ q = reads[n] /\ ReadFits(q) /\ q.id \in Ids
                         /\ q.since \in 1..Now /\ q.sent \in q.since..Now
  BY ReadIs
<1>2. PICK at \in {"lost", "shown"} : at = IF got = Network THEN "lost" ELSE "shown"
  OBVIOUS
<1>3. PICK r : r = [id |-> q.id, at |-> at, since |-> q.since, sent |-> q.sent, entry |-> q.entry,
                    before |-> q.before, cached |-> q.cached, load |-> load]
  OBVIOUS
<1>4. [q EXCEPT !.at = at, !.load = load] = r
  <2> DEFINE a == [q EXCEPT !.at = at]
             b == [a EXCEPT !.load = load]
  <2>1. [q EXCEPT !.at = at, !.load = load] = b
    OBVIOUS
  <2>2. a = [id |-> q.id, at |-> at, since |-> q.since, sent |-> q.sent, entry |-> q.entry,
             before |-> q.before, cached |-> q.cached, load |-> q.load]
    BY <1>1, ReadRecord
  <2> HIDE DEF a
  <2>3. b = r
    BY <1>3, <2>2
  <2> HIDE DEF b
  <2> QED
    BY <2>1, <2>3
<1>5. reads' = [reads EXCEPT ![n] = r]
  BY <1>1, <1>2, <1>4 DEF EndsWithout
<1>6. r \in Reads
  BY <1>1, <1>2, <1>3 DEF Reads
<1>7. r.id = q.id /\ r.since = q.since /\ r.at = at /\ r.load = load /\ r.sent = q.sent
  BY <1>3
<1>8. ReadFits(r)
  BY <1>1, <1>2, <1>7 DEF ReadFits
<1>9. CASE got = Network
  <2>1. at = "lost" /\ UNCHANGED <<page, drawer>>
    BY <1>2, <1>9 DEF EndsWithout
  <2> QED
    BY <1>1, <1>5, <1>6, <1>7, <1>8, <2>1, NothingShown
<1>10. CASE got # Network
  <2>1. PICK is \in {"gone", "failed"} : is = IF got = NotFound THEN "gone" ELSE "failed"
    OBVIOUS
  <2>2. PICK what : what = [id |-> q.id, is |-> is, entry |-> None, html |-> None, source |-> None]
    OBVIOUS
  <2>3. Shows(n, what) /\ at = "shown"
    BY <1>1, <1>2, <1>10, <2>1, <2>2 DEF EndsWithout
  <2>4. what \in Pages /\ what # None
    BY <1>1, <2>1, <2>2, PanesAssumption DEF Pages
  <2>5. what.id = r.id /\ what.is = is
    BY <1>7, <2>2
  <2>6. is = "failed" => faults' > 0
    BY <1>10, <2>1
  <2>7. is = "gone" => \E d \in SinceThen(r.since)' : d.place[r.id] = Gone
    BY <1>1, <1>7, <2>1 DEF SinceThen, Now
  <2>8. PageFits(what, r)'
    BY <2>1, <2>4, <2>5, <2>6, <2>7 DEF PageFits
  <2> QED
    BY <1>1, <1>5, <1>6, <1>7, <1>8, <2>3, <2>4, <2>8, SomethingShown
<1> QED
  BY <1>9, <1>10

\* A request is sent.
LEMMA AsksForIs ==
  ASSUME PanesInv, NEW n \in DOMAIN reads, NEW at
  PROVE  AsksFor(n, at) =
           [id |-> reads[n].id, at |-> at, since |-> reads[n].since, sent |-> Now,
            entry |-> reads[n].entry, before |-> reads[n].before, cached |-> reads[n].cached,
            load |-> reads[n].load]
<1>1. PICK q \in Reads : q = reads[n]
  BY ReadIs
<1> DEFINE a == [q EXCEPT !.at = at]
           b == [a EXCEPT !.sent = Now]
<1>2. AsksFor(n, at) = b
  BY <1>1 DEF AsksFor
<1>3. a = [id |-> q.id, at |-> at, since |-> q.since, sent |-> q.sent, entry |-> q.entry,
           before |-> q.before, cached |-> q.cached, load |-> q.load]
  BY <1>1, ReadRecord
<1> HIDE DEF a
<1>4. b = [id |-> q.id, at |-> at, since |-> q.since, sent |-> Now, entry |-> q.entry,
           before |-> q.before, cached |-> q.cached, load |-> q.load]
  BY <1>3
<1> HIDE DEF b
<1> QED
  BY <1>1, <1>2, <1>4

\* The document of an entry is asked for.
LEMMA DocumentIsAskedFor ==
  ASSUME PanesInv, NEW n \in DOMAIN reads, NEW entry \in EntryViews, NEW cached \in DocumentViews \cup {None},
         entry.place \in Documents, \E d \in SinceThen(reads[n].since) : entry = EntryView(d, reads[n].id),
         Loads(n, entry, cached), faults' \in 0..MaxEvents, faults' >= faults,
         UNCHANGED <<past, serving, history, tree, sourceOpen, events, page, drawer>>
  PROVE  PanesInv'
<1>1. PICK q \in Reads : /\ q = reads[n] /\ ReadFits(q) /\ q.id \in Ids
                         /\ q.since \in 1..Now /\ q.sent \in q.since..Now /\ Now \in Nat
  BY ReadIs
<1>2. PICK a : a = AsksFor(n, "document")
  OBVIOUS
<1>3. a = [id |-> q.id, at |-> "document", since |-> q.since, sent |-> Now,
           entry |-> q.entry, before |-> q.before, cached |-> q.cached, load |-> q.load]
  BY <1>1, <1>2, AsksForIs
<1>4. PICK r : r = [id |-> q.id, at |-> "document", since |-> q.since, sent |-> Now,
                    entry |-> entry, before |-> q.before, cached |-> cached, load |-> Loading]
  OBVIOUS
<1>5. [a EXCEPT !.entry = entry, !.cached = cached, !.load = Loading] = r
  <2> DEFINE b == [a EXCEPT !.entry = entry]
             c == [b EXCEPT !.cached = cached]
             e == [c EXCEPT !.load = Loading]
  <2>1. [a EXCEPT !.entry = entry, !.cached = cached, !.load = Loading] = e
    OBVIOUS
  <2>2. b = [id |-> q.id, at |-> "document", since |-> q.since, sent |-> Now,
             entry |-> entry, before |-> q.before, cached |-> q.cached, load |-> q.load]
    BY <1>3
  <2> HIDE DEF b
  <2>3. c = [id |-> q.id, at |-> "document", since |-> q.since, sent |-> Now,
             entry |-> entry, before |-> q.before, cached |-> cached, load |-> q.load]
    BY <2>2
  <2> HIDE DEF c
  <2>4. e = r
    BY <1>4, <2>3
  <2> HIDE DEF e
  <2> QED
    BY <2>1, <2>4
<1>6. reads' = [reads EXCEPT ![n] = r] /\ documents' = [documents EXCEPT ![entry.place] = n]
  BY <1>2, <1>5 DEF Loads
<1>7. r \in Reads
  BY <1>1, <1>4 DEF Reads, LoadStates
<1>8. /\ r.id = q.id /\ r.since = q.since /\ r.sent = Now /\ r.at = "document" /\ r.entry = entry
      /\ r.load = Loading /\ r.load \in LoadStates
  BY <1>4 DEF LoadStates
<1>9. ReadFits(r)
  BY <1>1, <1>8 DEF ReadFits, EntryRead
<1>10. /\ documents' \in [Documents -> 0..Len(reads)]
       /\ \A p \in Documents : documents'[p] = documents[p] \/ documents'[p] = n
  <2>1. documents \in [Documents -> 0..Len(reads)] /\ n \in 0..Len(reads)
    BY ReadIs DEF PanesInv, PanesTypeOK
  <2> QED
    BY <1>6, <2>1
<1> QED
  BY <1>1, <1>6, <1>7, <1>8, <1>9, <1>10, NothingShown

LEMMA EntryHasArrived ==
  ASSUME PanesInv, NEW n \in DOMAIN reads, NEW got, EntryArrives(n, got)
  PROVE  PanesInv'
<1>1. PICK q \in Reads : /\ q = reads[n] /\ ReadFits(q) /\ q.id \in Ids
                         /\ q.since \in 1..Now /\ q.sent \in q.since..Now /\ Now \in Nat
  BY ReadIs
<1>2. /\ q.at = "entry" /\ Arrives(got, EntryAnswers(reads[n].sent, reads[n].id))
      /\ UNCHANGED <<past, serving, history, tree, sourceOpen, events>>
  BY <1>1 DEF EntryArrives
<1>3. /\ faults' \in 0..MaxEvents /\ faults' >= faults
      /\ got.is = "ok" => /\ got.view \in EntryViews
                          /\ \E d \in SinceThen(reads[n].since) : got.view = EntryView(d, reads[n].id)
      /\ got = NotFound => \E d \in SinceThen(reads[n].since) : d.place[reads[n].id] = Gone
      /\ got.is # "ok" => got \in {NotFound, Failed, Network}
      /\ got = Failed => faults' > 0
  BY <1>2, EntryArrived
<1>4. ~HasLoad(n)
  BY <1>1, <1>2 DEF HasLoad
<1>5. documents \in [Documents -> 0..Len(reads)]
  BY DEF PanesInv, PanesTypeOK
<1>6. CASE got.is # "ok"
  <2>1. EndsWithout(n, got, None) /\ documents' = documents
    BY <1>6 DEF EntryArrives
  <2>2. got \in {NotFound, Failed, Network}
    BY <1>3, <1>6
  <2>3. None \in LoadStates \cup {None}
    OBVIOUS
  <2> QED
    BY <1>2, <1>3, <1>4, <1>5, <2>1, <2>2, <2>3, EndedWithout
<1>7. CASE got.is = "ok"
  <2>1. PICK v \in EntryViews : v = got.view /\ \E d \in SinceThen(q.since) : v = EntryView(d, q.id)
    BY <1>1, <1>3, <1>7
  <2>2. UNCHANGED <<page, drawer>>
    BY <1>7 DEF EntryArrives
  <2>3. CASE v.place \notin Documents
    <3>1. PICK a : a = AsksFor(n, "html")
      OBVIOUS
    <3>2. a = [id |-> q.id, at |-> "html", since |-> q.since, sent |-> Now,
               entry |-> q.entry, before |-> q.before, cached |-> q.cached, load |-> q.load]
      BY <1>1, <3>1, AsksForIs
    <3>3. PICK r : r = [id |-> q.id, at |-> "html", since |-> q.since, sent |-> Now,
                        entry |-> v, before |-> q.before, cached |-> q.cached, load |-> q.load]
      OBVIOUS
    <3>4. [a EXCEPT !.entry = v] = r
      BY <3>2, <3>3
    <3>5. reads' = [reads EXCEPT ![n] = r] /\ documents' = documents
      BY <1>7, <2>1, <2>3, <3>1, <3>4 DEF EntryArrives
    <3>6. r \in Reads
      BY <1>1, <2>1, <3>3 DEF Reads
    <3>7. r.id = q.id /\ r.since = q.since /\ r.sent = Now /\ r.at = "html" /\ r.entry = v
      BY <3>3
    <3>8. ReadFits(r)
      <4>1. r.since \in 1..Now /\ r.sent \in r.since..Now
        BY <1>1, <3>7
      <4>2. EntryRead(r)
        BY <2>1, <3>7 DEF EntryRead
      <4> QED
        BY <3>7, <4>1, <4>2 DEF ReadFits
    <3> QED
      BY <1>1, <1>2, <1>3, <1>4, <1>5, <2>2, <3>5, <3>6, <3>7, <3>8, NothingShown
  <2>4. CASE v.place \in Documents /\ documents[v.place] = 0
    <3>1. Loads(n, v, None)
      BY <1>7, <2>1, <2>4 DEF EntryArrives
    <3> QED
      BY <1>1, <1>2, <1>3, <2>1, <2>2, <2>4, <3>1, DocumentIsAskedFor
  <2>5. CASE v.place \in Documents /\ documents[v.place] # 0
    <3>1. PICK m \in Nat : m = documents[v.place] /\ HasLoad(m)
      BY <1>5, <2>5, ReadIs DEF PanesInv, LoadsFit
    <3>2. PICK r : r = [id |-> q.id, at |-> "previous", since |-> q.since, sent |-> q.sent,
                        entry |-> v, before |-> m, cached |-> q.cached, load |-> q.load]
      OBVIOUS
    <3>3. [q EXCEPT !.at = "previous", !.entry = v, !.before = m] = r
      <4> DEFINE a == [q EXCEPT !.at = "previous"]
                 b == [a EXCEPT !.entry = v]
                 c == [b EXCEPT !.before = m]
      <4>1. [q EXCEPT !.at = "previous", !.entry = v, !.before = m] = c
        OBVIOUS
      <4>2. a = [id |-> q.id, at |-> "previous", since |-> q.since, sent |-> q.sent,
                 entry |-> q.entry, before |-> q.before, cached |-> q.cached, load |-> q.load]
        BY <1>1, ReadRecord
      <4> HIDE DEF a
      <4>3. b = [id |-> q.id, at |-> "previous", since |-> q.since, sent |-> q.sent,
                 entry |-> v, before |-> q.before, cached |-> q.cached, load |-> q.load]
        BY <4>2
      <4> HIDE DEF b
      <4>4. c = r
        BY <3>2, <4>3
      <4> HIDE DEF c
      <4> QED
        BY <4>1, <4>4
    <3>4. reads' = [reads EXCEPT ![n] = r] /\ documents' = documents
      BY <1>1, <1>7, <2>1, <2>5, <3>1, <3>3 DEF EntryArrives
    <3>5. r \in Reads
      BY <1>1, <2>1, <3>1, <3>2 DEF Reads
    <3>6. /\ r.id = q.id /\ r.since = q.since /\ r.sent = q.sent /\ r.at = "previous" /\ r.entry = v
          /\ r.before = m
      BY <3>2
    <3>7. ReadFits(r)
      <4>1. r.since \in 1..Now /\ r.sent \in r.since..Now
        BY <1>1, <3>6
      <4>2. EntryRead(r)
        BY <2>1, <3>6 DEF EntryRead
      <4>3. HasLoad(r.before)
        BY <3>1, <3>6
      <4> QED
        BY <2>5, <3>6, <4>1, <4>2, <4>3 DEF ReadFits
    <3> QED
      BY <1>1, <1>2, <1>3, <1>4, <1>5, <2>2, <3>4, <3>5, <3>6, <3>7, NothingShown
  <2> QED
    BY <2>3, <2>4, <2>5
<1> QED
  BY <1>6, <1>7

LEMMA PreviousHasEnded ==
  ASSUME PanesInv, NEW n \in DOMAIN reads, PreviousEnds(n)
  PROVE  PanesInv'
<1>1. PICK q \in Reads : /\ q = reads[n] /\ ReadFits(q) /\ q.id \in Ids
                         /\ q.since \in 1..Now /\ q.sent \in q.since..Now /\ Now \in Nat
  BY ReadIs
<1>2. SinceThen(q.since) \subseteq Disks
  BY <1>1, ReadIs
<1>3. PICK l : l = reads[q.before].load
  OBVIOUS
<1>4. /\ q.at = "previous" /\ l # Loading /\ Loads(n, q.entry, l.view)
      /\ UNCHANGED <<past, serving, history, tree, sourceOpen, events, page, drawer, faults>>
  BY <1>1, <1>3 DEF PreviousEnds
<1>5. l \in LoadStates
  BY <1>1, <1>3, <1>4 DEF ReadFits, HasLoad
<1>6. l.view \in DocumentViews \cup {None}
  BY <1>4, <1>5, AnswerIs DEF LoadStates
<1>7. PICK v : v = q.entry
  OBVIOUS
<1>8. v.place \in Documents /\ \E d \in SinceThen(q.since) : v = EntryView(d, q.id)
  BY <1>1, <1>4, <1>7 DEF ReadFits, EntryRead
<1>9. v \in EntryViews
  BY <1>1, <1>2, <1>8, ViewsAre
<1>10. faults' \in 0..MaxEvents /\ faults' >= faults
  BY <1>4, NumbersAre DEF PanesInv
<1>11. PICK w \in DocumentViews \cup {None} : w = l.view
  BY <1>6
<1>12. Loads(n, v, w)
  BY <1>4, <1>7, <1>11
<1> QED
  BY <1>1, <1>4, <1>8, <1>9, <1>10, <1>11, <1>12, DocumentIsAskedFor

LEMMA DocumentHasArrived ==
  ASSUME PanesInv, NEW n \in DOMAIN reads, NEW got, DocumentArrives(n, got)
  PROVE  PanesInv'
<1>1. PICK q \in Reads : /\ q = reads[n] /\ ReadFits(q) /\ q.id \in Ids
                         /\ q.since \in 1..Now /\ q.sent \in q.since..Now /\ Now \in Nat
  BY ReadIs
<1>2. PICK path : path = q.entry.place
  OBVIOUS
<1>3. /\ q.at = "document" /\ Arrives(got, DocumentAnswers(reads[n].sent, path))
      /\ UNCHANGED <<past, serving, history, tree, sourceOpen, events>>
  BY <1>1, <1>2 DEF DocumentArrives
<1>4. path \in Documents /\ path \in Paths /\ EntryRead(q)
  BY <1>1, <1>2, <1>3 DEF ReadFits, Paths
<1>5. /\ faults' \in 0..MaxEvents /\ faults' >= faults
      /\ got.is = "ok" => /\ got.view \in DocumentViews
                          /\ \E d, g \in SinceThen(reads[n].since) : got.view = DocumentView(g, d, path)
  BY <1>3, <1>4, DocumentArrived
<1>6. documents \in [Documents -> 0..Len(reads)]
  BY DEF PanesInv, PanesTypeOK
<1>7. CASE got.is = "ok"
  <2>1. PICK v \in DocumentViews : v = got.view
                                   /\ \E d, g \in SinceThen(q.since) : v = DocumentView(g, d, path)
    BY <1>1, <1>5, <1>7
  <2>2. PICK answer : answer = Conditional(got, q.cached)
    OBVIOUS
  <2>3. (IF answer.is = "notModified" THEN q.cached ELSE answer.view) = v
    <3>1. CASE q.cached # None /\ Tag(q.cached) = Tag(v)
      <4>1. answer.is = "notModified"
        BY <1>7, <2>1, <2>2, <3>1 DEF Conditional
      <4>2. q.cached \in DocumentViews
        BY <1>1, <3>1 DEF Reads
      <4>3. q.cached = v
        BY <3>1, <4>2, TagIsView
      <4> QED
        BY <4>1, <4>3
    <3>2. CASE ~(q.cached # None /\ Tag(q.cached) = Tag(v))
      <4>1. answer = got
        BY <2>1, <2>2, <3>2 DEF Conditional
      <4> QED
        BY <1>7, <2>1, <4>1
    <3> QED
      BY <3>1, <3>2
  <2>4. PICK load \in LoadStates : load = Ok(v)
    BY <2>1 DEF LoadStates, Ok
  <2>5. PICK r : r = [id |-> q.id, at |-> "shown", since |-> q.since, sent |-> q.sent,
                      entry |-> q.entry, before |-> 0, cached |-> None, load |-> load]
    OBVIOUS
  <2>6. [q EXCEPT !.at = "shown", !.before = 0, !.cached = None, !.load = load] = r
    <3> DEFINE a == [q EXCEPT !.at = "shown"]
               b == [a EXCEPT !.before = 0]
               c == [b EXCEPT !.cached = None]
               e == [c EXCEPT !.load = load]
    <3>1. [q EXCEPT !.at = "shown", !.before = 0, !.cached = None, !.load = load] = e
      OBVIOUS
    <3>2. a = [id |-> q.id, at |-> "shown", since |-> q.since, sent |-> q.sent,
               entry |-> q.entry, before |-> q.before, cached |-> q.cached, load |-> q.load]
      BY <1>1, ReadRecord
    <3> HIDE DEF a
    <3>3. b = [id |-> q.id, at |-> "shown", since |-> q.since, sent |-> q.sent,
               entry |-> q.entry, before |-> 0, cached |-> q.cached, load |-> q.load]
      BY <3>2
    <3> HIDE DEF b
    <3>4. c = [id |-> q.id, at |-> "shown", since |-> q.since, sent |-> q.sent,
               entry |-> q.entry, before |-> 0, cached |-> None, load |-> q.load]
      BY <3>3
    <3> HIDE DEF c
    <3>5. e = r
      BY <2>5, <3>4
    <3> HIDE DEF e
    <3> QED
      BY <3>1, <3>5
  <2>7. reads' = [reads EXCEPT ![n] = r] /\ documents' = documents /\ ShowsReading(n, v, path)
    BY <1>1, <1>2, <1>7, <2>2, <2>3, <2>4, <2>6 DEF DocumentArrives
  <2>8. r \in Reads
    BY <1>1, <2>4, <2>5 DEF Reads
  <2>9. /\ r.id = q.id /\ r.since = q.since /\ r.sent = q.sent /\ r.at = "shown" /\ r.load = load
    BY <2>5
  <2>10. ReadFits(r)
    BY <1>1, <2>9 DEF ReadFits
  <2>11. PICK what : what = [id |-> q.id, is |-> "reading", entry |-> q.entry, html |-> v, source |-> path]
    OBVIOUS
  <2>12. Shows(n, what)
    BY <1>1, <2>7, <2>11 DEF ShowsReading
  <2>13. what \in Pages /\ what # None
    BY <1>1, <1>4, <2>1, <2>11, PanesAssumption DEF Pages, Reads
  <2>14. what.id = r.id /\ what.is = "reading" /\ what.entry = q.entry /\ what.html = v /\ what.source = path
    BY <2>9, <2>11
  <2>15. \A s : SinceThen(s)' = SinceThen(s)
    BY <1>3 DEF SinceThen, Now
  <2>16. PageFits(what, r)'
    <3>1. \E d \in SinceThen(r.since)' : what.entry = EntryView(d, r.id)
      BY <1>4, <2>9, <2>14, <2>15 DEF EntryRead
    <3>2. \E d, g \in SinceThen(r.since)' : what.html = DocumentView(g, d, what.source)
      BY <2>1, <2>9, <2>14, <2>15
    <3> QED
      BY <1>4, <2>13, <2>14, <3>1, <3>2 DEF PageFits
  <2> QED
    BY <1>1, <1>3, <1>5, <1>6, <2>7, <2>8, <2>9, <2>10, <2>12, <2>13, <2>16, SomethingShown
<1>8. CASE got.is # "ok"
  <2>1. documents' = [documents EXCEPT ![path] = IF @ = n THEN 0 ELSE @]
    BY <1>1, <1>2, <1>8 DEF DocumentArrives
  <2>2. documents' \in [Documents -> 0..Len(reads)] /\ \A p \in Documents : documents'[p] \in {0, documents[p]}
    <3>1. 0 \in 0..Len(reads)
      BY ReadIs
    <3> QED
      BY <1>4, <1>6, <2>1, <3>1
  <2>3. CASE got = Network
    <3>1. EndsWithout(n, got, Failed)
      BY <1>8, <2>3 DEF DocumentArrives
    <3>2. Failed \in LoadStates /\ got \in {NotFound, Failed, Network} /\ got # Failed /\ got # NotFound
      BY <2>3, AnswerIs DEF LoadStates
    <3> QED
      BY <1>3, <1>5, <2>2, <3>1, <3>2, EndedWithout
  <2>4. CASE got # Network
    <3>1. PICK a : a = AsksFor(n, "html")
      OBVIOUS
    <3>2. a = [id |-> q.id, at |-> "html", since |-> q.since, sent |-> Now,
               entry |-> q.entry, before |-> q.before, cached |-> q.cached, load |-> q.load]
      BY <1>1, <3>1, AsksForIs
    <3>3. PICK r : r = [id |-> q.id, at |-> "html", since |-> q.since, sent |-> Now,
                        entry |-> q.entry, before |-> q.before, cached |-> q.cached, load |-> Failed]
      OBVIOUS
    <3>4. [a EXCEPT !.load = Failed] = r
      BY <3>2, <3>3
    <3>5. reads' = [reads EXCEPT ![n] = r] /\ UNCHANGED <<page, drawer>>
      BY <1>8, <2>4, <3>1, <3>4 DEF DocumentArrives
    <3>6. r \in Reads /\ Failed \in LoadStates
      BY <1>1, <3>3 DEF Reads, LoadStates
    <3>7. /\ r.id = q.id /\ r.since = q.since /\ r.sent = Now /\ r.at = "html" /\ r.entry = q.entry
          /\ r.load = Failed
      BY <3>3
    <3>8. ReadFits(r)
      <4>1. r.since \in 1..Now /\ r.sent \in r.since..Now
        BY <1>1, <3>7
      <4>2. EntryRead(r)
        BY <1>4, <3>7 DEF EntryRead
      <4> QED
        BY <3>7, <4>1, <4>2 DEF ReadFits
    <3> QED
      BY <1>1, <1>3, <1>5, <2>2, <3>5, <3>6, <3>7, <3>8, NothingShown
  <2> QED
    BY <2>3, <2>4
<1> QED
  BY <1>7, <1>8

LEMMA HtmlHasArrived ==
  ASSUME PanesInv, NEW n \in DOMAIN reads, NEW got, HtmlArrives(n, got)
  PROVE  PanesInv'
<1>1. PICK q \in Reads : /\ q = reads[n] /\ ReadFits(q) /\ q.id \in Ids
                         /\ q.since \in 1..Now /\ q.sent \in q.since..Now /\ Now \in Nat
  BY ReadIs
<1>2. /\ q.at = "html" /\ Arrives(got, HtmlAnswers(reads[n].sent, reads[n].id))
      /\ UNCHANGED <<past, serving, history, documents, tree, sourceOpen, events>>
  BY <1>1 DEF HtmlArrives
<1>3. /\ faults' \in 0..MaxEvents /\ faults' >= faults
      /\ got.is = "ok" => /\ got.view \in HtmlViews
                          /\ \E d \in SinceThen(reads[n].since) : got.view = HtmlView(d, reads[n].id)
      /\ got = NotFound => \E d \in SinceThen(reads[n].since) : d.place[reads[n].id] = Gone
      /\ got.is # "ok" => got \in {NotFound, Failed, Network}
      /\ got = Failed => faults' > 0
  BY <1>2, HtmlArrived
<1>4. EntryRead(q)
  BY <1>1, <1>2 DEF ReadFits
<1>5. documents' \in [Documents -> 0..Len(reads)] /\ q.load \in LoadStates \cup {None}
  BY <1>1, <1>2 DEF PanesInv, PanesTypeOK, Reads
<1>6. HasLoad(n) => q.load \in LoadStates
  BY <1>1 DEF HasLoad
<1>7. CASE got.is # "ok"
  <2>1. PICK load \in LoadStates \cup {None} : load = q.load
    BY <1>5
  <2>2. EndsWithout(n, got, load)
    BY <1>1, <1>7, <2>1 DEF HtmlArrives
  <2>3. got \in {NotFound, Failed, Network}
    BY <1>3, <1>7
  <2> QED
    BY <1>2, <1>3, <1>5, <1>6, <2>1, <2>2, <2>3, EndedWithout
<1>8. CASE got.is = "ok"
  <2>1. PICK v \in HtmlViews : v = got.view /\ \E d \in SinceThen(q.since) : v = HtmlView(d, q.id)
    BY <1>1, <1>3, <1>8
  <2>2. PICK source : source = IF q.entry.place \in Sources THEN q.entry.place ELSE None
    OBVIOUS
  <2>3. source \in Paths \cup {None} /\ source \notin Documents
    BY <2>2, PanesAssumption DEF Paths
  <2>4. PICK r : r = [q EXCEPT !.at = "shown"]
    OBVIOUS
  <2>5. r = [id |-> q.id, at |-> "shown", since |-> q.since, sent |-> q.sent,
             entry |-> q.entry, before |-> q.before, cached |-> q.cached, load |-> q.load]
    BY <1>1, <2>4, ReadRecord
  <2>6. r \in Reads
    BY <1>1, <2>5 DEF Reads
  <2>7. r.id = q.id /\ r.since = q.since /\ r.sent = q.sent /\ r.at = "shown" /\ r.load = q.load
    BY <2>5
  <2>8. reads' = [reads EXCEPT ![n] = r] /\ ShowsReading(n, v, source)
    BY <1>1, <1>8, <2>1, <2>2, <2>4 DEF HtmlArrives
  <2>9. ReadFits(r)
    BY <1>1, <2>7 DEF ReadFits
  <2>10. PICK what : what = [id |-> q.id, is |-> "reading", entry |-> q.entry, html |-> v, source |-> source]
    OBVIOUS
  <2>11. Shows(n, what)
    BY <1>1, <2>8, <2>10 DEF ShowsReading
  <2>12. what \in Pages /\ what # None
    BY <1>1, <2>1, <2>3, <2>10, PanesAssumption DEF Pages, Reads
  <2>13. what.id = r.id /\ what.is = "reading" /\ what.entry = q.entry /\ what.html = v /\ what.source = source
    BY <2>7, <2>10
  <2>14. \A s : SinceThen(s)' = SinceThen(s)
    BY <1>2 DEF SinceThen, Now
  <2>15. PageFits(what, r)'
    <3>1. \E d \in SinceThen(r.since)' : what.entry = EntryView(d, r.id)
      BY <1>4, <2>7, <2>13, <2>14 DEF EntryRead
    <3>2. \E d \in SinceThen(r.since)' : what.html = HtmlView(d, r.id)
      BY <2>1, <2>7, <2>13, <2>14
    <3> QED
      BY <2>3, <2>12, <2>13, <3>1, <3>2 DEF PageFits
  <2>16. documents' = documents
    BY <1>2
  <2> QED
    BY <1>1, <1>2, <1>3, <1>5, <1>6, <2>6, <2>7, <2>8, <2>9, <2>11, <2>12, <2>15, <2>16, SomethingShown
<1> QED
  BY <1>7, <1>8

-------------------------------------------------------------------------------
(***************************************************************************)
(* The answers to the navigator and to the source drawer.                  *)
(***************************************************************************)
LEMMA TreeHasArrived ==
  ASSUME PanesInv, NEW got, TreeArrives(got)
  PROVE  PanesInv'
<1>1. /\ tree.at = "sent" /\ Arrives(got, TreeAnswers(tree.since))
      /\ tree' = IF got.is = "ok"
                   THEN [tree EXCEPT !.at = "current", !.view = got.view, !.failed = FALSE]
                 ELSE [tree EXCEPT !.at = "kept", !.failed = @ \/ (got = Failed /\ tree.view = None)]
      /\ UNCHANGED <<past, serving, history, documents, reads, page, drawer, sourceOpen, events>>
  BY DEF TreeArrives
<1>2. /\ faults' \in 0..MaxEvents /\ faults' >= faults /\ Now' = Now
      /\ got \in TreeAnswers(tree.since) \/ (got = Failed /\ faults' > 0) \/ got = Network
  BY <1>1, FaultsGrow DEF PanesInv, Now
<1>3. PICK q \in Trees : /\ q = tree /\ q.since \in 1..Now
                         /\ q = [view |-> q.view, failed |-> q.failed, at |-> q.at, since |-> q.since]
  BY DEF PanesInv, PanesTypeOK, SincesFit, Trees
<1>4. \A s : SinceThen(s)' = SinceThen(s) /\ GraphsSince(s) = SinceThen(s)
  BY <1>1 DEF SinceThen, GraphsSince, Now
<1>5. tree' \in Trees /\ tree'.since \in 1..Now /\ TreeIsCurrent'
  <2>1. CASE got.is = "ok"
    <3>1. got \in TreeAnswers(q.since)
      BY <1>2, <1>3, <2>1, AnswerIs
    <3>2. PICK d \in SinceThen(q.since) : got = Ok(TreeView(d))
      BY <1>4, <3>1 DEF TreeAnswers
    <3>3. PICK v : v = TreeView(d)
      OBVIOUS
    <3>4. got.view = v
      BY <3>2, <3>3, AnswerIs
    <3>5. TreeView(d) \in [Ids -> EntryViews]
      <4>1. d \in Disks
        BY <1>3, <3>2, PastIs DEF PanesInv
      <4>2. \A id \in Ids : EntryView(d, id) \in EntryViews
        BY <4>1, ViewsAre
      <4> QED
        BY <4>2 DEF TreeView
    <3>5a. PICK f \in BOOLEAN : f = FALSE
      OBVIOUS
    <3>6. tree' = [view |-> v, failed |-> f, at |-> "current", since |-> q.since]
      <4> DEFINE a == [q EXCEPT !.at = "current"]
                 b == [a EXCEPT !.view = v]
                 c == [b EXCEPT !.failed = f]
      <4>1. tree' = c
        BY <1>1, <1>3, <2>1, <3>4, <3>5a
      <4>2. a = [view |-> q.view, failed |-> q.failed, at |-> "current", since |-> q.since]
        BY <1>3
      <4> HIDE DEF a
      <4>3. b = [view |-> v, failed |-> q.failed, at |-> "current", since |-> q.since]
        BY <4>2
      <4> HIDE DEF b
      <4>4. c = [view |-> v, failed |-> f, at |-> "current", since |-> q.since]
        BY <4>3
      <4> HIDE DEF c
      <4> QED
        BY <4>1, <4>4
    <3>7. tree' \in Trees /\ tree'.since = q.since /\ tree'.view = v /\ ~tree'.failed
      BY <1>3, <3>3, <3>5, <3>5a, <3>6 DEF Trees
    <3>8. \E x \in SinceThen(q.since)' : tree'.view = TreeView(x)
      BY <1>4, <3>2, <3>3, <3>7
    <3> QED
      BY <1>3, <3>7, <3>8 DEF TreeIsCurrent
  <2>2. CASE got.is # "ok"
    <3>1. PICK f \in BOOLEAN : f = (q.failed \/ (got = Failed /\ q.view = None))
      OBVIOUS
    <3>2. tree' = [view |-> q.view, failed |-> f, at |-> "kept", since |-> q.since]
      <4> DEFINE a == [q EXCEPT !.at = "kept"]
                 b == [a EXCEPT !.failed = f]
      <4>1. tree' = [q EXCEPT !.at = "kept", !.failed = @ \/ (got = Failed /\ q.view = None)]
        BY <1>1, <1>3, <2>2
      <4>2. [q EXCEPT !.at = "kept", !.failed = @ \/ (got = Failed /\ q.view = None)] = b
        BY <3>1
      <4>3. a = [view |-> q.view, failed |-> q.failed, at |-> "kept", since |-> q.since]
        BY <1>3
      <4> HIDE DEF a
      <4>4. b = [view |-> q.view, failed |-> f, at |-> "kept", since |-> q.since]
        BY <4>3
      <4> HIDE DEF b
      <4> QED
        BY <4>1, <4>2, <4>4
    <3>3. q.failed \in BOOLEAN /\ q.view \in [Ids -> EntryViews] \cup {None} /\ q.since \in Nat
      BY DEF Trees
    <3>4. tree' \in Trees /\ tree'.since = q.since /\ tree'.at = "kept" /\ tree'.failed = f
      BY <3>1, <3>2, <3>3 DEF Trees
    <3>5. f => faults' > 0
      <4>1. q.failed => faults > 0
        BY <1>3 DEF PanesInv, PanesAreCurrent, TreeIsCurrent
      <4>2. MaxEvents \in Nat /\ faults \in 0..MaxEvents
        BY NumbersAre DEF PanesInv
      <4>3. faults > 0 => faults' > 0
        BY <1>2, <4>2
      <4>4. got = Failed => faults' > 0
        <5>1. \A x : Failed # Ok(x)
          BY AnswerIs
        <5>2. Failed # Network /\ Failed \notin TreeAnswers(q.since)
          BY <5>1, AnswerIs DEF TreeAnswers
        <5> QED
          BY <1>2, <1>3, <5>2
      <4> QED
        BY <3>1, <4>1, <4>3, <4>4
    <3> QED
      BY <1>3, <3>4, <3>5 DEF TreeIsCurrent
  <2> QED
    BY <2>1, <2>2
<1>6. reads' \in Seq(Reads) /\ ReadsFit' /\ LoadsFit' /\ documents' \in [Documents -> 0..Len(reads')]
  BY <1>1, ReadsStay
<1>7. DocumentIsCurrent'
  BY <1>1, <1>2, DocumentStays
<1>8. drawer' \in Drawers /\ (drawer'.at # "closed" => drawer'.since \in 1..Now) /\ SourceIsCurrent'
  BY <1>1, DrawerStays
<1>9. PanesTypeOK'
  BY <1>1, <1>2, <1>5, <1>6, <1>8 DEF PanesInv, PanesTypeOK
<1> QED
  BY <1>2, <1>5, <1>6, <1>7, <1>8, <1>9 DEF PanesInv, PanesAreCurrent, SincesFit

LEMMA SourceHasArrived ==
  ASSUME PanesInv, NEW got, SourceArrives(got)
  PROVE  PanesInv'
<1>1. /\ drawer.at = "sent" /\ Arrives(got, FileAnswers(drawer.since, drawer.path))
      /\ drawer' = IF got.is = "ok" THEN [drawer EXCEPT !.at = "shown", !.text = got.view]
                   ELSE [drawer EXCEPT !.at = "lost"]
      /\ UNCHANGED <<past, serving, history, documents, reads, page, tree, sourceOpen, events>>
  BY DEF SourceArrives
<1>2. /\ faults' \in 0..MaxEvents /\ faults' >= faults /\ Now' = Now
      /\ got \in FileAnswers(drawer.since, drawer.path) \/ got = Failed \/ got = Network
  BY <1>1, FaultsGrow DEF PanesInv, Now
<1>3. PICK q \in Drawers : /\ q = drawer /\ q.since \in 1..Now
                           /\ q = [path |-> q.path, at |-> q.at, since |-> q.since, text |-> q.text]
  BY <1>1 DEF PanesInv, PanesTypeOK, SincesFit, Drawers, Closed
<1>4. Now \in Nat /\ SinceThen(q.since) \subseteq Disks
  BY <1>3, PastIs DEF PanesInv
<1>5. q.path = Showing(page, Selected(history), sourceOpen)
  BY <1>3 DEF PanesInv, PanesAreCurrent, SourceIsCurrent
<1>6. Showing(page, Selected(history), sourceOpen)' = Showing(page, Selected(history), sourceOpen)
  BY <1>1 DEF Showing, Selected
<1>7. \A s : SinceThen(s)' = SinceThen(s)
  BY <1>1 DEF SinceThen, Now
<1>8. drawer' \in Drawers /\ drawer'.since \in 1..Now /\ SourceIsCurrent'
  <2>1. CASE got.is = "ok"
    <3>1. got \in FileAnswers(q.since, q.path)
      BY <1>2, <1>3, <2>1, AnswerIs
    <3>2. PICK m \in q.since..Now :
            \E n \in m..Now : got = IF IdsIn(past[m], q.path) = {} THEN NotFound ELSE Ok(past[n].text[q.path])
      BY <3>1 DEF FileAnswers
    <3>3. PICK n \in m..Now : got = IF IdsIn(past[m], q.path) = {} THEN NotFound ELSE Ok(past[n].text[q.path])
      BY <3>2
    <3>4. PICK d : d = past[n]
      OBVIOUS
    <3>5. n \in q.since..Now
      BY <1>3, <1>4
    <3>6. d \in SinceThen(q.since)
      BY <3>4, <3>5 DEF SinceThen
    <3>7. PICK v : v = d.text[q.path]
      OBVIOUS
    <3>8. got.view = v
      BY <2>1, <3>3, <3>4, <3>7, AnswerIs
    <3>9. drawer' = [path |-> q.path, at |-> "shown", since |-> q.since, text |-> v]
      <4> DEFINE a == [q EXCEPT !.at = "shown"]
                 b == [a EXCEPT !.text = v]
      <4>1. drawer' = b
        BY <1>1, <1>3, <2>1, <3>8
      <4>2. a = [path |-> q.path, at |-> "shown", since |-> q.since, text |-> q.text]
        BY <1>3
      <4> HIDE DEF a
      <4>3. b = [path |-> q.path, at |-> "shown", since |-> q.since, text |-> v]
        BY <4>2
      <4> HIDE DEF b
      <4> QED
        BY <4>1, <4>3
    <3>10. q.path \in Paths
      BY <1>1, <1>3 DEF Drawers, Closed
    <3>11. v \in Nat
      BY <1>4, <3>6, <3>7, <3>10 DEF Disks
    <3>12. drawer' \in Drawers /\ drawer'.since = q.since /\ drawer'.path = q.path /\ drawer'.text = v
      BY <1>3, <3>9, <3>10, <3>11 DEF Drawers
    <3>13. \E x \in SinceThen(q.since)' : v = x.text[q.path]
      BY <1>7, <3>6, <3>7
    <3> QED
      BY <1>3, <1>5, <1>6, <3>12, <3>13 DEF SourceIsCurrent
  <2>2. CASE got.is # "ok"
    <3>1. /\ q.path \in Paths /\ q.since \in Nat /\ q.text \in Nat \cup {None}
          /\ drawer' = [path |-> q.path, at |-> "lost", since |-> q.since, text |-> q.text]
      BY <1>1, <1>3, <2>2 DEF Drawers, Closed
    <3>2. drawer' \in Drawers /\ drawer'.since = q.since /\ drawer'.path = q.path /\ drawer'.at = "lost"
      BY <1>3, <3>1 DEF Drawers
    <3> QED
      BY <1>3, <1>5, <1>6, <3>2 DEF SourceIsCurrent
  <2> QED
    BY <2>1, <2>2
<1>9. reads' \in Seq(Reads) /\ ReadsFit' /\ LoadsFit' /\ documents' \in [Documents -> 0..Len(reads')]
  BY <1>1, ReadsStay
<1>10. DocumentIsCurrent'
  BY <1>1, <1>2, DocumentStays
<1>11. page' \in Pages \cup {None}
  BY <1>1 DEF PanesInv, PanesTypeOK
<1>12. drawer'.at # "closed" => drawer'.since \in 1..Now
  BY <1>8
<1> QED
  BY <1>1, <1>2, <1>8, <1>9, <1>10, <1>11, <1>12, AnswerLeaves

-------------------------------------------------------------------------------
LEMMA PanesOpen ==
  ASSUME PanesInit
  PROVE  PanesInv
<1>1. PICK places \in Placements : past = <<[place |-> places, text |-> [p \in Paths |-> 0]]>>
  BY DEF PanesInit
<1>2. places \in [Ids -> Places] /\ MaxWrites \in Nat /\ MaxEvents \in Nat
  BY PanesAssumption
<1>3. PICK d \in Disks : d = [place |-> places, text |-> [p \in Paths |-> 0]]
  BY <1>2 DEF Disks
<1>4. past \in Seq(Disks) /\ Now = 1 /\ Now \in 1..(MaxWrites + 1)
  BY <1>1, <1>2, <1>3 DEF Now
<1>5. /\ serving = TRUE /\ history = NoSelection /\ documents = [p \in Documents |-> 0]
      /\ reads = <<>> /\ page = None /\ tree = Check(None)
      /\ drawer = Closed /\ sourceOpen = FALSE /\ events = 0 /\ faults = 0
  BY DEF PanesInit
<1>6. history = [entries |-> <<>>, index |-> 0]
  BY <1>5 DEF NoSelection
<1>7. history \in [entries : Seq(Ids), index : Nat] /\ history.index <= Len(history.entries)
  BY <1>6
<1>8. reads \in Seq(Reads) /\ documents \in [Documents -> 0..Len(reads)]
  BY <1>5
<1>9. tree = [view |-> None, failed |-> FALSE, at |-> "sent", since |-> 1]
  BY <1>4, <1>5 DEF Check
<1>10. tree \in Trees /\ tree.since = 1 /\ TreeIsCurrent
  BY <1>9 DEF Trees, TreeIsCurrent
<1>11. drawer \in Drawers /\ drawer.at = "closed" /\ drawer.path = None
  BY <1>5 DEF Drawers, Closed
<1>12. PanesTypeOK
  <2>1. serving \in BOOLEAN /\ sourceOpen \in BOOLEAN /\ page \in Pages \cup {None}
    BY <1>5
  <2>2. events \in 0..MaxEvents /\ faults \in 0..MaxEvents
    BY <1>2, <1>5
  <2> QED
    BY <1>4, <1>7, <1>8, <1>10, <1>11, <2>1, <2>2 DEF PanesTypeOK
<1>13. ReadsFit /\ LoadsFit /\ SincesFit
  BY <1>4, <1>5, <1>10, <1>11 DEF ReadsFit, LoadsFit, SincesFit
<1>14. DocumentIsCurrent /\ SourceIsCurrent
  BY <1>5, <1>11 DEF DocumentIsCurrent, SourceIsCurrent, Showing
<1> QED
  BY <1>10, <1>12, <1>13, <1>14 DEF PanesInv, PanesAreCurrent

LEMMA PanesStep ==
  ASSUME PanesInv, [PanesNext]_panesVars
  PROVE  PanesInv'
<1>1. CASE WriteFile
  BY <1>1, FileIsWritten
<1>2. CASE Die
  BY <1>2, ServerDies
<1>3. CASE (\E id \in Ids : Select(id)) \/ Back \/ Forward
  BY <1>3, HistoryMoves
<1>4. CASE Refresh
  BY <1>4, WindowRefreshes
<1>5. CASE Reopen \/ Return
  BY <1>5, PanesReturn
<1>6. CASE ToggleSource
  BY <1>6, SourceIsToggled
<1>7. ASSUME NEW n \in DOMAIN reads, NEW got, EntryArrives(n, got) PROVE PanesInv'
  BY <1>7, EntryHasArrived
<1>8. ASSUME NEW n \in DOMAIN reads, NEW got, HtmlArrives(n, got) PROVE PanesInv'
  BY <1>8, HtmlHasArrived
<1>9. ASSUME NEW n \in DOMAIN reads, NEW got, DocumentArrives(n, got) PROVE PanesInv'
  BY <1>9, DocumentHasArrived
<1>10. ASSUME NEW n \in DOMAIN reads, PreviousEnds(n) PROVE PanesInv'
  BY <1>10, PreviousHasEnded
<1>11. ASSUME NEW got, TreeArrives(got) PROVE PanesInv'
  BY <1>11, TreeHasArrived
<1>12. ASSUME NEW got, SourceArrives(got) PROVE PanesInv'
  BY <1>12, SourceHasArrived
<1>13. CASE UNCHANGED panesVars
  <2>1. UNCHANGED <<past, serving, history, documents, reads, page, tree, drawer, sourceOpen, events>>
        /\ faults' = faults
    BY <1>13 DEF panesVars
  <2>2. faults' \in 0..MaxEvents /\ faults' >= faults
    BY <2>1, NumbersAre DEF PanesInv
  <2>3. reads' \in Seq(Reads) /\ ReadsFit' /\ LoadsFit' /\ documents' \in [Documents -> 0..Len(reads')]
    BY <2>1, ReadsStay
  <2>4. DocumentIsCurrent'
    BY <2>1, <2>2, DocumentStays
  <2>5. drawer' \in Drawers /\ (drawer'.at # "closed" => drawer'.since \in 1..Now) /\ SourceIsCurrent'
    BY <2>1, DrawerStays
  <2>6. page' \in Pages \cup {None}
    BY <2>1 DEF PanesInv, PanesTypeOK
  <2> QED
    BY <2>1, <2>2, <2>3, <2>4, <2>5, <2>6, AnswerLeaves
<1> QED
  BY <1>1, <1>2, <1>3, <1>4, <1>5, <1>6, <1>7, <1>8, <1>9, <1>10, <1>11, <1>12, <1>13 DEF PanesNext

(***************************************************************************)
(* The panes of MarkDesk show the product as it has been since they last   *)
(* asked: the document pane the entry that is selected, the navigator its  *)
(* tree, the drawer the file of the reading that is shown, whatever the    *)
(* order in which the answers arrive, and whatever is written, selected or *)
(* closed, or fails, on the way.                                           *)
(***************************************************************************)
THEOREM PanesStayCurrent == PanesSpec => []PanesAreCurrent
<1>1. PanesInit => PanesInv
  BY PanesOpen
<1>2. PanesInv /\ [PanesNext]_panesVars => PanesInv'
  BY PanesStep
<1>3. PanesInv => PanesAreCurrent
  BY DEF PanesInv
<1> QED
  BY <1>1, <1>2, <1>3, PTL DEF PanesSpec

-------------------------------------------------------------------------------
(***************************************************************************)
(* IndexFollowsBuffer, for any documents, tasks, edits and opens.  An open *)
(* document that the index has lost is owed an answer: a timer, a call     *)
(* with its epoch, a parse that still lands, a rebuild or a walk will put  *)
(* it back (Owed).  A steady document is answered at once, so its calls    *)
(* wait in one queue, the gate and then the ready ones, and the last of    *)
(* them with its epoch carries the text of the buffer (Wins); a closed one *)
(* has no such call, because every call carries an epoch from before the   *)
(* close (CallFits).                                                       *)
(***************************************************************************)
Has(q, x) == \E i \in 1..Len(q) : q[i] = x

\* The calls that are to be answered, and those of the document as it is.
Waits(c) == c \in Call /\ (Has(ready, c) \/ Has(gate, c) \/ Has(lane, c) \/ c = job.call)
OnItsWay == \E c : Waits(c) /\ c.epoch = Epoch

\* A parse that ends in the index, or schedules another.
Lands(p) == p.by = "walk" \/ (p.epoch = Epoch /\ p.ctx \notin disposed)

JobFits ==
  /\ job.at = "idle" => job = Idle
  /\ gate # <<>> => armed
  /\ armed => job.kind \in {"startup", "rebuild", "create"}
  /\ job.at \in {"walk", "read", "parse"} => armed
  /\ timer => isOpen /\ pending = Buffer
  /\ \A p : Has(parsing, p) /\ p.by = "walk" => job.at = "parse" /\ p.ctx = ctx

CallFits(c) ==
  /\ c.by # "reindex" => c.epoch <= 2 * opens - 1
  /\ c.by = "edit" => c.text \in Texts
  /\ c.by = "open" /\ c.epoch = Epoch => c.doc = opens

CallsFit == \A c : Waits(c) => CallFits(c)

\* An open document that is in no index is on its way into one.
Owed ==
  isOpen /\ index = Absent =>
    \/ timer \/ OnItsWay
    \/ \E p : Has(parsing, p) /\ Lands(p)
    \/ rebuilt \/ opens \in reindex \/ job.kind = "rebuild"
    \/ evicted /\ job.at = "walk"

\* The answer to a call of epoch `e` is the buffer `b`, where `t` are the texts.
Good(c, e, b, t) == c.epoch = e => (IF c.by = "edit" THEN c.text ELSE t[c.doc]) = b

\* After the calls `q`, in order, an index that holds `x` holds the buffer.
Wins(q, x, e, b, t) ==
  \E i \in 0..Len(q) :
    /\ IF i = 0 THEN x = b ELSE q[i].epoch = e
    /\ \A j \in 1..Len(q) : j >= i => Good(q[j], e, b, t)

\* The calls of a steady document, in the order of their answers.
Queue == gate \o ready

Settled ==
  /\ known /\ parsing = <<>> /\ ~rebuilt /\ reindex = {} /\ ~evicted
  /\ job.call = NoCall /\ job.kind # "rebuild"
  /\ \A c : Has(lane, c) => c.by \in {"reload", "create"}
  /\ \A c : Has(gate, c) \/ Has(ready, c) => c.by # "reindex"

IndexWins ==
  /\ ~isOpen => index \in {Absent, 0}
  /\ isOpen => timer \/ Wins(Queue, index, Epoch, Buffer, texts)
  /\ job.at = "read" /\ isOpen => \E i \in 1..Len(Queue) : Queue[i].epoch = Epoch

SteadyFits == Steady => Settled /\ IndexWins

SyncInv == TypeOK /\ JobFits /\ CallsFit /\ Owed /\ SteadyFits

-------------------------------------------------------------------------------
LEMMA TailIs ==
  ASSUME NEW S, NEW q \in Seq(S), q # <<>>
  PROVE  /\ Tail(q) \in Seq(S) /\ Len(Tail(q)) = Len(q) - 1 /\ Len(q) \in Nat /\ Len(q) >= 1
         /\ Head(q) = q[1] /\ Head(q) \in S
         /\ \A i \in 1..Len(Tail(q)) : Tail(q)[i] = q[i + 1]
         /\ \A x : Has(q, x) <=> x = Head(q) \/ Has(Tail(q), x)
<1>1. /\ Tail(q) \in Seq(S) /\ Len(Tail(q)) = Len(q) - 1 /\ Len(q) \in Nat /\ Len(q) >= 1
      /\ Head(q) = q[1] /\ Head(q) \in S
      /\ \A i \in 1..Len(Tail(q)) : Tail(q)[i] = q[i + 1]
  OBVIOUS
<1>2. ASSUME NEW x, Has(q, x)
      PROVE  x = Head(q) \/ Has(Tail(q), x)
  <2>1. PICK i \in 1..Len(q) : q[i] = x
    BY <1>2 DEF Has
  <2>2. i = 1 \/ (i - 1 \in 1..Len(Tail(q)) /\ Tail(q)[i - 1] = x)
    BY <1>1, <2>1
  <2> QED
    BY <1>1, <2>1, <2>2 DEF Has
<1>3. ASSUME NEW x, x = Head(q) \/ Has(Tail(q), x)
      PROVE  Has(q, x)
  <2>1. CASE x = Head(q)
    BY <1>1, <2>1 DEF Has
  <2>2. CASE Has(Tail(q), x)
    <3>1. PICK i \in 1..Len(Tail(q)) : Tail(q)[i] = x
      BY <2>2 DEF Has
    <3>2. i + 1 \in 1..Len(q) /\ q[i + 1] = x
      BY <1>1, <3>1
    <3> QED
      BY <3>2 DEF Has
  <2> QED
    BY <1>3, <2>1, <2>2
<1> QED
  BY <1>1, <1>2, <1>3

LEMMA AppendIs ==
  ASSUME NEW S, NEW q \in Seq(S), NEW y \in S
  PROVE  /\ Append(q, y) \in Seq(S) /\ Len(Append(q, y)) = Len(q) + 1 /\ Len(q) \in Nat
         /\ \A i \in 1..Len(q) : Append(q, y)[i] = q[i]
         /\ Append(q, y)[Len(q) + 1] = y
         /\ \A x : Has(Append(q, y), x) <=> x = y \/ Has(q, x)
<1>1. /\ Append(q, y) \in Seq(S) /\ Len(Append(q, y)) = Len(q) + 1 /\ Len(q) \in Nat
      /\ \A i \in 1..Len(q) : Append(q, y)[i] = q[i]
      /\ Append(q, y)[Len(q) + 1] = y
  OBVIOUS
<1>2. \A i : i \in 1..Len(Append(q, y)) <=> i \in 1..Len(q) \/ i = Len(q) + 1
  BY <1>1
<1> QED
  BY <1>1, <1>2 DEF Has

LEMMA ConcatIs ==
  ASSUME NEW S, NEW q \in Seq(S), NEW r \in Seq(S)
  PROVE  /\ q \o r \in Seq(S) /\ Len(q \o r) = Len(q) + Len(r) /\ Len(q) \in Nat /\ Len(r) \in Nat
         /\ \A i \in 1..Len(q) : (q \o r)[i] = q[i]
         /\ \A i \in 1..Len(r) : (q \o r)[Len(q) + i] = r[i]
         /\ \A x : Has(q \o r, x) <=> Has(q, x) \/ Has(r, x)
<1>1. /\ q \o r \in Seq(S) /\ Len(q \o r) = Len(q) + Len(r) /\ Len(q) \in Nat /\ Len(r) \in Nat
      /\ \A i \in 1..Len(q) : (q \o r)[i] = q[i]
      /\ \A i \in (Len(q) + 1)..(Len(q) + Len(r)) : (q \o r)[i] = r[i - Len(q)]
  OBVIOUS
<1>2. \A i \in 1..Len(r) : (q \o r)[Len(q) + i] = r[i]
  BY <1>1
<1>3. ASSUME NEW x, Has(q \o r, x)
      PROVE  Has(q, x) \/ Has(r, x)
  <2>1. PICK i \in 1..Len(q \o r) : (q \o r)[i] = x
    BY <1>3 DEF Has
  <2>2. i \in 1..Len(q) \/ (i - Len(q) \in 1..Len(r) /\ r[i - Len(q)] = x)
    BY <1>1, <2>1
  <2> QED
    BY <1>1, <2>1, <2>2 DEF Has
<1>4. ASSUME NEW x, Has(q, x) \/ Has(r, x)
      PROVE  Has(q \o r, x)
  <2>1. CASE Has(q, x)
    BY <1>1, <2>1 DEF Has
  <2>2. CASE Has(r, x)
    <3>1. PICK i \in 1..Len(r) : r[i] = x
      BY <2>2 DEF Has
    <3>2. Len(q) + i \in 1..Len(q \o r) /\ (q \o r)[Len(q) + i] = x
      BY <1>1, <1>2, <3>1
    <3> QED
      BY <3>2 DEF Has
  <2> QED
    BY <1>4, <2>1, <2>2
<1> QED
  BY <1>1, <1>2, <1>3, <1>4

LEMMA OneIs ==
  ASSUME NEW S, NEW y \in S
  PROVE  <<y>> \in Seq(S) /\ Len(<<y>>) = 1 /\ <<y>>[1] = y /\ <<y>> # <<>> /\ \A x : Has(<<y>>, x) <=> x = y
BY DEF Has

LEMMA NoneIs ==
  ASSUME NEW S
  PROVE  <<>> \in Seq(S) /\ Len(<<>>) = 0 /\ \A x : ~Has(<<>>, x)
BY DEF Has

\* The greatest of some positions.
LEMMA MaxIs ==
  ASSUME NEW n \in Nat, NEW S \in SUBSET (1..n), S # {}
  PROVE  Max(S) \in S
<1> DEFINE T == {n - i : i \in S}
<1>1. \A i \in S : i \in Nat /\ i <= n /\ n - i \in Nat
  OBVIOUS
<1>2. T \subseteq Nat
  BY <1>1
<1>3. T # {}
  OBVIOUS
<1>4. IsWellFoundedOn(OpToRel(<, Nat), Nat)
  BY NatLessThanWellFounded
<1>5. PICK t \in T : \A u \in T : ~(<<u, t>> \in OpToRel(<, Nat))
  BY <1>2, <1>3, <1>4, WFMin
<1>6. PICK m \in S : t = n - m
  OBVIOUS
<1>7. ASSUME NEW i \in S
      PROVE  m >= i
  <2>1. n - i \in T
    OBVIOUS
  <2>2. ~(n - i < t)
    BY <1>2, <1>5, <2>1 DEF OpToRel
  <2> QED
    BY <1>1, <1>6, <2>2
<1> QED
  BY <1>6, <1>7 DEF Max

-------------------------------------------------------------------------------
(***************************************************************************)
(* A parse, and the handler that asks for one.                             *)
(***************************************************************************)
LEMMA BoundsAre ==
  ASSUME TypeOK
  PROVE  /\ MaxTasks \in Nat /\ MaxEdits \in Nat /\ MaxOpens \in Nat /\ opens \in Nat /\ ctx \in Nat
         /\ Absent = -1 /\ Absent \notin Texts /\ 0 \in Texts /\ Texts \subseteq Nat
         /\ Epoch \in Nat /\ Epoch \in 0..(2 * MaxOpens) /\ (isOpen => Epoch = 2 * opens - 1) /\ (~isOpen => Epoch = 2 * opens)
         /\ (isOpen => opens \in Docs /\ Buffer \in Texts)
         /\ document.tasks \subseteq {"rebuild", "reload", "create"} /\ document.source \in BOOLEAN
         /\ ctx \notin disposed /\ disposed \subseteq Nat /\ (ctx + 1) \notin disposed
<1>1. /\ MaxTasks \in Nat /\ MaxEdits \in Nat /\ MaxOpens \in Nat /\ opens \in Nat /\ opens <= MaxOpens /\ ctx \in Nat
      /\ isOpen \in BOOLEAN /\ (isOpen => opens >= 1)
  BY DocumentAssumption DEF TypeOK
<1>2. Absent = -1 /\ Absent \notin Texts /\ 0 \in Texts /\ Texts \subseteq Nat
  BY <1>1 DEF Absent, Texts
<1>3. Epoch \in Nat /\ Epoch \in 0..(2 * MaxOpens) /\ (isOpen => Epoch = 2 * opens - 1) /\ (~isOpen => Epoch = 2 * opens)
  BY <1>1 DEF Epoch
<1>4. isOpen => opens \in Docs /\ Buffer \in Texts
  <2>1. isOpen => opens \in Docs
    BY <1>1 DEF Docs
  <2> QED
    BY <2>1 DEF TypeOK, Buffer
<1>5. document.tasks \subseteq {"rebuild", "reload", "create"} /\ document.source \in BOOLEAN
  BY DocumentAssumption DEF TypeOK
<1>6. ctx \notin disposed /\ disposed \subseteq Nat /\ (ctx + 1) \notin disposed
  BY <1>1 DEF TypeOK
<1> QED
  BY <1>1, <1>2, <1>3, <1>4, <1>5, <1>6

\* A task of the lane is no call.
LEMMA NoTaskIsCall ==
  /\ \A kind \in {"rebuild", "reload", "create"} : [by |-> kind] \notin Call
  /\ NoCall \notin Call
  /\ \A c \in Call : c.by \in {"open", "edit", "reindex"} /\ c.epoch \in Nat
                     /\ c.doc \in Docs /\ c.text \in Texts \cup {Absent}
<1>1. \A c \in Call : c.by \in {"open", "edit", "reindex"} /\ c.epoch \in Nat
                     /\ c.doc \in Docs /\ c.text \in Texts \cup {Absent}
  BY DEF Call
<1>2. \A kind : [by |-> kind].by = kind
  OBVIOUS
<1>3. NoCall.by = "none"
  BY DEF NoCall
<1> QED
  BY <1>1, <1>2, <1>3

LEMMA LandIs ==
  ASSUME TypeOK, NEW ps \in Seq(Parse), Land(ps)
  PROVE  /\ index' \in Texts \cup {Absent} /\ pending' \in Texts \cup {Absent} /\ timer' \in BOOLEAN
         /\ (\A p : Has(ps, p) => p.ctx # ctx) => index' = index
         /\ (\E p : Has(ps, p) /\ p.ctx = ctx) => index' \in Texts
         /\ timer => timer'
         /\ timer' => (timer /\ pending' = pending) \/ (isOpen /\ pending' = Buffer)
         /\ isOpen /\ (\E p : Has(ps, p) /\ p.by # "walk" /\ p.epoch = Epoch /\ p.ctx # ctx /\ p.ctx \notin disposed)
              => timer'
<1> DEFINE mine == {i \in DOMAIN ps : ps[i].ctx = ctx}
           moved == \E i \in DOMAIN ps :
                      /\ ps[i].by # "walk" /\ ps[i].epoch = Epoch
                      /\ ps[i].ctx # ctx /\ ps[i].ctx \notin disposed
<1>1. /\ index' = IF mine = {} THEN index ELSE ps[Max(mine)].text
      /\ pending' = IF moved /\ isOpen THEN Buffer ELSE pending
      /\ timer' = (timer \/ (moved /\ isOpen))
  BY DEF Land
<1>2. DOMAIN ps = 1..Len(ps) /\ Len(ps) \in Nat /\ \A i \in 1..Len(ps) : ps[i] \in Parse
  OBVIOUS
<1>3. \A i \in 1..Len(ps) : ps[i].text \in Texts
  BY <1>2 DEF Parse
<1>4. mine \subseteq 1..Len(ps)
  BY <1>2
<1>5. mine # {} => ps[Max(mine)].text \in Texts
  <2> HIDE DEF mine
  <2>1. mine # {} => Max(mine) \in mine
    BY <1>2, <1>4, MaxIs
  <2> QED
    BY <1>3, <1>4, <2>1
<1>6. mine # {} <=> \E p : Has(ps, p) /\ p.ctx = ctx
  BY <1>2 DEF Has
<1>7. moved <=> \E p : Has(ps, p) /\ p.by # "walk" /\ p.epoch = Epoch /\ p.ctx # ctx /\ p.ctx \notin disposed
  BY <1>2 DEF Has
<1>8. isOpen => Buffer \in Texts
  BY BoundsAre
<1> HIDE DEF mine, moved
<1>9. index' \in Texts \cup {Absent}
      /\ ((\A p : Has(ps, p) => p.ctx # ctx) => index' = index)
      /\ ((\E p : Has(ps, p) /\ p.ctx = ctx) => index' \in Texts)
  BY <1>1, <1>5, <1>6 DEF TypeOK
<1>10. pending' \in Texts \cup {Absent} /\ timer' \in BOOLEAN
  BY <1>1, <1>8 DEF TypeOK
<1>11. (timer => timer') /\ (timer' => (timer /\ pending' = pending) \/ (isOpen /\ pending' = Buffer))
  BY <1>1
<1>12. isOpen /\ moved => timer'
  BY <1>1
<1> QED
  BY <1>7, <1>9, <1>10, <1>11, <1>12

LEMMA LandOne ==
  ASSUME TypeOK, NEW p \in Parse, p.ctx = ctx, Land(<<p>>)
  PROVE  index' = p.text /\ UNCHANGED debounced
<1>1. DOMAIN <<p>> = {1} /\ <<p>>[1] = p
  OBVIOUS
<1>2. {i \in DOMAIN <<p>> : <<p>>[i].ctx = ctx} = {1}
  BY <1>1
<1>3. Max({1}) = 1
  BY MaxIs
<1>4. index' = p.text
  BY <1>1, <1>2, <1>3 DEF Land
<1>5. pending' = pending /\ timer' = timer
  BY <1>1 DEF Land, TypeOK
<1> QED
  BY <1>4, <1>5 DEF debounced

\* What StartParse makes, now or when the grammar is there.
Parsed(p) ==
  \/ /\ index' = p.text /\ UNCHANGED <<parsing, pending, timer>>
  \/ /\ document.source /\ parsing' = Append(parsing, p) /\ UNCHANGED <<index, pending, timer>>

LEMMA ParseStarts ==
  ASSUME TypeOK, NEW by \in {"open", "edit", "reindex", "walk"}, NEW epoch \in 0..(2 * MaxOpens),
         NEW text \in Texts, StartParse(by, epoch, text)
  PROVE  \E p \in Parse : /\ p.by = by /\ p.epoch = epoch /\ p.ctx = ctx /\ p.text = text
                          /\ Parsed(p)
<1>1. PICK p : p = [by |-> by, epoch |-> epoch, ctx |-> ctx, text |-> text]
  OBVIOUS
<1>2. p \in Parse /\ p.by = by /\ p.epoch = epoch /\ p.ctx = ctx /\ p.text = text
  BY <1>1 DEF Parse, TypeOK
<1>3. IF document.source /\ ~loaded
        THEN parsing' = Append(parsing, p) /\ UNCHANGED <<index, debounced>>
        ELSE Land(<<p>>) /\ UNCHANGED parsing
  BY <1>1 DEF StartParse
<1>4. CASE document.source /\ ~loaded
  BY <1>2, <1>3, <1>4 DEF Parsed, debounced
<1>5. CASE ~(document.source /\ ~loaded)
  BY <1>2, <1>3, <1>5, LandOne DEF Parsed, debounced
<1> QED
  BY <1>4, <1>5

\* An answer parses the text that the call stands for, unless it came too late.
LEMMA AnswerParses ==
  ASSUME TypeOK, NEW c \in Call, CallFits(c), Answer(c)
  PROVE  \/ /\ c.by # "reindex" /\ c.epoch # Epoch /\ UNCHANGED <<parsing, index, pending, timer>>
         \/ /\ c.by = "reindex" \/ c.epoch = Epoch
            /\ \E p \in Parse : p.by = c.by /\ p.epoch = c.epoch /\ p.ctx = ctx /\ p.text = TextOf(c) /\ Parsed(p)
<1>1. c.by \in {"open", "edit", "reindex"} /\ c.doc \in Docs /\ c.epoch \in 0..(2 * MaxOpens)
  BY DEF Call
<1>2. TextOf(c) \in Texts
  <2>1. CASE c.by = "edit"
    BY <2>1 DEF TextOf, CallFits
  <2>2. CASE c.by # "edit"
    BY <1>1, <2>2 DEF TextOf, TypeOK
  <2> QED
    BY <2>1, <2>2
<1>3. CASE c.by # "reindex" /\ c.epoch # Epoch
  BY <1>3 DEF Answer, debounced
<1>4. CASE ~(c.by # "reindex" /\ c.epoch # Epoch)
  <2>1. StartParse(c.by, c.epoch, TextOf(c))
    BY <1>4 DEF Answer
  <2> QED
    BY <1>1, <1>2, <1>4, <2>1, ParseStarts
<1> QED
  BY <1>3, <1>4

LEMMA ParsedFits ==
  ASSUME TypeOK, NEW p \in Parse, Parsed(p)
  PROVE  /\ parsing' \in Seq(Parse) /\ index' \in Texts \cup {Absent} /\ pending' = pending /\ timer' = timer
         /\ \A q : Has(parsing, q) => Has(parsing', q)
         /\ \A q : Has(parsing', q) => Has(parsing, q) \/ q = p
         /\ index' # Absent \/ Has(parsing', p)
         /\ index' = Absent => index = Absent
<1>1. p.text \in Texts /\ Absent \notin Texts
  BY BoundsAre DEF Parse
<1>2. parsing \in Seq(Parse) /\ index \in Texts \cup {Absent}
  BY DEF TypeOK
<1>3. CASE index' = p.text /\ UNCHANGED <<parsing, pending, timer>>
  BY <1>1, <1>2, <1>3
<1>4. CASE parsing' = Append(parsing, p) /\ UNCHANGED <<index, pending, timer>>
  BY <1>2, <1>4, AppendIs
<1> QED
  BY <1>3, <1>4 DEF Parsed

LEMMA SameCalls ==
  ASSUME UNCHANGED <<opens, isOpen>>
  PROVE  Epoch' = Epoch /\ \A c : CallFits(c)' <=> CallFits(c)
BY DEF Epoch, CallFits

\* The part of the invariant that holds of every document.
GenInv == TypeOK /\ JobFits /\ CallsFit /\ Owed

-------------------------------------------------------------------------------
(***************************************************************************)
(* Its steps: the editor, and the calls.                                   *)
(***************************************************************************)
LEMMA ResumeFits ==
  ASSUME GenInv, Resume
  PROVE  GenInv'
<1>1. /\ ready # <<>> /\ ready' = Tail(ready)
      /\ UNCHANGED <<document, opens, isOpen, texts, edits, job, armed, known, unowned, ctx, disposed, evicted, tasks,
                     rebuilt, reindex, loaded>>
  BY DEF Resume, editor, registry, after
<1>2. TypeOK /\ ready \in Seq(Call) /\ gate \in Seq(Call) /\ lane \in Seq(Call \cup [by : document.tasks])
  BY DEF GenInv, TypeOK
<1>3. PICK c \in Call : c = Head(ready) /\ (\A x : Has(ready, x) <=> x = c \/ Has(ready', x)) /\ ready' \in Seq(Call)
  BY <1>1, <1>2, TailIs
<1>4. CallFits(c) /\ Waits(c)
  BY <1>3 DEF GenInv, CallsFit, Waits
<1>5. CASE armed
  <2>1. gate' = Append(gate, c) /\ UNCHANGED <<lane, parsing, index, pending, timer>>
    BY <1>3, <1>5 DEF Resume, debounced
  <2>2. gate' \in Seq(Call) /\ \A x : Has(gate', x) <=> x = c \/ Has(gate, x)
    BY <1>2, <2>1, AppendIs
  <2>3. TypeOK'
    BY <1>1, <1>3, <2>1, <2>2 DEF GenInv, TypeOK
  <2>4. JobFits'
    BY <1>1, <1>5, <2>1 DEF GenInv, JobFits, Buffer
  <2>5. \A x : Waits(x)' <=> Waits(x)
    BY <1>1, <1>3, <2>1, <2>2 DEF Waits
  <2>6. CallsFit'
    BY <1>1, <2>5, SameCalls DEF GenInv, CallsFit
  <2>7. Owed'
    BY <1>1, <2>1, <2>5, SameCalls DEF GenInv, Owed, OnItsWay, Lands
  <2> QED
    BY <2>3, <2>4, <2>6, <2>7 DEF GenInv
<1>6. CASE ~armed /\ known
  <2>1. Answer(c) /\ UNCHANGED <<lane, gate>>
    BY <1>3, <1>6 DEF Resume
  <2>2. \A x : Waits(x)' => Waits(x)
    BY <1>1, <1>3, <2>1 DEF Waits
  <2>3. \A x : Waits(x) => Waits(x)' \/ x = c
    BY <1>1, <1>3, <2>1 DEF Waits
  <2>4. CallsFit'
    BY <1>1, <2>2, SameCalls DEF GenInv, CallsFit
  <2>5. CASE c.by # "reindex" /\ c.epoch # Epoch /\ UNCHANGED <<parsing, index, pending, timer>>
    <3>1. TypeOK' /\ JobFits'
      BY <1>1, <1>3, <2>1, <2>5 DEF GenInv, TypeOK, JobFits, Buffer
    <3>2. Owed'
      BY <1>1, <2>3, <2>5, SameCalls DEF GenInv, Owed, OnItsWay, Lands
    <3> QED
      BY <2>4, <3>1, <3>2 DEF GenInv
  <2>6. CASE \E p \in Parse : p.by = c.by /\ p.epoch = c.epoch /\ p.ctx = ctx /\ p.text = TextOf(c) /\ Parsed(p)
    <3>1. PICK p \in Parse : p.by = c.by /\ p.epoch = c.epoch /\ p.ctx = ctx /\ Parsed(p)
      BY <2>6
    <3>2. /\ parsing' \in Seq(Parse) /\ index' \in Texts \cup {Absent} /\ pending' = pending /\ timer' = timer
          /\ \A q : Has(parsing, q) => Has(parsing', q)
          /\ \A q : Has(parsing', q) => Has(parsing, q) \/ q = p
          /\ index' # Absent \/ Has(parsing', p)
          /\ index' = Absent => index = Absent
      BY <1>2, <3>1, ParsedFits
    <3>3. TypeOK'
      BY <1>1, <1>3, <2>1, <3>2 DEF GenInv, TypeOK
    <3>4. JobFits'
      BY <1>1, <2>1, <3>1, <3>2, NoTaskIsCall DEF GenInv, JobFits, Buffer
    <3>5. ctx \notin disposed
      BY <1>2, BoundsAre
    <3>6. Owed'
      <4>1. OnItsWay => OnItsWay' \/ c.epoch = Epoch
        BY <1>1, <2>3, SameCalls DEF OnItsWay
      <4>2. c.epoch = Epoch => index' # Absent \/ \E q : Has(parsing', q) /\ Lands(q)'
        BY <1>1, <3>1, <3>2, <3>5, SameCalls DEF Lands
      <4>3. \A q : Lands(q)' <=> Lands(q)
        BY <1>1, SameCalls DEF Lands
      <4> QED
        BY <1>1, <3>2, <4>1, <4>2, <4>3 DEF GenInv, Owed
    <3> QED
      BY <2>4, <3>3, <3>4, <3>6 DEF GenInv
  <2> QED
    BY <1>2, <1>4, <2>1, <2>5, <2>6, AnswerParses
<1>7. CASE ~armed /\ ~known
  <2>1. lane' = Append(lane, c) /\ UNCHANGED <<gate, parsing, index, pending, timer>>
    BY <1>3, <1>7 DEF Resume, debounced
  <2>2. lane' \in Seq(Call \cup [by : document.tasks]) /\ \A x : Has(lane', x) <=> x = c \/ Has(lane, x)
    BY <1>2, <2>1, AppendIs
  <2>3. TypeOK'
    BY <1>1, <1>3, <2>1, <2>2 DEF GenInv, TypeOK
  <2>4. JobFits'
    BY <1>1, <2>1 DEF GenInv, JobFits, Buffer
  <2>5. \A x : Waits(x)' <=> Waits(x)
    BY <1>1, <1>3, <2>1, <2>2 DEF Waits
  <2>6. CallsFit'
    BY <1>1, <2>5, SameCalls DEF GenInv, CallsFit
  <2>7. Owed'
    BY <1>1, <2>1, <2>5, SameCalls DEF GenInv, Owed, OnItsWay, Lands
  <2> QED
    BY <2>3, <2>4, <2>6, <2>7 DEF GenInv
<1> QED
  BY <1>5, <1>6, <1>7

LEMMA OpenFits ==
  ASSUME GenInv, Open
  PROVE  GenInv'
<1>1. /\ ready = <<>> /\ ~isOpen /\ opens < MaxOpens /\ opens' = opens + 1 /\ isOpen' = TRUE
      /\ ready' = << [by |-> "open", epoch |-> 2 * opens + 1, doc |-> opens + 1, text |-> Absent] >>
      /\ pending' = texts[opens + 1] /\ timer' = TRUE
      /\ UNCHANGED <<document, texts, edits, lane, gate, job, armed, known, unowned, ctx, disposed,
                     evicted, tasks, rebuilt, reindex, loaded, parsing, index>>
  BY DEF Open, NextEvent, registry, after
<1>2. TypeOK
  BY DEF GenInv
<1>3. opens \in Nat /\ MaxOpens \in Nat /\ opens + 1 \in Docs /\ 2 * opens + 1 \in 0..(2 * MaxOpens)
      /\ opens' \in 0..MaxOpens /\ opens' # 0
  BY <1>1, <1>2, BoundsAre DEF Docs
<1>4. PICK c : c = [by |-> "open", epoch |-> 2 * opens + 1, doc |-> opens + 1, text |-> Absent]
  OBVIOUS
<1>4a. c \in Call /\ c.by = "open" /\ c.epoch = 2 * opens + 1 /\ c.doc = opens'
  BY <1>1, <1>3, <1>4 DEF Call
<1>5. ready' = <<c>> /\ ready' \in Seq(Call) /\ \A x : Has(ready', x) <=> x = c
  BY <1>1, <1>4, <1>4a, OneIs
<1>5a. pending' \in Texts
  BY <1>1, <1>2, <1>3 DEF TypeOK
<1>5b. (isOpen' => opens' # 0) /\ pending' \in Texts \cup {Absent}
  BY <1>3, <1>5a
<1>5c. isOpen' \in BOOLEAN /\ timer' \in BOOLEAN
  BY <1>1, Zenon
<1>5d. /\ document' \in Kinds /\ edits' \in Texts /\ texts' \in [Docs -> Texts]
       /\ lane' \in Seq(Call \cup [by : document'.tasks]) /\ gate' \in Seq(Call)
       /\ job' \in Job /\ armed' \in BOOLEAN /\ known' \in BOOLEAN /\ unowned' \in BOOLEAN
       /\ evicted' \in BOOLEAN /\ ctx' \in Nat \ {0} /\ disposed' \subseteq 1..(ctx' - 1)
       /\ tasks' \in 0..MaxTasks /\ rebuilt' \in BOOLEAN /\ reindex' \subseteq Docs
       /\ loaded' \in BOOLEAN /\ parsing' \in Seq(Parse) /\ index' \in Texts \cup {Absent}
  BY <1>1, <1>2, Zenon DEF TypeOK
<1>6. TypeOK'
  BY <1>3, <1>5, <1>5b, <1>5c, <1>5d, Zenon DEF TypeOK
<1>6a. isOpen' /\ pending' = Buffer'
  BY <1>1 DEF Buffer
<1>7. JobFits'
  BY <1>1, <1>6a, Zenon DEF GenInv, JobFits
<1>8. \A x : Waits(x)' => x = c \/ Waits(x)
  BY <1>1, <1>5 DEF Waits
<1>9. Epoch' = 2 * opens + 1
  BY <1>1, <1>3 DEF Epoch
<1>10. CallsFit'
  <2>1. CallFits(c)'
    BY <1>1, <1>3, <1>4a, <1>9 DEF CallFits
  <2>2. ASSUME NEW x \in Call, CallFits(x)
        PROVE  CallFits(x)'
    <3>1. x.by # "reindex" => x.epoch <= 2 * opens - 1 /\ x.epoch \in Nat
      BY <2>2, NoTaskIsCall DEF CallFits
    <3>2. x.by # "reindex" => x.epoch <= 2 * opens' - 1 /\ x.epoch # Epoch'
      BY <1>1, <1>3, <1>9, <3>1
    <3> QED
      BY <2>2, <3>2 DEF CallFits
  <2> QED
    BY <1>4a, <1>8, <2>1, <2>2 DEF GenInv, CallsFit, Waits
<1>11. Owed'
  BY <1>4a, <1>5, <1>9 DEF Owed, OnItsWay, Waits
<1> QED
  BY <1>6, <1>7, <1>10, <1>11 DEF GenInv

LEMMA EditFits ==
  ASSUME GenInv, Edit
  PROVE  GenInv'
<1>1. /\ ready = <<>> /\ isOpen /\ edits < MaxEdits /\ edits' = edits + 1
      /\ texts' = [texts EXCEPT ![opens] = edits + 1] /\ pending' = edits + 1 /\ timer' = TRUE
      /\ UNCHANGED <<document, opens, isOpen, ready, lane, gate, job, armed, known, unowned, ctx, disposed,
                     evicted, tasks, rebuilt, reindex, loaded, parsing, index>>
  BY DEF Edit, NextEvent, routing, registry, after
<1>2. TypeOK
  BY DEF GenInv
<1>3. edits' \in Texts /\ texts' \in [Docs -> Texts] /\ texts'[opens] = edits'
  <2>1. edits \in Nat /\ MaxEdits \in Nat /\ opens \in Docs
    BY <1>1, <1>2, BoundsAre DEF TypeOK
  <2>2. edits' \in Texts
    BY <1>1, <2>1 DEF Texts
  <2> QED
    BY <1>1, <1>2, <2>1, <2>2 DEF TypeOK
<1>4. TypeOK'
  BY <1>1, <1>3 DEF GenInv, TypeOK
<1>5. JobFits'
  BY <1>1, <1>3 DEF GenInv, JobFits, Buffer
<1>6. CallsFit'
  BY <1>1, SameCalls DEF GenInv, CallsFit, Waits
<1>7. Owed'
  BY <1>1 DEF Owed
<1> QED
  BY <1>4, <1>5, <1>6, <1>7 DEF GenInv

LEMMA ParseTimerFits ==
  ASSUME GenInv, ParseTimer
  PROVE  GenInv'
<1>1. /\ ready = <<>> /\ timer /\ timer' = FALSE
      /\ ready' = << [by |-> "edit", epoch |-> Epoch, doc |-> opens, text |-> pending] >>
      /\ UNCHANGED <<document, opens, isOpen, texts, edits, pending, lane, gate, job, armed, known, unowned, ctx, disposed,
                     evicted, tasks, rebuilt, reindex, loaded, parsing, index>>
  BY DEF ParseTimer, NextEvent, editor, registry, after
<1>2. TypeOK /\ isOpen /\ pending = Buffer
  BY <1>1 DEF GenInv, JobFits
<1>3. opens \in Docs /\ Epoch = 2 * opens - 1 /\ Epoch \in 0..(2 * MaxOpens) /\ pending \in Texts /\ opens \in Nat
  BY <1>2, BoundsAre
<1>4. PICK c : c = [by |-> "edit", epoch |-> Epoch, doc |-> opens, text |-> pending]
  OBVIOUS
<1>4a. c \in Call /\ c.by = "edit" /\ c.epoch = Epoch /\ c.text = pending
  BY <1>3, <1>4 DEF Call
<1>5. ready' = <<c>> /\ ready' \in Seq(Call) /\ \A x : Has(ready', x) <=> x = c
  BY <1>1, <1>4, <1>4a, OneIs
<1>6. TypeOK' /\ JobFits'
  BY <1>1, <1>5 DEF GenInv, TypeOK, JobFits
<1>7. \A x : Waits(x)' => x = c \/ Waits(x)
  BY <1>1, <1>5 DEF Waits
<1>8. CallFits(c)
  BY <1>3, <1>4a DEF CallFits
<1>9. CallsFit'
  BY <1>1, <1>7, <1>8, SameCalls DEF GenInv, CallsFit
<1>10. Owed'
  BY <1>1, <1>4a, <1>5, SameCalls DEF Owed, OnItsWay, Waits
<1> QED
  BY <1>6, <1>9, <1>10 DEF GenInv

LEMMA CloseFits ==
  ASSUME GenInv, Close
  PROVE  GenInv'
<1>1. /\ isOpen /\ isOpen' = FALSE /\ pending' = Absent /\ timer' = FALSE /\ index' = Absent
      /\ UNCHANGED <<document, opens, texts, edits, ready, lane, gate, job, armed, known, unowned, ctx, disposed,
                     evicted, tasks, rebuilt, reindex, loaded, parsing>>
  BY DEF Close, NextEvent, routing, registry, after
<1>2. TypeOK /\ opens \in Nat
  BY BoundsAre DEF GenInv
<1>3. TypeOK' /\ JobFits'
  BY <1>1 DEF GenInv, TypeOK, JobFits
<1>4. Epoch' = 2 * opens
  BY <1>1 DEF Epoch
<1>5. CallsFit'
  <2>1. ASSUME NEW x \in Call, CallFits(x)
        PROVE  CallFits(x)'
    <3>1. x.by # "reindex" => x.epoch <= 2 * opens - 1 /\ x.epoch \in Nat
      BY <2>1, NoTaskIsCall DEF CallFits
    <3>2. x.by # "reindex" => x.epoch # Epoch'
      BY <1>2, <1>4, <3>1
    <3> QED
      BY <1>1, <2>1, <3>1, <3>2 DEF CallFits
  <2> QED
    BY <1>1, <2>1 DEF GenInv, CallsFit, Waits
<1>6. Owed'
  BY <1>1 DEF Owed
<1> QED
  BY <1>3, <1>5, <1>6 DEF GenInv

LEMMA GrammarLoadedFits ==
  ASSUME GenInv, GrammarLoaded
  PROVE  GenInv'
<1>1. /\ parsing # <<>> /\ loaded' = TRUE /\ parsing' = <<>> /\ Land(parsing)
      /\ UNCHANGED <<document, opens, isOpen, texts, edits, ready, lane, gate, job, armed, known, unowned, ctx, disposed,
                     evicted, tasks, rebuilt, reindex>>
  BY DEF GrammarLoaded, NextEvent, editor, routing, registry, after
<1>2. TypeOK /\ parsing \in Seq(Parse)
  BY DEF GenInv, TypeOK
<1>3. /\ index' \in Texts \cup {Absent} /\ pending' \in Texts \cup {Absent} /\ timer' \in BOOLEAN
      /\ (\A p : Has(parsing, p) => p.ctx # ctx) => index' = index
      /\ (\E p : Has(parsing, p) /\ p.ctx = ctx) => index' \in Texts
      /\ timer => timer'
      /\ timer' => (timer /\ pending' = pending) \/ (isOpen /\ pending' = Buffer)
      /\ isOpen /\ (\E p : Has(parsing, p) /\ p.by # "walk" /\ p.epoch = Epoch /\ p.ctx # ctx /\ p.ctx \notin disposed)
           => timer'
  BY <1>1, <1>2, LandIs
<1>4. parsing' \in Seq(Parse) /\ \A p : ~Has(parsing', p)
  BY <1>1, NoneIs
<1>5. TypeOK'
  BY <1>1, <1>3, <1>4 DEF GenInv, TypeOK
<1>6. JobFits'
  BY <1>1, <1>3, <1>4 DEF GenInv, JobFits, Buffer
<1>7. CallsFit'
  BY <1>1, SameCalls DEF GenInv, CallsFit, Waits
<1>8. Owed'
  <2>1. OnItsWay' <=> OnItsWay
    BY <1>1, SameCalls DEF OnItsWay, Waits
  <2>2. index' = Absent => index = Absent
    BY <1>2, <1>3, BoundsAre
  <2>3. (\E p : Has(parsing, p) /\ Lands(p)) /\ isOpen => timer' \/ index' # Absent
    BY <1>2, <1>3, BoundsAre DEF GenInv, JobFits, Lands
  <2> QED
    BY <1>1, <1>3, <2>1, <2>2, <2>3 DEF GenInv, Owed
<1> QED
  BY <1>5, <1>6, <1>7, <1>8 DEF GenInv

LEMMA QueueTaskFits ==
  ASSUME GenInv, NEW kind \in document.tasks, QueueTask(kind)
  PROVE  GenInv'
<1>1. /\ tasks < MaxTasks /\ tasks' = tasks + 1 /\ lane' = Append(lane, [by |-> kind])
      /\ UNCHANGED <<document, opens, isOpen, texts, edits, pending, timer, ready, gate, job, armed, known, unowned, ctx,
                     disposed, evicted, rebuilt, reindex, loaded, parsing, index>>
  BY DEF QueueTask, NextEvent, editor, debounced, registry, after
<1>2. TypeOK /\ lane \in Seq(Call \cup [by : document.tasks]) /\ kind \in {"rebuild", "reload", "create"}
  BY BoundsAre DEF GenInv, TypeOK
<1>3. [by |-> kind] \in [by : document.tasks] /\ [by |-> kind] \notin Call
  BY <1>2, NoTaskIsCall
<1>4. lane' \in Seq(Call \cup [by : document.tasks]) /\ \A x : Has(lane', x) <=> x = [by |-> kind] \/ Has(lane, x)
  BY <1>1, <1>2, <1>3, AppendIs
<1>5. tasks' \in 0..MaxTasks
  BY <1>1, <1>2, BoundsAre DEF TypeOK
<1>6. TypeOK'
  BY <1>1, <1>4, <1>5 DEF GenInv, TypeOK
<1>7. JobFits'
  BY <1>1 DEF GenInv, JobFits, Buffer
<1>8. \A x : Waits(x)' <=> Waits(x)
  BY <1>1, <1>3, <1>4 DEF Waits
<1>9. CallsFit' /\ Owed'
  BY <1>1, <1>8, SameCalls DEF GenInv, CallsFit, Owed, OnItsWay, Lands
<1> QED
  BY <1>6, <1>7, <1>9 DEF GenInv

-------------------------------------------------------------------------------
(***************************************************************************)
(* The lane.                                                               *)
(***************************************************************************)
\* A task is taken from the lane: no call is.
LEMMA TaskIsTaken ==
  ASSUME TypeOK, NEW kind \in {"rebuild", "reload", "create"}, StartTask(kind),
         UNCHANGED <<ready, gate>>, job'.call = NoCall
  PROVE  /\ ready = <<>> /\ job = Idle /\ job.kind = "none" /\ job.at = "idle" /\ job.call = NoCall
         /\ lane' \in Seq(Call \cup [by : document.tasks])
         /\ \A c : Waits(c)' <=> Waits(c)
         /\ \A i \in 1..Len(lane') : Has(lane, lane'[i])
<1>1. ready = <<>> /\ job = Idle /\ lane # <<>> /\ Head(lane).by = kind /\ lane' = Tail(lane)
  BY DEF StartTask
<1>2. job.kind = "none" /\ job.at = "idle" /\ job.call = NoCall
  BY <1>1 DEF Idle
<1>3. lane \in Seq(Call \cup [by : document.tasks])
  BY DEF TypeOK
<1>4. lane' \in Seq(Call \cup [by : document.tasks]) /\ \A x : Has(lane, x) <=> x = Head(lane) \/ Has(lane', x)
  BY <1>1, <1>3, TailIs
<1>5. Head(lane) \notin Call
  BY <1>1, NoTaskIsCall
<1>6. \A c : Waits(c)' <=> Waits(c)
  BY <1>2, <1>4, <1>5, NoTaskIsCall DEF Waits
<1>7. \A i \in 1..Len(lane') : Has(lane, lane'[i])
  BY <1>4 DEF Has
<1> QED
  BY <1>1, <1>2, <1>4, <1>6, <1>7

LEMMA StartReloadFits ==
  ASSUME GenInv, StartReload
  PROVE  GenInv'
<1>1. /\ StartTask("reload") /\ job' = [Idle EXCEPT !.kind = "reload", !.at = "busy"]
      /\ UNCHANGED <<document, opens, isOpen, texts, edits, pending, timer, ready, gate, armed, known, unowned, ctx,
                     disposed, evicted, tasks, rebuilt, reindex, loaded, parsing, index>>
  BY DEF StartReload, editor, debounced, after
<1>2. job' = [kind |-> "reload", at |-> "busy", call |-> NoCall]
  BY <1>1 DEF Idle
<1>3. job' \in Job /\ job'.kind = "reload" /\ job'.at = "busy" /\ job'.call = NoCall
  BY <1>2 DEF Job
<1>4. /\ ready = <<>> /\ job = Idle /\ job.kind = "none" /\ job.at = "idle" /\ job.call = NoCall
      /\ lane' \in Seq(Call \cup [by : document.tasks])
      /\ \A c : Waits(c)' <=> Waits(c)
  BY <1>1, <1>3, TaskIsTaken DEF GenInv
<1>5. TypeOK'
  BY <1>1, <1>3, <1>4 DEF GenInv, TypeOK
<1>6. JobFits'
  <2>1. ~armed /\ \A p : Has(parsing, p) => p.by # "walk"
    BY <1>4 DEF GenInv, JobFits
  <2> QED
    BY <1>1, <1>3, <2>1 DEF GenInv, JobFits, Buffer
<1>7. CallsFit' /\ Owed'
  BY <1>1, <1>4, SameCalls DEF GenInv, CallsFit, Owed, OnItsWay, Lands
<1> QED
  BY <1>5, <1>6, <1>7 DEF GenInv

LEMMA StartRebuildFits ==
  ASSUME GenInv, StartRebuild
  PROVE  GenInv'
<1>1. /\ StartTask("rebuild") /\ job' = [Idle EXCEPT !.kind = "rebuild", !.at = "walk"]
      /\ armed' = TRUE /\ disposed' = disposed \cup {ctx} /\ ctx' = ctx + 1
      /\ known' = document.inWorkspace /\ unowned' = FALSE /\ evicted' = FALSE /\ index' = Absent
      /\ UNCHANGED <<document, opens, isOpen, texts, edits, pending, timer, ready, gate,
                     tasks, rebuilt, reindex, loaded, parsing>>
  BY DEF StartRebuild, editor, debounced, after
<1>2. job' = [kind |-> "rebuild", at |-> "walk", call |-> NoCall]
  BY <1>1 DEF Idle
<1>3. job' \in Job /\ job'.kind = "rebuild" /\ job'.at = "walk" /\ job'.call = NoCall
  BY <1>2 DEF Job
<1>4. /\ ready = <<>> /\ job = Idle /\ job.kind = "none" /\ job.at = "idle" /\ job.call = NoCall
      /\ lane' \in Seq(Call \cup [by : document.tasks])
      /\ \A c : Waits(c)' <=> Waits(c)
  BY <1>1, <1>3, TaskIsTaken DEF GenInv
<1>5. ctx' \in Nat \ {0} /\ disposed' \subseteq 1..(ctx' - 1)
  BY <1>1 DEF GenInv, TypeOK
<1>6. known' \in BOOLEAN
  BY <1>1, DocumentAssumption DEF GenInv, TypeOK
<1>7. TypeOK'
  BY <1>1, <1>3, <1>4, <1>5, <1>6 DEF GenInv, TypeOK
<1>8. JobFits'
  <2>1. \A p : Has(parsing, p) => p.by # "walk"
    BY <1>4 DEF GenInv, JobFits
  <2> QED
    BY <1>1, <1>3, <2>1 DEF GenInv, JobFits, Buffer
<1>9. CallsFit' /\ Owed'
  BY <1>1, <1>3, <1>4, SameCalls DEF GenInv, CallsFit, Owed
<1> QED
  BY <1>7, <1>8, <1>9 DEF GenInv

\* A root above the document is created, for it or for another one.
LEMMA CreatedFits ==
  ASSUME GenInv, NEW call \in Call \cup {NoCall}, Created(call), job = Idle,
         UNCHANGED <<document, opens, isOpen, texts, edits, pending, timer, ready, gate,
                     tasks, rebuilt, reindex, loaded, parsing>>,
         lane' \in Seq(Call \cup [by : document.tasks]),
         \A c : Waits(c)' <=> Waits(c)
  PROVE  GenInv'
<1>1. /\ job' = [kind |-> "create", at |-> "walk", call |-> call]
      /\ armed' = TRUE /\ ctx' = ctx + 1 /\ known' = TRUE /\ evicted' = (index # Absent) /\ index' = Absent
      /\ UNCHANGED <<unowned, disposed>>
  BY DEF Created
<1>2. job' \in Job /\ job'.kind = "create" /\ job'.at = "walk" /\ job.kind = "none" /\ job.at = "idle"
  BY <1>1 DEF Job, Idle
<1>3. ctx' \in Nat \ {0} /\ disposed' \subseteq 1..(ctx' - 1) /\ ctx \notin disposed
  BY <1>1 DEF GenInv, TypeOK
<1>4. TypeOK'
  BY <1>1, <1>2, <1>3 DEF GenInv, TypeOK
<1>5. \A p : Has(parsing, p) => p.by # "walk"
  BY <1>2 DEF GenInv, JobFits
<1>6. JobFits'
  BY <1>1, <1>2, <1>5 DEF GenInv, JobFits, Buffer
<1>7. CallsFit'
  BY SameCalls DEF GenInv, CallsFit
<1>8. Owed'
  <2>1. \A p : Has(parsing, p) /\ Lands(p) => Lands(p)'
    BY <1>1, <1>5, SameCalls DEF Lands
  <2>2. OnItsWay' <=> OnItsWay
    BY SameCalls DEF OnItsWay
  <2> QED
    BY <1>1, <1>2, <2>1, <2>2 DEF GenInv, Owed
<1> QED
  BY <1>4, <1>6, <1>7, <1>8 DEF GenInv

LEMMA StartCreateFits ==
  ASSUME GenInv, StartCreate
  PROVE  GenInv'
<1>1. /\ StartTask("create")
      /\ UNCHANGED <<document, opens, isOpen, texts, edits, pending, timer, ready, gate,
                     tasks, rebuilt, reindex, loaded, parsing>>
  BY DEF StartCreate, editor, debounced, after
<1>2. CASE Created(NoCall)
  <2>1. job'.call = NoCall
    BY <1>2 DEF Created
  <2>2. job = Idle /\ lane' \in Seq(Call \cup [by : document.tasks]) /\ \A c : Waits(c)' <=> Waits(c)
    BY <1>1, <2>1, TaskIsTaken DEF GenInv
  <2> QED
    BY <1>1, <1>2, <2>2, CreatedFits
<1>3. CASE /\ job' = [Idle EXCEPT !.kind = "create", !.at = "busy"]
           /\ armed' = TRUE
           /\ UNCHANGED <<known, unowned, ctx, disposed, evicted, index>>
  <2>1. job' = [kind |-> "create", at |-> "busy", call |-> NoCall]
    BY <1>3 DEF Idle
  <2>2. job' \in Job /\ job'.kind = "create" /\ job'.at = "busy" /\ job'.call = NoCall
    BY <2>1 DEF Job
  <2>3. /\ ready = <<>> /\ job = Idle /\ job.kind = "none" /\ job.at = "idle" /\ job.call = NoCall
        /\ lane' \in Seq(Call \cup [by : document.tasks])
        /\ \A c : Waits(c)' <=> Waits(c)
    BY <1>1, <2>2, TaskIsTaken DEF GenInv
  <2>4. TypeOK'
    BY <1>1, <1>3, <2>2, <2>3 DEF GenInv, TypeOK
  <2>5. JobFits'
    <3>1. \A p : Has(parsing, p) => p.by # "walk"
      BY <2>3 DEF GenInv, JobFits
    <3> QED
      BY <1>1, <1>3, <2>2, <3>1 DEF GenInv, JobFits, Buffer
  <2>6. CallsFit' /\ Owed'
    BY <1>1, <1>3, <2>3, SameCalls DEF GenInv, CallsFit, Owed, OnItsWay, Lands
  <2> QED
    BY <2>4, <2>5, <2>6 DEF GenInv
<1> QED
  BY <1>2, <1>3 DEF StartCreate

LEMMA StartCallFits ==
  ASSUME GenInv, StartCall
  PROVE  GenInv'
<1>1. /\ ready = <<>> /\ job = Idle /\ lane # <<>> /\ Head(lane).by \in {"open", "edit", "reindex"}
      /\ lane' = Tail(lane)
      /\ UNCHANGED <<document, opens, isOpen, texts, edits, ready, gate, tasks, rebuilt, reindex, loaded>>
  BY DEF StartCall, editor, after
<1>2. TypeOK /\ lane \in Seq(Call \cup [by : document.tasks]) /\ document.tasks \subseteq {"rebuild", "reload", "create"}
  BY BoundsAre DEF GenInv, TypeOK
<1>3. /\ lane' \in Seq(Call \cup [by : document.tasks]) /\ \A x : Has(lane, x) <=> x = Head(lane) \/ Has(lane', x)
      /\ Head(lane) \in Call \cup [by : document.tasks]
  BY <1>1, <1>2, TailIs
<1>4. PICK c \in Call : c = Head(lane)
  BY <1>1, <1>2, <1>3
<1>5. job.kind = "none" /\ job.at = "idle" /\ job.call = NoCall /\ NoCall \notin Call
  BY <1>1, NoTaskIsCall DEF Idle
<1>6. CallFits(c) /\ Waits(c)
  BY <1>3, <1>4 DEF GenInv, CallsFit, Waits
<1>7. CASE /\ Answer(c)
           /\ unowned' = (unowned \/ ~known)
           /\ UNCHANGED <<job, armed, known, ctx, disposed, evicted>>
  <2>1. \A x : Waits(x)' => Waits(x)
    BY <1>1, <1>3, <1>7 DEF Waits
  <2>2. \A x : Waits(x) => Waits(x)' \/ x = c
    BY <1>1, <1>3, <1>4, <1>7 DEF Waits
  <2>3. CallsFit'
    BY <1>1, <2>1, SameCalls DEF GenInv, CallsFit
  <2>4. unowned' \in BOOLEAN
    BY <1>7
  <2>5. CASE c.by # "reindex" /\ c.epoch # Epoch /\ UNCHANGED <<parsing, index, pending, timer>>
    <3>1. TypeOK' /\ JobFits'
      BY <1>1, <1>3, <1>7, <2>4, <2>5 DEF GenInv, TypeOK, JobFits, Buffer
    <3>2. Owed'
      BY <1>1, <1>7, <2>2, <2>5, SameCalls DEF GenInv, Owed, OnItsWay, Lands
    <3> QED
      BY <2>3, <3>1, <3>2 DEF GenInv
  <2>6. CASE \E p \in Parse : p.by = c.by /\ p.epoch = c.epoch /\ p.ctx = ctx /\ p.text = TextOf(c) /\ Parsed(p)
    <3>1. PICK p \in Parse : p.by = c.by /\ p.epoch = c.epoch /\ p.ctx = ctx /\ Parsed(p)
      BY <2>6
    <3>2. /\ parsing' \in Seq(Parse) /\ index' \in Texts \cup {Absent} /\ pending' = pending /\ timer' = timer
          /\ \A q : Has(parsing, q) => Has(parsing', q)
          /\ \A q : Has(parsing', q) => Has(parsing, q) \/ q = p
          /\ index' # Absent \/ Has(parsing', p)
          /\ index' = Absent => index = Absent
      BY <1>2, <3>1, ParsedFits
    <3>3. TypeOK'
      BY <1>1, <1>3, <1>7, <2>4, <3>2 DEF GenInv, TypeOK
    <3>4. JobFits'
      BY <1>1, <1>7, <3>1, <3>2, NoTaskIsCall DEF GenInv, JobFits, Buffer
    <3>5. ctx \notin disposed
      BY <1>2, BoundsAre
    <3>6. Owed'
      <4>1. OnItsWay => OnItsWay' \/ c.epoch = Epoch
        BY <1>1, <2>2, SameCalls DEF OnItsWay
      <4>2. c.epoch = Epoch => index' # Absent \/ \E q : Has(parsing', q) /\ Lands(q)'
        BY <1>1, <1>7, <3>1, <3>2, <3>5, SameCalls DEF Lands
      <4>3. \A q : Lands(q)' <=> Lands(q)
        BY <1>1, <1>7, SameCalls DEF Lands
      <4> QED
        BY <1>1, <1>7, <3>2, <4>1, <4>2, <4>3 DEF GenInv, Owed
    <3> QED
      BY <2>3, <3>3, <3>4, <3>6 DEF GenInv
  <2> QED
    BY <1>2, <1>6, <1>7, <2>5, <2>6, AnswerParses
<1>8. CASE Created(c) /\ UNCHANGED <<parsing, debounced>>
  <2>1. job'.call = c
    BY <1>8 DEF Created
  <2>2. \A x : Waits(x)' <=> Waits(x)
    BY <1>1, <1>3, <1>4, <1>5, <2>1 DEF Waits
  <2> QED
    BY <1>1, <1>3, <1>8, <2>2, CreatedFits DEF debounced
<1> QED
  BY <1>4, <1>7, <1>8 DEF StartCall

-------------------------------------------------------------------------------
(***************************************************************************)
(* A walk, and what follows a task.                                        *)
(***************************************************************************)
\* The task moves to its next await.
LEMMA JobMoves ==
  ASSUME TypeOK, NEW at \in {"read", "parse"}, job' = [job EXCEPT !.at = at]
  PROVE  job' \in Job /\ job'.kind = job.kind /\ job'.at = at /\ job'.call = job.call
BY DEF TypeOK, Job

\* The walk parses a text.
LEMMA WalkParses ==
  ASSUME GenInv, job.at \in {"walk", "read"}, job' = [job EXCEPT !.at = "parse"],
         NEW text \in Texts, StartParse("walk", Epoch, text),
         UNCHANGED <<document, opens, isOpen, texts, edits, ready, lane, gate, armed, known, unowned, ctx, disposed,
                     evicted, tasks, rebuilt, reindex, loaded>>
  PROVE  GenInv'
<1>1. TypeOK
  BY DEF GenInv
<1>2. job' \in Job /\ job'.kind = job.kind /\ job'.at = "parse" /\ job'.call = job.call
  BY <1>1, JobMoves
<1>3. PICK p \in Parse : p.by = "walk" /\ p.ctx = ctx /\ Parsed(p)
  BY <1>1, BoundsAre, ParseStarts
<1>4. /\ parsing' \in Seq(Parse) /\ index' \in Texts \cup {Absent} /\ pending' = pending /\ timer' = timer
      /\ \A q : Has(parsing, q) => Has(parsing', q)
      /\ \A q : Has(parsing', q) => Has(parsing, q) \/ q = p
      /\ index' # Absent \/ Has(parsing', p)
      /\ index' = Absent => index = Absent
  BY <1>1, <1>3, ParsedFits
<1>5. TypeOK'
  BY <1>2, <1>4 DEF GenInv, TypeOK
<1>6. JobFits'
  BY <1>2, <1>3, <1>4 DEF GenInv, JobFits, Buffer
<1>7. CallsFit'
  BY <1>2, SameCalls DEF GenInv, CallsFit, Waits
<1>8. Owed'
  BY <1>3, <1>4, SameCalls DEF Owed, Lands
<1> QED
  BY <1>5, <1>6, <1>7, <1>8 DEF GenInv

\* The walk goes on without one.
LEMMA WalkPasses ==
  ASSUME GenInv, job.at = "walk", NEW at \in {"read", "parse"}, job' = [job EXCEPT !.at = at],
         isOpen /\ index = Absent => ~evicted,
         UNCHANGED <<document, opens, isOpen, texts, edits, pending, timer, ready, lane, gate, armed, known, unowned,
                     ctx, disposed, evicted, tasks, rebuilt, reindex, loaded, parsing, index>>
  PROVE  GenInv'
<1>1. job' \in Job /\ job'.kind = job.kind /\ job'.at = at /\ job'.call = job.call
  BY JobMoves DEF GenInv
<1>2. TypeOK'
  BY <1>1 DEF GenInv, TypeOK
<1>3. JobFits'
  BY <1>1 DEF GenInv, JobFits, Buffer
<1>4. CallsFit'
  BY <1>1, SameCalls DEF GenInv, CallsFit, Waits
<1>5. Owed'
  <2>1. OnItsWay' <=> OnItsWay
    BY <1>1, SameCalls DEF OnItsWay, Waits
  <2> QED
    BY <1>1, <2>1, SameCalls DEF GenInv, Owed, Lands
<1> QED
  BY <1>2, <1>3, <1>4, <1>5 DEF GenInv

LEMMA WalkBufferFits ==
  ASSUME GenInv, WalkBuffer
  PROVE  GenInv'
<1>1. Buffer \in Texts
  BY BoundsAre DEF GenInv, WalkBuffer
<1> QED
  BY <1>1, WalkParses DEF WalkBuffer, editor, routing, after

LEMMA WalkReadFits ==
  ASSUME GenInv, WalkRead
  PROVE  GenInv'
BY WalkPasses DEF WalkRead, editor, debounced, routing, after

LEMMA WalkFileFits ==
  ASSUME GenInv, WalkFile
  PROVE  GenInv'
<1>1. 0 \in Texts
  BY BoundsAre DEF GenInv
<1> QED
  BY <1>1, WalkParses DEF WalkFile, editor, routing, after

LEMMA WalkNothingFits ==
  ASSUME GenInv, WalkNothing
  PROVE  GenInv'
<1>1. CASE evicted /\ isOpen /\ index = Absent
  <2>1. Buffer \in Texts
    BY <1>1, BoundsAre DEF GenInv
  <2> QED
    BY <1>1, <2>1, WalkParses DEF WalkNothing, editor, routing, after
<1>2. CASE ~(evicted /\ isOpen /\ index = Absent)
  BY <1>2, WalkPasses DEF WalkNothing, editor, debounced, routing, after
<1> QED
  BY <1>1, <1>2

LEMMA EndTaskFits ==
  ASSUME GenInv, EndTask
  PROVE  GenInv'
<1>1. /\ ready = <<>> /\ job' = Idle /\ armed' = FALSE /\ gate' = <<>> /\ evicted' = FALSE
      /\ job.at \in {"busy", "parse"}
      /\ ready' = gate \o (IF job.call = NoCall THEN <<>> ELSE <<job.call>>)
      /\ rebuilt' = (rebuilt \/ job.kind = "rebuild")
      /\ UNCHANGED <<document, opens, isOpen, texts, edits, pending, timer, lane, known, unowned, ctx, disposed, tasks,
                     reindex, loaded, parsing, index>>
  BY DEF EndTask, editor, debounced
<1>2. \A i \in DOMAIN parsing : job.at = "parse" => parsing[i].by # "walk"
  BY DEF EndTask
<1>3. TypeOK /\ gate \in Seq(Call) /\ job.call \in Call \cup {NoCall} /\ parsing \in Seq(Parse)
  BY DEF GenInv, TypeOK, Job
<1>4. ready' \in Seq(Call) /\ \A x \in Call : Has(ready', x) <=> Has(gate, x) \/ x = job.call
  <2>1. CASE job.call = NoCall
    <3>1. ready' = gate \o <<>>
      BY <1>1, <2>1
    <3> QED
      BY <1>3, <2>1, <3>1, NoneIs, ConcatIs, NoTaskIsCall
  <2>2. CASE job.call # NoCall
    <3>1. PICK c \in Call : c = job.call
      BY <1>3, <2>2
    <3>2. ready' = gate \o <<c>>
      BY <1>1, <2>2, <3>1
    <3>3. PICK one \in Seq(Call) : one = <<c>> /\ \A x : Has(one, x) <=> x = c
      BY OneIs
    <3>4. ready' = gate \o one
      BY <3>2, <3>3
    <3>5. ready' \in Seq(Call) /\ \A x : Has(ready', x) <=> Has(gate, x) \/ Has(one, x)
      BY <1>3, <3>4, ConcatIs
    <3> QED
      BY <3>1, <3>3, <3>5
  <2> QED
    BY <2>1, <2>2
<1>5. job' \in Job /\ job'.kind = "none" /\ job'.at = "idle" /\ job'.call = NoCall
  BY <1>1 DEF Idle, Job
<1>6. gate' \in Seq(Call) /\ \A x : ~Has(gate', x)
  BY <1>1, NoneIs
<1>7. TypeOK'
  <2>1. rebuilt' \in BOOLEAN
    BY <1>1
  <2> QED
    BY <1>1, <1>4, <1>5, <1>6, <2>1 DEF GenInv, TypeOK
<1>8. JobFits'
  <2>1. \A p : Has(parsing, p) => p.by # "walk"
    BY <1>1, <1>2, <1>3 DEF GenInv, JobFits, Has
  <2> QED
    BY <1>1, <1>5, <2>1 DEF GenInv, JobFits, Buffer
<1>9. \A x : Waits(x)' <=> Waits(x)
  BY <1>1, <1>4, <1>5, <1>6, NoneIs, NoTaskIsCall DEF Waits
<1>10. CallsFit' /\ Owed'
  BY <1>1, <1>9, SameCalls DEF GenInv, CallsFit, Owed, OnItsWay, Lands
<1> QED
  BY <1>7, <1>8, <1>10 DEF GenInv

LEMMA ReindexesFit ==
  ASSUME GenInv, ReindexOpenDocuments
  PROVE  GenInv'
<1>1. /\ rebuilt /\ rebuilt' = FALSE /\ reindex' = IF isOpen THEN reindex \cup {opens} ELSE reindex
      /\ UNCHANGED <<document, opens, isOpen, texts, edits, pending, timer, ready, lane, gate, job, armed, known, unowned,
                     ctx, disposed, evicted, tasks, loaded, parsing, index>>
  BY DEF ReindexOpenDocuments, editor, debounced, routing, registry
<1>2. reindex' \subseteq Docs
  BY <1>1, BoundsAre DEF GenInv, TypeOK
<1>3. TypeOK'
  BY <1>1, <1>2 DEF GenInv, TypeOK
<1>4. JobFits'
  BY <1>1 DEF GenInv, JobFits, Buffer
<1>5. CallsFit'
  BY <1>1, SameCalls DEF GenInv, CallsFit, Waits
<1>6. Owed'
  BY <1>1 DEF Owed
<1> QED
  BY <1>3, <1>4, <1>5, <1>6 DEF GenInv

LEMMA ReindexFits ==
  ASSUME GenInv, NEW d \in Docs, ReindexDocument(d)
  PROVE  GenInv'
<1>1. /\ ready = <<>> /\ d \in reindex /\ reindex' = reindex \ {d}
      /\ ready' = << [by |-> "reindex", epoch |-> Epoch, doc |-> d, text |-> Absent] >>
      /\ UNCHANGED <<document, opens, isOpen, texts, edits, pending, timer, lane, gate, job, armed, known, unowned, ctx,
                     disposed, evicted, tasks, rebuilt, loaded, parsing, index>>
  BY DEF ReindexDocument, NextEvent, editor, debounced, registry
<1>2. Epoch \in 0..(2 * MaxOpens)
  BY BoundsAre DEF GenInv
<1>3. PICK c : c = [by |-> "reindex", epoch |-> Epoch, doc |-> d, text |-> Absent]
  OBVIOUS
<1>4. c \in Call /\ c.by = "reindex" /\ c.epoch = Epoch
  BY <1>2, <1>3 DEF Call
<1>5. ready' = <<c>> /\ ready' \in Seq(Call) /\ \A x : Has(ready', x) <=> x = c
  BY <1>1, <1>3, <1>4, OneIs
<1>6. TypeOK'
  BY <1>1, <1>5 DEF GenInv, TypeOK
<1>7. JobFits'
  BY <1>1 DEF GenInv, JobFits, Buffer
<1>8. \A x : Waits(x)' => x = c \/ Waits(x)
  BY <1>1, <1>5 DEF Waits
<1>9. CallsFit'
  <2>1. CallFits(c)
    BY <1>4 DEF CallFits
  <2> QED
    BY <1>1, <1>8, <2>1, SameCalls DEF GenInv, CallsFit
<1>10. Owed'
  BY <1>1, <1>4, <1>5, SameCalls DEF Owed, OnItsWay, Waits
<1> QED
  BY <1>6, <1>7, <1>9, <1>10 DEF GenInv

LEMMA GenInitially ==
  ASSUME Init
  PROVE  GenInv
<1>1. /\ document \in Kinds /\ opens = 0 /\ isOpen = FALSE /\ edits = 0 /\ texts = [d \in Docs |-> 0]
      /\ pending = Absent /\ timer = FALSE /\ ready = <<>> /\ lane = <<>> /\ gate = <<>>
      /\ job = [Idle EXCEPT !.kind = "startup", !.at = "walk"]
      /\ armed = TRUE /\ known = document.inWorkspace /\ unowned = FALSE /\ ctx = 1 /\ disposed = {}
      /\ evicted = FALSE /\ tasks = 0 /\ rebuilt = FALSE /\ reindex = {}
      /\ loaded = FALSE /\ parsing = <<>> /\ index = Absent
  BY DEF Init
<1>2. job = [kind |-> "startup", at |-> "walk", call |-> NoCall]
  BY <1>1 DEF Idle
<1>3. job \in Job /\ job.kind = "startup" /\ job.at = "walk" /\ job.call = NoCall
  BY <1>2 DEF Job
<1>4. known \in BOOLEAN
  BY <1>1, DocumentAssumption
<1>5. MaxTasks \in Nat /\ MaxEdits \in Nat /\ MaxOpens \in Nat /\ 0 \in Texts
  BY DocumentAssumption DEF Texts
<1>6. /\ ready \in Seq(Call) /\ gate \in Seq(Call) /\ lane \in Seq(Call \cup [by : document.tasks])
      /\ parsing \in Seq(Parse) /\ \A x : ~Has(ready, x) /\ ~Has(gate, x) /\ ~Has(lane, x) /\ ~Has(parsing, x)
  BY <1>1, NoneIs
<1>7. TypeOK
  <2>1. document \in Kinds /\ opens \in 0..MaxOpens /\ edits \in Texts /\ tasks \in 0..MaxTasks
    BY <1>1, <1>5
  <2>4. isOpen \in BOOLEAN /\ (isOpen => opens # 0)
    BY <1>1
  <2>5. ctx \in Nat \ {0} /\ disposed \subseteq 1..(ctx - 1)
    BY <1>1
  <2>2. texts \in [Docs -> Texts]
    BY <1>1, <1>5
  <2>3. /\ pending \in Texts \cup {Absent} /\ timer \in BOOLEAN /\ armed \in BOOLEAN /\ unowned \in BOOLEAN
        /\ evicted \in BOOLEAN /\ rebuilt \in BOOLEAN /\ reindex \subseteq Docs /\ loaded \in BOOLEAN
        /\ index \in Texts \cup {Absent}
    BY <1>1
  <2> QED
    BY <1>3, <1>4, <1>6, <2>1, <2>2, <2>3, <2>4, <2>5 DEF TypeOK
<1>8. JobFits
  BY <1>1, <1>3, <1>6 DEF JobFits
<1>9. CallsFit
  BY <1>3, <1>6, NoTaskIsCall DEF CallsFit, Waits
<1>10. Owed
  BY <1>1 DEF Owed
<1> QED
  BY <1>7, <1>8, <1>9, <1>10 DEF GenInv

-------------------------------------------------------------------------------
(***************************************************************************)
(* The steady document: the last call wins.                                *)
(***************************************************************************)
LEMMA WinsAppend ==
  ASSUME NEW S, NEW q \in Seq(S), NEW y \in S, NEW x, NEW e, NEW b, NEW t,
         y.epoch = e, Good(y, e, b, t)
  PROVE  Wins(Append(q, y), x, e, b, t)
<1>1. /\ Len(Append(q, y)) = Len(q) + 1 /\ Len(q) \in Nat
      /\ Append(q, y)[Len(q) + 1] = y
  BY AppendIs
<1> DEFINE i == Len(q) + 1
<1>2. i \in 0..Len(Append(q, y)) /\ i # 0
  BY <1>1
<1>3. \A j \in 1..Len(Append(q, y)) : j >= i => j = i
  BY <1>1
<1>4. \A j \in 1..Len(Append(q, y)) : j >= i => Good(Append(q, y)[j], e, b, t)
  BY <1>1, <1>3
<1> QED
  BY <1>1, <1>2, <1>4 DEF Wins

LEMMA WinsAnyway ==
  ASSUME NEW q, NEW x, NEW y, NEW e, NEW b, NEW t, Wins(q, x, e, b, t), Len(q) \in Nat,
         y = b \/ \E i \in 1..Len(q) : q[i].epoch = e
  PROVE  Wins(q, y, e, b, t)
<1>1. PICK i \in 0..Len(q) :
        /\ IF i = 0 THEN x = b ELSE q[i].epoch = e
        /\ \A j \in 1..Len(q) : j >= i => Good(q[j], e, b, t)
  BY DEF Wins
<1>2. CASE i # 0 \/ y = b
  BY <1>1, <1>2 DEF Wins
<1>3. CASE i = 0 /\ y # b
  <2>1. PICK k \in 1..Len(q) : q[k].epoch = e
    BY <1>3
  <2>2. k \in 0..Len(q) /\ k # 0 /\ \A j \in 1..Len(q) : j >= 0
    OBVIOUS
  <2> QED
    BY <1>1, <1>3, <2>1, <2>2 DEF Wins
<1> QED
  BY <1>2, <1>3

LEMMA WinsTail ==
  ASSUME NEW S, NEW q \in Seq(S), q # <<>>, NEW x, NEW y, NEW e, NEW b, NEW t, Wins(q, x, e, b, t),
         Head(q).epoch # e => y = x,
         Good(Head(q), e, b, t) /\ Head(q).epoch = e => y = b
  PROVE  Wins(Tail(q), y, e, b, t)
<1>1. /\ Tail(q) \in Seq(S) /\ Len(Tail(q)) = Len(q) - 1 /\ Len(q) \in Nat /\ Len(q) >= 1
      /\ Head(q) = q[1]
      /\ \A i \in 1..Len(Tail(q)) : Tail(q)[i] = q[i + 1]
  BY TailIs
<1>2. PICK i \in 0..Len(q) :
        /\ IF i = 0 THEN x = b ELSE q[i].epoch = e
        /\ \A j \in 1..Len(q) : j >= i => Good(q[j], e, b, t)
  BY DEF Wins
<1>3. \A j \in 1..Len(Tail(q)) : j + 1 \in 1..Len(q) /\ (j + 1 >= i => Good(Tail(q)[j], e, b, t))
  BY <1>1, <1>2
<1>4. CASE i \in {0, 1}
  <2>1. Good(q[1], e, b, t)
    BY <1>1, <1>2, <1>4
  <2>2. y = b
    BY <1>1, <1>2, <1>4, <2>1
  <2>3. \A j \in 1..Len(Tail(q)) : Good(Tail(q)[j], e, b, t)
    <3>1. \A j \in 1..Len(Tail(q)) : j + 1 >= i
      BY <1>1, <1>4
    <3> QED
      BY <1>3, <3>1
  <2>4. 0 \in 0..Len(Tail(q))
    BY <1>1
  <2> QED
    BY <2>2, <2>3, <2>4 DEF Wins
<1>5. CASE i > 1
  <2>1. i - 1 \in 0..Len(Tail(q)) /\ i - 1 # 0 /\ i - 1 \in 1..Len(Tail(q))
    BY <1>1, <1>5
  <2>2. Tail(q)[i - 1].epoch = e
    BY <1>1, <1>2, <1>5, <2>1
  <2>3. \A j \in 1..Len(Tail(q)) : j >= i - 1 => Good(Tail(q)[j], e, b, t)
    BY <1>3
  <2> QED
    BY <2>1, <2>2, <2>3 DEF Wins
<1> QED
  BY <1>4, <1>5

LEMMA SettledStays ==
  ASSUME Settled, UNCHANGED <<known, parsing, rebuilt, reindex, evicted>>,
         job'.call = NoCall, job'.kind # "rebuild",
         \A c : Has(lane, c)' => Has(lane, c) \/ c.by \in {"reload", "create"},
         \A c : (Has(gate, c) \/ Has(ready, c))' => Has(gate, c) \/ Has(ready, c) \/ c.by # "reindex"
  PROVE  Settled'
BY DEF Settled

LEMMA IndexStays ==
  ASSUME IndexWins, UNCHANGED <<opens, isOpen, texts, index>>, Queue' = Queue, timer => timer',
         job'.at = "read" /\ isOpen => job.at = "read"
  PROVE  IndexWins'
<1>1. Epoch' = Epoch /\ Buffer' = Buffer
  BY DEF Epoch, Buffer
<1> QED
  BY <1>1 DEF IndexWins

\* Its calls are answered, in order, as soon as the gate is open.
LEMMA QueueIs ==
  ASSUME TypeOK
  PROVE  /\ Queue \in Seq(Call) /\ Len(Queue) \in Nat
         /\ ready = <<>> => Queue = gate
         /\ gate = <<>> => Queue = ready
<1>1. gate \in Seq(Call) /\ ready \in Seq(Call)
  BY DEF TypeOK
<1>2. Queue \in Seq(Call) /\ Len(Queue) \in Nat
  BY <1>1, ConcatIs DEF Queue
<1>3. gate \o <<>> = gate /\ <<>> \o ready = ready
  BY <1>1, ConcatEmptySeq
<1> QED
  BY <1>2, <1>3 DEF Queue

LEMMA ResumeWins ==
  ASSUME GenInv, Settled, Steady, IndexWins, Resume
  PROVE  Settled' /\ IndexWins'
<1>1. /\ ready # <<>> /\ ready' = Tail(ready)
      /\ UNCHANGED <<document, opens, isOpen, texts, edits, job, armed, known, evicted, rebuilt, reindex>>
  BY DEF Resume, editor, registry, after
<1>2. /\ ready \in Seq(Call) /\ gate \in Seq(Call) /\ TypeOK
  BY DEF GenInv, TypeOK
<1>3. /\ Tail(ready) \in Seq(Call) /\ Head(ready) \in Call
      /\ \A x : Has(ready, x) <=> x = Head(ready) \/ Has(Tail(ready), x)
  BY <1>1, <1>2, TailIs
<1>4. CASE armed
  <2>1. gate' = Append(gate, Head(ready)) /\ UNCHANGED <<lane, parsing, index, pending, timer>>
    BY <1>4 DEF Resume, debounced
  <2>2. \A x : Has(gate, x)' => x = Head(ready) \/ Has(gate, x)
    BY <1>2, <1>3, <2>1, AppendIs
  <2>3. Settled'
    <3>1. \A c : (Has(gate, c) \/ Has(ready, c))' => Has(gate, c) \/ Has(ready, c)
      BY <1>1, <1>3, <2>2
    <3> QED
      BY <1>1, <2>1, <3>1, SettledStays DEF Settled
  <2>4. Queue' = Queue
    <3>1. ready = <<Head(ready)>> \o Tail(ready)
      BY <1>1, <1>2
    <3>2. Append(gate, Head(ready)) = gate \o <<Head(ready)>>
      BY <1>2, <1>3
    <3>3. (gate \o <<Head(ready)>>) \o Tail(ready) = gate \o (<<Head(ready)>> \o Tail(ready))
      <4>1. <<Head(ready)>> \in Seq(Call)
        BY <1>3
      <4> QED
        BY <1>2, <1>3, <4>1, ConcatAssociative
    <3> QED
      BY <1>1, <2>1, <3>1, <3>2, <3>3 DEF Queue
  <2>5. IndexWins'
    BY <1>1, <2>1, <2>4, IndexStays
  <2> QED
    BY <2>3, <2>5
<1>5. CASE ~armed
  <2>1. Answer(Head(ready)) /\ UNCHANGED <<lane, gate>>
    BY <1>5 DEF Resume, Settled
  <2>2. gate = <<>> /\ job.at # "read"
    BY <1>5 DEF GenInv, JobFits
  <2>3. Head(ready).by # "reindex" /\ CallFits(Head(ready))
    BY <1>3 DEF Settled, GenInv, CallsFit, Waits
  <2>4. PICK c : c = Head(ready)
    OBVIOUS
  <2>5. c \in Call /\ c.by # "reindex" /\ CallFits(c) /\ Answer(c)
    BY <1>3, <2>1, <2>3, <2>4
  <2>6. \/ c.epoch # Epoch /\ UNCHANGED <<parsing, index, pending, timer>>
        \/ c.epoch = Epoch /\ \E p \in Parse : p.text = TextOf(c) /\ Parsed(p)
    BY <1>2, <2>5, AnswerParses
  <2>7. \/ c.epoch # Epoch /\ UNCHANGED <<parsing, index, pending, timer>>
        \/ c.epoch = Epoch /\ index' = TextOf(c) /\ UNCHANGED <<parsing, pending, timer>>
    BY <2>6 DEF Parsed, Steady
  <2>8. Settled'
    <3>1. \A x : (Has(gate, x) \/ Has(ready, x))' => Has(gate, x) \/ Has(ready, x)
      BY <1>1, <1>3, <2>1
    <3>2. parsing' = parsing
      BY <2>7
    <3> QED
      BY <1>1, <2>1, <3>1, <3>2, SettledStays DEF Settled
  <2>9. Epoch' = Epoch /\ Buffer' = Buffer /\ timer' = timer
    BY <1>1, <2>7 DEF Epoch, Buffer
  <2>10. ~isOpen => index' = index
    BY <1>2, <2>5, <2>7, BoundsAre, NoTaskIsCall DEF CallFits
  <2>11. Queue = ready /\ Queue' = Tail(ready)
    <3>1. Tail(ready) = <<>> \o Tail(ready)
      BY <1>3, ConcatEmptySeq
    <3> QED
      BY <1>1, <1>2, <2>1, <2>2, <3>1, QueueIs DEF Queue
  <2>12. isOpen /\ ~timer => Wins(Tail(ready), index', Epoch, Buffer, texts)
    <3> SUFFICES ASSUME isOpen, ~timer
                 PROVE  Wins(Tail(ready), index', Epoch, Buffer, texts)
      OBVIOUS
    <3>1. Wins(ready, index, Epoch, Buffer, texts)
      BY <2>11 DEF IndexWins
    <3>2. Good(c, Epoch, Buffer, texts) /\ c.epoch = Epoch => index' = Buffer
      BY <2>7 DEF Good, TextOf
    <3>3. c.epoch # Epoch => index' = index
      BY <2>7
    <3>4. PICK e, b, y, t : e = Epoch /\ b = Buffer /\ y = index' /\ t = texts
      OBVIOUS
    <3> QED
      BY <1>1, <1>2, <2>4, <3>1, <3>2, <3>3, <3>4, WinsTail
  <2>13. IndexWins'
    BY <1>1, <2>2, <2>9, <2>10, <2>11, <2>12 DEF IndexWins
  <2> QED
    BY <2>8, <2>13
<1> QED
  BY <1>4, <1>5

LEMMA OpenWins ==
  ASSUME GenInv, Settled, IndexWins, Open
  PROVE  Settled' /\ IndexWins'
<1>1. /\ ready = <<>> /\ ~isOpen /\ opens < MaxOpens /\ opens' = opens + 1 /\ isOpen' = TRUE
      /\ ready' = << [by |-> "open", epoch |-> 2 * opens + 1, doc |-> opens + 1, text |-> Absent] >>
      /\ pending' = texts[opens + 1] /\ timer' = TRUE
      /\ UNCHANGED <<document, texts, lane, gate, job, known, evicted, rebuilt, reindex, parsing, index>>
  BY DEF Open, NextEvent, registry, after
<1>2. TypeOK /\ gate \in Seq(Call) /\ opens \in Nat
  BY BoundsAre DEF GenInv, TypeOK
<1>3. PICK c : c = [by |-> "open", epoch |-> 2 * opens + 1, doc |-> opens + 1, text |-> Absent]
  OBVIOUS
<1>4. c.by = "open" /\ c.epoch = 2 * opens + 1 /\ c.doc = opens + 1 /\ c.text = Absent /\ ready' = <<c>>
  BY <1>1, <1>3
<1>5. c \in Call
  <2>1. 2 * opens + 1 \in 0..(2 * MaxOpens) /\ opens + 1 \in Docs
    BY <1>1, <1>2, BoundsAre DEF Docs
  <2> QED
    BY <1>3, <2>1 DEF Call
<1>6. Epoch' = c.epoch /\ Buffer' = texts[c.doc]
  BY <1>1, <1>2, <1>4 DEF Epoch, Buffer
<1>7. Queue' = Append(gate, c)
  BY <1>1, <1>2, <1>4, <1>5 DEF Queue
<1>8. Good(c, c.epoch, texts[c.doc], texts)
  BY <1>4 DEF Good
<1>9. \A x, e, b, t : e = c.epoch /\ Good(c, e, b, t) => Wins(Append(gate, c), x, e, b, t)
  BY <1>2, <1>5, WinsAppend
<1>10. Wins(Append(gate, c), index, c.epoch, texts[c.doc], texts)
  BY <1>8, <1>9
<1>11. job.at = "read" => \E i \in 1..Len(Append(gate, c)) : Append(gate, c)[i].epoch = c.epoch
  <2>1. /\ Len(Append(gate, c)) = Len(gate) + 1 /\ Len(gate) \in Nat
        /\ Append(gate, c)[Len(gate) + 1] = c
    BY <1>2, <1>5, AppendIs
  <2>2. Len(gate) + 1 \in 1..Len(Append(gate, c))
    BY <2>1
  <2> QED
    BY <2>1, <2>2
<1>12. IndexWins'
  BY <1>1, <1>6, <1>7, <1>10, <1>11 DEF IndexWins
<1>13. Settled'
  <2>1. \A x : Has(ready, x)' => x = c
    BY <1>4, <1>5, OneIs
  <2>2. \A x : (Has(gate, x) \/ Has(ready, x))' => Has(gate, x) \/ Has(ready, x) \/ x.by # "reindex"
    BY <1>1, <1>4, <2>1
  <2> QED
    BY <1>1, <2>2, SettledStays DEF Settled
<1> QED
  BY <1>12, <1>13

LEMMA EditWins ==
  ASSUME GenInv, Settled, IndexWins, Edit
  PROVE  Settled' /\ IndexWins'
<1>1. /\ isOpen /\ timer' = TRUE
      /\ UNCHANGED <<document, opens, isOpen, ready, lane, gate, job, known, evicted, rebuilt, reindex, parsing, index>>
  BY DEF Edit, NextEvent, routing, registry, after
<1>2. Settled'
  BY <1>1, SettledStays DEF Settled
<1>3. Epoch' = Epoch /\ Queue' = Queue
  BY <1>1 DEF Epoch, Queue
<1> QED
  BY <1>1, <1>2, <1>3 DEF IndexWins

LEMMA ParseTimerWins ==
  ASSUME GenInv, Settled, IndexWins, ParseTimer
  PROVE  Settled' /\ IndexWins'
<1>1. /\ ready = <<>> /\ timer /\ timer' = FALSE
      /\ ready' = << [by |-> "edit", epoch |-> Epoch, doc |-> opens, text |-> pending] >>
      /\ UNCHANGED <<document, opens, isOpen, texts, lane, gate, job, known, evicted, rebuilt, reindex, parsing, index>>
  BY DEF ParseTimer, NextEvent, editor, registry, after
<1>2. TypeOK /\ gate \in Seq(Call) /\ isOpen /\ pending = Buffer
  BY <1>1 DEF GenInv, TypeOK, JobFits
<1>3. PICK c : c = [by |-> "edit", epoch |-> Epoch, doc |-> opens, text |-> pending]
  OBVIOUS
<1>4. c.by = "edit" /\ c.epoch = Epoch /\ c.text = Buffer /\ ready' = <<c>>
  BY <1>1, <1>2, <1>3
<1>5. c \in Call
  <2>1. Epoch \in 0..(2 * MaxOpens) /\ opens \in Docs /\ pending \in Texts
    BY <1>2, BoundsAre
  <2> QED
    BY <1>3, <2>1 DEF Call
<1>6. Epoch' = Epoch /\ Buffer' = Buffer
  BY <1>1 DEF Epoch, Buffer
<1>7. Queue' = Append(gate, c)
  BY <1>1, <1>2, <1>4, <1>5 DEF Queue
<1>8. Good(c, Epoch, Buffer, texts)
  BY <1>4 DEF Good
<1>9. \A x, e, b, t : e = c.epoch /\ Good(c, e, b, t) => Wins(Append(gate, c), x, e, b, t)
  BY <1>2, <1>5, WinsAppend
<1>10. Wins(Append(gate, c), index, Epoch, Buffer, texts)
  BY <1>4, <1>8, <1>9
<1>11. \E i \in 1..Len(Append(gate, c)) : Append(gate, c)[i].epoch = Epoch
  <2>1. /\ Len(Append(gate, c)) = Len(gate) + 1 /\ Len(gate) \in Nat
        /\ Append(gate, c)[Len(gate) + 1] = c
    BY <1>2, <1>5, AppendIs
  <2>2. Len(gate) + 1 \in 1..Len(Append(gate, c))
    BY <2>1
  <2> QED
    BY <1>4, <2>1, <2>2
<1>12. IndexWins'
  BY <1>1, <1>2, <1>6, <1>7, <1>10, <1>11 DEF IndexWins
<1>13. Settled'
  <2>1. \A x : Has(ready, x)' => x = c
    BY <1>4, <1>5, OneIs
  <2>2. \A x : (Has(gate, x) \/ Has(ready, x))' => Has(gate, x) \/ Has(ready, x) \/ x.by # "reindex"
    BY <1>1, <1>4, <2>1
  <2> QED
    BY <1>1, <2>2, SettledStays DEF Settled
<1> QED
  BY <1>12, <1>13

LEMMA CloseWins ==
  ASSUME GenInv, Settled, IndexWins, Close
  PROVE  Settled' /\ IndexWins'
<1>1. /\ isOpen' = FALSE /\ index' = Absent
      /\ UNCHANGED <<document, opens, texts, ready, lane, gate, job, known, evicted, rebuilt, reindex, parsing>>
  BY DEF Close, NextEvent, routing, registry, after
<1>2. Settled'
  BY <1>1, SettledStays DEF Settled
<1> QED
  BY <1>1, <1>2 DEF IndexWins

LEMMA QueueTaskWins ==
  ASSUME GenInv, Settled, Steady, IndexWins, NEW kind \in document.tasks, QueueTask(kind)
  PROVE  Settled' /\ IndexWins'
<1>1. /\ lane' = Append(lane, [by |-> kind])
      /\ UNCHANGED <<document, opens, isOpen, texts, timer, ready, gate, job, known, evicted, rebuilt, reindex, parsing, index>>
  BY DEF QueueTask, NextEvent, editor, debounced, registry, after
<1>2. TypeOK /\ lane \in Seq(Call \cup [by : document.tasks]) /\ kind \in {"reload", "create"}
  BY BoundsAre DEF GenInv, TypeOK, Steady
<1>3. [by |-> kind] \in Call \cup [by : document.tasks]
  OBVIOUS
<1>4. \A x : Has(lane, x)' => x = [by |-> kind] \/ Has(lane, x)
  BY <1>1, <1>2, <1>3, AppendIs
<1>5. [by |-> kind].by = kind
  OBVIOUS
<1>6. \A x : Has(lane, x)' => Has(lane, x) \/ x.by \in {"reload", "create"}
  BY <1>2, <1>4, <1>5
<1>7. Settled'
  BY <1>1, <1>6, SettledStays DEF Settled
<1>8. Queue' = Queue
  BY <1>1 DEF Queue
<1> QED
  BY <1>1, <1>7, <1>8, IndexStays

\* What the lane of a steady document starts.
LEMMA LaneStarts ==
  ASSUME GenInv, Settled, ready = <<>>, lane # <<>>, lane' = Tail(lane)
  PROVE  Head(lane).by \in {"reload", "create"} /\ \A c : Has(lane, c)' => Has(lane, c)
<1>1. lane \in Seq(Call \cup [by : document.tasks])
  BY DEF GenInv, TypeOK
<1>2. \A x : Has(lane, x) <=> x = Head(lane) \/ Has(Tail(lane), x)
  BY <1>1, TailIs
<1> QED
  BY <1>2 DEF Settled

LEMMA StartTaskWins ==
  ASSUME GenInv, Settled, IndexWins, StartReload \/ StartCreate
  PROVE  Settled' /\ IndexWins'
<1>1. /\ ready = <<>> /\ lane # <<>> /\ lane' = Tail(lane)
      /\ UNCHANGED <<document, opens, isOpen, texts, timer, ready, gate, rebuilt, reindex, parsing>>
  BY DEF StartReload, StartCreate, StartTask, editor, debounced, after
<1>2. /\ UNCHANGED <<known, evicted, index>>
      /\ job' = [Idle EXCEPT !.kind = "reload", !.at = "busy"] \/ job' = [Idle EXCEPT !.kind = "create", !.at = "busy"]
  BY DEF StartReload, StartCreate, Settled
<1>3. job'.call = NoCall /\ job'.kind # "rebuild" /\ job'.at # "read"
  BY <1>2 DEF Idle
<1>4. Settled'
  BY <1>1, <1>2, <1>3, LaneStarts, SettledStays DEF Settled
<1>5. Queue' = Queue
  BY <1>1 DEF Queue
<1> QED
  BY <1>1, <1>2, <1>3, <1>4, <1>5, IndexStays

\* What a steady document never sees.
LEMMA SteadySees ==
  ASSUME GenInv, Settled, Steady
  PROVE  /\ ~StartRebuild /\ ~StartCall /\ ~GrammarLoaded /\ ~ReindexOpenDocuments
         /\ \A d \in Docs : ~ReindexDocument(d)
<1>1. ~GrammarLoaded /\ ~ReindexOpenDocuments /\ \A d \in Docs : ~ReindexDocument(d)
  BY DEF Settled, GrammarLoaded, ReindexOpenDocuments, ReindexDocument
<1>2. ~StartRebuild
  BY LaneStarts DEF StartRebuild, StartTask
<1>3. ~StartCall
  BY LaneStarts DEF StartCall
<1> QED
  BY <1>1, <1>2, <1>3

\* The walk of the context: it passes, or it parses a text at once.
LEMMA WalkSettles ==
  ASSUME Settled, TypeOK, NEW at \in {"read", "parse"}, job' = [job EXCEPT !.at = at],
         UNCHANGED <<known, parsing, rebuilt, reindex, evicted, lane, gate, ready>>
  PROVE  Settled'
<1>1. job'.call = job.call /\ job'.kind = job.kind
  BY JobMoves
<1> QED
  BY <1>1, SettledStays DEF Settled

LEMMA WalkReadWins ==
  ASSUME GenInv, Settled, IndexWins, WalkRead
  PROVE  Settled' /\ IndexWins'
<1>1. /\ ~isOpen /\ job' = [job EXCEPT !.at = "read"]
      /\ UNCHANGED <<opens, isOpen, texts, timer, ready, lane, gate, known, evicted, rebuilt, reindex, parsing, index>>
  BY DEF WalkRead, editor, debounced, routing, after
<1>2. Settled'
  BY <1>1, WalkSettles DEF GenInv
<1>3. Queue' = Queue
  BY <1>1 DEF Queue
<1> QED
  BY <1>1, <1>2, <1>3, IndexStays

LEMMA WalkNothingWins ==
  ASSUME GenInv, Settled, IndexWins, WalkNothing
  PROVE  Settled' /\ IndexWins'
<1>1. /\ job' = [job EXCEPT !.at = "parse"]
      /\ UNCHANGED <<opens, isOpen, texts, timer, ready, lane, gate, known, evicted, rebuilt, reindex, parsing, index>>
  BY DEF WalkNothing, Settled, editor, debounced, routing, after
<1>2. job'.at = "parse" /\ TypeOK
  BY <1>1, JobMoves DEF GenInv
<1>3. Settled'
  BY <1>1, <1>2, WalkSettles
<1>4. Queue' = Queue
  BY <1>1 DEF Queue
<1> QED
  BY <1>1, <1>2, <1>3, <1>4, IndexStays

LEMMA WalkTextWins ==
  ASSUME GenInv, Settled, Steady, IndexWins, NEW text \in Texts, StartParse("walk", Epoch, text),
         job' = [job EXCEPT !.at = "parse"],
         IF isOpen THEN text = Buffer \/ job.at = "read" ELSE text = 0,
         UNCHANGED <<opens, isOpen, texts, ready, lane, gate, known, evicted, rebuilt, reindex>>
  PROVE  Settled' /\ IndexWins'
<1>1. TypeOK
  BY DEF GenInv
<1>2. Epoch \in 0..(2 * MaxOpens)
  BY <1>1, BoundsAre
<1>3. index' = text /\ UNCHANGED <<parsing, timer>>
  <2>1. PICK p \in Parse : p.text = text /\ Parsed(p)
    BY <1>1, <1>2, ParseStarts
  <2> QED
    BY <2>1 DEF Parsed, Steady
<1>4. Settled'
  BY <1>1, <1>3, WalkSettles
<1>5. job'.at = "parse"
  BY <1>1, JobMoves
<1>6. Epoch' = Epoch /\ Buffer' = Buffer /\ Queue' = Queue
  BY DEF Epoch, Buffer, Queue
<1>7. isOpen /\ ~timer => Wins(Queue, text, Epoch, Buffer, texts)
  <2> SUFFICES ASSUME isOpen, ~timer
               PROVE  Wins(Queue, text, Epoch, Buffer, texts)
    OBVIOUS
  <2>1. Wins(Queue, index, Epoch, Buffer, texts)
    BY DEF IndexWins
  <2>2. text = Buffer \/ \E i \in 1..Len(Queue) : Queue[i].epoch = Epoch
    BY DEF IndexWins
  <2>3. Len(Queue) \in Nat
    BY <1>1, QueueIs
  <2> QED
    BY <2>1, <2>2, <2>3, WinsAnyway
<1> QED
  BY <1>3, <1>4, <1>5, <1>6, <1>7 DEF IndexWins

LEMMA WalkBufferWins ==
  ASSUME GenInv, Settled, Steady, IndexWins, WalkBuffer
  PROVE  Settled' /\ IndexWins'
<1>1. isOpen /\ Buffer \in Texts
  BY BoundsAre DEF GenInv, WalkBuffer
<1> QED
  BY <1>1, WalkTextWins DEF WalkBuffer, editor, routing, after

LEMMA WalkFileWins ==
  ASSUME GenInv, Settled, Steady, IndexWins, WalkFile
  PROVE  Settled' /\ IndexWins'
<1>1. 0 \in Texts
  BY BoundsAre DEF GenInv
<1> QED
  BY <1>1, WalkTextWins DEF WalkFile, editor, routing, after

LEMMA EndTaskWins ==
  ASSUME GenInv, Settled, IndexWins, EndTask
  PROVE  Settled' /\ IndexWins'
<1>1. /\ ready = <<>> /\ job' = Idle /\ gate' = <<>> /\ ready' = gate \o <<>>
      /\ rebuilt' = rebuilt /\ evicted' = evicted
      /\ UNCHANGED <<opens, isOpen, texts, timer, lane, known, reindex, parsing, index>>
  <2>1. /\ job.call = NoCall /\ job.kind # "rebuild"
        /\ rebuilt = FALSE /\ evicted = FALSE
    BY DEF Settled, GenInv, TypeOK
  <2>2. ready = <<>> /\ job' = Idle /\ gate' = <<>> /\ evicted' = FALSE /\ rebuilt' = (rebuilt \/ job.kind = "rebuild")
    BY DEF EndTask
  <2>3. ready' = gate \o <<>>
    BY <2>1 DEF EndTask
  <2>4. rebuilt' = FALSE
    BY <2>1, <2>2
  <2>5. UNCHANGED <<opens, isOpen, texts, timer, lane, known, reindex, parsing, index>>
    BY DEF EndTask, editor, debounced
  <2> QED
    BY <2>1, <2>2, <2>3, <2>4, <2>5
<1>2. TypeOK /\ gate \in Seq(Call)
  BY DEF GenInv, TypeOK
<1>3. ready' = gate
  BY <1>1, <1>2, ConcatEmptySeq
<1>4. \A x : ~Has(<<>>, x)
  BY NoneIs
<1>5. Idle.call = NoCall /\ Idle.kind = "none" /\ Idle.at = "idle"
  BY DEF Idle
<1>6. Settled'
  <2>1. \A x : (Has(gate, x) \/ Has(ready, x))' => Has(gate, x) \/ Has(ready, x)
    BY <1>1, <1>3, <1>4
  <2> QED
    BY <1>1, <1>5, <2>1, SettledStays DEF Settled
<1>7. Queue' = Queue
  <2>1. <<>> \o gate = gate
    BY <1>2, ConcatEmptySeq
  <2> QED
    BY <1>1, <1>2, <1>3, <2>1, QueueIs DEF Queue
<1> QED
  BY <1>1, <1>5, <1>6, <1>7, IndexStays

LEMMA SteadyInitially ==
  ASSUME Init
  PROVE  SteadyFits
<1>1. /\ isOpen = FALSE /\ ready = <<>> /\ lane = <<>> /\ gate = <<>> /\ index = Absent
      /\ job = [Idle EXCEPT !.kind = "startup", !.at = "walk"]
      /\ known = document.inWorkspace /\ evicted = FALSE /\ rebuilt = FALSE /\ reindex = {} /\ parsing = <<>>
  BY DEF Init
<1>2. \A x : ~Has(<<>>, x)
  BY NoneIs
<1>3. job.call = NoCall /\ job.kind = "startup"
  BY <1>1 DEF Idle
<1> QED
  BY <1>1, <1>2, <1>3 DEF SteadyFits, Settled, IndexWins, Steady

-------------------------------------------------------------------------------
(***************************************************************************)
(* The invariant, and what it says of the index once nothing is under way. *)
(***************************************************************************)
LEMMA SyncStepHolds ==
  ASSUME SyncInv, Next
  PROVE  SyncInv'
<1>1. GenInv /\ SteadyFits
  BY DEF SyncInv, GenInv
<1>2. GenInv'
  BY <1>1, ResumeFits, OpenFits, EditFits, ParseTimerFits, CloseFits, GrammarLoadedFits, QueueTaskFits,
     StartReloadFits, StartRebuildFits, StartCreateFits, StartCallFits, WalkBufferFits, WalkReadFits,
     WalkFileFits, WalkNothingFits, EndTaskFits, ReindexesFit, ReindexFits DEF Next
<1>3. document' = document
  <2>1. (\E kind \in document.tasks : QueueTask(kind)) => document' = document
    BY DEF QueueTask, editor
  <2>2. (\E d \in Docs : ReindexDocument(d)) => document' = document
    BY DEF ReindexDocument, editor
  <2>3. GrammarLoaded \/ StartCall \/ EndTask \/ ReindexOpenDocuments \/ Resume \/ ParseTimer => document' = document
    BY DEF GrammarLoaded, StartCall, EndTask, ReindexOpenDocuments, Resume, ParseTimer, editor
  <2>4. Open \/ Edit \/ Close => document' = document
    BY DEF Open, Edit, Close
  <2>5. StartReload \/ StartRebuild \/ StartCreate \/ WalkBuffer \/ WalkRead \/ WalkFile \/ WalkNothing => document' = document
    BY DEF StartReload, StartRebuild, StartCreate, WalkBuffer, WalkRead, WalkFile, WalkNothing, editor
  <2> QED
    BY <2>1, <2>2, <2>3, <2>4, <2>5 DEF Next
<1>4. Steady' <=> Steady
  BY <1>3 DEF Steady
<1>5. Steady => Settled' /\ IndexWins'
  <2> SUFFICES ASSUME Steady
               PROVE  Settled' /\ IndexWins'
    OBVIOUS
  <2>1. Settled /\ IndexWins
    BY <1>1 DEF SteadyFits
  <2> QED
    BY <1>1, <2>1, SteadySees, ResumeWins, OpenWins, EditWins, ParseTimerWins, CloseWins, QueueTaskWins,
       StartTaskWins, WalkBufferWins, WalkReadWins, WalkFileWins, WalkNothingWins, EndTaskWins DEF Next
<1> QED
  BY <1>2, <1>4, <1>5 DEF SyncInv, GenInv, SteadyFits

LEMMA SyncStays ==
  ASSUME SyncInv, UNCHANGED vars
  PROVE  SyncInv'
<1>1. UNCHANGED <<document, opens, isOpen, texts, edits, pending, timer, ready, lane, gate, job, armed, known,
                  unowned, ctx, disposed, evicted, tasks, rebuilt, reindex, loaded, parsing, index>>
  BY DEF vars, editor, debounced, routing, registry, after
<1>2. Epoch' = Epoch /\ Buffer' = Buffer /\ Queue' = Queue /\ (Steady' <=> Steady)
  BY <1>1 DEF Epoch, Buffer, Queue, Steady
<1>3. TypeOK' /\ JobFits'
  BY <1>1, <1>2 DEF SyncInv, TypeOK, JobFits
<1>4. (\A c : Waits(c)' <=> Waits(c)) /\ (\A c : CallFits(c)' <=> CallFits(c)) /\ (\A p : Lands(p)' <=> Lands(p))
  BY <1>1, <1>2 DEF Waits, CallFits, Lands
<1>5. CallsFit' /\ Owed'
  BY <1>1, <1>2, <1>4 DEF SyncInv, CallsFit, Owed, OnItsWay
<1>6. SteadyFits'
  BY <1>1, <1>2 DEF SyncInv, SteadyFits, Settled, IndexWins
<1> QED
  BY <1>3, <1>5, <1>6 DEF SyncInv

LEMMA QuietIsRight ==
  ASSUME SyncInv
  PROVE  IndexFollowsBuffer
<1>1. TypeOK /\ JobFits /\ Owed /\ SteadyFits
  BY DEF SyncInv
<1> SUFFICES ASSUME Quiet
             PROVE  /\ isOpen => index # Absent
                    /\ Steady /\ isOpen => index = Buffer
                    /\ Steady /\ ~isOpen => index \in {Absent, 0}
  BY DEF IndexFollowsBuffer, OpenIsIndexed, LatestWins, ClosedIsGone
<1>2. job.kind = "none" /\ job.at = "idle" /\ job.call = NoCall
  BY DEF Quiet, Idle
<1>3. gate = <<>> /\ ready = <<>> /\ lane = <<>> /\ parsing = <<>>
  BY <1>1, <1>2 DEF Quiet, JobFits
<1>4. \A x : ~Has(<<>>, x)
  BY NoneIs
<1>5. isOpen => index # Absent
  <2>1. ~OnItsWay
    BY <1>2, <1>3, <1>4, NoTaskIsCall DEF OnItsWay, Waits
  <2>2. /\ ~timer /\ ~rebuilt /\ reindex = {}
    BY DEF Quiet
  <2>3. \A p : ~Has(parsing, p)
    BY <1>3, <1>4
  <2> QED
    BY <1>1, <1>2, <2>1, <2>2, <2>3 DEF Owed
<1>6. Steady /\ isOpen => index = Buffer
  <2> SUFFICES ASSUME Steady, isOpen
               PROVE  index = Buffer
    OBVIOUS
  <2>1. Queue = <<>>
    BY <1>1, <1>3, QueueIs
  <2>2. Wins(<<>>, index, Epoch, Buffer, texts)
    BY <1>1, <2>1 DEF SteadyFits, IndexWins, Quiet
  <2> QED
    BY <2>2 DEF Wins
<1>7. Steady /\ ~isOpen => index \in {Absent, 0}
  BY <1>1 DEF SteadyFits, IndexWins
<1> QED
  BY <1>5, <1>6, <1>7

(***************************************************************************)
(* Whatever opens, edits, closes, rebuilds and late parses come in         *)
(* between, once every handler is over the index of an open document holds *)
(* an entry list for it, and the index of a steady one holds what the      *)
(* editor shows, or at most the text on disk after a close.                *)
(***************************************************************************)
THEOREM IndexFollows == Spec => []IndexFollowsBuffer
<1>1. Init => SyncInv
  BY GenInitially, SteadyInitially DEF SyncInv, GenInv
<1>2. SyncInv /\ [Next]_vars => SyncInv'
  BY SyncStepHolds, SyncStays
<1>3. SyncInv => IndexFollowsBuffer
  BY QuietIsRight
<1> QED
  BY <1>1, <1>2, <1>3, PTL DEF Spec
===============================================================================
