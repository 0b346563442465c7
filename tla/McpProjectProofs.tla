--------------------------- MODULE McpProjectProofs ---------------------------
(***************************************************************************)
(* For any files, contents, callers and bounds: no two compiles run at     *)
(* once, no call is left behind a compile that is over, forceRefresh is    *)
(* answered with what was read after the call, and getCompiled with        *)
(* nothing that was out of date when the call was made.                    *)
(***************************************************************************)
EXTENDS McpProject, TLAPS

\* What a call waits for is forgotten when it stops waiting.
WaitsInTurn == \A c \in Callers : calls[c].run # None => calls[c].at \in {"join", "settle"}

\* The file that is hashed is one whose modification time was noted.
Noted(run) == run.at = "hash" => run.file \in Files /\ run.snapshot[run.file] \in Snapshot

NotedInv == \A r \in Runs : Noted(compiles[r])

FlightInv == TypeOK /\ OneCompile /\ NoneStranded /\ WaitsInTurn /\ NotedInv

\* The sources whose reads a compile will not change any more.
Final(run) ==
  CASE run.at \in {"idle", "walk"} -> {}
    [] run.at \in {"statLock", "readLock"} -> Files \ run.paths
    [] run.at = "read" -> Sources \ run.todo
    [] OTHER -> Sources

CompileInv ==
  \A r \in Runs :
    /\ compiles[r].at = "walk" => compiles[r].reads = Nowhere
    /\ compiles[r].at \in {"statLock", "readLock"} => compiles[r].todo = compiles[r].paths

\* A call under way has seen what the sources hold.
SeenInv ==
  \A c \in Callers : calls[c].at \notin {"idle", "answered"} =>
    \A s \in Sources : Holds(s) \subseteq calls[c].since[s]

\* Every compile this call waits for, or may still join, started after it was made.
Own(call) ==
  /\ call.kind = "forceRefresh" \/ ~call.joined
  /\ call.at \in {"lock", "files", "hash", "join", "force"}

\* What such a compile has read was read since the call was made.
ReadSinceInv ==
  \A c \in Callers :
    /\ calls[c].at \in {"lock", "files", "hash"} => calls[c].kind = "getCompiled"
    /\ Own(calls[c]) =>
         \A r \in Runs : \A s \in Final(compiles[r]) :
           compiles[r].reads[s] \in calls[c].since[s]

FreshInv == CompileInv /\ SeenInv /\ ReadSinceInv /\ RefreshIsFresh

RefreshInv == FlightInv /\ FreshInv

-------------------------------------------------------------------------------
\* The call `call` of c waits for the compile r, which runs or is started.
Joins(c, call, r) ==
  /\ inFlight' = r
  /\ calls' = [calls EXCEPT ![c] = [call EXCEPT !.at = "join", !.run = r,
                                      !.todo = NotTracked, !.file = None]]
  /\ \/ inFlight = r /\ UNCHANGED compiles
     \/ /\ inFlight = None /\ Running = {}
        /\ compiles' = [compiles EXCEPT ![r] = [NoRun EXCEPT !.at = "walk"]]

\* ensureCompile is a gate: a compile is joined or, when none runs, started.
LEMMA Gate ==
  ASSUME FlightInv, NEW c \in Callers, NEW call, EnsureCompile(c, call)
  PROVE  \E r \in Runs : Joins(c, call, r)
<1>1. PICK r \in Runs :
        /\ IF inFlight # None
             THEN r = inFlight /\ UNCHANGED <<inFlight, compiles>>
             ELSE /\ inFlight' = r
                  /\ compiles' = [compiles EXCEPT ![r] = [NoRun EXCEPT !.at = "walk"]]
        /\ calls' = [calls EXCEPT ![c] = [call EXCEPT !.at = "join", !.run = r,
                                            !.todo = NotTracked, !.file = None]]
  BY Zenon DEF EnsureCompile
<1>2. inFlight = None => Running = {}
  BY DEF FlightInv, OneCompile
<1>3. Joins(c, call, r)
  BY <1>1, <1>2 DEF Joins
<1> QED BY <1>3

\* The blank records are typed.
LEMMA Blank ==
  /\ Nowhere \in Reads /\ NotTracked \in Tracking
  /\ NoRun \in Run /\ [NoRun EXCEPT !.at = "walk"] \in Run
  /\ NoCall \in Call
<1> USE McpProjectAssumption
<1>1. Nowhere \in Reads
  BY DEF Nowhere, Reads
<1>2. NotTracked \in Tracking
  BY DEF NotTracked, Tracking
<1>3. 0 \in Mtimes
  BY DEF Mtimes
<1>4. NoRun \in Run
  BY <1>1, <1>2, <1>3 DEF NoRun, Run
<1>5. [NoRun EXCEPT !.at = "walk"] \in Run
  BY <1>4 DEF Run
<1>6. NoCall \in Call
  BY <1>2 DEF NoCall, Call
<1> QED BY <1>1, <1>2, <1>4, <1>5, <1>6

LEMMA HoldsType ==
  ASSUME TypeOK, NEW s \in Sources
  PROVE  Holds(s) \subseteq Contents \cup {Missing}
BY DEF Holds, TypeOK

LEMMA MadeType ==
  ASSUME TypeOK, NEW kind \in {"getCompiled", "forceRefresh"}
  PROVE  Made(kind) \in Call
<1>1. [s \in Sources |-> Holds(s)] \in [Sources -> SUBSET (Contents \cup {Missing})]
  BY HoldsType
<1> QED BY <1>1, Blank DEF Made, Call

\* A call at the gate stays typed.
LEMMA GateType ==
  ASSUME FlightInv, NEW c \in Callers, NEW call \in Call, EnsureCompile(c, call)
  PROVE  /\ inFlight' \in Runs \cup {None}
         /\ compiles' \in [Runs -> Run]
         /\ calls' \in [Callers -> Call]
<1>1. PICK r \in Runs : Joins(c, call, r)
  BY Gate
<1>2. [call EXCEPT !.at = "join", !.run = r, !.todo = NotTracked, !.file = None] \in Call
  BY Blank DEF Call
<1>3. compiles \in [Runs -> Run] /\ calls \in [Callers -> Call]
  BY DEF FlightInv, TypeOK
<1> QED BY <1>1, <1>2, <1>3, Blank DEF Joins

-------------------------------------------------------------------------------
LEMMA InitFlightInv == Init => FlightInv
<1> SUFFICES ASSUME Init PROVE FlightInv
  OBVIOUS
<1> USE McpProjectAssumption
<1>1. PICK eager \in BOOLEAN :
        /\ inFlight = IF eager THEN 1 ELSE None
        /\ compiles = [r \in Runs |-> IF eager /\ r = 1
                                        THEN [NoRun EXCEPT !.at = "walk"] ELSE NoRun]
  BY DEF Init
<1>2. disk \in [Sources -> [mtime : Mtimes, contents : Contents \cup {Missing}]]
  BY DEF Init, Mtimes, Reads
<1>3. compiles \in [Runs -> Run] /\ inFlight \in Runs \cup {None}
  BY <1>1, Blank DEF Runs
<1>4. calls \in [Callers -> Call]
  BY Blank DEF Init
<1>5. TypeOK
  BY <1>2, <1>3, <1>4, Blank DEF Init, TypeOK, Mtimes
<1>6. OneCompile
  <2>1. NoRun.at = "idle" /\ [NoRun EXCEPT !.at = "walk"].at = "walk"
    BY DEF NoRun
  <2>2. \A r \in Runs : compiles[r].at # "idle" <=> eager /\ r = 1
    BY <1>1, <2>1
  <2>3. Running = IF eager THEN {1} ELSE {}
    BY <2>2 DEF Running, Runs
  <2> QED BY <1>1, <2>3, NullAssumption DEF OneCompile, Runs
<1>7. NoneStranded /\ WaitsInTurn
  BY DEF Init, NoneStranded, WaitsInTurn, NoCall
<1>8. NotedInv
  BY <1>1 DEF NotedInv, Noted, NoRun
<1> QED BY <1>5, <1>6, <1>7, <1>8 DEF FlightInv

(***************************************************************************)
(* What the calls do.                                                      *)
(***************************************************************************)
\* A call that joins leaves one compile running, and waits for it.
LEMMA JoinFlight ==
  ASSUME FlightInv, NEW c \in Callers, NEW call \in Call, NEW r \in Runs,
         Joins(c, call, r)
  PROVE  OneCompile' /\ NoneStranded' /\ WaitsInTurn' /\ NotedInv'
<1> USE NullAssumption
<1>1. compiles \in [Runs -> Run] /\ calls \in [Callers -> Call]
  BY DEF FlightInv, TypeOK
<1>2. Running' = {r} /\ Running \subseteq {r}
  <2>1. CASE inFlight = r /\ UNCHANGED compiles
    BY <2>1 DEF FlightInv, OneCompile, Running
  <2>2. CASE /\ inFlight = None /\ Running = {}
             /\ compiles' = [compiles EXCEPT ![r] = [NoRun EXCEPT !.at = "walk"]]
    <3>1. [NoRun EXCEPT !.at = "walk"].at = "walk"
      BY DEF NoRun
    <3>2. \A q \in Runs : compiles'[q].at # "idle" <=> q = r
      BY <1>1, <2>2, <3>1 DEF Running
    <3> QED BY <2>2, <3>2 DEF Running
  <2> QED BY <2>1, <2>2 DEF Joins
<1>3. OneCompile'
  BY <1>2 DEF OneCompile, Joins
<1>4. calls'[c].run = r /\ calls'[c].at = "join"
  BY <1>1 DEF Joins, Call
<1>5. \A d \in Callers \ {c} : calls'[d] = calls[d]
  BY <1>1 DEF Joins
<1>6. NoneStranded'
  BY <1>2, <1>4, <1>5 DEF FlightInv, NoneStranded
<1>7. WaitsInTurn'
  BY <1>4, <1>5 DEF FlightInv, WaitsInTurn
<1>8. NotedInv'
  <2>1. Noted([NoRun EXCEPT !.at = "walk"])
    BY DEF Noted, NoRun
  <2> QED BY <1>1, <2>1 DEF Joins, FlightInv, NotedInv
<1> QED BY <1>3, <1>6, <1>7, <1>8

LEMMA JoinFlightInv ==
  ASSUME FlightInv, NEW c \in Callers, NEW call \in Call, EnsureCompile(c, call),
         UNCHANGED <<external, failures, tracked, lockfileMtime>>,
         called' \in 0..MaxCalls, cached' \in {cached, None}
  PROVE  FlightInv'
<1>1. PICK r \in Runs : Joins(c, call, r)
  BY Gate
<1>2. OneCompile' /\ NoneStranded' /\ WaitsInTurn' /\ NotedInv'
  BY <1>1, JoinFlight
<1>3. TypeOK'
  BY GateType DEF FlightInv, TypeOK, external
<1> QED BY <1>2, <1>3 DEF FlightInv

\* A call goes on as `call`, which waits for the compile in flight or for none.
LEMMA MoveFlightInv ==
  ASSUME FlightInv, NEW c \in Callers, NEW call \in Call,
         calls' = [calls EXCEPT ![c] = call],
         \/ call.run = None /\ call.at \notin {"join", "settle"}
         \/ call.run = inFlight /\ inFlight # None /\ call.at = "settle",
         UNCHANGED <<external, failures, cache, compiles>>,
         called' \in 0..MaxCalls
  PROVE  FlightInv'
<1>1. calls \in [Callers -> Call]
  BY DEF FlightInv, TypeOK
<1>2. Running' = Running
  BY DEF Running
<1>3. OneCompile'
  BY <1>2 DEF FlightInv, OneCompile, cache
<1>4. NoneStranded'
  BY <1>1, <1>2 DEF FlightInv, NoneStranded, OneCompile
<1>5. WaitsInTurn'
  BY <1>1 DEF FlightInv, WaitsInTurn
<1>6. TypeOK'
  BY <1>1 DEF FlightInv, TypeOK, external, cache
<1>7. NotedInv'
  BY DEF FlightInv, NotedInv
<1> QED BY <1>3, <1>4, <1>5, <1>6, <1>7 DEF FlightInv

LEMMA MayCallType ==
  ASSUME TypeOK, NEW c \in Callers, MayCall(c)
  PROVE  called' \in 0..MaxCalls
BY McpProjectAssumption DEF MayCall, TypeOK

LEMMA GetCompiledFlight ==
  ASSUME FlightInv, NEW c \in Callers, GetCompiled(c)
  PROVE  FlightInv'
<1>1. called' \in 0..MaxCalls
  BY MayCallType DEF GetCompiled, FlightInv
<1> DEFINE made == Made("getCompiled")
<1>2. made \in Call /\ made.run = None
  <2>1. made \in Call
    BY MadeType DEF FlightInv
  <2> QED BY <2>1 DEF Made, NoCall
<1> HIDE DEF made
<1>3. CASE calls' = [calls EXCEPT ![c] = [made EXCEPT !.at = "lock"]]
           /\ UNCHANGED <<inFlight, compiles>>
  <2>1. [made EXCEPT !.at = "lock"] \in Call
        /\ [made EXCEPT !.at = "lock"].run = None /\ [made EXCEPT !.at = "lock"].at = "lock"
    BY <1>2 DEF Call
  <2> QED BY <1>1, <1>3, <2>1, MoveFlightInv DEF GetCompiled, cache
<1>4. CASE EnsureCompile(c, [made EXCEPT !.joined = inFlight # None])
  <2>1. [made EXCEPT !.joined = inFlight # None] \in Call
    BY <1>2 DEF Call
  <2> QED BY <1>1, <1>4, <2>1, JoinFlightInv DEF GetCompiled
<1> QED BY <1>3, <1>4 DEF GetCompiled, made

LEMMA ForceRefreshFlight ==
  ASSUME FlightInv, NEW c \in Callers, ForceRefresh(c)
  PROVE  FlightInv'
<1>1. called' \in 0..MaxCalls
  BY MayCallType DEF ForceRefresh, FlightInv
<1> DEFINE made == Made("forceRefresh")
<1>2. made \in Call
  BY MadeType DEF FlightInv
<1> HIDE DEF made
<1>3. CASE /\ inFlight # None
           /\ calls' = [calls EXCEPT ![c] = [made EXCEPT !.at = "settle", !.run = inFlight]]
           /\ UNCHANGED <<inFlight, cached, compiles>>
  <2> DEFINE call == [made EXCEPT !.at = "settle", !.run = inFlight]
  <2>1. call \in Call /\ call.run = inFlight /\ call.at = "settle"
    BY <1>2, <1>3 DEF Call, FlightInv, TypeOK
  <2> HIDE DEF call
  <2>2. calls' = [calls EXCEPT ![c] = call]
    BY <1>3 DEF call
  <2> QED BY <1>1, <1>3, <2>1, <2>2, MoveFlightInv DEF ForceRefresh, cache
<1>4. CASE cached' = None /\ EnsureCompile(c, made)
  BY <1>1, <1>2, <1>4, JoinFlightInv DEF ForceRefresh
<1> QED BY <1>3, <1>4 DEF ForceRefresh, made

LEMMA ForcedFlight ==
  ASSUME FlightInv, NEW c \in Callers, Forced(c)
  PROVE  FlightInv'
<1>1. calls[c] \in Call /\ called' \in 0..MaxCalls
  BY DEF Forced, FlightInv, TypeOK, bounds
<1> QED BY <1>1, JoinFlightInv DEF Forced, bounds

LEMMA ReturnFlight ==
  ASSUME FlightInv, NEW c \in Callers, Return(c)
  PROVE  FlightInv'
<1>1. NoCall.run = None /\ NoCall.at = "idle"
  BY DEF NoCall
<1>2. called' \in 0..MaxCalls
  BY DEF Return, FlightInv, TypeOK, bounds
<1> QED BY <1>1, <1>2, Blank, MoveFlightInv DEF Return, bounds

\* A step of the revalidation: c goes to the gate, or on as `call`.
Revalidates(c, call) ==
  /\ calls[c].at \in {"lock", "files", "hash"}
  /\ call.at \in {"files", "hash", "answered"} /\ call.run = None
  /\ call.kind = calls[c].kind /\ call.since = calls[c].since
  /\ call.joined = calls[c].joined
  /\ \/ EnsureCompile(c, calls[c])
     \/ calls' = [calls EXCEPT ![c] = call] /\ UNCHANGED <<inFlight, compiles>>
  /\ UNCHANGED <<external, bounds, cached, tracked, lockfileMtime>>

LEMMA RunNone ==
  ASSUME FlightInv, NEW c \in Callers, calls[c].at \in {"lock", "files", "hash"}
  PROVE  calls[c] \in Call /\ calls[c].run = None
BY DEF FlightInv, TypeOK, WaitsInTurn

LEMMA CheckLockRevalidates ==
  ASSUME FlightInv, NEW c \in Callers, CheckLock(c)
  PROVE  \E call \in Call : Revalidates(c, call)
<1> DEFINE call == [calls[c] EXCEPT !.at = "files", !.todo = tracked]
<1>1. calls[c] \in Call /\ calls[c].run = None
  BY RunNone DEF CheckLock
<1>2. /\ call \in Call /\ call.run = None /\ call.at = "files"
      /\ call.kind = calls[c].kind /\ call.since = calls[c].since
      /\ call.joined = calls[c].joined
  BY <1>1 DEF Call, FlightInv, TypeOK
<1>3. \/ EnsureCompile(c, calls[c])
      \/ calls' = [calls EXCEPT ![c] = call] /\ UNCHANGED <<inFlight, compiles>>
  BY DEF CheckLock, Stale
<1> HIDE DEF call
<1>4. Revalidates(c, call)
  BY <1>2, <1>3 DEF Revalidates, CheckLock
<1> QED BY <1>2, <1>4

LEMMA CheckFileRevalidates ==
  ASSUME FlightInv, NEW c \in Callers, NEW f \in Files, CheckFile(c, f)
  PROVE  \E call \in Call : Revalidates(c, call)
<1>1. calls[c] \in Call /\ calls[c].run = None /\ calls[c].at = "files"
  BY RunNone DEF CheckFile
<1>2. CASE calls' = [calls EXCEPT ![c].todo[f] = None] /\ UNCHANGED <<inFlight, compiles>>
  <2> DEFINE call == [calls[c] EXCEPT !.todo[f] = None]
  <2>1. /\ call \in Call /\ call.run = None /\ call.at = "files"
        /\ call.kind = calls[c].kind /\ call.since = calls[c].since
        /\ call.joined = calls[c].joined
    BY <1>1 DEF Call, Tracking
  <2>2. calls' = [calls EXCEPT ![c] = call]
    BY <1>2
  <2> HIDE DEF call
  <2>3. Revalidates(c, call)
    BY <1>1, <1>2, <2>1, <2>2 DEF CheckFile, Revalidates
  <2> QED BY <2>1, <2>3
<1>3. CASE calls' = [calls EXCEPT ![c].at = "hash", ![c].file = f]
           /\ UNCHANGED <<inFlight, compiles>>
  <2> DEFINE call == [calls[c] EXCEPT !.at = "hash", !.file = f]
  <2>1. /\ call \in Call /\ call.run = None /\ call.at = "hash"
        /\ call.kind = calls[c].kind /\ call.since = calls[c].since
        /\ call.joined = calls[c].joined
    BY <1>1 DEF Call
  <2>2. calls' = [calls EXCEPT ![c] = call]
    BY <1>3
  <2> HIDE DEF call
  <2>3. Revalidates(c, call)
    BY <1>1, <1>3, <2>1, <2>2 DEF CheckFile, Revalidates
  <2> QED BY <2>1, <2>3
<1>4. CASE EnsureCompile(c, calls[c])
  <2>1. Revalidates(c, calls[c])
    BY <1>1, <1>4 DEF CheckFile, Revalidates
  <2> QED BY <1>1, <2>1
<1> QED BY <1>2, <1>3, <1>4 DEF CheckFile, Stale

LEMMA CheckHashRevalidates ==
  ASSUME FlightInv, NEW c \in Callers, CheckHash(c)
  PROVE  \E call \in Call : Revalidates(c, call)
<1> DEFINE call == [calls[c] EXCEPT !.at = "files", !.todo[calls[c].file] = None,
                                    !.file = None]
<1>1. calls[c] \in Call /\ calls[c].run = None
  BY RunNone DEF CheckHash
<1>2. /\ call \in Call /\ call.run = None /\ call.at = "files"
      /\ call.kind = calls[c].kind /\ call.since = calls[c].since
      /\ call.joined = calls[c].joined
  BY <1>1 DEF Call, Tracking
<1>3. \/ EnsureCompile(c, calls[c])
      \/ calls' = [calls EXCEPT ![c] = call] /\ UNCHANGED <<inFlight, compiles>>
  BY DEF CheckHash, Stale
<1> HIDE DEF call
<1>4. Revalidates(c, call)
  BY <1>2, <1>3 DEF Revalidates, CheckHash
<1> QED BY <1>2, <1>4

LEMMA CheckNewFilesRevalidates ==
  ASSUME FlightInv, NEW c \in Callers, CheckNewFiles(c)
  PROVE  \E call \in Call : Revalidates(c, call)
<1> DEFINE call == [calls[c] EXCEPT !.at = "answered", !.run = None, !.result = cached]
<1>1. calls[c] \in Call /\ calls[c].run = None
  BY RunNone DEF CheckNewFiles
<1>2. /\ call \in Call /\ call.run = None /\ call.at = "answered"
      /\ call.kind = calls[c].kind /\ call.since = calls[c].since
      /\ call.joined = calls[c].joined
  BY <1>1 DEF Call, FlightInv, TypeOK
<1>3. \/ EnsureCompile(c, calls[c])
      \/ calls' = [calls EXCEPT ![c] = call] /\ UNCHANGED <<inFlight, compiles>>
  BY DEF CheckNewFiles, Stale, NotStale, Answer
<1> HIDE DEF call
<1>4. Revalidates(c, call)
  BY <1>2, <1>3 DEF Revalidates, CheckNewFiles
<1> QED BY <1>2, <1>4

LEMMA CheckFlight ==
  ASSUME FlightInv, NEW c \in Callers, NEW call \in Call, Revalidates(c, call)
  PROVE  FlightInv'
<1>1. calls[c] \in Call /\ called' \in 0..MaxCalls
  BY DEF FlightInv, TypeOK, bounds, Revalidates
<1>2. CASE EnsureCompile(c, calls[c])
  BY <1>1, <1>2, JoinFlightInv DEF bounds, Revalidates
<1>3. CASE calls' = [calls EXCEPT ![c] = call] /\ UNCHANGED <<inFlight, compiles>>
  BY <1>1, <1>3, MoveFlightInv DEF bounds, cache, Revalidates
<1> QED BY <1>2, <1>3 DEF Revalidates

(***************************************************************************)
(* What a compile does.                                                    *)
(***************************************************************************)
\* A compile goes on as `run`.
LEMMA RunFlightInv ==
  ASSUME FlightInv, NEW r \in Runs, NEW run \in Run, Step(r, run),
         compiles[r].at # "idle", run.at # "idle", Noted(run)
  PROVE  FlightInv'
<1>1. compiles \in [Runs -> Run]
  BY DEF FlightInv, TypeOK
<1>2. compiles' \in [Runs -> Run]
  BY <1>1 DEF Step
<1>3. Running' = Running
  BY <1>1 DEF Step, Running
<1>4. TypeOK'
  BY <1>2 DEF FlightInv, TypeOK, Step, external, bounds, cache
<1>5. OneCompile' /\ NoneStranded' /\ WaitsInTurn'
  BY <1>3 DEF FlightInv, OneCompile, NoneStranded, WaitsInTurn, Step, cache
<1>6. NotedInv'
  BY <1>1 DEF FlightInv, NotedInv, Step
<1> QED BY <1>4, <1>5, <1>6 DEF FlightInv

LEMMA WalkFlight ==
  ASSUME FlightInv, NEW r \in Runs, Walk(r)
  PROVE  FlightInv'
<1> DEFINE run == [compiles[r] EXCEPT !.at = "statLock", !.paths = Walked, !.todo = Walked]
<1>1. Walked \subseteq Files
  BY DEF Walked, FlightInv, TypeOK
<1>2. run \in Run /\ run.at # "idle" /\ Noted(run)
  BY <1>1 DEF FlightInv, TypeOK, Run, Noted
<1> HIDE DEF run
<1>3. Step(r, run) /\ compiles[r].at # "idle"
  BY DEF Walk, run
<1> QED BY <1>2, <1>3, RunFlightInv

LEMMA StatLockFlight ==
  ASSUME FlightInv, NEW r \in Runs, StatLock(r)
  PROVE  FlightInv'
<1> DEFINE run == [compiles[r] EXCEPT !.at = "readLock", !.lockMtime = disk[Lock].mtime]
<1>1. disk[Lock].mtime \in Mtimes
  BY DEF FlightInv, TypeOK, Sources
<1>2. run \in Run /\ run.at # "idle" /\ Noted(run)
  BY <1>1 DEF FlightInv, TypeOK, Run, Noted
<1> HIDE DEF run
<1>3. Step(r, run) /\ compiles[r].at # "idle"
  BY DEF StatLock, run
<1> QED BY <1>2, <1>3, RunFlightInv

LEMMA ReadLockFlight ==
  ASSUME FlightInv, NEW r \in Runs, ReadLock(r)
  PROVE  FlightInv'
<1>1. PICK at \in {"read", "commit"}, raced \in SUBSET Sources :
        Step(r, [compiles[r] EXCEPT !.at = at, !.reads[Lock] = disk[Lock].contents,
                                    !.raced = raced])
  BY DEF ReadLock, Sources
<1> DEFINE run == [compiles[r] EXCEPT !.at = at, !.reads[Lock] = disk[Lock].contents,
                                      !.raced = raced]
<1>2. disk[Lock].contents \in Contents \cup {Missing}
  BY DEF FlightInv, TypeOK, Sources
<1>3. run \in Run /\ run.at # "idle" /\ Noted(run)
  BY <1>2 DEF FlightInv, TypeOK, Run, Reads, Sources, Noted
<1>4. Step(r, run) /\ compiles[r].at # "idle"
  BY <1>1 DEF ReadLock
<1> HIDE DEF run
<1> QED BY <1>3, <1>4, RunFlightInv

LEMMA ReadFileFlight ==
  ASSUME FlightInv, NEW r \in Runs, NEW f \in Files, ReadFile(r, f)
  PROVE  FlightInv'
<1>1. compiles[r] \in Run
  BY DEF FlightInv, TypeOK
<1>2. PICK at \in {"read", "stat"}, todo \in SUBSET Files :
        Step(r, [compiles[r] EXCEPT !.reads[f] = disk[f].contents, !.at = at, !.todo = todo])
  BY <1>1 DEF ReadFile, Run
<1> DEFINE run == [compiles[r] EXCEPT !.reads[f] = disk[f].contents, !.at = at,
                                      !.todo = todo]
<1>3. disk[f].contents \in Contents \cup {Missing}
  BY DEF FlightInv, TypeOK, Sources
<1>4. run \in Run /\ run.at # "idle" /\ Noted(run)
  BY <1>1, <1>3 DEF Run, Reads, Sources, Noted
<1>5. Step(r, run) /\ compiles[r].at # "idle"
  BY <1>2 DEF ReadFile
<1> HIDE DEF run
<1> QED BY <1>4, <1>5, RunFlightInv

LEMMA StatFileFlight ==
  ASSUME FlightInv, NEW r \in Runs, NEW f \in Files, StatFile(r, f)
  PROVE  FlightInv'
<1> USE DEF StatFile
<1>1. compiles[r] \in Run /\ compiles[r].at # "idle"
  BY DEF FlightInv, TypeOK
<1>2. CASE Exists(f)
  <2> DEFINE noted == [mtime |-> disk[f].mtime, hash |-> Missing]
             run == [compiles[r] EXCEPT !.at = "hash", !.file = f, !.snapshot[f] = noted]
  <2>1. noted \in Snapshot
    BY DEF FlightInv, TypeOK, Sources, Snapshot
  <2>2. Step(r, run)
    BY <1>2
  <2> HIDE DEF noted
  <2>3. run \in Run /\ run.at # "idle" /\ Noted(run)
    BY <1>1, <2>1 DEF Run, Tracking, Noted
  <2> HIDE DEF run
  <2> QED BY <1>1, <2>2, <2>3, RunFlightInv
<1>3. CASE ~Exists(f)
  <2>1. PICK at \in {"commit", "stat"} :
          Step(r, [compiles[r] EXCEPT !.at = at, !.todo = @ \ {f}])
    BY <1>3
  <2> DEFINE run == [compiles[r] EXCEPT !.at = at, !.todo = @ \ {f}]
  <2>2. run \in Run /\ run.at # "idle" /\ Noted(run)
    BY <1>1 DEF Run, Noted
  <2>3. Step(r, run)
    BY <2>1
  <2> HIDE DEF run
  <2> QED BY <1>1, <2>2, <2>3, RunFlightInv
<1> QED BY <1>2, <1>3

LEMMA HashFileFlight ==
  ASSUME FlightInv, NEW r \in Runs, HashFile(r)
  PROVE  FlightInv'
<1> DEFINE f == compiles[r].file
           hash == disk[f].contents
<1>1. compiles[r] \in Run /\ compiles[r].at # "idle"
  BY DEF FlightInv, TypeOK, HashFile
<1>2. f \in Files /\ compiles[r].snapshot[f] \in Snapshot
  BY DEF FlightInv, NotedInv, Noted, HashFile
<1>3. hash \in Contents \cup {Missing}
  BY <1>2 DEF FlightInv, TypeOK, Sources
<1>4. PICK at \in {"commit", "stat"} :
        Step(r, [compiles[r] EXCEPT !.at = at, !.todo = @ \ {f}, !.file = None,
                                    !.snapshot[f].hash = hash])
  BY DEF HashFile
<1> HIDE DEF f, hash
<1> DEFINE run == [compiles[r] EXCEPT !.at = at, !.todo = @ \ {f}, !.file = None,
                                      !.snapshot[f].hash = hash]
<1>5. [compiles[r].snapshot[f] EXCEPT !.hash = hash] \in Snapshot
  BY <1>2, <1>3 DEF Snapshot
<1>6. run \in Run /\ run.at # "idle" /\ Noted(run)
  BY <1>1, <1>2, <1>5 DEF Run, Tracking, Noted
<1>7. Step(r, run)
  BY <1>4
<1> HIDE DEF run
<1> QED BY <1>1, <1>6, <1>7, RunFlightInv

\* A compile that is over frees the slot, and the calls that waited for it go on.
LEMMA SettleFlightInv ==
  ASSUME FlightInv, NEW r \in Runs, compiles[r].at # "idle",
         NEW result \in Result \cup {Failed}, Settle(r, result),
         inFlight' = None, cached' \in Result \cup {None}, tracked' \in Tracking,
         lockfileMtime' \in Mtimes, failures' \in 0..MaxFailures,
         UNCHANGED <<external, called>>
  PROVE  FlightInv' /\ Running' = {}
<1> USE NullAssumption
<1>1. compiles \in [Runs -> Run] /\ calls \in [Callers -> Call]
  BY DEF FlightInv, TypeOK
<1>2. Running = {r}
  BY DEF FlightInv, OneCompile, Running
<1>3. compiles' = [compiles EXCEPT ![r] = NoRun] /\ NoRun.at = "idle"
  BY DEF Settle, NoRun
<1>4. Running' = {}
  BY <1>1, <1>2, <1>3 DEF Running
<1>5. ASSUME NEW c \in Callers
      PROVE  /\ calls'[c] \in Call
             /\ calls'[c].at \notin {"join", "settle"} /\ calls'[c].run = None
  <2>1. calls[c] \in Call
    BY <1>1
  <2>2. CASE calls[c].run # r
    <3>1. calls'[c] = calls[c]
      BY <2>2 DEF Settle
    <3>2. calls[c].at \notin {"join", "settle"}
      BY <1>2, <2>2 DEF FlightInv, NoneStranded
    <3>3. calls[c].run = None
      BY <3>2 DEF FlightInv, WaitsInTurn
    <3> QED BY <2>1, <3>1, <3>2, <3>3
  <2>3. CASE calls[c].run = r /\ calls[c].at = "settle"
    BY <2>1, <2>3 DEF Settle, Call
  <2>4. CASE calls[c].run = r /\ calls[c].at # "settle"
    BY <2>1, <2>4 DEF Settle, Call
  <2> QED BY <2>2, <2>3, <2>4
<1>6. calls' \in [Callers -> Call]
  BY <1>5 DEF Settle
<1>7. compiles' \in [Runs -> Run]
  BY <1>1, <1>3, Blank
<1>8. TypeOK'
  BY <1>6, <1>7 DEF FlightInv, TypeOK, external
<1>9. OneCompile' /\ NoneStranded' /\ WaitsInTurn'
  BY <1>4, <1>5 DEF OneCompile, NoneStranded, WaitsInTurn
<1>10. NotedInv'
  BY <1>1, <1>3 DEF FlightInv, NotedInv, Noted
<1> QED BY <1>4, <1>8, <1>9, <1>10 DEF FlightInv

LEMMA CommitFlight ==
  ASSUME FlightInv, NEW r \in Runs, Commit(r)
  PROVE  FlightInv' /\ Running' = {}
<1> DEFINE result == [reads |-> compiles[r].reads, raced |-> compiles[r].raced]
<1>1. compiles[r] \in Run
  BY DEF FlightInv, TypeOK
<1>2. result \in Result /\ compiles[r].snapshot \in Tracking /\ compiles[r].lockMtime \in Mtimes
  BY <1>1 DEF Run, Result
<1>3. /\ compiles[r].at # "idle" /\ Settle(r, result)
      /\ cached' = result /\ tracked' = compiles[r].snapshot
      /\ lockfileMtime' = compiles[r].lockMtime /\ inFlight' = None
      /\ UNCHANGED <<external, bounds>>
  BY DEF Commit
<1>4. failures' \in 0..MaxFailures /\ UNCHANGED called
  BY <1>3 DEF FlightInv, TypeOK, bounds
<1> HIDE DEF result
<1> QED BY <1>2, <1>3, <1>4, SettleFlightInv

LEMMA FailFlight ==
  ASSUME FlightInv, NEW r \in Runs, Fail(r)
  PROVE  FlightInv' /\ Running' = {}
<1>1. failures' \in 0..MaxFailures
  BY McpProjectAssumption DEF Fail, FlightInv, TypeOK
<1>2. /\ compiles[r].at # "idle" /\ Settle(r, Failed) /\ inFlight' = None
      /\ UNCHANGED <<external, called, cached, tracked, lockfileMtime>>
  BY DEF Fail
<1> QED BY <1>1, <1>2, SettleFlightInv DEF FlightInv, TypeOK

(***************************************************************************)
(* What the environment does.                                              *)
(***************************************************************************)
\* The call c sees what changes, and nothing else of it does.
SeesWhatChanges(c, S) ==
  /\ calls'[c].at = calls[c].at
  /\ calls'[c].run = calls[c].run
  /\ calls'[c].kind = calls[c].kind
  /\ calls'[c].joined = calls[c].joined
  /\ calls'[c].todo = calls[c].todo
  /\ \A s \in Sources : calls[c].since[s] \subseteq calls'[c].since[s]
  /\ calls[c].at \in {"idle", "answered"} => calls'[c] = calls[c]
  /\ calls[c].at \notin {"idle", "answered"} =>
       \A s \in S : Holds(s)' \subseteq calls'[c].since[s]

LEMMA SeenCalls ==
  ASSUME TypeOK, NEW S \in SUBSET Sources, Seen(S),
         \A s \in Sources : Holds(s)' \subseteq Contents \cup {Missing}
  PROVE  calls' \in [Callers -> Call] /\ \A c \in Callers : SeesWhatChanges(c, S)
<1>1. ASSUME NEW c \in Callers
      PROVE  calls'[c] \in Call /\ SeesWhatChanges(c, S)
  <2>1. calls[c] \in Call
    BY DEF TypeOK
  <2>2. CASE calls[c].at \in {"idle", "answered"}
    <3>1. calls'[c] = calls[c]
      BY <2>2 DEF Seen
    <3> QED BY <2>1, <2>2, <3>1 DEF SeesWhatChanges
  <2>3. CASE calls[c].at \notin {"idle", "answered"}
    <3> DEFINE since == [s \in Sources |->
                 IF s \in S THEN calls[c].since[s] \cup Holds(s)' ELSE calls[c].since[s]]
    <3>1. calls'[c] = [calls[c] EXCEPT !.since = since]
      BY <2>3 DEF Seen
    <3>2. since \in [Sources -> SUBSET (Contents \cup {Missing})]
      BY <2>1 DEF Call
    <3>3. \A s \in Sources : calls[c].since[s] \subseteq since[s]
      OBVIOUS
    <3>4. \A s \in S : Holds(s)' \subseteq since[s]
      OBVIOUS
    <3> HIDE DEF since
    <3> QED BY <2>1, <2>3, <3>1, <3>2, <3>3, <3>4 DEF Call, SeesWhatChanges
  <2> QED BY <2>2, <2>3
<1>2. calls' \in [Callers -> Call]
  BY <1>1 DEF Seen
<1> QED BY <1>1, <1>2

\* Once typed, what the sources hold next is what a file may hold.
LEMMA HoldsNext ==
  ASSUME disk' \in [Sources -> [mtime : Mtimes, contents : Contents \cup {Missing}]]
  PROVE  \A s \in Sources : Holds(s)' \subseteq Contents \cup {Missing}
BY DEF Holds

\* Of a compile, a change on disk concerns the history alone.
OnlyRaced(run, next) ==
  /\ next.at = run.at /\ next.paths = run.paths /\ next.todo = run.todo
  /\ next.reads = run.reads /\ next.file = run.file /\ next.snapshot = run.snapshot

LEMMA ChangeType ==
  ASSUME FlightInv, NEW s \in Sources, Change(s)
  PROVE  /\ disk' \in [Sources -> [mtime : Mtimes, contents : Contents \cup {Missing}]]
         /\ changes' \in 0..MaxChanges
         /\ compiles' \in [Runs -> Run]
         /\ \A r \in Runs : OnlyRaced(compiles[r], compiles'[r])
<1> USE McpProjectAssumption
<1>1. changes < MaxChanges /\ changes' = changes + 1 /\ changes \in 0..MaxChanges
  BY DEF Change, FlightInv, TypeOK
<1>2. PICK contents \in Contents \cup {Missing} :
        disk' = [disk EXCEPT ![s] = [mtime |-> IF contents = Missing THEN 0 ELSE changes + 2,
                                     contents |-> contents]]
  BY DEF Change
<1>3. 0 \in Mtimes /\ changes + 2 \in Mtimes
  BY <1>1 DEF Mtimes
<1>4. disk' \in [Sources -> [mtime : Mtimes, contents : Contents \cup {Missing}]]
  BY <1>2, <1>3 DEF FlightInv, TypeOK
<1>5. \A r \in Runs : compiles'[r] = [compiles[r] EXCEPT
                                      !.raced = @ \cup ({s} \cap InWindow(compiles[r]))]
  BY DEF Change
<1>6. \A r \in Runs : /\ compiles'[r] \in Run
                     /\ OnlyRaced(compiles[r], compiles'[r])
  <2> SUFFICES ASSUME NEW r \in Runs
               PROVE  /\ compiles'[r] \in Run
                      /\ OnlyRaced(compiles[r], compiles'[r])
    OBVIOUS
  <2> DEFINE raced == compiles[r].raced \cup ({s} \cap InWindow(compiles[r]))
  <2>1. compiles[r] \in Run
    BY DEF FlightInv, TypeOK
  <2>2. raced \in SUBSET Sources
    BY <2>1 DEF Run
  <2>3. compiles'[r] = [compiles[r] EXCEPT !.raced = raced]
    BY <1>5
  <2> HIDE DEF raced
  <2> QED BY <2>1, <2>2, <2>3 DEF Run, OnlyRaced
<1>7. compiles' \in [Runs -> Run]
  BY <1>6 DEF Change
<1> QED BY <1>1, <1>4, <1>6, <1>7

LEMMA ChangeFlight ==
  ASSUME FlightInv, NEW s \in Sources, Change(s)
  PROVE  FlightInv'
<1>1. Seen({s}) /\ {s} \in SUBSET Sources /\ UNCHANGED <<owned, bounds, cache>>
  BY DEF Change
<1>2. calls' \in [Callers -> Call] /\ \A c \in Callers : SeesWhatChanges(c, {s})
  BY <1>1, ChangeType, HoldsNext, SeenCalls DEF FlightInv
<1>3. TypeOK'
  BY <1>1, <1>2, ChangeType DEF FlightInv, TypeOK, bounds, cache
<1>4. \A r \in Runs : /\ compiles'[r].at = compiles[r].at
                     /\ compiles'[r].file = compiles[r].file
                     /\ compiles'[r].snapshot = compiles[r].snapshot
  BY ChangeType DEF OnlyRaced
<1>5. Running' = Running
  BY <1>4 DEF Running
<1>6. OneCompile' /\ NoneStranded' /\ WaitsInTurn'
  BY <1>1, <1>2, <1>5
     DEF FlightInv, OneCompile, NoneStranded, WaitsInTurn, SeesWhatChanges, cache
<1>7. NotedInv'
  BY <1>4 DEF FlightInv, NotedInv, Noted
<1> QED BY <1>3, <1>6, <1>7 DEF FlightInv

LEMMA ReassignFlight ==
  ASSUME FlightInv, NEW f \in Files, Reassign(f)
  PROVE  FlightInv'
<1>1. /\ Seen({f}) /\ {f} \in SUBSET Sources
      /\ UNCHANGED <<disk, bounds, cache, compiles>>
  BY DEF Reassign, Sources
<1>2. \A s \in Sources : Holds(s)' \subseteq Contents \cup {Missing}
  BY <1>1, HoldsNext DEF FlightInv, TypeOK
<1>3. calls' \in [Callers -> Call] /\ \A c \in Callers : SeesWhatChanges(c, {f})
  BY <1>1, <1>2, SeenCalls DEF FlightInv
<1>4. owned' \subseteq Files /\ changes' \in 0..MaxChanges
  BY McpProjectAssumption DEF Reassign, FlightInv, TypeOK
<1>5. TypeOK'
  BY <1>1, <1>3, <1>4 DEF FlightInv, TypeOK, bounds, cache
<1>6. Running' = Running
  BY <1>1 DEF Running
<1>7. OneCompile' /\ NoneStranded' /\ WaitsInTurn' /\ NotedInv'
  BY <1>1, <1>3, <1>6
     DEF FlightInv, OneCompile, NoneStranded, WaitsInTurn, NotedInv, SeesWhatChanges, cache
<1> QED BY <1>5, <1>7 DEF FlightInv

LEMMA StutterFlight ==
  ASSUME FlightInv, UNCHANGED vars
  PROVE  FlightInv'
<1>1. Running' = Running
  BY DEF Running, vars
<1> QED BY <1>1 DEF FlightInv, TypeOK, OneCompile, NoneStranded, WaitsInTurn, NotedInv,
                    vars, external, bounds, cache

LEMMA NextFlightInv ==
  ASSUME FlightInv, [Next]_vars
  PROVE  FlightInv'
<1>1. ASSUME CompileStep PROVE FlightInv'
  BY <1>1, WalkFlight, StatLockFlight, ReadLockFlight, ReadFileFlight, StatFileFlight,
     HashFileFlight, CommitFlight DEF CompileStep
<1>2. ASSUME NEW r \in Runs, Fail(r) PROVE FlightInv'
  BY <1>2, FailFlight
<1>3. ASSUME NEW c \in Callers, CheckStep(c) PROVE FlightInv'
  BY <1>3, ForcedFlight, CheckFlight, CheckLockRevalidates, CheckFileRevalidates,
     CheckHashRevalidates, CheckNewFilesRevalidates DEF CheckStep
<1>4. ASSUME NEW c \in Callers, GetCompiled(c) \/ ForceRefresh(c) \/ Return(c)
      PROVE  FlightInv'
  BY <1>4, GetCompiledFlight, ForceRefreshFlight, ReturnFlight
<1>5. ASSUME NEW s \in Sources, Change(s) PROVE FlightInv'
  BY <1>5, ChangeFlight
<1>6. ASSUME NEW f \in Files, Reassign(f) PROVE FlightInv'
  BY <1>6, ReassignFlight
<1>7. CASE UNCHANGED vars
  BY <1>7, StutterFlight
<1> QED BY <1>1, <1>2, <1>3, <1>4, <1>5, <1>6, <1>7 DEF Next

THEOREM FlightInvariant == Spec => []FlightInv
<1>1. Init => FlightInv
  BY InitFlightInv
<1>2. FlightInv /\ [Next]_vars => FlightInv'
  BY NextFlightInv
<1> QED BY <1>1, <1>2, PTL DEF Spec

(***************************************************************************)
(* The state of a project cache is typed, whatever overlaps.               *)
(***************************************************************************)
THEOREM TypeCorrect == Spec => []TypeOK
<1>1. FlightInv => TypeOK
  BY DEF FlightInv
<1> QED BY <1>1, FlightInvariant, PTL

(***************************************************************************)
(* ensureCompile is the single gate: no two compiles run at once, and no   *)
(* call is left behind a compile that is over, failed or not.              *)
(***************************************************************************)
THEOREM CompilesAreSerial == Spec => []SingleFlight
<1>1. FlightInv => SingleFlight
  BY DEF FlightInv, SingleFlight
<1> QED BY <1>1, FlightInvariant, PTL

-------------------------------------------------------------------------------
LEMMA InitRefreshInv == Init => FreshInv
<1> SUFFICES ASSUME Init PROVE FreshInv
  OBVIOUS
<1>1. \A c \in Callers : calls[c].at = "idle"
  BY DEF Init, NoCall
<1>2. CompileInv
  <2>1. \A r \in Runs : compiles[r] = NoRun \/ compiles[r] = [NoRun EXCEPT !.at = "walk"]
    BY DEF Init
  <2>2. \A r \in Runs : compiles[r].reads = Nowhere /\ compiles[r].at \in {"idle", "walk"}
    BY <2>1 DEF NoRun
  <2> QED BY <2>2 DEF CompileInv
<1>3. SeenInv /\ ReadSinceInv /\ RefreshIsFresh
  BY <1>1 DEF SeenInv, ReadSinceInv, Own, RefreshIsFresh, Answered
<1> QED BY <1>2, <1>3 DEF FreshInv

LEMMA HoldsUnchanged ==
  ASSUME UNCHANGED external, NEW s \in Sources
  PROVE  Holds(s)' = Holds(s)
BY DEF Holds, external

\* A compile that does not run has read nothing that counts.
LEMMA NothingFinal ==
  ASSUME Running = {}, NEW r \in Runs
  PROVE  Final(compiles[r]) = {}
BY DEF Running, Final

(***************************************************************************)
(* What the calls do.                                                      *)
(***************************************************************************)
LEMMA JoinFresh ==
  ASSUME RefreshInv, NEW c \in Callers, NEW call \in Call, EnsureCompile(c, call),
         UNCHANGED external,
         \A s \in Sources : Holds(s) \subseteq call.since[s],
         call.kind = "forceRefresh" \/ ~call.joined =>
           \A r \in Runs : \A s \in Final(compiles[r]) :
             compiles[r].reads[s] \in call.since[s]
  PROVE  FreshInv'
<1>1. PICK r \in Runs : Joins(c, call, r)
  BY Gate DEF RefreshInv
<1>2. compiles \in [Runs -> Run] /\ calls \in [Callers -> Call]
  BY DEF RefreshInv, FlightInv, TypeOK
<1>3. /\ calls'[c].at = "join" /\ calls'[c].kind = call.kind
      /\ calls'[c].since = call.since /\ calls'[c].joined = call.joined
  BY <1>1, <1>2 DEF Joins, Call
<1>4. \A d \in Callers \ {c} : calls'[d] = calls[d]
  BY <1>1, <1>2 DEF Joins
<1>5. \A q \in Runs : \/ compiles'[q] = compiles[q]
                     \/ compiles'[q] = [NoRun EXCEPT !.at = "walk"]
  BY <1>1, <1>2 DEF Joins
<1>6. [NoRun EXCEPT !.at = "walk"].at = "walk" /\ [NoRun EXCEPT !.at = "walk"].reads = Nowhere
  BY DEF NoRun
<1>7. CompileInv'
  BY <1>5, <1>6 DEF RefreshInv, FreshInv, CompileInv
<1>8. SeenInv'
  BY <1>3, <1>4, HoldsUnchanged DEF RefreshInv, FreshInv, SeenInv
<1>9. ReadSinceInv'
  <2>1. \A q \in Runs : \/ compiles'[q] = compiles[q]
                       \/ Final(compiles'[q]) = {}
    BY <1>5, <1>6 DEF Final
  <2> QED BY <1>3, <1>4, <2>1 DEF RefreshInv, FreshInv, ReadSinceInv, Own
<1>10. RefreshIsFresh'
  BY <1>3, <1>4 DEF RefreshInv, FreshInv, RefreshIsFresh, Answered
<1> QED BY <1>7, <1>8, <1>9, <1>10 DEF FreshInv

LEMMA MoveFresh ==
  ASSUME RefreshInv, NEW c \in Callers, NEW call \in Call,
         calls' = [calls EXCEPT ![c] = call], UNCHANGED <<external, compiles>>,
         call.at \notin {"join", "force"},
         call.at \in {"lock", "files", "hash", "answered"} => call.kind = "getCompiled",
         call.at \notin {"idle", "answered"} =>
           \A s \in Sources : Holds(s) \subseteq call.since[s],
         Own(call) => \A r \in Runs : \A s \in Final(compiles[r]) :
                        compiles[r].reads[s] \in call.since[s]
  PROVE  FreshInv'
<1>1. calls'[c] = call /\ \A d \in Callers \ {c} : calls'[d] = calls[d]
  BY DEF RefreshInv, FlightInv, TypeOK
<1>2. CompileInv'
  BY DEF RefreshInv, FreshInv, CompileInv
<1>3. SeenInv'
  BY <1>1, HoldsUnchanged DEF RefreshInv, FreshInv, SeenInv
<1>4. ReadSinceInv'
  BY <1>1 DEF RefreshInv, FreshInv, ReadSinceInv
<1>5. RefreshIsFresh'
  BY <1>1 DEF RefreshInv, FreshInv, RefreshIsFresh, Answered
<1> QED BY <1>2, <1>3, <1>4, <1>5 DEF FreshInv

\* A call that is made has seen what is there.
LEMMA MadeFresh ==
  ASSUME RefreshInv, NEW kind \in {"getCompiled", "forceRefresh"}
  PROVE  /\ Made(kind) \in Call /\ Made(kind).kind = kind
         /\ \A s \in Sources : Holds(s) \subseteq Made(kind).since[s]
<1>1. Made(kind) \in Call
  BY MadeType DEF RefreshInv, FlightInv
<1>2. Made(kind).kind = kind /\ Made(kind).since = [s \in Sources |-> Holds(s)]
  BY DEF Made, NoCall
<1> QED BY <1>1, <1>2

LEMMA GetCompiledFresh ==
  ASSUME RefreshInv, NEW c \in Callers, GetCompiled(c)
  PROVE  FreshInv'
<1> DEFINE made == Made("getCompiled")
<1>1. /\ made \in Call /\ made.kind = "getCompiled"
      /\ \A s \in Sources : Holds(s) \subseteq made.since[s]
  BY MadeFresh
<1> HIDE DEF made
<1>0. inFlight = None => \A r \in Runs : Final(compiles[r]) = {}
  BY NothingFinal DEF RefreshInv, FlightInv, OneCompile
<1>2. CASE /\ inFlight = None
           /\ calls' = [calls EXCEPT ![c] = [made EXCEPT !.at = "lock"]]
           /\ UNCHANGED <<inFlight, compiles>>
  <2> DEFINE call == [made EXCEPT !.at = "lock"]
  <2>1. call \in Call /\ call.at = "lock" /\ call.kind = "getCompiled" /\ call.since = made.since
    BY <1>1 DEF Call
  <2>2. calls' = [calls EXCEPT ![c] = call]
    BY <1>2
  <2> HIDE DEF call
  <2> QED BY <1>0, <1>1, <1>2, <2>1, <2>2, MoveFresh DEF GetCompiled
<1>3. CASE EnsureCompile(c, [made EXCEPT !.joined = inFlight # None])
  <2> DEFINE call == [made EXCEPT !.joined = inFlight # None]
  <2>1. /\ call \in Call /\ call.kind = "getCompiled" /\ call.since = made.since
        /\ call.joined = (inFlight # None)
    BY <1>1 DEF Call
  <2>2. EnsureCompile(c, call)
    BY <1>3
  <2> HIDE DEF call
  <2> QED BY <1>0, <1>1, <2>1, <2>2, JoinFresh DEF GetCompiled
<1> QED BY <1>2, <1>3 DEF GetCompiled, made

LEMMA ForceRefreshFresh ==
  ASSUME RefreshInv, NEW c \in Callers, ForceRefresh(c)
  PROVE  FreshInv'
<1> DEFINE made == Made("forceRefresh")
<1>1. /\ made \in Call /\ made.kind = "forceRefresh"
      /\ \A s \in Sources : Holds(s) \subseteq made.since[s]
  BY MadeFresh
<1> HIDE DEF made
<1>2. CASE /\ inFlight # None
           /\ calls' = [calls EXCEPT ![c] = [made EXCEPT !.at = "settle", !.run = inFlight]]
           /\ UNCHANGED <<inFlight, cached, compiles>>
  <2> DEFINE call == [made EXCEPT !.at = "settle", !.run = inFlight]
  <2>1. call \in Call /\ call.at = "settle" /\ call.since = made.since
    BY <1>1, <1>2 DEF Call, RefreshInv, FlightInv, TypeOK
  <2>2. calls' = [calls EXCEPT ![c] = call]
    BY <1>2
  <2> HIDE DEF call
  <2>3. ~Own(call)
    BY <2>1 DEF Own
  <2> QED BY <1>1, <1>2, <2>1, <2>2, <2>3, MoveFresh DEF ForceRefresh
<1>3. CASE inFlight = None /\ EnsureCompile(c, made)
  <2>1. Running = {}
    BY <1>3 DEF RefreshInv, FlightInv, OneCompile
  <2> QED BY <1>1, <1>3, <2>1, NothingFinal, JoinFresh DEF ForceRefresh
<1> QED BY <1>2, <1>3 DEF ForceRefresh, made

LEMMA ForcedFresh ==
  ASSUME RefreshInv, NEW c \in Callers, Forced(c)
  PROVE  FreshInv'
<1>1. calls[c] \in Call
  BY DEF RefreshInv, FlightInv, TypeOK
<1>2. calls[c].at = "force" /\ EnsureCompile(c, calls[c]) /\ UNCHANGED external
  BY DEF Forced
<1>3. \A s \in Sources : Holds(s) \subseteq calls[c].since[s]
  BY <1>2 DEF RefreshInv, FreshInv, SeenInv
<1>4. calls[c].kind = "forceRefresh" \/ ~calls[c].joined =>
        \A r \in Runs : \A s \in Final(compiles[r]) :
          compiles[r].reads[s] \in calls[c].since[s]
  BY <1>2 DEF RefreshInv, FreshInv, ReadSinceInv, Own
<1> QED BY <1>1, <1>2, <1>3, <1>4, JoinFresh

LEMMA ReturnFresh ==
  ASSUME RefreshInv, NEW c \in Callers, Return(c)
  PROVE  FreshInv'
<1>1. NoCall.at = "idle" /\ ~Own(NoCall)
  BY DEF NoCall, Own
<1> QED BY <1>1, Blank, MoveFresh DEF Return

\* A call that revalidates is no refresh.
LEMMA CheckFresh ==
  ASSUME RefreshInv, NEW c \in Callers, NEW call \in Call, Revalidates(c, call)
  PROVE  FreshInv'
<1>1. calls[c] \in Call
  BY DEF RefreshInv, FlightInv, TypeOK
<1>2. calls[c].kind = "getCompiled" /\ \A s \in Sources : Holds(s) \subseteq calls[c].since[s]
  BY DEF RefreshInv, FreshInv, SeenInv, ReadSinceInv, Revalidates
<1>3. ~calls[c].joined => \A r \in Runs : \A s \in Final(compiles[r]) :
                            compiles[r].reads[s] \in calls[c].since[s]
  BY DEF RefreshInv, FreshInv, ReadSinceInv, Own, Revalidates
<1>4. CASE EnsureCompile(c, calls[c])
  BY <1>1, <1>2, <1>3, <1>4, JoinFresh DEF Revalidates
<1>5. CASE calls' = [calls EXCEPT ![c] = call] /\ UNCHANGED <<inFlight, compiles>>
  <2>1. Own(call) => ~calls[c].joined
    BY <1>2 DEF Own, Revalidates
  <2> QED BY <1>2, <1>3, <1>5, <2>1, MoveFresh DEF Revalidates
<1> QED BY <1>4, <1>5 DEF Revalidates

(***************************************************************************)
(* What a compile does.                                                    *)
(***************************************************************************)
\* A compile goes on as `run`: what of it becomes final has just been read.
LEMMA RunFresh ==
  ASSUME RefreshInv, NEW r \in Runs, NEW run, Step(r, run),
         run.at # "walk",
         run.at \in {"statLock", "readLock"} => run.todo = run.paths,
         \A s \in Final(run) :
           /\ s \in Sources
           /\ \/ s \in Final(compiles[r]) /\ run.reads[s] = compiles[r].reads[s]
              \/ run.reads[s] \in Holds(s)
  PROVE  FreshInv'
<1>1. /\ compiles'[r] = run /\ \A q \in Runs \ {r} : compiles'[q] = compiles[q]
      /\ UNCHANGED <<external, calls>>
  BY DEF Step, RefreshInv, FlightInv, TypeOK
<1>2. CompileInv'
  BY <1>1 DEF RefreshInv, FreshInv, CompileInv
<1>3. SeenInv'
  BY <1>1, HoldsUnchanged DEF RefreshInv, FreshInv, SeenInv
<1>4. ReadSinceInv'
  <2> SUFFICES ASSUME NEW c \in Callers, Own(calls[c]), NEW q \in Runs,
                      NEW s \in Final(compiles'[q])
               PROVE  compiles'[q].reads[s] \in calls[c].since[s]
    BY <1>1 DEF RefreshInv, FreshInv, ReadSinceInv, Own, Final
  <2>1. \A t \in Final(compiles[q]) : compiles[q].reads[t] \in calls[c].since[t]
    BY DEF RefreshInv, FreshInv, ReadSinceInv
  <2>2. \A t \in Sources : Holds(t) \subseteq calls[c].since[t]
    BY DEF RefreshInv, FreshInv, SeenInv, Own
  <2>3. CASE q = r
    BY <1>1, <2>1, <2>2, <2>3
  <2>4. CASE q # r
    BY <1>1, <2>1, <2>4
  <2> QED BY <2>3, <2>4
<1>5. RefreshIsFresh'
  BY <1>1 DEF RefreshInv, FreshInv, RefreshIsFresh, Answered
<1> QED BY <1>2, <1>3, <1>4, <1>5 DEF FreshInv

\* What the walk leaves out is missing, or belongs to another project.
LEMMA WalkFresh ==
  ASSUME RefreshInv, NEW r \in Runs, Walk(r)
  PROVE  FreshInv'
<1> DEFINE run == [compiles[r] EXCEPT !.at = "statLock", !.paths = Walked, !.todo = Walked]
<1>1. compiles[r] \in Run /\ compiles[r].reads = Nowhere
  BY DEF RefreshInv, FlightInv, TypeOK, FreshInv, CompileInv, Walk
<1>2. /\ run.at = "statLock" /\ run.paths = Walked /\ run.todo = Walked
      /\ run.reads = Nowhere
  BY <1>1 DEF Run
<1>3. Step(r, run)
  BY DEF Walk
<1> HIDE DEF run
<1>4. ASSUME NEW s \in Final(run)
      PROVE  s \in Sources /\ run.reads[s] \in Holds(s)
  <2>1. s \in Files \ Walked
    BY <1>2 DEF Final
  <2>2. run.reads[s] = Missing
    BY <1>2, <2>1 DEF Nowhere, Sources
  <2> QED BY <2>1, <2>2 DEF Walked, Exists, Holds, Sources
<1> QED BY <1>2, <1>3, <1>4, RunFresh

LEMMA StatLockFresh ==
  ASSUME RefreshInv, NEW r \in Runs, StatLock(r)
  PROVE  FreshInv'
<1> DEFINE run == [compiles[r] EXCEPT !.at = "readLock", !.lockMtime = disk[Lock].mtime]
<1>1. compiles[r] \in Run /\ compiles[r].at = "statLock" /\ compiles[r].todo = compiles[r].paths
  BY DEF RefreshInv, FlightInv, TypeOK, FreshInv, CompileInv, StatLock
<1>2. /\ run.at = "readLock" /\ run.paths = compiles[r].paths /\ run.todo = run.paths
      /\ run.reads = compiles[r].reads
  BY <1>1 DEF Run
<1>3. Step(r, run)
  BY DEF StatLock
<1> HIDE DEF run
<1>4. \A s \in Final(run) : s \in Sources /\ s \in Final(compiles[r])
  BY <1>1, <1>2 DEF Final, Sources
<1> QED BY <1>2, <1>3, <1>4, RunFresh

LEMMA ReadLockFresh ==
  ASSUME RefreshInv, NEW r \in Runs, ReadLock(r)
  PROVE  FreshInv'
<1>1. /\ compiles[r] \in Run /\ compiles[r].at = "readLock"
      /\ compiles[r].todo = compiles[r].paths
  BY DEF RefreshInv, FlightInv, TypeOK, FreshInv, CompileInv, ReadLock
<1>2. PICK at \in {"read", "commit"}, raced \in SUBSET Sources :
        /\ at = "commit" => compiles[r].paths = {}
        /\ Step(r, [compiles[r] EXCEPT !.at = at, !.reads[Lock] = disk[Lock].contents,
                                       !.raced = raced])
  BY DEF ReadLock, Sources
<1> DEFINE run == [compiles[r] EXCEPT !.at = at, !.reads[Lock] = disk[Lock].contents,
                                      !.raced = raced]
<1>3. /\ run.at = at /\ run.todo = compiles[r].paths
      /\ run.reads[Lock] = disk[Lock].contents
      /\ \A s \in Files : run.reads[s] = compiles[r].reads[s]
  BY <1>1, McpProjectAssumption DEF Run, Reads, Sources
<1>4. Step(r, run)
  BY <1>2
<1> HIDE DEF run
<1>5. \A s \in Final(run) : s = Lock \/ s \in Files \ compiles[r].paths
  BY <1>2, <1>3 DEF Final, Sources
<1>6. \A s \in Files \ compiles[r].paths : s \in Final(compiles[r])
  BY <1>1 DEF Final
<1>7. run.reads[Lock] \in Holds(Lock)
  BY <1>3 DEF Holds
<1> QED BY <1>3, <1>4, <1>5, <1>6, <1>7, RunFresh DEF Sources

LEMMA ReadFileFresh ==
  ASSUME RefreshInv, NEW r \in Runs, NEW f \in Files, ReadFile(r, f)
  PROVE  FreshInv'
<1>1. compiles[r] \in Run /\ compiles[r].at = "read" /\ f \in compiles[r].todo
  BY DEF RefreshInv, FlightInv, TypeOK, ReadFile
<1>2. PICK at \in {"read", "stat"}, todo \in SUBSET Files :
        /\ IF at = "stat" THEN compiles[r].todo = {f} ELSE todo = compiles[r].todo \ {f}
        /\ Step(r, [compiles[r] EXCEPT !.reads[f] = disk[f].contents, !.at = at, !.todo = todo])
  BY <1>1 DEF ReadFile, Run
<1> DEFINE run == [compiles[r] EXCEPT !.reads[f] = disk[f].contents, !.at = at,
                                      !.todo = todo]
<1>3. /\ run.at = at /\ run.todo = todo /\ run.reads[f] = disk[f].contents
      /\ \A s \in Sources \ {f} : run.reads[s] = compiles[r].reads[s]
  BY <1>1 DEF Run, Reads, Sources
<1>4. Step(r, run)
  BY <1>2
<1> HIDE DEF run
<1>5. \A s \in Final(run) : s \in Sources /\ (s = f \/ s \notin compiles[r].todo)
  BY <1>2, <1>3 DEF Final
<1>6. \A s \in Sources : s \notin compiles[r].todo => s \in Final(compiles[r])
  BY <1>1 DEF Final
<1>7. run.reads[f] \in Holds(f)
  BY <1>3 DEF Holds
<1>8. ASSUME NEW s \in Final(run)
      PROVE  /\ s \in Sources
             /\ \/ s \in Final(compiles[r]) /\ run.reads[s] = compiles[r].reads[s]
                \/ run.reads[s] \in Holds(s)
  BY <1>3, <1>5, <1>6, <1>7
<1> QED BY <1>3, <1>4, <1>8, RunFresh

\* Once everything is read, the reads stay as they are.
LEMMA NotedFresh ==
  ASSUME RefreshInv, NEW r \in Runs, NEW run, Step(r, run),
         compiles[r].at \in {"stat", "hash"}, run.at \in {"stat", "hash", "commit"},
         run.reads = compiles[r].reads
  PROVE  FreshInv'
<1>1. Final(run) = Sources /\ Final(compiles[r]) = Sources
  BY DEF Final
<1> QED BY <1>1, RunFresh

LEMMA StatFileFresh ==
  ASSUME RefreshInv, NEW r \in Runs, NEW f \in Files, StatFile(r, f)
  PROVE  FreshInv'
<1>1. compiles[r] \in Run /\ compiles[r].at = "stat"
  BY DEF RefreshInv, FlightInv, TypeOK, StatFile
<1>2. CASE Exists(f)
  <2> DEFINE noted == [mtime |-> disk[f].mtime, hash |-> Missing]
             run == [compiles[r] EXCEPT !.at = "hash", !.file = f, !.snapshot[f] = noted]
  <2>1. run.at = "hash" /\ run.reads = compiles[r].reads
    BY <1>1 DEF Run
  <2>2. Step(r, run)
    BY <1>2 DEF StatFile
  <2> HIDE DEF run
  <2> QED BY <1>1, <2>1, <2>2, NotedFresh
<1>3. CASE ~Exists(f)
  <2>1. PICK at \in {"commit", "stat"} :
          Step(r, [compiles[r] EXCEPT !.at = at, !.todo = @ \ {f}])
    BY <1>3 DEF StatFile
  <2> DEFINE run == [compiles[r] EXCEPT !.at = at, !.todo = @ \ {f}]
  <2>2. run.at = at /\ run.reads = compiles[r].reads
    BY <1>1 DEF Run
  <2>3. Step(r, run)
    BY <2>1
  <2> HIDE DEF run
  <2> QED BY <1>1, <2>2, <2>3, NotedFresh
<1> QED BY <1>2, <1>3

LEMMA HashFileFresh ==
  ASSUME RefreshInv, NEW r \in Runs, HashFile(r)
  PROVE  FreshInv'
<1> DEFINE f == compiles[r].file
           hash == disk[f].contents
<1>1. compiles[r] \in Run /\ compiles[r].at = "hash"
  BY DEF RefreshInv, FlightInv, TypeOK, HashFile
<1>2. PICK at \in {"commit", "stat"} :
        Step(r, [compiles[r] EXCEPT !.at = at, !.todo = @ \ {f}, !.file = None,
                                    !.snapshot[f].hash = hash])
  BY DEF HashFile
<1> HIDE DEF f, hash
<1> DEFINE run == [compiles[r] EXCEPT !.at = at, !.todo = @ \ {f}, !.file = None,
                                      !.snapshot[f].hash = hash]
<1>3. run.at = at /\ run.reads = compiles[r].reads
  BY <1>1 DEF Run
<1>4. Step(r, run)
  BY <1>2
<1> HIDE DEF run
<1> QED BY <1>1, <1>3, <1>4, NotedFresh

\* A compile is over: a refresh that waited for one of its own has its answer,
\* one that waited for an earlier compile may join any that starts now.
LEMMA SettleFresh ==
  ASSUME RefreshInv, NEW r \in Runs, NEW result, Settle(r, result),
         Running' = {}, UNCHANGED external,
         \/ result = Failed
         \/ compiles[r].at = "commit" /\ result.reads = compiles[r].reads
  PROVE  FreshInv'
<1>1. \A q \in Runs : compiles'[q].at = "idle"
  BY DEF Running
<1>2. CompileInv'
  BY <1>1 DEF CompileInv
<1>3. ASSUME NEW c \in Callers
      PROVE  /\ calls'[c].kind = calls[c].kind /\ calls'[c].since = calls[c].since
             /\ \/ calls'[c] = calls[c]
                \/ calls[c].at = "settle" /\ calls'[c].at = "force"
                \/ calls[c].at = "join" /\ calls'[c].at = "answered" /\ calls'[c].result = result
  <2>1. calls[c] \in Call
    BY DEF RefreshInv, FlightInv, TypeOK
  <2>2. CASE calls[c].run # r
    BY <2>2 DEF Settle
  <2>3. CASE calls[c].run = r /\ calls[c].at = "settle"
    BY <2>1, <2>3 DEF Settle, Call
  <2>4. CASE calls[c].run = r /\ calls[c].at # "settle"
    <3>1. calls[c].at = "join"
      BY <2>4, NullAssumption DEF RefreshInv, FlightInv, WaitsInTurn
    <3>2. calls'[c] = [calls[c] EXCEPT !.at = "answered", !.run = None, !.result = result]
      BY <2>4 DEF Settle
    <3> QED BY <2>1, <3>1, <3>2 DEF Call
  <2> QED BY <2>2, <2>3, <2>4
<1>4. SeenInv'
  BY <1>3, HoldsUnchanged DEF RefreshInv, FreshInv, SeenInv
<1>5. ReadSinceInv'
  <2>1. \A q \in Runs : Final(compiles'[q]) = {}
    BY <1>1 DEF Final
  <2>2. \A c \in Callers : calls'[c].at \in {"lock", "files", "hash"} => calls'[c] = calls[c]
    BY <1>3
  <2> QED BY <2>1, <2>2 DEF RefreshInv, FreshInv, ReadSinceInv
<1>6. RefreshIsFresh'
  <2> SUFFICES ASSUME NEW c \in Callers, Answered(c, "forceRefresh")', NEW s \in Sources
               PROVE  calls'[c].result.reads[s] \in calls'[c].since[s]
    BY DEF RefreshIsFresh
  <2>1. CASE calls'[c] = calls[c]
    BY <2>1 DEF RefreshInv, FreshInv, RefreshIsFresh, Answered
  <2>2. CASE calls[c].at = "join" /\ calls'[c].at = "answered" /\ calls'[c].result = result
    <3>1. compiles[r].at = "commit" /\ result.reads = compiles[r].reads
      BY <2>2 DEF Answered
    <3>2. s \in Final(compiles[r])
      BY <3>1 DEF Final
    <3>3. calls[c].kind = "forceRefresh" /\ calls'[c].since = calls[c].since
      BY <1>3 DEF Answered
    <3>4. compiles[r].reads[s] \in calls[c].since[s]
      BY <2>2, <3>2, <3>3 DEF RefreshInv, FreshInv, ReadSinceInv, Own
    <3> QED BY <2>2, <3>1, <3>3, <3>4
  <2> QED BY <1>3, <2>1, <2>2 DEF Answered
<1> QED BY <1>2, <1>4, <1>5, <1>6 DEF FreshInv

LEMMA CommitFresh ==
  ASSUME RefreshInv, NEW r \in Runs, Commit(r)
  PROVE  FreshInv'
<1> DEFINE result == [reads |-> compiles[r].reads, raced |-> compiles[r].raced]
<1>1. Running' = {}
  BY CommitFlight DEF RefreshInv
<1>2. Settle(r, result) /\ compiles[r].at = "commit" /\ UNCHANGED external
  BY DEF Commit
<1>3. result.reads = compiles[r].reads
  OBVIOUS
<1> HIDE DEF result
<1> QED BY <1>1, <1>2, <1>3, SettleFresh

LEMMA FailFresh ==
  ASSUME RefreshInv, NEW r \in Runs, Fail(r)
  PROVE  FreshInv'
<1>1. Running' = {}
  BY FailFlight DEF RefreshInv
<1>2. Settle(r, Failed) /\ UNCHANGED external
  BY DEF Fail
<1> QED BY <1>1, <1>2, SettleFresh

(***************************************************************************)
(* What the environment does.                                              *)
(***************************************************************************)
LEMMA SeenFresh ==
  ASSUME RefreshInv, NEW S \in SUBSET Sources, Seen(S),
         \A s \in Sources : Holds(s)' \subseteq Contents \cup {Missing},
         \A s \in Sources \ S : Holds(s)' = Holds(s),
         \A r \in Runs : OnlyRaced(compiles[r], compiles'[r])
  PROVE  FreshInv'
<1>1. \A c \in Callers : SeesWhatChanges(c, S)
  BY SeenCalls DEF RefreshInv, FlightInv
<1>2. CompileInv'
  BY DEF RefreshInv, FreshInv, CompileInv, OnlyRaced
<1>3. SeenInv'
  <2> SUFFICES ASSUME NEW c \in Callers, calls[c].at \notin {"idle", "answered"},
                      NEW s \in Sources
               PROVE  Holds(s)' \subseteq calls'[c].since[s]
    BY <1>1 DEF SeenInv, SeesWhatChanges
  <2>1. Holds(s) \subseteq calls[c].since[s]
    BY DEF RefreshInv, FreshInv, SeenInv
  <2>2. CASE s \in S
    BY <1>1, <2>2 DEF SeesWhatChanges
  <2>3. CASE s \notin S
    BY <1>1, <2>1, <2>3 DEF SeesWhatChanges
  <2> QED BY <2>2, <2>3
<1>4. ReadSinceInv'
  <2>1. \A r \in Runs : /\ Final(compiles'[r]) = Final(compiles[r])
                       /\ Final(compiles[r]) \subseteq Sources
                       /\ compiles'[r].reads = compiles[r].reads
    BY DEF Final, OnlyRaced, Sources
  <2>2. \A c \in Callers : calls'[c].at \in {"lock", "files", "hash"} =>
                            calls'[c].kind = "getCompiled"
    BY <1>1 DEF RefreshInv, FreshInv, ReadSinceInv, SeesWhatChanges
  <2>3. ASSUME NEW c \in Callers, Own(calls[c])', NEW r \in Runs,
               NEW s \in Final(compiles'[r])
        PROVE  compiles'[r].reads[s] \in calls'[c].since[s]
    <3>1. compiles[r].reads[s] \in calls[c].since[s]
      BY <1>1, <2>1, <2>3 DEF RefreshInv, FreshInv, ReadSinceInv, Own, SeesWhatChanges
    <3> QED BY <1>1, <2>1, <3>1 DEF SeesWhatChanges
  <2> QED BY <2>2, <2>3 DEF ReadSinceInv
<1>5. RefreshIsFresh'
  BY <1>1 DEF RefreshInv, FreshInv, RefreshIsFresh, Answered, SeesWhatChanges
<1> QED BY <1>2, <1>3, <1>4, <1>5 DEF FreshInv

LEMMA ChangeFresh ==
  ASSUME RefreshInv, NEW s \in Sources, Change(s)
  PROVE  FreshInv'
<1>1. FlightInv /\ Seen({s}) /\ {s} \in SUBSET Sources /\ UNCHANGED owned
  BY DEF RefreshInv, Change
<1>2. \A t \in Sources \ {s} : Holds(t)' = Holds(t)
  <2>1. \A t \in Sources \ {s} : disk'[t] = disk[t]
    BY <1>1 DEF Change, FlightInv, TypeOK
  <2> QED BY <1>1, <2>1 DEF Holds
<1>3. \A t \in Sources : Holds(t)' \subseteq Contents \cup {Missing}
  BY <1>1, ChangeType, HoldsNext
<1>4. \A r \in Runs : OnlyRaced(compiles[r], compiles'[r])
  BY <1>1, ChangeType
<1> QED BY <1>1, <1>2, <1>3, <1>4, SeenFresh

LEMMA ReassignFresh ==
  ASSUME RefreshInv, NEW f \in Files, Reassign(f)
  PROVE  FreshInv'
<1>1. /\ FlightInv /\ Seen({f}) /\ {f} \in SUBSET Sources /\ UNCHANGED <<disk, compiles>>
  BY DEF RefreshInv, Reassign, Sources
<1>2. \A t \in Sources \ {f} : Holds(t)' = Holds(t)
  BY <1>1 DEF Holds, Reassign
<1>3. \A t \in Sources : Holds(t)' \subseteq Contents \cup {Missing}
  BY <1>1, HoldsNext DEF FlightInv, TypeOK
<1>4. \A r \in Runs : OnlyRaced(compiles[r], compiles'[r])
  BY <1>1 DEF OnlyRaced
<1> QED BY <1>1, <1>2, <1>3, <1>4, SeenFresh

LEMMA StutterFresh ==
  ASSUME RefreshInv, UNCHANGED vars
  PROVE  FreshInv'
<1>1. \A s \in Sources : Holds(s)' = Holds(s)
  BY HoldsUnchanged DEF vars
<1>2. CompileInv' /\ ReadSinceInv' /\ RefreshIsFresh'
  BY DEF RefreshInv, FreshInv, CompileInv, ReadSinceInv, RefreshIsFresh, Answered, vars
<1>3. SeenInv'
  BY <1>1 DEF RefreshInv, FreshInv, SeenInv, vars
<1> QED BY <1>2, <1>3 DEF FreshInv

LEMMA NextFreshInv ==
  ASSUME RefreshInv, [Next]_vars
  PROVE  FreshInv'
<1>0. FlightInv
  BY DEF RefreshInv
<1>1. ASSUME CompileStep PROVE FreshInv'
  BY <1>1, WalkFresh, StatLockFresh, ReadLockFresh, ReadFileFresh, StatFileFresh,
     HashFileFresh, CommitFresh DEF CompileStep
<1>2. ASSUME NEW r \in Runs, Fail(r) PROVE FreshInv'
  BY <1>2, FailFresh
<1>3. ASSUME NEW c \in Callers, CheckStep(c) PROVE FreshInv'
  <2>1. Forced(c) \/ \E call \in Call : Revalidates(c, call)
    BY <1>0, <1>3, CheckLockRevalidates, CheckFileRevalidates, CheckHashRevalidates,
       CheckNewFilesRevalidates DEF CheckStep
  <2> QED BY <2>1, ForcedFresh, CheckFresh
<1>4. ASSUME NEW c \in Callers, GetCompiled(c) \/ ForceRefresh(c) \/ Return(c)
      PROVE  FreshInv'
  BY <1>4, GetCompiledFresh, ForceRefreshFresh, ReturnFresh
<1>5. ASSUME NEW s \in Sources, Change(s) PROVE FreshInv'
  BY <1>5, ChangeFresh
<1>6. ASSUME NEW f \in Files, Reassign(f) PROVE FreshInv'
  BY <1>6, ReassignFresh
<1>7. CASE UNCHANGED vars
  BY <1>7, StutterFresh
<1> QED BY <1>1, <1>2, <1>3, <1>4, <1>5, <1>6, <1>7 DEF Next

(***************************************************************************)
(* What forceRefresh guarantees: whatever compiles, failures, changes and  *)
(* other calls it overlaps with, every source of its answer was read after *)
(* the call was made.                                                      *)
(***************************************************************************)
THEOREM RefreshesAreFresh == Spec => []RefreshIsFresh
<1>1. Init => FreshInv
  BY InitRefreshInv
<1>2. FlightInv /\ FreshInv /\ [Next]_vars => FreshInv'
  BY NextFreshInv DEF RefreshInv
<1>3. FreshInv => RefreshIsFresh
  BY DEF FreshInv
<1> QED BY <1>1, <1>2, <1>3, FlightInvariant, PTL DEF Spec

-------------------------------------------------------------------------------
(***************************************************************************)
(* AnswersFresh rests on what is noted of a source.  Modification times    *)
(* are not used twice, so a source that has the one that was noted holds   *)
(* what it held then.  The compile in flight, and the cached result, note  *)
(* of each source that was not raced what was read of it.                  *)
(***************************************************************************)
\* A source with `d` on disk, after `now` changes, holds x while its
\* modification time is m.
Vouches(d, now, m, x) ==
  /\ m \in 0..(now + 1)
  /\ m = 0 => x = Missing
  /\ d.mtime = m => d.contents = x

DiskInv ==
  \A s \in Sources :
    /\ Vouches(disk[s], changes, disk[s].mtime, disk[s].contents)
    /\ disk[s].contents = Missing => disk[s].mtime = 0

\* A snapshot, or none, of a file that was read as x.
FileNoted(d, now, snapshot, x) ==
  IF snapshot = None THEN x = Missing
  ELSE snapshot.hash = x /\ Vouches(d, now, snapshot.mtime, x)

CacheInv ==
  cached # None =>
    /\ Lock \notin cached.raced =>
         Vouches(disk[Lock], changes, lockfileMtime, cached.reads[Lock])
    /\ \A f \in Files \ cached.raced :
         FileNoted(disk[f], changes, tracked[f], cached.reads[f])

\* A compile reads after it walks and notes after it reads.
Ordered(run) ==
  /\ run.at \in {"idle", "walk", "statLock", "readLock"} => run.reads = Nowhere
  /\ run.at \in {"idle", "walk", "statLock", "readLock", "read"} =>
       run.snapshot = NotTracked
  /\ run.at = "read" => run.todo \subseteq run.paths
  /\ run.at = "hash" => run.file \in run.todo

LockNoted(d, now, run) ==
  /\ run.at = "readLock" => run.lockMtime \in 0..(now + 1)
  /\ run.at \in {"read", "stat", "hash", "commit"} /\ Lock \notin run.raced =>
       Vouches(d, now, run.lockMtime, run.reads[Lock])

\* A file that is read and not yet noted did not change since.
Unnoted(d, run, f) ==
  /\ run.reads[f] = d.contents
  /\ IF run.at = "hash" /\ f = run.file
       THEN run.snapshot[f].mtime = d.mtime ELSE run.snapshot[f] = None

FilesNoted(on, now, run) ==
  \A f \in Files \ run.raced :
    IF f \in InWindow(run) THEN Unnoted(on[f], run, f)
    ELSE FileNoted(on[f], now, run.snapshot[f], run.reads[f])

RunNoted(on, now, run) ==
  Ordered(run) /\ LockNoted(on[Lock], now, run) /\ FilesNoted(on, now, run)

NotesInv == DiskInv /\ CacheInv /\ \A r \in Runs : RunNoted(disk, changes, compiles[r])

\* A compile that has not begun has noted nothing.
LEMMA BlankNoted ==
  ASSUME NEW on, NEW now, NEW at \in {"idle", "walk"}
  PROVE  RunNoted(on, now, [NoRun EXCEPT !.at = at])
<1> DEFINE run == [NoRun EXCEPT !.at = at]
<1>1. /\ run.at = at /\ run.reads = Nowhere /\ run.snapshot = NotTracked
  BY DEF NoRun
<1> HIDE DEF run
<1>2. Ordered(run) /\ LockNoted(on[Lock], now, run)
  BY <1>1 DEF Ordered, LockNoted
<1>3. \A f \in Files : f \notin InWindow(run) /\ run.reads[f] = Missing /\ run.snapshot[f] = None
  BY <1>1 DEF InWindow, Nowhere, NotTracked, Sources
<1>4. FilesNoted(on, now, run)
  BY <1>3 DEF FilesNoted, FileNoted
<1>5. RunNoted(on, now, run)
  BY <1>2, <1>4 DEF RunNoted
<1> QED BY <1>5 DEF run

LEMMA InitNotesInv == Init => NotesInv
<1> SUFFICES ASSUME Init PROVE NotesInv
  OBVIOUS
<1>1. DiskInv
  <2>1. PICK contents \in Reads :
          disk = [s \in Sources |-> [mtime |-> IF contents[s] = Missing THEN 0 ELSE 1,
                                     contents |-> contents[s]]]
    BY DEF Init
  <2>2. changes = 0
    BY DEF Init
  <2> QED BY <2>1, <2>2 DEF DiskInv, Vouches
<1>2. CacheInv
  BY DEF Init, CacheInv
<1>3. ASSUME NEW r \in Runs PROVE RunNoted(disk, changes, compiles[r])
  <2>1. NoRun = [NoRun EXCEPT !.at = "idle"]
    BY DEF NoRun
  <2>2. compiles[r] = NoRun \/ compiles[r] = [NoRun EXCEPT !.at = "walk"]
    BY DEF Init
  <2> QED BY <2>1, <2>2, BlankNoted
<1> QED BY <1>1, <1>2, <1>3 DEF NotesInv

(***************************************************************************)
(* What a compile does.                                                    *)
(***************************************************************************)
LEMMA RunNotes ==
  ASSUME FlightInv, NotesInv, NEW r \in Runs, NEW run, Step(r, run),
         RunNoted(disk, changes, run)
  PROVE  NotesInv'
<1>1. /\ compiles'[r] = run /\ \A q \in Runs \ {r} : compiles'[q] = compiles[q]
      /\ UNCHANGED <<disk, changes, cached, tracked, lockfileMtime>>
  BY DEF Step, FlightInv, TypeOK, external, cache
<1>2. DiskInv' /\ CacheInv'
  BY <1>1 DEF NotesInv, DiskInv, CacheInv
<1>3. \A q \in Runs : RunNoted(disk', changes', compiles'[q])
  BY <1>1 DEF NotesInv
<1> QED BY <1>2, <1>3 DEF NotesInv

\* Before the compile reads the files, it has noted none.
LEMMA BeforeReads ==
  ASSUME NEW on, NEW now, NEW run, run.at \in {"walk", "statLock", "readLock", "read", "commit"},
         run.at = "read" => run.paths \subseteq run.todo,
         \A f \in Files : run.reads[f] = Missing, run.snapshot = NotTracked
  PROVE  FilesNoted(on, now, run)
<1>1. \A f \in Files : f \notin InWindow(run) /\ run.snapshot[f] = None
  BY DEF InWindow, NotTracked
<1> QED BY <1>1 DEF FilesNoted, FileNoted

LEMMA WalkNotes ==
  ASSUME FlightInv, NotesInv, NEW r \in Runs, Walk(r)
  PROVE  NotesInv'
<1> DEFINE run == [compiles[r] EXCEPT !.at = "statLock", !.paths = Walked, !.todo = Walked]
<1>1. compiles[r] \in Run /\ compiles[r].at = "walk" /\ Ordered(compiles[r])
  BY DEF FlightInv, TypeOK, NotesInv, RunNoted, Walk
<1>2. run.at = "statLock" /\ run.reads = Nowhere /\ run.snapshot = NotTracked
  BY <1>1 DEF Run, Ordered
<1>3. Step(r, run)
  BY DEF Walk
<1> HIDE DEF run
<1>4. \A f \in Files : run.reads[f] = Missing
  BY <1>2 DEF Nowhere, Sources
<1>5. RunNoted(disk, changes, run)
  BY <1>2, <1>4, BeforeReads DEF RunNoted, Ordered, LockNoted
<1> QED BY <1>3, <1>5, RunNotes

LEMMA StatLockNotes ==
  ASSUME FlightInv, NotesInv, NEW r \in Runs, StatLock(r)
  PROVE  NotesInv'
<1> DEFINE run == [compiles[r] EXCEPT !.at = "readLock", !.lockMtime = disk[Lock].mtime]
<1>1. compiles[r] \in Run /\ compiles[r].at = "statLock" /\ Ordered(compiles[r])
  BY DEF FlightInv, TypeOK, NotesInv, RunNoted, StatLock
<1>2. /\ run.at = "readLock" /\ run.reads = Nowhere /\ run.snapshot = NotTracked
      /\ run.lockMtime = disk[Lock].mtime
  BY <1>1 DEF Run, Ordered
<1>3. Step(r, run)
  BY DEF StatLock
<1> HIDE DEF run
<1>4. \A f \in Files : run.reads[f] = Missing
  BY <1>2 DEF Nowhere, Sources
<1>5. disk[Lock].mtime \in 0..(changes + 1)
  BY DEF NotesInv, DiskInv, Vouches, Sources
<1>6. RunNoted(disk, changes, run)
  BY <1>2, <1>4, <1>5, BeforeReads DEF RunNoted, Ordered, LockNoted
<1> QED BY <1>3, <1>6, RunNotes

\* A lockfile that changed after its modification time was taken has another one
\* by now, unless it was created since.
LEMMA ReadLockNotes ==
  ASSUME FlightInv, NotesInv, FreshInv, NEW r \in Runs, ReadLock(r)
  PROVE  NotesInv'
<1>1. /\ compiles[r] \in Run /\ compiles[r].at = "readLock" /\ Ordered(compiles[r])
      /\ compiles[r].lockMtime \in 0..(changes + 1) /\ compiles[r].todo = compiles[r].paths
  BY DEF FlightInv, TypeOK, NotesInv, RunNoted, LockNoted, FreshInv, CompileInv, ReadLock
<1>2. PICK at \in {"read", "commit"}, raced \in SUBSET Sources :
        /\ compiles[r].lockMtime = 0 /\ Exists(Lock) => Lock \in raced
        /\ Step(r, [compiles[r] EXCEPT !.at = at, !.reads[Lock] = disk[Lock].contents,
                                       !.raced = raced])
  BY DEF ReadLock, Sources
<1> DEFINE run == [compiles[r] EXCEPT !.at = at, !.reads[Lock] = disk[Lock].contents,
                                      !.raced = raced]
<1>3. /\ run.at = at /\ run.todo = compiles[r].paths /\ run.paths = compiles[r].paths
      /\ run.raced = raced /\ run.lockMtime = compiles[r].lockMtime
      /\ run.snapshot = NotTracked
      /\ run.reads[Lock] = disk[Lock].contents
      /\ \A s \in Files : run.reads[s] = compiles[r].reads[s]
  BY <1>1, McpProjectAssumption DEF Run, Reads, Sources, Ordered
<1>4. Step(r, run)
  BY <1>2
<1> HIDE DEF run
<1>5. \A f \in Files : run.reads[f] = Missing
  BY <1>1, <1>3 DEF Ordered, Nowhere, Sources
<1>6. Lock \notin raced => Vouches(disk[Lock], changes, run.lockMtime, run.reads[Lock])
  BY <1>1, <1>2, <1>3 DEF Vouches, Exists
<1>7. Ordered(run) /\ LockNoted(disk[Lock], changes, run)
  BY <1>3, <1>6 DEF Ordered, LockNoted
<1>8. FilesNoted(disk, changes, run)
  BY <1>3, <1>5, BeforeReads
<1> QED BY <1>4, <1>7, <1>8, RunNotes DEF RunNoted

LEMMA ReadFileNotes ==
  ASSUME FlightInv, NotesInv, NEW r \in Runs, NEW f \in Files, ReadFile(r, f)
  PROVE  NotesInv'
<1>1. /\ compiles[r] \in Run /\ compiles[r].at = "read" /\ f \in compiles[r].todo
      /\ Ordered(compiles[r]) /\ LockNoted(disk[Lock], changes, compiles[r])
      /\ FilesNoted(disk, changes, compiles[r])
  BY DEF FlightInv, TypeOK, NotesInv, RunNoted, ReadFile
<1>2. PICK at \in {"read", "stat"}, todo \in SUBSET Files :
        /\ IF at = "stat"
             THEN compiles[r].todo = {f} /\ todo = compiles[r].paths
             ELSE todo = compiles[r].todo \ {f}
        /\ Step(r, [compiles[r] EXCEPT !.reads[f] = disk[f].contents, !.at = at, !.todo = todo])
  BY <1>1 DEF ReadFile, Run
<1> DEFINE run == [compiles[r] EXCEPT !.reads[f] = disk[f].contents, !.at = at,
                                      !.todo = todo]
<1>3. /\ run.at = at /\ run.todo = todo /\ run.paths = compiles[r].paths
      /\ run.raced = compiles[r].raced /\ run.lockMtime = compiles[r].lockMtime
      /\ run.snapshot = NotTracked
      /\ run.reads[f] = disk[f].contents
      /\ \A s \in Sources \ {f} : run.reads[s] = compiles[r].reads[s]
  BY <1>1 DEF Run, Reads, Sources, Ordered
<1>4. Step(r, run)
  BY <1>2
<1> HIDE DEF run
<1>5. Ordered(run)
  BY <1>1, <1>2, <1>3 DEF Ordered
<1>6. LockNoted(disk[Lock], changes, run)
  BY <1>1, <1>3, McpProjectAssumption DEF LockNoted, Sources
<1>7. /\ InWindow(run) = InWindow(compiles[r]) \cup {f}
      /\ f \notin InWindow(compiles[r])
  BY <1>1, <1>2, <1>3 DEF InWindow, Ordered
<1>8. FilesNoted(disk, changes, run)
  <2> SUFFICES ASSUME NEW g \in Files \ run.raced
               PROVE  IF g \in InWindow(run) THEN Unnoted(disk[g], run, g)
                      ELSE FileNoted(disk[g], changes, run.snapshot[g], run.reads[g])
    BY DEF FilesNoted
  <2>1. run.snapshot[g] = None /\ compiles[r].snapshot[g] = None
    BY <1>1, <1>3 DEF Ordered, NotTracked
  <2>2. CASE g = f
    BY <1>2, <1>3, <1>7, <2>1, <2>2 DEF Unnoted
  <2>3. CASE g # f
    <3>1. run.reads[g] = compiles[r].reads[g]
      BY <1>3, <2>3 DEF Sources
    <3>2. g \in Files \ compiles[r].raced
      BY <1>3
    <3>3. g \in InWindow(run) <=> g \in InWindow(compiles[r])
      BY <1>7, <2>3
    <3> QED BY <1>1, <1>2, <1>3, <2>1, <3>1, <3>2, <3>3 DEF FilesNoted, Unnoted, FileNoted
  <2> QED BY <2>2, <2>3
<1> QED BY <1>4, <1>5, <1>6, <1>8, RunNotes DEF RunNoted

\* A compile that notes goes on as `run`, having noted nothing but f.
LEMMA NoteNotes ==
  ASSUME FlightInv, NotesInv, NEW r \in Runs, compiles[r].at \in {"stat", "hash"},
         NEW f \in Files, NEW run, Step(r, run), Ordered(run),
         run.at \in {"stat", "hash", "commit"},
         run.reads = compiles[r].reads, run.raced = compiles[r].raced,
         run.lockMtime = compiles[r].lockMtime,
         \A g \in Files \ {f} :
           /\ run.snapshot[g] = compiles[r].snapshot[g]
           /\ g \in InWindow(run) <=> g \in InWindow(compiles[r])
           /\ ~(run.at = "hash" /\ g = run.file)
           /\ ~(compiles[r].at = "hash" /\ g = compiles[r].file),
         f \notin run.raced =>
           IF f \in InWindow(run) THEN Unnoted(disk[f], run, f)
           ELSE FileNoted(disk[f], changes, run.snapshot[f], run.reads[f])
  PROVE  NotesInv'
<1>1. LockNoted(disk[Lock], changes, compiles[r]) /\ FilesNoted(disk, changes, compiles[r])
  BY DEF NotesInv, RunNoted
<1>2. LockNoted(disk[Lock], changes, run)
  BY <1>1 DEF LockNoted
<1>3. FilesNoted(disk, changes, run)
  <2> SUFFICES ASSUME NEW g \in Files \ run.raced, g # f
               PROVE  IF g \in InWindow(run) THEN Unnoted(disk[g], run, g)
                      ELSE FileNoted(disk[g], changes, run.snapshot[g], run.reads[g])
    BY DEF FilesNoted
  <2>1. IF g \in InWindow(compiles[r]) THEN Unnoted(disk[g], compiles[r], g)
        ELSE FileNoted(disk[g], changes, compiles[r].snapshot[g], compiles[r].reads[g])
    BY <1>1 DEF FilesNoted
  <2> QED BY <2>1 DEF Unnoted
<1> QED BY <1>2, <1>3, RunNotes DEF RunNoted

LEMMA StatFileNotes ==
  ASSUME FlightInv, NotesInv, NEW r \in Runs, NEW f \in Files, StatFile(r, f)
  PROVE  NotesInv'
<1>1. /\ compiles[r] \in Run /\ compiles[r].at = "stat" /\ f \in compiles[r].todo
      /\ FilesNoted(disk, changes, compiles[r])
  BY DEF FlightInv, TypeOK, NotesInv, RunNoted, StatFile
<1>2. f \in InWindow(compiles[r])
  BY <1>1 DEF InWindow
<1>3. f \notin compiles[r].raced =>
        compiles[r].reads[f] = disk[f].contents /\ compiles[r].snapshot[f] = None
  BY <1>1, <1>2 DEF FilesNoted, Unnoted
<1>4. CASE Exists(f)
  <2> DEFINE noted == [mtime |-> disk[f].mtime, hash |-> Missing]
             run == [compiles[r] EXCEPT !.at = "hash", !.file = f, !.snapshot[f] = noted]
  <2>1. /\ run.at = "hash" /\ run.file = f /\ run.todo = compiles[r].todo
        /\ run.reads = compiles[r].reads /\ run.raced = compiles[r].raced
        /\ run.lockMtime = compiles[r].lockMtime /\ run.snapshot[f] = noted
        /\ \A g \in Files \ {f} : run.snapshot[g] = compiles[r].snapshot[g]
    BY <1>1 DEF Run, Tracking
  <2>2. noted.mtime = disk[f].mtime
    OBVIOUS
  <2>3. Step(r, run)
    BY <1>4 DEF StatFile
  <2> HIDE DEF run, noted
  <2>4. Ordered(run) /\ InWindow(run) = InWindow(compiles[r])
    BY <1>1, <2>1 DEF Ordered, InWindow
  <2>5. f \notin run.raced => Unnoted(disk[f], run, f)
    BY <1>3, <2>1, <2>2 DEF Unnoted
  <2> QED BY <1>1, <1>2, <2>1, <2>3, <2>4, <2>5, NoteNotes
<1>5. CASE ~Exists(f)
  <2>1. PICK at \in {"commit", "stat"} :
          /\ at = "commit" => compiles[r].todo = {f}
          /\ Step(r, [compiles[r] EXCEPT !.at = at, !.todo = @ \ {f}])
    BY <1>5 DEF StatFile
  <2> DEFINE run == [compiles[r] EXCEPT !.at = at, !.todo = @ \ {f}]
  <2>2. /\ run.at = at /\ run.todo = compiles[r].todo \ {f}
        /\ run.reads = compiles[r].reads /\ run.raced = compiles[r].raced
        /\ run.lockMtime = compiles[r].lockMtime /\ run.snapshot = compiles[r].snapshot
    BY <1>1 DEF Run
  <2>3. Step(r, run)
    BY <2>1
  <2> HIDE DEF run
  <2>4. Ordered(run) /\ InWindow(run) = InWindow(compiles[r]) \ {f}
    BY <1>1, <2>1, <2>2 DEF Ordered, InWindow
  <2>5. f \notin run.raced => FileNoted(disk[f], changes, run.snapshot[f], run.reads[f])
    BY <1>3, <1>5, <2>2 DEF FileNoted, Exists
  <2> QED BY <1>1, <2>2, <2>3, <2>4, <2>5, NoteNotes
<1> QED BY <1>4, <1>5

LEMMA HashFileNotes ==
  ASSUME FlightInv, NotesInv, NEW r \in Runs, HashFile(r)
  PROVE  NotesInv'
<1> DEFINE f == compiles[r].file
           hash == disk[f].contents
<1>1. /\ compiles[r] \in Run /\ compiles[r].at = "hash" /\ f \in compiles[r].todo
      /\ FilesNoted(disk, changes, compiles[r])
  BY DEF FlightInv, TypeOK, NotesInv, RunNoted, Ordered, HashFile
<1>2. f \in Files /\ compiles[r].snapshot[f] \in Snapshot
  BY <1>1 DEF FlightInv, NotedInv, Noted
<1>3. f \in InWindow(compiles[r])
  BY <1>1 DEF InWindow
<1>4. f \notin compiles[r].raced =>
        compiles[r].reads[f] = hash /\ compiles[r].snapshot[f].mtime = disk[f].mtime
  BY <1>1, <1>2, <1>3 DEF FilesNoted, Unnoted
<1>5. Vouches(disk[f], changes, disk[f].mtime, hash)
  BY <1>2 DEF NotesInv, DiskInv, Sources
<1>6. PICK at \in {"commit", "stat"} :
        /\ at = "commit" => compiles[r].todo = {f}
        /\ Step(r, [compiles[r] EXCEPT !.at = at, !.todo = @ \ {f}, !.file = None,
                                       !.snapshot[f].hash = hash])
  BY DEF HashFile
<1>7. f = compiles[r].file
  OBVIOUS
<1> HIDE DEF f, hash
<1> DEFINE run == [compiles[r] EXCEPT !.at = at, !.todo = @ \ {f}, !.file = None,
                                      !.snapshot[f].hash = hash]
           noted == [compiles[r].snapshot[f] EXCEPT !.hash = hash]
<1>8. /\ run.at = at /\ run.todo = compiles[r].todo \ {f}
      /\ run.reads = compiles[r].reads /\ run.raced = compiles[r].raced
      /\ run.lockMtime = compiles[r].lockMtime /\ run.snapshot[f] = noted
      /\ \A g \in Files \ {f} : run.snapshot[g] = compiles[r].snapshot[g]
  BY <1>1, <1>2 DEF Run, Tracking
<1>9. noted.hash = hash /\ noted.mtime = compiles[r].snapshot[f].mtime
  BY <1>2 DEF Snapshot
<1>10. Step(r, run)
  BY <1>6
<1> HIDE DEF run, noted
<1>11. Ordered(run) /\ InWindow(run) = InWindow(compiles[r]) \ {f}
  BY <1>1, <1>6, <1>8 DEF Ordered, InWindow
<1>12. f \notin run.raced => FileNoted(disk[f], changes, run.snapshot[f], run.reads[f])
  <2>1. ASSUME f \notin run.raced, run.snapshot[f] # None
        PROVE  FileNoted(disk[f], changes, run.snapshot[f], run.reads[f])
    BY <1>4, <1>5, <1>8, <1>9, <2>1 DEF FileNoted
  <2>2. run.snapshot[f] # None
    <3>1. hash \in Contents \cup {Missing}
      BY <1>2 DEF hash, FlightInv, TypeOK, Sources
    <3>2. run.snapshot[f] \in Snapshot
      BY <1>2, <1>8, <3>1 DEF Snapshot, noted
    <3> QED BY <3>2, NullAssumption
  <2> QED BY <2>1, <2>2
<1> QED BY <1>1, <1>2, <1>7, <1>8, <1>10, <1>11, <1>12, NoteNotes

\* A compile that is over leaves its notes with its result, or none.
LEMMA CommitNotes ==
  ASSUME FlightInv, NotesInv, NEW r \in Runs, Commit(r)
  PROVE  NotesInv'
<1>1. /\ compiles[r].at = "commit" /\ RunNoted(disk, changes, compiles[r])
      /\ UNCHANGED <<disk, changes>>
  BY DEF NotesInv, Commit, external
<1>2. /\ cached'.reads = compiles[r].reads /\ cached'.raced = compiles[r].raced
      /\ tracked' = compiles[r].snapshot /\ lockfileMtime' = compiles[r].lockMtime
  BY DEF Commit
<1>3. \A f \in Files : f \notin InWindow(compiles[r])
  BY <1>1 DEF InWindow
<1>4. CacheInv'
  BY <1>1, <1>2, <1>3 DEF CacheInv, RunNoted, LockNoted, FilesNoted
<1>5. \A q \in Runs : compiles'[q] = compiles[q] \/ compiles'[q] = [NoRun EXCEPT !.at = "idle"]
  <2>1. NoRun = [NoRun EXCEPT !.at = "idle"]
    BY DEF NoRun
  <2>2. compiles' = [compiles EXCEPT ![r] = NoRun]
    BY DEF Commit, Settle
  <2> QED BY <2>1, <2>2 DEF FlightInv, TypeOK
<1>6. \A q \in Runs : RunNoted(disk', changes', compiles'[q])
  BY <1>1, <1>5, BlankNoted DEF NotesInv
<1>7. DiskInv'
  BY <1>1 DEF NotesInv, DiskInv
<1> QED BY <1>4, <1>6, <1>7 DEF NotesInv

\* What starts or ends a compile, or drops the cached result, keeps the notes.
LEMMA SameNotes ==
  ASSUME FlightInv, NotesInv, UNCHANGED <<disk, changes, tracked, lockfileMtime>>,
         cached' \in {cached, None},
         \A r \in Runs : \/ compiles'[r] = compiles[r]
                         \/ compiles'[r] = NoRun
                         \/ compiles'[r] = [NoRun EXCEPT !.at = "walk"]
  PROVE  NotesInv'
<1>1. DiskInv' /\ CacheInv'
  BY DEF NotesInv, DiskInv, CacheInv
<1>2. NoRun = [NoRun EXCEPT !.at = "idle"]
  BY DEF NoRun
<1>3. ASSUME NEW r \in Runs PROVE RunNoted(disk', changes', compiles'[r])
  BY <1>2, BlankNoted DEF NotesInv
<1> QED BY <1>1, <1>3 DEF NotesInv

LEMMA FailNotes ==
  ASSUME FlightInv, NotesInv, NEW r \in Runs, Fail(r)
  PROVE  NotesInv'
<1>1. compiles' = [compiles EXCEPT ![r] = NoRun]
  BY DEF Fail, Settle
<1>2. \A q \in Runs : compiles'[q] = compiles[q] \/ compiles'[q] = NoRun
  BY <1>1 DEF FlightInv, TypeOK
<1> QED BY <1>2, SameNotes DEF Fail, external

(***************************************************************************)
(* What the calls do.                                                      *)
(***************************************************************************)
LEMMA GateNotes ==
  ASSUME FlightInv, NotesInv, NEW c \in Callers, NEW call, EnsureCompile(c, call),
         UNCHANGED <<external, tracked, lockfileMtime>>, cached' \in {cached, None}
  PROVE  NotesInv'
<1>1. PICK r \in Runs : Joins(c, call, r)
  BY Gate
<1>2. \A q \in Runs : \/ compiles'[q] = compiles[q]
                     \/ compiles'[q] = [NoRun EXCEPT !.at = "walk"]
  BY <1>1 DEF Joins, FlightInv, TypeOK
<1> QED BY <1>2, SameNotes DEF external

\* A step of a call alone.
LEMMA CallNotes ==
  ASSUME FlightInv, NotesInv, UNCHANGED <<external, cache, compiles>>
  PROVE  NotesInv'
BY SameNotes DEF external, cache

LEMMA GetCompiledNotes ==
  ASSUME FlightInv, NotesInv, NEW c \in Callers, GetCompiled(c)
  PROVE  NotesInv'
<1>1. CASE UNCHANGED <<inFlight, compiles>>
  BY <1>1, CallNotes DEF GetCompiled, cache
<1>2. CASE \E call : EnsureCompile(c, call)
  BY <1>2, GateNotes DEF GetCompiled
<1> QED BY <1>1, <1>2 DEF GetCompiled

LEMMA ForceRefreshNotes ==
  ASSUME FlightInv, NotesInv, NEW c \in Callers, ForceRefresh(c)
  PROVE  NotesInv'
<1>1. CASE UNCHANGED <<inFlight, cached, compiles>>
  BY <1>1, CallNotes DEF ForceRefresh, cache
<1>2. CASE cached' = None /\ EnsureCompile(c, Made("forceRefresh"))
  BY <1>2, GateNotes DEF ForceRefresh
<1> QED BY <1>1, <1>2 DEF ForceRefresh

LEMMA RevalidateNotes ==
  ASSUME FlightInv, NotesInv, NEW c \in Callers, NEW call, Revalidates(c, call)
  PROVE  NotesInv'
<1>1. CASE EnsureCompile(c, calls[c])
  BY <1>1, GateNotes DEF Revalidates
<1>2. CASE UNCHANGED <<inFlight, compiles>>
  BY <1>2, CallNotes DEF Revalidates, cache
<1> QED BY <1>1, <1>2 DEF Revalidates

LEMMA CallStepNotes ==
  ASSUME FlightInv, NotesInv, NEW c \in Callers,
         CheckStep(c) \/ GetCompiled(c) \/ ForceRefresh(c) \/ Return(c)
  PROVE  NotesInv'
<1>1. CASE Forced(c)
  BY <1>1, GateNotes DEF Forced
<1>2. CASE \E call \in Call : Revalidates(c, call)
  BY <1>2, RevalidateNotes
<1>3. CASE GetCompiled(c) \/ ForceRefresh(c)
  BY <1>3, GetCompiledNotes, ForceRefreshNotes
<1>4. CASE Return(c)
  BY <1>4, CallNotes DEF Return
<1>5. CheckStep(c) => Forced(c) \/ \E call \in Call : Revalidates(c, call)
  BY CheckLockRevalidates, CheckFileRevalidates, CheckHashRevalidates,
     CheckNewFilesRevalidates DEF CheckStep
<1> QED BY <1>1, <1>2, <1>3, <1>4, <1>5

(***************************************************************************)
(* What the environment does.                                              *)
(***************************************************************************)
\* A change gives a source a modification time that was never noted.
Succeeds(d, e, now) ==
  \/ e = d
  \/ e.mtime = now + 2
  \/ e.mtime = 0 /\ e.contents = Missing

LEMMA VouchesKept ==
  ASSUME NEW d, NEW e, NEW now \in Nat, NEW m, NEW x,
         Vouches(d, now, m, x), Succeeds(d, e, now)
  PROVE  Vouches(e, now + 1, m, x)
BY DEF Vouches, Succeeds

LEMMA FileNotedKept ==
  ASSUME NEW d, NEW e, NEW now \in Nat, NEW snapshot, NEW x,
         FileNoted(d, now, snapshot, x), Succeeds(d, e, now)
  PROVE  FileNoted(e, now + 1, snapshot, x)
BY VouchesKept DEF FileNoted

\* A change spares the files a compile has read and not noted, or races them.
LEMMA RunNotedKept ==
  ASSUME NEW on, NEW next, NEW now \in Nat, NEW run, NEW run2,
         RunNoted(on, now, run), \A s \in Sources : Succeeds(on[s], next[s], now),
         OnlyRaced(run, run2), run2.lockMtime = run.lockMtime, run.raced \subseteq run2.raced,
         \A f \in InWindow(run) \ run2.raced : next[f] = on[f]
  PROVE  RunNoted(next, now + 1, run2)
<1>1. Ordered(run2)
  BY DEF RunNoted, Ordered, OnlyRaced
<1>2. LockNoted(next[Lock], now + 1, run2)
  <2>1. Succeeds(on[Lock], next[Lock], now)
    BY DEF Sources
  <2>2. run.lockMtime \in 0..(now + 1) => run.lockMtime \in 0..(now + 1 + 1)
    OBVIOUS
  <2> QED BY <2>1, <2>2, VouchesKept DEF RunNoted, LockNoted, OnlyRaced
<1>3. FilesNoted(next, now + 1, run2)
  <2> SUFFICES ASSUME NEW f \in Files \ run2.raced
               PROVE  IF f \in InWindow(run2) THEN Unnoted(next[f], run2, f)
                      ELSE FileNoted(next[f], now + 1, run2.snapshot[f], run2.reads[f])
    BY DEF FilesNoted
  <2>1. InWindow(run2) = InWindow(run)
    BY DEF InWindow, OnlyRaced
  <2>2. IF f \in InWindow(run) THEN Unnoted(on[f], run, f)
        ELSE FileNoted(on[f], now, run.snapshot[f], run.reads[f])
    BY DEF RunNoted, FilesNoted
  <2>3. Succeeds(on[f], next[f], now)
    BY DEF Sources
  <2> QED BY <2>1, <2>2, <2>3, FileNotedKept DEF Unnoted, OnlyRaced
<1> QED BY <1>1, <1>2, <1>3 DEF RunNoted

\* The world moves on by one change.
LEMMA WorldNotes ==
  ASSUME FlightInv, NotesInv, changes' = changes + 1, UNCHANGED cache,
         \A s \in Sources : Succeeds(disk[s], disk'[s], changes),
         DiskInv',
         \A r \in Runs :
           /\ OnlyRaced(compiles[r], compiles'[r])
           /\ compiles'[r].lockMtime = compiles[r].lockMtime
           /\ compiles[r].raced \subseteq compiles'[r].raced
           /\ \A f \in InWindow(compiles[r]) \ compiles'[r].raced : disk'[f] = disk[f]
  PROVE  NotesInv'
<1>1. changes \in Nat
  BY DEF FlightInv, TypeOK
<1>2. CacheInv'
  <2> SUFFICES ASSUME cached # None
               PROVE  /\ Lock \notin cached.raced =>
                           Vouches(disk'[Lock], changes + 1, lockfileMtime, cached.reads[Lock])
                      /\ \A f \in Files \ cached.raced :
                           FileNoted(disk'[f], changes + 1, tracked[f], cached.reads[f])
    BY DEF CacheInv, cache
  <2>1. Lock \notin cached.raced =>
          Vouches(disk'[Lock], changes + 1, lockfileMtime, cached.reads[Lock])
    BY <1>1, VouchesKept DEF NotesInv, CacheInv, Sources
  <2>2. ASSUME NEW f \in Files \ cached.raced
        PROVE  FileNoted(disk'[f], changes + 1, tracked[f], cached.reads[f])
    BY <1>1, FileNotedKept DEF NotesInv, CacheInv, Sources
  <2> QED BY <2>1, <2>2
<1>3. \A r \in Runs : RunNoted(disk', changes', compiles'[r])
  BY <1>1, RunNotedKept DEF NotesInv
<1> QED BY <1>2, <1>3 DEF NotesInv

LEMMA ChangeNotes ==
  ASSUME FlightInv, NotesInv, NEW s \in Sources, Change(s)
  PROVE  NotesInv'
<1>1. changes' = changes + 1 /\ UNCHANGED cache /\ changes \in Nat
  BY DEF Change, FlightInv, TypeOK
<1>2. PICK contents \in Contents \cup {Missing} :
        disk' = [disk EXCEPT ![s] = [mtime |-> IF contents = Missing THEN 0 ELSE changes + 2,
                                     contents |-> contents]]
  BY DEF Change
<1>3. /\ disk'[s].mtime = IF contents = Missing THEN 0 ELSE changes + 2
      /\ disk'[s].contents = contents
      /\ \A t \in Sources \ {s} : disk'[t] = disk[t]
  BY <1>2 DEF FlightInv, TypeOK
<1>4. \A t \in Sources : Succeeds(disk[t], disk'[t], changes)
  BY <1>3 DEF Succeeds
<1>5. DiskInv'
  <2> SUFFICES ASSUME NEW t \in Sources
               PROVE  /\ Vouches(disk'[t], changes + 1, disk'[t].mtime, disk'[t].contents)
                      /\ disk'[t].contents = Missing => disk'[t].mtime = 0
    BY <1>1 DEF DiskInv
  <2>1. CASE t = s
    BY <1>1, <1>3, <2>1 DEF Vouches
  <2>2. CASE t # s
    BY <1>1, <1>3, <2>2 DEF NotesInv, DiskInv, Vouches
  <2> QED BY <2>1, <2>2
<1>6. ASSUME NEW r \in Runs
      PROVE  /\ compiles'[r].lockMtime = compiles[r].lockMtime
             /\ compiles'[r].raced = compiles[r].raced \cup ({s} \cap InWindow(compiles[r]))
             /\ InWindow(compiles[r]) \subseteq Sources
  <2>1. compiles[r] \in Run
    BY DEF FlightInv, TypeOK
  <2>2. compiles'[r] = [compiles[r] EXCEPT
                          !.raced = @ \cup ({s} \cap InWindow(compiles[r]))]
    BY DEF Change
  <2>3. InWindow(compiles[r]) \subseteq Sources
    BY <2>1 DEF InWindow, Run, Sources
  <2> HIDE DEF InWindow
  <2> QED BY <2>1, <2>2, <2>3 DEF Run
<1>7. ASSUME NEW r \in Runs, NEW f \in InWindow(compiles[r]) \ compiles'[r].raced
      PROVE  disk'[f] = disk[f]
  BY <1>3, <1>6, <1>7
<1> QED BY <1>1, <1>4, <1>5, <1>6, <1>7, ChangeType, WorldNotes

LEMMA ReassignNotes ==
  ASSUME FlightInv, NotesInv, NEW f \in Files, Reassign(f)
  PROVE  NotesInv'
<1>1. /\ changes' = changes + 1 /\ changes \in Nat
      /\ UNCHANGED disk /\ UNCHANGED cache /\ UNCHANGED compiles
  BY DEF Reassign, FlightInv, TypeOK
<1>2. DiskInv'
  BY <1>1 DEF NotesInv, DiskInv, Vouches
<1>3. \A s \in Sources : Succeeds(disk[s], disk'[s], changes)
  BY <1>1 DEF Succeeds
<1>4. \A r \in Runs : OnlyRaced(compiles[r], compiles'[r])
  BY <1>1 DEF OnlyRaced
<1> QED BY <1>1, <1>2, <1>3, <1>4, WorldNotes

LEMMA NextNotesInv ==
  ASSUME FlightInv, FreshInv, NotesInv, [Next]_vars
  PROVE  NotesInv'
<1>1. ASSUME CompileStep PROVE NotesInv'
  BY <1>1, WalkNotes, StatLockNotes, ReadLockNotes, ReadFileNotes, StatFileNotes,
     HashFileNotes, CommitNotes DEF CompileStep
<1>2. ASSUME NEW r \in Runs, Fail(r) PROVE NotesInv'
  BY <1>2, FailNotes
<1>3. ASSUME NEW c \in Callers, CheckStep(c) \/ GetCompiled(c) \/ ForceRefresh(c) \/ Return(c)
      PROVE  NotesInv'
  BY <1>3, CallStepNotes
<1>4. ASSUME NEW s \in Sources, Change(s) PROVE NotesInv'
  BY <1>4, ChangeNotes
<1>5. ASSUME NEW f \in Files, Reassign(f) PROVE NotesInv'
  BY <1>5, ReassignNotes
<1>6. CASE UNCHANGED vars
  BY <1>6, CallNotes DEF vars
<1> QED BY <1>1, <1>2, <1>3, <1>4, <1>5, <1>6 DEF Next

-------------------------------------------------------------------------------
(***************************************************************************)
(* What a call has revalidated.  The cached result may be replaced         *)
(* meanwhile, but only by a compile that started after the call was made.  *)
(***************************************************************************)
\* A source that a call has gone past was read since the call was made, unless
\* it is a file that is yet to be checked or was not tracked.
Checked(c) ==
  calls[c].at \in {"files", "hash"} /\ ~calls[c].joined /\ cached # None =>
    \A s \in Sources \ cached.raced :
      \/ cached.reads[s] \in calls[c].since[s]
      \/ s \in Files /\ tracked[s] \in {None, calls[c].todo[s]}

FreshAnswer(c) ==
  Answered(c, "getCompiled") /\ ~calls[c].joined =>
    \A s \in Sources \ calls[c].result.raced :
      calls[c].result.reads[s] \in calls[c].since[s]

AnswerInv == \A c \in Callers : Checked(c) /\ FreshAnswer(c)

CacheIsNoted == RefreshInv /\ NotesInv

LEMMA InitAnswerInv == Init => AnswerInv
BY DEF Init, AnswerInv, Checked, FreshAnswer, Answered, NoCall

\* What keeps the calls, and the cached result or drops it, keeps what they checked.
LEMMA SameAnswers ==
  ASSUME AnswerInv, UNCHANGED tracked, cached' \in {cached, None},
         \A c \in Callers : \/ calls'[c] = calls[c]
                            \/ Checked(c)' /\ FreshAnswer(c)'
  PROVE  AnswerInv'
BY DEF AnswerInv, Checked, FreshAnswer, Answered

LEMMA GateAnswers ==
  ASSUME FlightInv, AnswerInv, NEW c \in Callers, NEW call \in Call, EnsureCompile(c, call),
         UNCHANGED tracked, cached' \in {cached, None}
  PROVE  AnswerInv'
<1>1. PICK r \in Runs : Joins(c, call, r)
  BY Gate
<1>2. /\ calls'[c].at = "join"
      /\ \A d \in Callers \ {c} : calls'[d] = calls[d]
  BY <1>1 DEF Joins, FlightInv, TypeOK, Call
<1>3. Checked(c)' /\ FreshAnswer(c)'
  BY <1>2 DEF Checked, FreshAnswer, Answered
<1> QED BY <1>2, <1>3, SameAnswers

LEMMA MoveAnswers ==
  ASSUME FlightInv, AnswerInv, NEW c \in Callers, NEW call,
         calls' = [calls EXCEPT ![c] = call], UNCHANGED <<tracked, cached>>,
         Checked(c)', FreshAnswer(c)'
  PROVE  AnswerInv'
<1>1. \A d \in Callers \ {c} : calls'[d] = calls[d]
  BY DEF FlightInv, TypeOK
<1> QED BY <1>1, SameAnswers

LEMMA MadeAnswers ==
  ASSUME FlightInv, AnswerInv, NEW c \in Callers, GetCompiled(c) \/ ForceRefresh(c)
  PROVE  AnswerInv'
<1>1. Made("getCompiled") \in Call /\ Made("forceRefresh") \in Call
  BY MadeType DEF FlightInv
<1>2. CASE \E call \in Call : EnsureCompile(c, call)
  BY <1>2, GateAnswers DEF GetCompiled, ForceRefresh
<1>3. CASE /\ \E call \in Call : /\ call.at \in {"lock", "settle"}
                                /\ calls' = [calls EXCEPT ![c] = call]
           /\ UNCHANGED cached
  <2>1. PICK call \in Call : call.at \in {"lock", "settle"} /\ calls' = [calls EXCEPT ![c] = call]
    BY <1>3
  <2>2. calls'[c].at \in {"lock", "settle"}
    BY <2>1 DEF FlightInv, TypeOK
  <2>3. Checked(c)' /\ FreshAnswer(c)'
    BY <2>2 DEF Checked, FreshAnswer, Answered
  <2> QED BY <1>3, <2>1, <2>3, MoveAnswers DEF GetCompiled, ForceRefresh
<1>4. CASE GetCompiled(c)
  <2> DEFINE made == Made("getCompiled")
             checks == [made EXCEPT !.at = "lock"]
             waits == [made EXCEPT !.joined = inFlight # None]
  <2>1. checks \in Call /\ checks.at = "lock" /\ waits \in Call
    BY <1>1 DEF Call
  <2>2. \/ calls' = [calls EXCEPT ![c] = checks]
        \/ EnsureCompile(c, waits)
    BY <1>4 DEF GetCompiled
  <2>3. UNCHANGED cached
    BY <1>4 DEF GetCompiled
  <2> HIDE DEF checks, waits
  <2> QED BY <1>2, <1>3, <2>1, <2>2, <2>3
<1>5. CASE ForceRefresh(c)
  <2> DEFINE made == Made("forceRefresh")
             waits == [made EXCEPT !.at = "settle", !.run = inFlight]
  <2>1. inFlight # None => waits \in Call /\ waits.at = "settle"
    BY <1>1 DEF Call, FlightInv, TypeOK
  <2>2. \/ inFlight # None /\ calls' = [calls EXCEPT ![c] = waits] /\ UNCHANGED cached
        \/ EnsureCompile(c, made)
    BY <1>5 DEF ForceRefresh
  <2> HIDE DEF waits
  <2> QED BY <1>1, <1>2, <1>3, <2>1, <2>2
<1> QED BY <1>4, <1>5

\* What is there, a call under way has seen; so it has seen what is vouched for
\* by the modification time that is there.
LEMMA VouchedIsSeen ==
  ASSUME CacheIsNoted, NEW c \in Callers, calls[c].at \in {"lock", "files", "hash"},
         NEW s \in Sources, NEW x, disk[s].contents = x
  PROVE  x \in calls[c].since[s]
BY DEF CacheIsNoted, RefreshInv, FreshInv, SeenInv, Holds

LEMMA CheckLockAnswers ==
  ASSUME CacheIsNoted, AnswerInv, NEW c \in Callers, CheckLock(c)
  PROVE  AnswerInv'
<1>1. FlightInv /\ calls[c] \in Call /\ calls[c].at = "lock"
  BY DEF CacheIsNoted, RefreshInv, FlightInv, TypeOK, CheckLock
<1>2. CASE EnsureCompile(c, calls[c])
  BY <1>1, <1>2, GateAnswers DEF CheckLock
<1>3. CASE /\ disk[Lock].mtime = lockfileMtime
           /\ calls' = [calls EXCEPT ![c].at = "files", ![c].todo = tracked]
  <2> DEFINE call == [calls[c] EXCEPT !.at = "files", !.todo = tracked]
  <2>1. calls' = [calls EXCEPT ![c] = call]
    BY <1>3
  <2>2. /\ calls'[c].at = "files" /\ calls'[c].todo = tracked
        /\ calls'[c].since = calls[c].since
    BY <1>1, <2>1 DEF Call, FlightInv, TypeOK
  <2>3. UNCHANGED <<tracked, cached>>
    BY DEF CheckLock
  <2>4. ASSUME cached # None, Lock \notin cached.raced
        PROVE  cached.reads[Lock] \in calls[c].since[Lock]
    <3>1. disk[Lock].contents = cached.reads[Lock]
      BY <1>3, <2>4 DEF CacheIsNoted, NotesInv, CacheInv, Vouches
    <3> QED BY <1>1, <3>1, VouchedIsSeen DEF Sources
  <2>5. Checked(c)'
    BY <2>2, <2>3, <2>4 DEF Checked, Sources
  <2>6. FreshAnswer(c)'
    BY <2>2 DEF FreshAnswer, Answered
  <2> HIDE DEF call
  <2> QED BY <1>1, <2>1, <2>3, <2>5, <2>6, MoveAnswers
<1> QED BY <1>2, <1>3 DEF CheckLock, Stale

\* A call goes past the file f, which still is what its snapshot says.
LEMMA PassAnswers ==
  ASSUME CacheIsNoted, AnswerInv, NEW c \in Callers, calls[c].at \in {"files", "hash"},
         NEW f \in Files, NEW call, calls' = [calls EXCEPT ![c] = call],
         call.at = "files", call.todo = [calls[c].todo EXCEPT ![f] = None],
         call.since = calls[c].since, call.joined = calls[c].joined,
         UNCHANGED <<tracked, cached>>,
         tracked[f] = calls[c].todo[f] /\ tracked[f] # None =>
           disk[f].mtime = tracked[f].mtime \/ disk[f].contents = tracked[f].hash
  PROVE  AnswerInv'
<1>1. FlightInv /\ calls[c] \in Call
  BY DEF CacheIsNoted, RefreshInv, FlightInv, TypeOK
<1>2. calls'[c] = call
  BY <1>1 DEF FlightInv, TypeOK
<1>3. FreshAnswer(c)'
  BY <1>2 DEF FreshAnswer, Answered
<1>4. \A g \in Files \ {f} : call.todo[g] = calls[c].todo[g]
  BY <1>1 DEF Call, Tracking
<1>5. ASSUME cached # None, f \notin cached.raced, tracked[f] = calls[c].todo[f],
             tracked[f] # None
      PROVE  cached.reads[f] \in calls[c].since[f]
  <2>1. tracked[f].hash = cached.reads[f]
        /\ Vouches(disk[f], changes, tracked[f].mtime, cached.reads[f])
    BY <1>5 DEF CacheIsNoted, NotesInv, CacheInv, FileNoted
  <2>2. disk[f].contents = cached.reads[f]
    BY <1>5, <2>1 DEF Vouches
  <2> QED BY <2>2, VouchedIsSeen DEF Sources
<1>6. Checked(c)'
  <2> SUFFICES ASSUME ~calls[c].joined, cached # None, NEW s \in Sources \ cached.raced
               PROVE  \/ cached.reads[s] \in calls[c].since[s]
                      \/ s \in Files /\ tracked[s] \in {None, call.todo[s]}
    BY <1>2 DEF Checked
  <2>1. \/ cached.reads[s] \in calls[c].since[s]
        \/ s \in Files /\ tracked[s] \in {None, calls[c].todo[s]}
    BY DEF AnswerInv, Checked
  <2> QED BY <1>4, <1>5, <2>1
<1> QED BY <1>1, <1>3, <1>6, MoveAnswers

LEMMA CheckFileAnswers ==
  ASSUME CacheIsNoted, AnswerInv, NEW c \in Callers, NEW f \in Files, CheckFile(c, f)
  PROVE  AnswerInv'
<1>1. /\ FlightInv /\ calls[c] \in Call /\ calls[c].at = "files"
      /\ UNCHANGED <<tracked, cached>>
  BY DEF CacheIsNoted, RefreshInv, FlightInv, TypeOK, CheckFile
<1>2. CASE EnsureCompile(c, calls[c])
  BY <1>1, <1>2, GateAnswers
<1>3. CASE /\ disk[f].mtime = calls[c].todo[f].mtime
           /\ calls' = [calls EXCEPT ![c].todo[f] = None]
  <2> DEFINE call == [calls[c] EXCEPT !.todo[f] = None]
  <2>1. /\ call.at = "files" /\ call.todo = [calls[c].todo EXCEPT ![f] = None]
        /\ call.since = calls[c].since /\ call.joined = calls[c].joined
    BY <1>1 DEF Call
  <2>2. calls' = [calls EXCEPT ![c] = call]
    BY <1>3
  <2> HIDE DEF call
  <2>3. tracked[f] = calls[c].todo[f] => disk[f].mtime = tracked[f].mtime
    BY <1>3
  <2> QED BY <1>1, <2>1, <2>2, <2>3, PassAnswers
<1>4. CASE calls' = [calls EXCEPT ![c].at = "hash", ![c].file = f]
  <2> DEFINE call == [calls[c] EXCEPT !.at = "hash", !.file = f]
  <2>1. calls' = [calls EXCEPT ![c] = call]
    BY <1>4
  <2>2. /\ calls'[c].at = "hash" /\ calls'[c].todo = calls[c].todo
        /\ calls'[c].since = calls[c].since /\ calls'[c].joined = calls[c].joined
    BY <1>1, <2>1 DEF Call, FlightInv, TypeOK
  <2>3. Checked(c)' /\ FreshAnswer(c)'
    BY <1>1, <2>2 DEF AnswerInv, Checked, FreshAnswer, Answered
  <2> HIDE DEF call
  <2> QED BY <1>1, <2>1, <2>3, MoveAnswers
<1> QED BY <1>2, <1>3, <1>4 DEF CheckFile, Stale

LEMMA CheckHashAnswers ==
  ASSUME CacheIsNoted, AnswerInv, NEW c \in Callers, CheckHash(c)
  PROVE  AnswerInv'
<1> DEFINE f == calls[c].file
<1>1. /\ FlightInv /\ calls[c] \in Call /\ calls[c].at = "hash"
      /\ UNCHANGED <<tracked, cached>>
  BY DEF CacheIsNoted, RefreshInv, FlightInv, TypeOK, CheckHash
<1>2. CASE EnsureCompile(c, calls[c])
  BY <1>1, <1>2, GateAnswers
<1>3. CASE /\ disk[f].contents = calls[c].todo[f].hash
           /\ calls' = [calls EXCEPT ![c].at = "files", ![c].todo[f] = None, ![c].file = None]
  <2> DEFINE call == [calls[c] EXCEPT !.at = "files", !.todo[f] = None, !.file = None]
  <2>1. /\ call.at = "files" /\ call.todo = [calls[c].todo EXCEPT ![f] = None]
        /\ call.since = calls[c].since /\ call.joined = calls[c].joined
    BY <1>1 DEF Call
  <2>2. calls' = [calls EXCEPT ![c] = call]
    BY <1>3
  <2>3. tracked[f] = calls[c].todo[f] => disk[f].contents = tracked[f].hash
    BY <1>3
  <2> HIDE DEF call, f
  <2>4. CASE f \in Files
    BY <1>1, <2>1, <2>2, <2>3, <2>4, PassAnswers
  <2>5. CASE f \notin Files
    <3>1. call.todo = calls[c].todo
      BY <1>1, <2>1, <2>5 DEF Call, Tracking
    <3>2. calls'[c] = call
      BY <1>1, <2>2 DEF FlightInv, TypeOK
    <3>3. Checked(c)' /\ FreshAnswer(c)'
      BY <1>1, <2>1, <3>1, <3>2 DEF AnswerInv, Checked, FreshAnswer, Answered
    <3> QED BY <1>1, <2>2, <3>3, MoveAnswers
  <2> QED BY <2>4, <2>5
<1> QED BY <1>2, <1>3 DEF CheckHash, Stale

\* Nothing is stale: a file that is not tracked is missing, or belongs to another
\* project.
LEMMA CheckNewFilesAnswers ==
  ASSUME CacheIsNoted, AnswerInv, NEW c \in Callers, CheckNewFiles(c)
  PROVE  AnswerInv'
<1>1. /\ FlightInv /\ calls[c] \in Call /\ calls[c].at = "files"
      /\ calls[c].todo = NotTracked /\ UNCHANGED <<tracked, cached>>
  BY DEF CacheIsNoted, RefreshInv, FlightInv, TypeOK, CheckNewFiles
<1>2. CASE EnsureCompile(c, calls[c])
  BY <1>1, <1>2, GateAnswers
<1>3. CASE /\ ~\E f \in Walked : tracked[f] = None
           /\ calls' = [calls EXCEPT ![c].at = "answered", ![c].run = None,
                                     ![c].result = cached]
  <2> DEFINE call == [calls[c] EXCEPT !.at = "answered", !.run = None, !.result = cached]
  <2>1. calls' = [calls EXCEPT ![c] = call]
    BY <1>3
  <2>2. /\ calls'[c].at = "answered" /\ calls'[c].result = cached
        /\ calls'[c].since = calls[c].since /\ calls'[c].joined = calls[c].joined
    BY <1>1, <2>1 DEF Call, FlightInv, TypeOK
  <2>3. ASSUME ~calls[c].joined, cached # None, NEW s \in Sources \ cached.raced
        PROVE  cached.reads[s] \in calls[c].since[s]
    <3>1. \/ cached.reads[s] \in calls[c].since[s]
          \/ s \in Files /\ tracked[s] \in {None, calls[c].todo[s]}
      BY <1>1, <2>3 DEF AnswerInv, Checked
    <3>2. ASSUME s \in Files, tracked[s] = None
          PROVE  cached.reads[s] \in calls[c].since[s]
      <4>1. cached.reads[s] = Missing
        BY <2>3, <3>2 DEF CacheIsNoted, NotesInv, CacheInv, FileNoted
      <4>2. Missing \in Holds(s)
        BY <1>3, <3>2 DEF Walked, Exists, Holds
      <4>3. Holds(s) \subseteq calls[c].since[s]
        BY <1>1 DEF CacheIsNoted, RefreshInv, FreshInv, SeenInv
      <4> QED BY <4>1, <4>2, <4>3
    <3> QED BY <1>1, <3>1, <3>2 DEF NotTracked
  <2>4. Checked(c)' /\ FreshAnswer(c)'
    BY <1>1, <2>2, <2>3 DEF Checked, FreshAnswer, Answered
  <2> HIDE DEF call
  <2> QED BY <1>1, <2>1, <2>4, MoveAnswers
<1> QED BY <1>2, <1>3 DEF CheckNewFiles, Stale, NotStale, Answer

LEMMA CallStepAnswers ==
  ASSUME CacheIsNoted, AnswerInv, NEW c \in Callers,
         CheckStep(c) \/ GetCompiled(c) \/ ForceRefresh(c) \/ Return(c)
  PROVE  AnswerInv'
<1>1. FlightInv /\ calls[c] \in Call
  BY DEF CacheIsNoted, RefreshInv, FlightInv, TypeOK
<1>2. CASE Forced(c)
  BY <1>1, <1>2, GateAnswers DEF Forced
<1>3. CASE CheckStep(c) /\ ~Forced(c)
  BY <1>3, CheckLockAnswers, CheckFileAnswers, CheckHashAnswers, CheckNewFilesAnswers
     DEF CheckStep
<1>4. CASE GetCompiled(c) \/ ForceRefresh(c)
  BY <1>1, <1>4, MadeAnswers
<1>5. CASE Return(c)
  <2>1. calls'[c].at = "idle"
    BY <1>1, <1>5 DEF Return, FlightInv, TypeOK, NoCall
  <2>2. Checked(c)' /\ FreshAnswer(c)'
    BY <2>1 DEF Checked, FreshAnswer, Answered
  <2> QED BY <1>1, <1>5, <2>2, MoveAnswers DEF Return, cache
<1> QED BY <1>2, <1>3, <1>4, <1>5

(***************************************************************************)
(* What a compile and the environment do.                                  *)
(***************************************************************************)
\* What a compile that is over yields was read since any call that did not join
\* it was made.
LEMMA CommitAnswers ==
  ASSUME CacheIsNoted, AnswerInv, NEW r \in Runs, Commit(r)
  PROVE  AnswerInv'
<1> DEFINE result == [reads |-> compiles[r].reads, raced |-> compiles[r].raced]
<1>1. /\ compiles[r].at = "commit" /\ cached' = result
      /\ calls' = [c \in Callers |->
           IF calls[c].run # r THEN calls[c]
           ELSE IF calls[c].at = "settle" THEN [calls[c] EXCEPT !.at = "force", !.run = None]
           ELSE [calls[c] EXCEPT !.at = "answered", !.run = None, !.result = result]]
  BY DEF Commit, Settle
<1>2. result.reads = compiles[r].reads
  OBVIOUS
<1> HIDE DEF result
<1>3. ASSUME NEW c \in Callers PROVE Checked(c)' /\ FreshAnswer(c)'
  <2>1. calls[c] \in Call
    BY DEF CacheIsNoted, RefreshInv, FlightInv, TypeOK
  <2>2. Own(calls[c]) => \A s \in Sources : result.reads[s] \in calls[c].since[s]
    BY <1>1, <1>2 DEF CacheIsNoted, RefreshInv, FreshInv, ReadSinceInv, Final
  <2>3. CASE calls[c].run # r
    <3>1. calls'[c] = calls[c]
      BY <1>1, <2>3
    <3>2. Checked(c)'
      BY <1>1, <2>2, <3>1 DEF Checked, Own
    <3>3. FreshAnswer(c)'
      BY <3>1 DEF AnswerInv, FreshAnswer, Answered
    <3> QED BY <3>2, <3>3
  <2>4. CASE calls[c].run = r /\ calls[c].at = "settle"
    <3>1. calls'[c].at = "force"
      BY <1>1, <2>1, <2>4 DEF Call
    <3> QED BY <3>1 DEF Checked, FreshAnswer, Answered
  <2>5. CASE calls[c].run = r /\ calls[c].at # "settle"
    <3>1. calls[c].at = "join"
      BY <2>5, NullAssumption DEF CacheIsNoted, RefreshInv, FlightInv, WaitsInTurn
    <3>2. /\ calls'[c].at = "answered" /\ calls'[c].result = result
          /\ calls'[c].since = calls[c].since /\ calls'[c].joined = calls[c].joined
      BY <1>1, <2>1, <2>5 DEF Call
    <3> QED BY <2>2, <3>1, <3>2 DEF Checked, FreshAnswer, Own
  <2> QED BY <2>3, <2>4, <2>5
<1> QED BY <1>3 DEF AnswerInv

LEMMA FailAnswers ==
  ASSUME FlightInv, AnswerInv, NEW r \in Runs, Fail(r)
  PROVE  AnswerInv'
<1>1. UNCHANGED <<tracked, cached>>
  BY DEF Fail
<1>2. ASSUME NEW c \in Callers, calls'[c] # calls[c]
      PROVE  \/ calls'[c].at = "force"
             \/ calls'[c].at = "answered" /\ calls'[c].result = Failed
  <2>1. calls[c] \in Call
    BY DEF FlightInv, TypeOK
  <2>2. calls'[c] = IF calls[c].run # r THEN calls[c]
          ELSE IF calls[c].at = "settle" THEN [calls[c] EXCEPT !.at = "force", !.run = None]
          ELSE [calls[c] EXCEPT !.at = "answered", !.run = None, !.result = Failed]
    BY DEF Fail, Settle
  <2> QED BY <1>2, <2>1, <2>2 DEF Call
<1>3. \A c \in Callers : calls'[c] # calls[c] => Checked(c)' /\ FreshAnswer(c)'
  BY <1>2 DEF Checked, FreshAnswer, Answered
<1> QED BY <1>1, <1>3, SameAnswers

LEMMA SeenAnswers ==
  ASSUME AnswerInv, NEW S, \A c \in Callers : SeesWhatChanges(c, S), UNCHANGED cache
  PROVE  AnswerInv'
<1> SUFFICES ASSUME NEW c \in Callers PROVE Checked(c)' /\ FreshAnswer(c)'
  BY DEF AnswerInv
<1>1. Checked(c)'
  BY DEF AnswerInv, Checked, SeesWhatChanges, cache
<1>2. FreshAnswer(c)'
  BY DEF AnswerInv, FreshAnswer, Answered, SeesWhatChanges
<1> QED BY <1>1, <1>2

LEMMA NextAnswerInv ==
  ASSUME CacheIsNoted, AnswerInv, [Next]_vars
  PROVE  AnswerInv'
<1>0. FlightInv
  BY DEF CacheIsNoted, RefreshInv
<1>1. ASSUME NEW r \in Runs, NEW run, Step(r, run) PROVE AnswerInv'
  BY <1>1, SameAnswers DEF Step, cache
<1>2. ASSUME CompileStep PROVE AnswerInv'
  BY <1>1, <1>2, CommitAnswers
     DEF CompileStep, Walk, StatLock, ReadLock, ReadFile, StatFile, HashFile
<1>3. ASSUME NEW r \in Runs, Fail(r) PROVE AnswerInv'
  BY <1>0, <1>3, FailAnswers
<1>4. ASSUME NEW c \in Callers, CheckStep(c) \/ GetCompiled(c) \/ ForceRefresh(c) \/ Return(c)
      PROVE  AnswerInv'
  BY <1>4, CallStepAnswers
<1>5. ASSUME NEW s \in Sources, Change(s) PROVE AnswerInv'
  <2>1. \A t \in Sources : Holds(t)' \subseteq Contents \cup {Missing}
    BY <1>0, <1>5, ChangeType, HoldsNext
  <2>2. \A c \in Callers : SeesWhatChanges(c, {s})
    BY <1>0, <1>5, <2>1, SeenCalls DEF Change, FlightInv
  <2> QED BY <1>5, <2>2, SeenAnswers DEF Change
<1>6. ASSUME NEW f \in Files, Reassign(f) PROVE AnswerInv'
  <2>1. \A t \in Sources : Holds(t)' \subseteq Contents \cup {Missing}
    BY <1>0, <1>6, HoldsNext DEF Reassign, FlightInv, TypeOK
  <2>2. \A c \in Callers : SeesWhatChanges(c, {f})
    BY <1>0, <1>6, <2>1, SeenCalls DEF Reassign, FlightInv, Sources
  <2> QED BY <1>6, <2>2, SeenAnswers DEF Reassign
<1>7. CASE UNCHANGED vars
  BY <1>7, SameAnswers DEF vars, cache
<1> QED BY <1>2, <1>3, <1>4, <1>5, <1>6, <1>7 DEF Next

(***************************************************************************)
(* getCompiled revalidates: whatever compiles, fails, is refreshed or      *)
(* changes meanwhile, its answer holds nothing that was out of date when   *)
(* the call was made, but for a source that changed while a compile was    *)
(* between its read and its note of it, and for a call that joined a       *)
(* compile in flight.                                                      *)
(***************************************************************************)
THEOREM CompiledIsFresh == Spec => []AnswersFresh
<1>1. Init => FreshInv /\ NotesInv /\ AnswerInv
  BY InitRefreshInv, InitNotesInv, InitAnswerInv
<1>2. /\ FlightInv /\ FreshInv /\ NotesInv /\ AnswerInv /\ [Next]_vars
      => FreshInv' /\ NotesInv' /\ AnswerInv'
  BY NextFreshInv, NextNotesInv, NextAnswerInv DEF RefreshInv, CacheIsNoted
<1>3. AnswerInv => AnswersFresh
  BY DEF AnswerInv, FreshAnswer, AnswersFresh
<1> QED BY <1>1, <1>2, <1>3, FlightInvariant, PTL DEF Spec
=============================================================================
