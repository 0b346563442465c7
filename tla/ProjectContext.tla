---------------------------- MODULE ProjectContext ----------------------------
(***************************************************************************)
(* One project of the language server                                      *)
(* (packages/markspec/lsp/project_context.ts): how its index is seeded     *)
(* with the two read-only corpora -- the documents its profile delivers    *)
(* and the documents of its locked upstreams -- and how a change of its    *)
(* configuration files is reloaded.                                        *)
(*                                                                         *)
(* Seeding and reloading run on the registry's serial lane, one task at a  *)
(* time, but each await lets the other handlers run: buffer parses, buffer *)
(* closes, shutdown, and changes on disk.  The step between two awaits is  *)
(* one action; `at` names the await the lane's task is suspended at.  An   *)
(* await of something already known lets fewer handlers run than the model *)
(* allows.  Diagnostics and notifications are left out.                    *)
(***************************************************************************)
EXTENDS WorkspaceIndex, FiniteSetsExt

CONSTANTS
  Delivered,     \* files a profile can deliver (ADR-030)
  Upstream,      \* files locked upstreams can provide
  Own,           \* the project's own files
  CorpusIds,     \* corpus file -> the display IDs it declares
  InTree,        \* corpus files below the project's root: the editor can edit
                 \* them, the walk skips them (ADR-030 D7 asks for an exclude)
  Broken,        \* a profile that throws on load; a malformed lockfile (not a
                 \* set of files)
  MaxDiskChanges \* bound on the changes of configuration files on disk

ASSUME CorpusAssumption ==
  /\ Delivered \cup Upstream \cup Own = Files
  /\ Delivered \cap Upstream = {} /\ (Delivered \cup Upstream) \cap Own = {}
  /\ CorpusIds \in [Delivered \cup Upstream -> SUBSET Ids]
  /\ InTree \subseteq Delivered \cup Upstream
  /\ IsFiniteSet(Delivered \cup Upstream) /\ Broken \notin SUBSET Files
  /\ MaxDiskChanges \in Nat

VARIABLES
  \* What is on disk (external).
  diskProfile,      \* the files the profile delivers, or Broken
  diskLock,         \* the files of the locked upstreams ({}: none), or Broken
  diskChanges,      \* changes so far
  fileEvents,           \* kinds of watched-file change not yet taken by the lane
  \* The context.
  index,
  delivers,         \* profile.delivers of the loaded profile
  lockfile,         \* upstream files of the loaded lockfile
  corpusFilePaths,
  upstreamFilePaths,
  pendingProfileFileChange,
  pendingWatchedChange,
  indexed,
  disposed,
  at                \* the await the lane is suspended at; "idle" when it is not

configFiles == <<diskProfile, diskLock, diskChanges>>
corpora == <<corpusFilePaths, upstreamFilePaths>>
flags == <<pendingProfileFileChange, pendingWatchedChange>>
contextVars == <<configFiles, fileEvents, index, delivers, lockfile, corpora, flags,
          indexed, disposed, at>>

AwaitsLoad == {"idle", "seedDelivered", "seedUpstream", "walk",
           "profile", "lockfile", "lockfileOnly"}

ContextTypeOK ==
  /\ diskProfile \in (SUBSET Delivered) \cup {Broken}
  /\ diskLock \in (SUBSET Upstream) \cup {Broken}
  /\ diskChanges \in 0..MaxDiskChanges
  /\ fileEvents \subseteq {"profile", "lock"}
  /\ index \in Index
  /\ delivers \subseteq Delivered
  /\ lockfile \subseteq Upstream
  /\ corpusFilePaths \subseteq Delivered \cup Upstream
  /\ upstreamFilePaths \subseteq Upstream
  /\ flags \in BOOLEAN \X BOOLEAN
  /\ indexed \in BOOLEAN
  /\ disposed \in BOOLEAN
  /\ at \in AwaitsLoad

-------------------------------------------------------------------------------
(***************************************************************************)
(* load: a profile that does not load leaves none, a lockfile that does    *)
(* not parse leaves none.  indexProject then starts by seeding.            *)
(***************************************************************************)
ContextInit ==
  /\ diskProfile \in (SUBSET Delivered) \cup {Broken}
  /\ diskLock \in (SUBSET Upstream) \cup {Broken}
  /\ diskChanges = 0
  /\ fileEvents = {}
  /\ index = EmptyIndex
  /\ delivers = IF diskProfile = Broken THEN {} ELSE diskProfile
  /\ lockfile = IF diskLock = Broken THEN {} ELSE diskLock
  /\ corpusFilePaths = {}
  /\ upstreamFilePaths = {}
  /\ pendingProfileFileChange = FALSE
  /\ pendingWatchedChange = FALSE
  /\ indexed = FALSE
  /\ disposed = FALSE
  /\ at = "seedDelivered"

DropAll(ix, S) == FoldSet(LAMBDA f, x : RemoveFile(x, f), ix, S)

SeedAll(ix, S) == FoldSet(LAMBDA f, x : UpdateFile(x, f, CorpusIds[f]), ix, S)

(***************************************************************************)
(* seedDeliveredCorpus starts by dropping every corpus file, the upstream  *)
(* ones included: both seeders share corpusFilePaths.                      *)
(***************************************************************************)
StartSeedDelivered ==
  /\ index' = DropAll(index, corpusFilePaths)
  /\ corpusFilePaths' = {}
  /\ at' = "seedDelivered"

(***************************************************************************)
(* The delivered corpus is loaded.  A file that is missing, or a load that *)
(* fails, leaves its entries out.  seedUpstreamCorpus follows and drops    *)
(* the files of its own set.                                               *)
(***************************************************************************)
SeedDelivered ==
  /\ at = "seedDelivered"
  /\ \E loaded \in SUBSET delivers :
       LET seeded == SeedAll(index, loaded)
       IN  /\ index' = DropAll(seeded, upstreamFilePaths)
           /\ corpusFilePaths' =
                (corpusFilePaths \cup loaded) \ upstreamFilePaths
           /\ upstreamFilePaths' = {}
  /\ at' = "seedUpstream"
  /\ UNCHANGED <<configFiles, fileEvents, delivers, lockfile, flags, indexed, disposed>>

(***************************************************************************)
(* The upstream corpus is loaded, whole, in part or not at all.  The task  *)
(* goes on with the walk of the project's files (indexProject), or ends.   *)
(***************************************************************************)
SeedUpstream ==
  /\ at = "seedUpstream"
  /\ \E loaded \in SUBSET lockfile :
       /\ index' = SeedAll(index, loaded)
       /\ upstreamFilePaths' = loaded
       /\ corpusFilePaths' = corpusFilePaths \cup loaded
  /\ at' = IF indexed THEN "idle" ELSE "walk"
  /\ UNCHANGED <<configFiles, fileEvents, delivers, lockfile, flags, indexed, disposed>>

(***************************************************************************)
(* The walk parsed one more of the project's files.                        *)
(***************************************************************************)
WalkFile(f) ==
  /\ at = "walk"
  /\ \E ids \in SUBSET Ids : index' = UpdateFile(index, f, ids)
  /\ index.parses < MaxParses
  /\ UNCHANGED <<configFiles, fileEvents, delivers, lockfile, corpora, flags, indexed,
                 disposed, at>>

\* The walk is over.
EndWalk ==
  /\ at = "walk"
  /\ indexed' = TRUE
  /\ at' = "idle"
  /\ UNCHANGED <<configFiles, fileEvents, index, delivers, lockfile, corpora, flags, disposed>>

-------------------------------------------------------------------------------
(***************************************************************************)
(* The lane takes the recorded changes: it marks them on the context and   *)
(* runs reloadWatchedFiles.  A profile change recorded now, or one left    *)
(* pending by a reload that failed, takes the full reload; a change of     *)
(* markspec.lock alone takes the short one.                                *)
(***************************************************************************)
ReloadWatchedFiles ==
  /\ at = "idle"
  /\ indexed
  /\ fileEvents # {}
  /\ fileEvents' = {}
  /\ IF disposed
       THEN /\ pendingWatchedChange' = TRUE
            /\ pendingProfileFileChange' =
                 (pendingProfileFileChange \/ "profile" \in fileEvents)
            /\ UNCHANGED at
       ELSE /\ pendingWatchedChange' = FALSE
            /\ pendingProfileFileChange' = FALSE
            /\ at' = IF pendingProfileFileChange \/ "profile" \in fileEvents
                       THEN "profile" ELSE "lockfileOnly"
  /\ UNCHANGED <<configFiles, index, delivers, lockfile, corpora, indexed, disposed>>

\* Mutant: the change is consumed before the reload that failed (#797).
ReloadProfileFailsSilently ==
  /\ at = "profile"
  /\ diskProfile = Broken
  /\ at' = "idle"
  /\ UNCHANGED <<configFiles, fileEvents, index, delivers, lockfile, corpora, flags,
                 indexed, disposed>>

(***************************************************************************)
(* reloadProfile: the profile did not load.  The change stays pending, so  *)
(* that the next watched event of any kind tries again.                    *)
(***************************************************************************)
ReloadProfileFails ==
  /\ at = "profile"
  /\ diskProfile = Broken
  /\ pendingProfileFileChange' = TRUE
  /\ at' = "idle"
  /\ UNCHANGED <<configFiles, fileEvents, index, delivers, lockfile, corpora,
                 pendingWatchedChange, indexed, disposed>>

(***************************************************************************)
(* reloadProfile: the profile loaded; a context disposed meanwhile goes no *)
(* further.                                                                *)
(***************************************************************************)
ReloadProfile ==
  /\ at = "profile"
  /\ diskProfile # Broken
  /\ delivers' = diskProfile
  /\ at' = IF disposed THEN "idle" ELSE "lockfile"
  /\ UNCHANGED <<configFiles, fileEvents, index, lockfile, corpora, flags, indexed, disposed>>

\* reloadLockfile: one that does not parse leaves the previous one.
ReloadLockfile == lockfile' = IF diskLock = Broken THEN lockfile ELSE diskLock

FullReloadLockfile ==
  /\ at = "lockfile"
  /\ ReloadLockfile
  /\ StartSeedDelivered
  /\ UNCHANGED <<configFiles, fileEvents, delivers, upstreamFilePaths, flags, indexed,
                 disposed>>

\* Mutant: the upstream seeder clears the set it shares.
LockOnlyReloadClearingShared ==
  /\ at = "lockfileOnly"
  /\ ReloadLockfile
  /\ index' = DropAll(index, corpusFilePaths)
  /\ corpusFilePaths' = {}
  /\ upstreamFilePaths' = {}
  /\ at' = "seedUpstream"
  /\ UNCHANGED <<configFiles, fileEvents, delivers, flags, indexed, disposed>>

(***************************************************************************)
(* The short reload re-seeds the upstream corpus only.                     *)
(***************************************************************************)
LockOnlyReload ==
  /\ at = "lockfileOnly"
  /\ ReloadLockfile
  /\ index' = DropAll(index, upstreamFilePaths)
  /\ corpusFilePaths' = corpusFilePaths \ upstreamFilePaths
  /\ upstreamFilePaths' = {}
  /\ at' = "seedUpstream"
  /\ UNCHANGED <<configFiles, fileEvents, delivers, flags, indexed, disposed>>

-------------------------------------------------------------------------------
(***************************************************************************)
(* The rest of the server, between two steps of the lane.                  *)
(***************************************************************************)
\* A configuration file changes on disk and the editor reports it.
ChangeProfile ==
  /\ diskChanges < MaxDiskChanges
  /\ diskProfile' \in ((SUBSET Delivered) \cup {Broken}) \ {diskProfile}
  /\ diskChanges' = diskChanges + 1
  /\ fileEvents' = fileEvents \cup {"profile"}
  /\ UNCHANGED <<diskLock, index, delivers, lockfile, corpora, flags, indexed,
                 disposed, at>>

ChangeLock ==
  /\ diskChanges < MaxDiskChanges
  /\ diskLock' \in ((SUBSET Upstream) \cup {Broken}) \ {diskLock}
  /\ diskChanges' = diskChanges + 1
  /\ fileEvents' = fileEvents \cup {"lock"}
  /\ UNCHANGED <<diskProfile, index, delivers, lockfile, corpora, flags,
                 indexed, disposed, at>>

(***************************************************************************)
(* A debounced parse of a buffer (server.ts, scheduleParse).  The guard on *)
(* corpus files is read when the timer fires; no buffer is parsed before   *)
(* the project is indexed, which the registry's gate sees to.              *)
(***************************************************************************)
ParseBuffer(f) ==
  /\ indexed
  /\ f \in Own \cup InTree
  /\ f \notin corpusFilePaths
  /\ index.parses < MaxParses
  /\ \E ids \in SUBSET Ids : index' = UpdateFile(index, f, ids)
  /\ UNCHANGED <<configFiles, fileEvents, delivers, lockfile, corpora, flags, indexed,
                 disposed, at>>

\* The buffer of a file that is no corpus file closes (server.ts, onDidClose).
CloseBuffer(f) ==
  /\ f \in Own \cup InTree
  /\ f \notin corpusFilePaths
  /\ Tracked(index, f)
  /\ index' = RemoveFile(index, f)
  /\ UNCHANGED <<configFiles, fileEvents, delivers, lockfile, corpora, flags, indexed,
                 disposed, at>>

\* Shutdown disposes every context.
Dispose ==
  /\ ~disposed
  /\ disposed' = TRUE
  /\ UNCHANGED <<configFiles, fileEvents, index, delivers, lockfile, corpora, flags,
                 indexed, at>>

Lane ==
  \/ SeedDelivered \/ SeedUpstream \/ EndWalk
  \/ ReloadWatchedFiles \/ ReloadProfileFails \/ ReloadProfile
  \/ FullReloadLockfile \/ LockOnlyReload

ContextNext ==
  \/ Lane
  \/ \E f \in Own : WalkFile(f)
  \/ ChangeProfile \/ ChangeLock
  \/ \E f \in Own \cup InTree : ParseBuffer(f) \/ CloseBuffer(f)
  \/ Dispose

ContextSpec == ContextInit /\ [][ContextNext]_contextVars

-------------------------------------------------------------------------------
AtRest == at = "idle" /\ ~disposed

(***************************************************************************)
(* Between reloads the index holds exactly the corpora of the loaded       *)
(* profile and lockfile: every guarded corpus file has the entries its     *)
(* seeder gave it, no edit of an open corpus buffer survives a re-seed,    *)
(* the files of one seeder are those it may clear, and no file of an       *)
(* earlier profile or lockfile lingers.                                    *)
(***************************************************************************)
CorpusMatchesLoaded ==
  AtRest =>
    /\ upstreamFilePaths = corpusFilePaths \cap Upstream
    /\ corpusFilePaths \subseteq delivers \cup lockfile
    /\ \A f \in corpusFilePaths :
         Tracked(index, f) /\ index.fileEntries[f] = CorpusIds[f]
    /\ \A f \in (Delivered \cup Upstream) \ InTree :
         Tracked(index, f) => f \in corpusFilePaths

(***************************************************************************)
(* A change of a configuration file is never lost: once the lane has taken *)
(* every event, the project runs on the profile and the lockfile that are  *)
(* on disk, or a retry of the full reload is owed because the profile did  *)
(* not load (reloadWatchedFiles, #797).                                    *)
(***************************************************************************)
NoReloadLost ==
  AtRest /\ fileEvents = {} =>
    \/ pendingProfileFileChange
    \/ /\ diskProfile # Broken => delivers = diskProfile
       /\ diskProfile = Broken => delivers = {}
       /\ diskLock # Broken => lockfile = diskLock

(***************************************************************************)
(* At rest the project is what its configuration files say: the corpora    *)
(* of the index are those of the profile and lockfile that are loaded, and *)
(* these are the ones on disk, or a retry is owed.                         *)
(***************************************************************************)
FollowsConfiguration == CorpusMatchesLoaded /\ NoReloadLost

\* f stays a guarded corpus file, with its entries and the IDs they hold.
CorpusFileKept(f) ==
  /\ f \in corpusFilePaths'
  /\ Tracked(index', f)
  /\ EntryOf(index, f) = EntryOf(index', f)
  /\ \A id \in Ids : ResolvesTo(index, id, f) => ResolvesTo(index', id, f)

(***************************************************************************)
(* A reload of markspec.lock alone never touches the delivered corpus: no  *)
(* step of it replaces or drops the entries of a delivered file, or the    *)
(* IDs that resolve to one, although both corpora share corpusFilePaths    *)
(* (seedUpstreamCorpus).                                                   *)
(***************************************************************************)
LockReloadKeepsDelivered ==
  [][at' # at /\ at \in {"lockfileOnly", "seedUpstream"} =>
       \A f \in corpusFilePaths \ upstreamFilePaths : CorpusFileKept(f)]_contextVars
=============================================================================
