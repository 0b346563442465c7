------------------------------ MODULE SelfUpgrade ------------------------------
(***************************************************************************)
(* markspec self-upgrade: several runs of the command replace one          *)
(* installed binary (cli/commands/self_upgrade.ts, cli/self_upgrade/).     *)
(*                                                                         *)
(* A run picks a release, downloads and verifies it into files of its own, *)
(* and swaps it in with two renames: binary -> binary.old, then the new    *)
(* file -> binary, rolled back when the second one fails.  Every await is  *)
(* a step, so runs overlap at each of them, and a run can be killed there. *)
(***************************************************************************)
EXTENDS Integers

CONSTANTS
  Upgrades,       \* the runs of the command
  MaxRelease,     \* releases are published up to this one
  MaxMishaps,     \* bound on failures and kills
  NoFile          \* no file at a path

ASSUME UpgradeAssumption == MaxRelease \in Nat /\ MaxMishaps \in Nat /\ NoFile \notin Nat

VARIABLES
  published,      \* the latest release
  binary, old,    \* what the two paths hold: a release or NoFile
  upgradeAt,      \* for each run, the step it is at
  running,        \* for each run, the release it was started from
  wanted,         \* for each run, the release it installs
  pinned,         \* for each run, whether --version names that release
  archive,        \* for each run, its download: a release, Corrupt or NoFile
  unpacked,       \* for each run, the binary it has extracted
  mishaps,        \* bound
  torn,           \* history: a swap was killed, or its rollback failed
  overlapped      \* history: two runs were under way at once

upgradeRunVars == <<upgradeAt, running, wanted, pinned, archive, unpacked>>
upgradeVars == <<published, binary, old, upgradeRunVars, mishaps, torn, overlapped>>

Releases == 1..MaxRelease
\* A download or an extraction that is cut short or altered.
Corrupt == 0
\* Between the two renames, and between a failed one and its rollback.
Swapping == {"renameIn", "rollBack"}
UnderWay(p) == upgradeAt[p] \notin {"idle", "ended"}

UpgradeInit ==
  /\ published \in Releases
  /\ binary \in 1..published /\ old \in 1..published \cup {NoFile}
  /\ upgradeAt = [p \in Upgrades |-> "idle"]
  /\ running = [p \in Upgrades |-> 0] /\ wanted = [p \in Upgrades |-> 0]
  /\ pinned = [p \in Upgrades |-> FALSE]
  /\ archive = [p \in Upgrades |-> NoFile] /\ unpacked = [p \in Upgrades |-> NoFile]
  /\ mishaps = 0 /\ torn = FALSE /\ overlapped = FALSE

PublishRelease ==
  /\ published < MaxRelease
  /\ published' = published + 1
  /\ UNCHANGED <<binary, old, upgradeRunVars, mishaps, torn, overlapped>>

Goto(p, step) == upgradeAt' = [upgradeAt EXCEPT ![p] = step]

Mishap == mishaps < MaxMishaps /\ mishaps' = mishaps + 1

\* The command is run from the path itself; --version may name any release.
StartUpgrade(p) ==
  /\ upgradeAt[p] = "idle"
  /\ binary # NoFile
  /\ running' = [running EXCEPT ![p] = binary]
  /\ \E v \in Releases \cup {0} : /\ wanted' = [wanted EXCEPT ![p] = v]
                                  /\ pinned' = [pinned EXCEPT ![p] = (v # 0)]
  /\ Goto(p, "choose")
  /\ overlapped' = (overlapped \/ \E q \in Upgrades : UnderWay(q))
  /\ UNCHANGED <<published, binary, old, archive, unpacked, mishaps, torn>>

\* The latest tag unless one is pinned, compared with the release that runs:
\* nothing to do when they are equal, and no silent downgrade.  --check, an
\* unwritable directory, a package manager's path and a network error all end
\* the run here, with nothing changed.
ChooseRelease(p) ==
  /\ upgradeAt[p] = "choose"
  /\ LET target == IF pinned[p] THEN wanted[p] ELSE published
         proceeds == target # running[p] /\ (target > running[p] \/ pinned[p])
     IN /\ wanted' = [wanted EXCEPT ![p] = target]
        /\ \/ proceeds /\ Goto(p, "cleanup")
           \/ Goto(p, "ended")
  /\ UNCHANGED <<published, binary, old, running, pinned, archive, unpacked, mishaps, torn, overlapped>>

\* Errors of the removal are swallowed (on Windows the file may be in use).
RemoveOldFile == old' = NoFile \/ (UNCHANGED old /\ old # NoFile)

CleanupStaleOld(p) ==
  /\ upgradeAt[p] = "cleanup"
  /\ RemoveOldFile
  /\ Goto(p, "download")
  /\ UNCHANGED <<published, binary, running, wanted, pinned, archive, unpacked, mishaps, torn, overlapped>>

\* A release that was never published answers 404.
DownloadTo(p) ==
  /\ upgradeAt[p] = "download"
  /\ \/ /\ wanted[p] <= published
        /\ archive' = [archive EXCEPT ![p] = wanted[p]]
        /\ Goto(p, "verify") /\ UNCHANGED mishaps
     \/ /\ Mishap
        /\ archive' = [archive EXCEPT ![p] = Corrupt]
        /\ Goto(p, "verify") \/ Goto(p, "tidy")
     \/ /\ wanted[p] > published
        /\ Goto(p, "tidy") /\ UNCHANGED <<archive, mishaps>>
  /\ UNCHANGED <<published, binary, old, running, wanted, pinned, unpacked, torn, overlapped>>

\* The checksum of the release against the one of the file.
VerifyChecksum(p) ==
  /\ upgradeAt[p] = "verify"
  /\ Goto(p, IF archive[p] = wanted[p] THEN "extract" ELSE "tidy")
  /\ UNCHANGED <<published, binary, old, running, wanted, pinned, archive, unpacked, mishaps, torn, overlapped>>

\* Extraction and chmod; a failure may leave a part of the binary.
ExtractSingleBinary(p) ==
  /\ upgradeAt[p] = "extract"
  /\ \/ /\ unpacked' = [unpacked EXCEPT ![p] = archive[p]]
        /\ Goto(p, "removeOld") /\ UNCHANGED mishaps
     \/ /\ Mishap
        /\ unpacked' = [unpacked EXCEPT ![p] = Corrupt]
        /\ Goto(p, "tidy")
  /\ UNCHANGED <<published, binary, old, running, wanted, pinned, archive, torn, overlapped>>

\* swapBinary, in its four steps.
RemoveOld(p) ==
  /\ upgradeAt[p] = "removeOld"
  /\ RemoveOldFile
  /\ Goto(p, "renameAway")
  /\ UNCHANGED <<published, binary, running, wanted, pinned, archive, unpacked, mishaps, torn, overlapped>>

RenameAway(p) ==
  /\ upgradeAt[p] = "renameAway"
  /\ \/ /\ binary # NoFile
        /\ old' = binary /\ binary' = NoFile
        /\ Goto(p, "renameIn") /\ UNCHANGED mishaps
     \/ /\ binary = NoFile \/ mishaps < MaxMishaps
        /\ mishaps' = IF binary = NoFile THEN mishaps ELSE mishaps + 1
        /\ Goto(p, "tidy") /\ UNCHANGED <<binary, old>>
  /\ UNCHANGED <<published, running, wanted, pinned, archive, unpacked, torn, overlapped>>

\* A mutant of RenameIn: the first rename is not rolled back.
RenameInUnrolled(p) ==
  /\ upgradeAt[p] = "renameIn"
  /\ \/ /\ binary' = unpacked[p]
        /\ unpacked' = [unpacked EXCEPT ![p] = NoFile]
        /\ Goto(p, "tidy") /\ UNCHANGED mishaps
     \/ /\ Mishap
        /\ Goto(p, "tidy") /\ UNCHANGED <<binary, unpacked>>
  /\ UNCHANGED <<published, old, running, wanted, pinned, archive, torn, overlapped>>

RenameIn(p) ==
  /\ upgradeAt[p] = "renameIn"
  /\ \/ /\ binary' = unpacked[p]
        /\ unpacked' = [unpacked EXCEPT ![p] = NoFile]
        /\ Goto(p, "tidy") /\ UNCHANGED mishaps
     \/ /\ Mishap
        /\ Goto(p, "rollBack") /\ UNCHANGED <<binary, unpacked>>
  /\ UNCHANGED <<published, old, running, wanted, pinned, archive, torn, overlapped>>

\* Its errors are swallowed too; without .old it fails for sure.
RollBack(p) ==
  /\ upgradeAt[p] = "rollBack"
  /\ \/ /\ old # NoFile
        /\ binary' = old /\ old' = NoFile
        /\ UNCHANGED <<mishaps, torn>>
     \/ /\ old = NoFile \/ mishaps < MaxMishaps
        /\ mishaps' = IF old = NoFile THEN mishaps ELSE mishaps + 1
        /\ torn' = TRUE /\ UNCHANGED <<binary, old>>
  /\ Goto(p, "tidy")
  /\ UNCHANGED <<published, running, wanted, pinned, archive, unpacked, overlapped>>

\* The finally block: the files of the run are removed.
RemoveTemporaries(p) ==
  /\ upgradeAt[p] = "tidy"
  /\ archive' = [archive EXCEPT ![p] = NoFile] /\ unpacked' = [unpacked EXCEPT ![p] = NoFile]
  /\ Goto(p, "ended")
  /\ UNCHANGED <<published, binary, old, running, wanted, pinned, mishaps, torn, overlapped>>

KillUpgrade(p) ==
  /\ UnderWay(p)
  /\ Mishap
  /\ Goto(p, "ended")
  /\ torn' = (torn \/ upgradeAt[p] \in Swapping)
  /\ UNCHANGED <<published, binary, old, running, wanted, pinned, archive, unpacked, overlapped>>

UpgradeNext ==
  \/ PublishRelease
  \/ \E p \in Upgrades :
       \/ StartUpgrade(p) \/ ChooseRelease(p) \/ CleanupStaleOld(p) \/ DownloadTo(p)
       \/ VerifyChecksum(p) \/ ExtractSingleBinary(p) \/ RemoveOld(p) \/ RenameAway(p)
       \/ RenameIn(p) \/ RollBack(p) \/ RemoveTemporaries(p) \/ KillUpgrade(p)

UpgradeSpec == UpgradeInit /\ [][UpgradeNext]_upgradeVars
--------------------------------------------------------------------------------
\* What runs is a whole release that was verified, never a part of a download.
OnlyReleases == {binary, old} \subseteq Releases \cup {NoFile}

\* The path is empty only in the middle of a swap, unless one was killed there
\* or could not be rolled back (swap.ts:32-33, "so the user is left with a
\* working binary"); and then, as long as no two runs overlapped, .old holds
\* the release to go back to.
KeepsABinary ==
  /\ OnlyReleases
  /\ binary = NoFile => torn \/ \E p \in Upgrades : upgradeAt[p] \in Swapping
  /\ binary = NoFile => overlapped \/ old # NoFile
================================================================================
