------------------------------ MODULE ManagedConfig ------------------------------
(***************************************************************************)
(* markspec lsp install: one run of the command after the other writes or  *)
(* removes its fenced block in a configuration file that belongs to the    *)
(* user, who edits the file at any time, between any two steps of a run    *)
(* (cli/install/orchestrator.ts, managed_block.ts, backup.ts).  The        *)
(* watchdog or a signal may end the process at each of its awaits.         *)
(*                                                                         *)
(* A text is a sequence of fences, line ends, lines of the user and        *)
(* contents of the block.                                                  *)
(***************************************************************************)
EXTENDS Integers, SequencesExt

CONSTANTS
  UserLines,      \* bound: what the user may type, each at most once
  Blocks,         \* what the block may hold: one for each binary path
  Nothing,        \* no file
  MaxInstalls,    \* bound on the runs
  MaxUserEdits,   \* bound on the edits of the user
  MaxSecond       \* bound on the clock

Token == UserLines \cup Blocks \cup {"open", "close", "nl"}

ASSUME InstallAssumption ==
  /\ UserLines \cap (Blocks \cup {"open", "close", "nl"}) = {}
  /\ Blocks \cap {"open", "close"} = {}
  /\ Nothing \notin Seq(Token)
  /\ MaxInstalls \in Nat /\ MaxUserEdits \in Nat /\ MaxSecond \in Nat

VARIABLES
  config,       \* the file
  staged,       \* <path>.tmp
  backups,      \* for each second, the backup that carries its time
  second,       \* the time
  install,      \* the run under way: its step, what it read and what it writes
  installs,     \* how many runs have started
  userEdits,    \* bound
  written,      \* history: the lines the user has typed and not removed
  unsaved,      \* history: of them, those typed since the backup of the run under way
  exposed       \* history: those that a rename or a later backup of the same
                \* second, whole or broken off, has overwritten without a backup

userVars == <<userEdits, written>>
installVars == <<config, staged, backups, second, install, installs, userVars, unsaved, exposed>>

-------------------------------------------------------------------------------
\* managed_block.ts
IndexOf(text, token) ==
  IF \E i \in DOMAIN text : text[i] = token
  THEN CHOOSE i \in DOMAIN text : text[i] = token /\ \A j \in 1..(i - 1) : text[j] # token
  ELSE 0

HasBlock(text) ==
  LET open == IndexOf(text, "open")
      close == IndexOf(text, "close")
  IN open # 0 /\ close > open

Before(text) == SubSeq(text, 1, IndexOf(text, "open") - 1)
\* The line end after the closing fence belongs to the block.
After(text) ==
  LET close == IndexOf(text, "close")
      end == IF close < Len(text) /\ text[close + 1] = "nl" THEN close + 1 ELSE close
  IN SubSeq(text, end + 1, Len(text))

Region(block) == <<"open", "nl", block, "nl", "close", "nl">>

ApplyLuaBlock(text, block) ==
  CASE HasBlock(text) -> Before(text) \o Region(block) \o After(text)
    [] text = <<>> -> Region(block)
    [] OTHER -> text \o (IF Last(text) = "nl" THEN <<"nl">> ELSE <<"nl", "nl">>) \o Region(block)

\* One of two line ends before the block goes with it.
RemoveLuaBlock(text) ==
  IF ~HasBlock(text) THEN text
  ELSE (IF IsSuffix(<<"nl", "nl">>, Before(text)) THEN Front(Before(text)) ELSE Before(text))
         \o After(text)

-------------------------------------------------------------------------------
NoInstall == [at |-> "none", read |-> Nothing, next |-> <<>>]
LinesIn(text) == IF text = Nothing THEN {} ELSE UserLines \cap {text[i] : i \in DOMAIN text}

InstallInit ==
  /\ config \in {Nothing, <<>>}
  /\ staged = Nothing /\ backups = [s \in 0..MaxSecond |-> Nothing] /\ second = 0
  /\ install = NoInstall /\ installs = 0 /\ userEdits = 0
  /\ written = {} /\ unsaved = {} /\ exposed = {}

TimePasses ==
  /\ second < MaxSecond
  /\ second' = second + 1
  /\ UNCHANGED <<config, staged, backups, install, installs, userVars, unsaved, exposed>>

\* The user saves a new line at some place, with its line end or without one.
TypeLine(line) ==
  LET text == IF config = Nothing THEN <<>> ELSE config
  IN /\ userEdits < MaxUserEdits /\ line \notin LinesIn(config) \cup written
     /\ \E i \in 0..Len(text), end \in {<<>>, <<"nl">>} :
          config' = SubSeq(text, 1, i) \o <<line>> \o end \o SubSeq(text, i + 1, Len(text))
     /\ userEdits' = userEdits + 1 /\ written' = written \cup {line}
     /\ unsaved' = unsaved \cup {line}
     /\ UNCHANGED <<staged, backups, second, install, installs, exposed>>

\* The user deletes a piece of the file: a fence, a line, a line end.
DeletePiece ==
  /\ userEdits < MaxUserEdits /\ config # Nothing
  /\ \E i \in DOMAIN config :
       /\ config' = RemoveAt(config, i)
       /\ written' = written \ {config[i]}
  /\ userEdits' = userEdits + 1
  /\ UNCHANGED <<staged, backups, second, install, installs, unsaved, exposed>>

-------------------------------------------------------------------------------
\* A run with --force; nothing is written when it would change nothing.  A
\* read that fails, --print and a run without --force end here as well.
ReadConfig ==
  /\ install = NoInstall /\ installs < MaxInstalls
  /\ installs' = installs + 1
  /\ LET current == IF config = Nothing THEN <<>> ELSE config
     IN \E next \in {RemoveLuaBlock(current)} \cup {ApplyLuaBlock(current, b) : b \in Blocks} :
          /\ next # current
          /\ install' = [at |-> IF config = Nothing THEN "stage" ELSE "backup",
                         read |-> config, next |-> next]
  /\ unsaved' = {}
  /\ UNCHANGED <<config, staged, backups, second, userVars, exposed>>

\* A mutant of WriteBackup: the name carries no time, and a backup that is
\* there is kept.
WriteBackupKeepingFirst ==
  /\ install.at = "backup"
  /\ config # Nothing
  /\ backups' = [backups EXCEPT ![0] = IF @ = Nothing THEN config ELSE @]
  /\ install' = [install EXCEPT !.at = "stage"]
  /\ unsaved' = {}
  /\ UNCHANGED <<config, staged, second, installs, userVars, exposed>>

\* The file as it is now, under the time as it is now: an earlier backup of
\* the same second is overwritten.
WriteBackup ==
  /\ install.at = "backup"
  /\ config # Nothing
  /\ backups' = [backups EXCEPT ![second] = config]
  /\ exposed' = exposed \cup (LinesIn(backups[second]) \ LinesIn(config))
  /\ install' = [install EXCEPT !.at = "stage"]
  /\ unsaved' = {}
  /\ UNCHANGED <<config, staged, second, installs, userVars>>

StageOpens ==
  /\ install.at = "stage"
  /\ staged' = <<>>
  /\ install' = [install EXCEPT !.at = "write"]
  /\ UNCHANGED <<config, backups, second, installs, userVars, unsaved, exposed>>

\* The chunks of the write come to their end.
StageWritten ==
  /\ install.at = "write"
  /\ staged' = install.next
  /\ install' = [install EXCEPT !.at = "rename"]
  /\ UNCHANGED <<config, backups, second, installs, userVars, unsaved, exposed>>

RenameStaged ==
  /\ install.at = "rename"
  /\ config' = staged /\ staged' = Nothing
  /\ exposed' = exposed \cup (unsaved \ LinesIn(staged))
  /\ install' = NoInstall
  /\ UNCHANGED <<backups, second, installs, userVars, unsaved>>

\* The copy truncates an earlier backup of the same second before it writes,
\* and may stop at any place.
BackupBreaksOff ==
  /\ install.at = "backup" /\ config # Nothing
  /\ \E n \in 0..Len(config) :
       /\ backups' = [backups EXCEPT ![second] = SubSeq(config, 1, n)]
       /\ exposed' = exposed \cup (LinesIn(backups[second]) \ LinesIn(SubSeq(config, 1, n)))

\* The backup, the directory, the staging or the rename fails: the staged file
\* is removed if that works.
InstallFails ==
  /\ install.at \in {"backup", "stage", "write", "rename"}
  /\ staged' \in (IF install.at \in {"write", "rename"} THEN {staged, Nothing} ELSE {staged})
  /\ BackupBreaksOff \/ UNCHANGED <<backups, exposed>>
  /\ install' = NoInstall
  /\ UNCHANGED <<config, second, installs, userVars, unsaved>>

\* The watchdog or a signal: a part of the staged file, or of the backup, may
\* have been written.
InstallKilled ==
  /\ install # NoInstall
  /\ staged' \in (IF install.at = "write" THEN {staged, Front(install.next)} ELSE {staged})
  /\ BackupBreaksOff \/ UNCHANGED <<backups, exposed>>
  /\ install' = NoInstall
  /\ UNCHANGED <<config, second, installs, userVars, unsaved>>

InstallNext ==
  \/ TimePasses \/ DeletePiece
  \/ \E line \in UserLines : TypeLine(line)
  \/ ReadConfig \/ WriteBackup \/ StageOpens \/ StageWritten \/ RenameStaged
  \/ InstallFails \/ InstallKilled

InstallSpec == InstallInit /\ [][InstallNext]_installVars

-------------------------------------------------------------------------------
BackedUp == UNION {LinesIn(backups[s]) : s \in 0..MaxSecond}

\* The installer owns one region and backs up the file before it writes
\* (managed_block.ts:6-12, backup.ts:4-7): a line that the user has typed and
\* not removed is in the file or in a backup, unless it was typed between the
\* backup and the rename, or its backup was overwritten within the second.
NoLineLost == written \subseteq LinesIn(config) \cup BackedUp \cup exposed

Fenced(text) ==
  LET count(token) == Cardinality({i \in DOMAIN text : text[i] = token})
  IN count("open") = count("close") /\ count("open") <= 1
     /\ (count("open") = 1 => HasBlock(text))

Outside(text) == IF HasBlock(text) THEN Before(text) \o After(text) ELSE text

\* Whatever the user makes of a file whose fences are a pair: applying a block
\* leaves what is outside the fences as it is, but for line ends before a new
\* block; to apply it again changes nothing; and removing a new block gives
\* the file back, with a line end at its end (managed_block.ts:10-15).
OwnsOneRegion ==
  config # Nothing /\ Fenced(config) =>
    \A block \in Blocks :
      LET next == ApplyLuaBlock(config, block)
      IN /\ ApplyLuaBlock(next, block) = next
         /\ \E ends \in {<<>>, <<"nl">>, <<"nl", "nl">>} : Outside(next) = Outside(config) \o ends
         /\ ~HasBlock(config) => RemoveLuaBlock(next) \in {config, config \o <<"nl">>}

\* Both promises of the installer.
InstallIsSafe == NoLineLost /\ OwnsOneRegion
===============================================================================
