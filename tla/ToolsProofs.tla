------------------------------ MODULE ToolsProofs ------------------------------
(***************************************************************************)
(* The tools around the editor: the upgrade of the binary, the             *)
(* configuration that markspec manages, the runs and settings of the       *)
(* assistant of MarkDesk, and the log that the language servers share.     *)
(***************************************************************************)
EXTENDS SelfUpgrade, EventLog, ManagedConfig, AssistantRun, AssistantSettings,
        SequenceTheorems, FiniteSetTheorems, WellFoundedInduction, TLAPS

-------------------------------------------------------------------------------
(***************************************************************************)
(* KeepsABinary holds for any number of runs, releases and mishaps.  What  *)
(* a run installs is the release it has verified, because it carries that  *)
(* from step to step in files of its own; the path is empty only between   *)
(* the steps of a swap; and while no two runs overlap, the only run that   *)
(* is under way knows that the path is not empty until it empties it, so   *)
(* that it never removes the last binary as a stale one.                   *)
(***************************************************************************)

UpgradeTypeOK ==
  /\ published \in Releases
  /\ upgradeAt \in [Upgrades -> {"idle", "choose", "cleanup", "download", "verify", "extract",
                                 "removeOld", "renameAway", "renameIn", "rollBack", "tidy", "ended"}]
  /\ wanted \in [Upgrades -> Releases \cup {0}] /\ pinned \in [Upgrades -> BOOLEAN]
  /\ archive \in [Upgrades -> Releases \cup {Corrupt, NoFile}]
  /\ unpacked \in [Upgrades -> Releases \cup {Corrupt, NoFile}]
  /\ torn \in BOOLEAN /\ overlapped \in BOOLEAN

\* What a run carries when it is past its checks.
Verified ==
  \A p \in Upgrades :
    /\ upgradeAt[p] = "choose" /\ pinned[p] => wanted[p] \in Releases
    /\ upgradeAt[p] \in {"cleanup", "download", "verify", "extract"} => wanted[p] \in Releases
    /\ upgradeAt[p] = "extract" => archive[p] \in Releases
    /\ upgradeAt[p] \in {"removeOld", "renameAway"} \cup Swapping => unpacked[p] \in Releases

\* The first conjuncts of KeepsABinary, and the reason for the last one.
EmptyOnlyInSwap == binary = NoFile => torn \/ \E p \in Upgrades : upgradeAt[p] \in Swapping

BeforeSwap ==
  {"choose", "cleanup", "download", "verify", "extract", "removeOld", "renameAway"}

Alone ==
  ~overlapped =>
    /\ \A p, q \in Upgrades : UnderWay(p) /\ UnderWay(q) => p = q
    /\ \A p \in Upgrades : upgradeAt[p] \in BeforeSwap => binary # NoFile
    /\ binary = NoFile => old # NoFile

UpgradeInv == UpgradeTypeOK /\ OnlyReleases /\ Verified /\ EmptyOnlyInSwap /\ Alone

LEMMA NoFileIsNoRelease == NoFile \notin Releases
  BY UpgradeAssumption DEF Releases

LEMMA UpgradeInitInv == UpgradeInit => UpgradeInv
<1> SUFFICES ASSUME UpgradeInit PROVE UpgradeInv
  OBVIOUS
<1>1. 1..published \subseteq Releases
  BY UpgradeAssumption DEF UpgradeInit, Releases
<1> QED
  BY <1>1, NoFileIsNoRelease
  DEF UpgradeInit, UpgradeInv, UpgradeTypeOK, OnlyReleases, Verified, EmptyOnlyInSwap, Alone,
      BeforeSwap, Swapping, UnderWay, Corrupt

\* The steps of a run before its swap touch neither path but to remove .old.
Preparing(p) ==
  \/ StartUpgrade(p) \/ ChooseRelease(p) \/ CleanupStaleOld(p) \/ DownloadTo(p)
  \/ VerifyChecksum(p) \/ ExtractSingleBinary(p) \/ RemoveOld(p)

LEMMA PreparingTypes ==
  ASSUME UpgradeInv, NEW p \in Upgrades, Preparing(p)
  PROVE  UpgradeTypeOK' /\ Verified'
<1> USE DEF UpgradeInv, UpgradeTypeOK, Verified, Goto, Mishap, Swapping
<1>1. CASE StartUpgrade(p)
  BY <1>1 DEF StartUpgrade
<1>2. CASE ChooseRelease(p)
  BY <1>2 DEF ChooseRelease
<1>3. CASE CleanupStaleOld(p)
  BY <1>3 DEF CleanupStaleOld
<1>4. CASE DownloadTo(p)
  BY <1>4 DEF DownloadTo
<1>5. CASE VerifyChecksum(p)
  BY <1>5 DEF VerifyChecksum
<1>6. CASE ExtractSingleBinary(p)
  BY <1>6 DEF ExtractSingleBinary
<1>7. CASE RemoveOld(p)
  BY <1>7 DEF RemoveOld
<1> QED
  BY <1>1, <1>2, <1>3, <1>4, <1>5, <1>6, <1>7 DEF Preparing

LEMMA PreparingKeeps ==
  ASSUME UpgradeInv, NEW p \in Upgrades, Preparing(p)
  PROVE  UpgradeInv'
<1>1. UpgradeTypeOK' /\ Verified'
  BY PreparingTypes
<1>2. /\ UNCHANGED <<binary, torn>>
      /\ old' \in {old, NoFile}
  BY DEF Preparing, StartUpgrade, ChooseRelease, CleanupStaleOld, DownloadTo, VerifyChecksum,
         ExtractSingleBinary, RemoveOld, RemoveOldFile
<1>3. OnlyReleases'
  BY <1>2 DEF OnlyReleases, UpgradeInv
<1>4. \A q \in Upgrades : q # p => upgradeAt'[q] = upgradeAt[q]
  BY DEF Preparing, StartUpgrade, ChooseRelease, CleanupStaleOld, DownloadTo, VerifyChecksum,
         ExtractSingleBinary, RemoveOld, Goto, UpgradeInv, UpgradeTypeOK
<1>5. upgradeAt[p] \in BeforeSwap \cup {"idle"}
  BY DEF Preparing, StartUpgrade, ChooseRelease, CleanupStaleOld, DownloadTo, VerifyChecksum,
         ExtractSingleBinary, RemoveOld, BeforeSwap
<1>6. EmptyOnlyInSwap'
  BY <1>2, <1>4, <1>5 DEF EmptyOnlyInSwap, UpgradeInv, BeforeSwap, Swapping
<1>7. CASE StartUpgrade(p)
  <2>1. Alone'
    BY <1>7, <1>2, <1>4 DEF Alone, StartUpgrade, UnderWay, BeforeSwap, UpgradeInv
  <2> QED
    BY <2>1, <1>1, <1>3, <1>6 DEF UpgradeInv
<1>8. CASE ~StartUpgrade(p)
  <2>1. overlapped' = overlapped /\ upgradeAt[p] \in BeforeSwap
    BY <1>8 DEF Preparing, ChooseRelease, CleanupStaleOld, DownloadTo, VerifyChecksum,
                ExtractSingleBinary, RemoveOld, BeforeSwap
  <2>2. UnderWay(p)
    BY <2>1 DEF UnderWay, BeforeSwap
  <2>3. \A q \in Upgrades : UnderWay(q)' => UnderWay(q)
    BY <2>2, <1>4 DEF UnderWay
  <2>4. ~overlapped => binary # NoFile
    BY <2>1 DEF Alone, UpgradeInv
  <2>5. Alone'
    BY <2>1, <2>3, <2>4, <1>2 DEF Alone, UpgradeInv
  <2> QED
    BY <2>5, <1>1, <1>3, <1>6 DEF UpgradeInv
<1> QED
  BY <1>7, <1>8

LEMMA SwapStepKeeps ==
  ASSUME UpgradeInv, NEW p \in Upgrades,
         RenameAway(p) \/ RenameIn(p) \/ RollBack(p) \/ RemoveTemporaries(p) \/ KillUpgrade(p)
  PROVE  UpgradeInv'
<1> USE NoFileIsNoRelease
<1>1. \A q \in Upgrades : q # p => upgradeAt'[q] = upgradeAt[q]
  BY DEF RenameAway, RenameIn, RollBack, RemoveTemporaries, KillUpgrade, Goto, UpgradeInv,
         UpgradeTypeOK
<1>2. UpgradeTypeOK' /\ Verified'
  <2> USE DEF UpgradeInv, UpgradeTypeOK, Verified, Goto, Mishap, Swapping
  <2>1. CASE RenameAway(p)
    BY <2>1 DEF RenameAway
  <2>2. CASE RenameIn(p)
    BY <2>2 DEF RenameIn
  <2>3. CASE RollBack(p)
    BY <2>3 DEF RollBack
  <2>4. CASE RemoveTemporaries(p)
    BY <2>4 DEF RemoveTemporaries
  <2>5. CASE KillUpgrade(p)
    BY <2>5 DEF KillUpgrade
  <2> QED
    BY <2>1, <2>2, <2>3, <2>4, <2>5
<1>3. OnlyReleases'
  BY DEF RenameAway, RenameIn, RollBack, RemoveTemporaries, KillUpgrade, OnlyReleases, UpgradeInv,
         Verified, Swapping
<1>4. EmptyOnlyInSwap'
  <2> USE DEF EmptyOnlyInSwap, UpgradeInv, Swapping, Goto
  <2>1. CASE RenameAway(p)
    BY <2>1, <1>1 DEF RenameAway, UpgradeTypeOK
  <2>2. CASE RenameIn(p)
    BY <2>2, <1>1 DEF RenameIn, UpgradeTypeOK, Verified
  <2>3. CASE RollBack(p)
    BY <2>3 DEF RollBack
  <2>4. CASE RemoveTemporaries(p)
    BY <2>4, <1>1 DEF RemoveTemporaries
  <2>5. CASE KillUpgrade(p)
    BY <2>5, <1>1 DEF KillUpgrade
  <2> QED
    BY <2>1, <2>2, <2>3, <2>4, <2>5
<1>5. Alone'
  <2> USE DEF Alone, UpgradeInv, UnderWay, Goto, BeforeSwap
  <2>1. overlapped' = overlapped
    BY DEF RenameAway, RenameIn, RollBack, RemoveTemporaries, KillUpgrade
  <2>2. \A q \in Upgrades : UnderWay(q)' => UnderWay(q)
    BY <1>1 DEF RenameAway, RenameIn, RollBack, RemoveTemporaries, KillUpgrade
  <2>3. CASE RenameAway(p)
    BY <2>1, <2>2, <2>3, <1>1 DEF RenameAway, UpgradeTypeOK
  <2>4. CASE RenameIn(p)
    BY <2>1, <2>2, <2>4, <1>1 DEF RenameIn, UpgradeTypeOK, Verified, Swapping
  <2>5. CASE RollBack(p)
    BY <2>1, <2>2, <2>5, <1>1 DEF RollBack, UpgradeTypeOK
  <2>6. CASE RemoveTemporaries(p)
    BY <2>1, <2>2, <2>6, <1>1 DEF RemoveTemporaries, UpgradeTypeOK
  <2>7. CASE KillUpgrade(p)
    BY <2>1, <2>2, <2>7, <1>1 DEF KillUpgrade, UpgradeTypeOK
  <2> QED
    BY <2>3, <2>4, <2>5, <2>6, <2>7
<1> QED
  BY <1>2, <1>3, <1>4, <1>5 DEF UpgradeInv

LEMMA UpgradeInvHolds == UpgradeSpec => []UpgradeInv
<1>1. UpgradeInv /\ [UpgradeNext]_upgradeVars => UpgradeInv'
  <2> SUFFICES ASSUME UpgradeInv, [UpgradeNext]_upgradeVars PROVE UpgradeInv'
    OBVIOUS
  <2>1. CASE PublishRelease
    <3>1. published' \in Releases
      BY <2>1, UpgradeAssumption DEF PublishRelease, Releases, UpgradeInv, UpgradeTypeOK
    <3> QED
      BY <2>1, <3>1 DEF PublishRelease, UpgradeInv, UpgradeTypeOK, OnlyReleases, Verified,
                        EmptyOnlyInSwap, Alone, UnderWay, upgradeRunVars
  <2>2. ASSUME NEW p \in Upgrades, Preparing(p) PROVE UpgradeInv'
    BY <2>2, PreparingKeeps
  <2>3. ASSUME NEW p \in Upgrades,
               RenameAway(p) \/ RenameIn(p) \/ RollBack(p) \/ RemoveTemporaries(p) \/ KillUpgrade(p)
        PROVE  UpgradeInv'
    BY <2>3, SwapStepKeeps
  <2>4. CASE UNCHANGED upgradeVars
    BY <2>4 DEF upgradeVars, upgradeRunVars, UpgradeInv, UpgradeTypeOK, OnlyReleases, Verified,
                EmptyOnlyInSwap, Alone, UnderWay
  <2> QED
    BY <2>1, <2>2, <2>3, <2>4 DEF UpgradeNext, Preparing
<1> QED
  BY <1>1, UpgradeInitInv, PTL DEF UpgradeSpec

\* However many upgrades run, fail or are killed, the path holds a whole
\* release that was verified, or is in the middle of a swap; and after a swap
\* that was torn, .old holds the one before, if no two upgrades overlapped.
THEOREM BinaryIsKept == UpgradeSpec => []KeepsABinary
<1>1. UpgradeInv => KeepsABinary
  BY DEF UpgradeInv, KeepsABinary, EmptyOnlyInSwap, Alone
<1> QED
  BY <1>1, UpgradeInvHolds, PTL

-------------------------------------------------------------------------------
(***************************************************************************)
(* InstallIsSafe holds for any lines, blocks, runs, edits and times.  When *)
(* a run comes to its rename, each line of the file is in a backup, or was *)
(* typed since the backup of that run: BackupCovers, which the edits keep, *)
(* because an edit adds no line but the one it notes.                      *)
(***************************************************************************)

Texts == Seq(Token) \cup {Nothing}

InstallTypeOK ==
  /\ config \in Texts
  /\ backups \in [0..MaxSecond -> Texts] /\ second \in 0..MaxSecond
  /\ install.at \in {"none", "backup", "stage", "write", "rename"}
  /\ install.next \in Seq(Token)
  /\ install.at = "rename" => staged \in Seq(Token)
  /\ install \in [at : {"none", "backup", "stage", "write", "rename"}, read : Texts, next : Seq(Token)]

BackupCovers ==
  install.at \in {"stage", "write", "rename"} => LinesIn(config) \subseteq BackedUp \cup unsaved

InstallInv == InstallTypeOK /\ NoLineLost /\ BackupCovers

-------------------------------------------------------------------------------
\* The lines of a text are those of its parts.
LEMMA LinesOfParts ==
  ASSUME NEW s \in Seq(Token), NEW t \in Seq(Token)
  PROVE  /\ s \o t \in Seq(Token)
         /\ LinesIn(s \o t) = LinesIn(s) \cup LinesIn(t)
<1> DEFINE u == s \o t
<1>1. u \in Seq(Token)
  OBVIOUS
<1>2. /\ DOMAIN s = 1..Len(s) /\ DOMAIN t = 1..Len(t)
      /\ DOMAIN u = 1..(Len(s) + Len(t))
      /\ Len(s) \in Nat /\ Len(t) \in Nat
  OBVIOUS
<1>3. /\ \A i \in DOMAIN s : i \in DOMAIN u /\ u[i] = s[i]
      /\ \A i \in DOMAIN t : Len(s) + i \in DOMAIN u /\ u[Len(s) + i] = t[i]
  OBVIOUS
<1>4. \A i \in DOMAIN u : i \in DOMAIN s \/ (i - Len(s) \in DOMAIN t /\ i = Len(s) + (i - Len(s)))
  BY <1>2
<1>5. {u[i] : i \in DOMAIN u} = {s[i] : i \in DOMAIN s} \cup {t[i] : i \in DOMAIN t}
  <2>1. ASSUME NEW i \in DOMAIN u
        PROVE  u[i] \in {s[k] : k \in DOMAIN s} \cup {t[k] : k \in DOMAIN t}
    BY <1>3, <1>4
  <2>2. ASSUME NEW i \in DOMAIN s PROVE s[i] \in {u[k] : k \in DOMAIN u}
    BY <1>3
  <2>3. ASSUME NEW i \in DOMAIN t PROVE t[i] \in {u[k] : k \in DOMAIN u}
    <3>1. Len(s) + i \in DOMAIN u /\ u[Len(s) + i] = t[i]
      BY <1>3
    <3> QED
      BY <3>1
  <2> QED
    BY <2>1, <2>2, <2>3
<1>6. Nothing \notin {s, t, u}
  BY <1>1, InstallAssumption
<1> QED
  BY <1>1, <1>5, <1>6 DEF LinesIn

LEMMA SplitText ==
  ASSUME NEW s \in Seq(Token), NEW i \in 0..Len(s)
  PROVE  /\ SubSeq(s, 1, i) \in Seq(Token) /\ SubSeq(s, i + 1, Len(s)) \in Seq(Token)
         /\ s = SubSeq(s, 1, i) \o SubSeq(s, i + 1, Len(s))
<1>1. Len(s) \in Nat /\ \A k \in 1..Len(s) : s[k] \in Token
  BY ElementOfSeq
<1>2. SubSeq(s, 1, i) \in Seq(Token) /\ SubSeq(s, i + 1, Len(s)) \in Seq(Token)
  <2>1. \A k \in 1..i : s[k] \in Token
    BY <1>1
  <2>2. \A k \in (i + 1)..Len(s) : s[k] \in Token
    BY <1>1
  <2> QED
    BY <1>1, <2>1, <2>2, SubSeqProperties
<1>3. 1 \in 1..(Len(s) + 1) /\ i \in 1 - 1 .. Len(s) /\ Len(s) \in i .. Len(s)
  BY <1>1
<1>4. SubSeq(s, 1, i) \o SubSeq(s, i + 1, Len(s)) = SubSeq(s, 1, Len(s))
  BY <1>3, ConcatAdjacentSubSeq
<1> QED
  BY <1>2, <1>4, SubSeqFull

LEMMA SubTextIsText ==
  ASSUME NEW s \in Seq(Token), NEW i \in Int, NEW j \in Int, 1 <= i, j <= Len(s)
  PROVE  SubSeq(s, i, j) \in Seq(Token)
<1>1. \A k \in i..j : s[k] \in Token
  BY ElementOfSeq
<1> QED
  BY <1>1, SubSeqProperties

\* Where IndexOf finds a token: at its first place, or nowhere.
LEMMA IndexOfFinds ==
  ASSUME NEW s \in Seq(Token), NEW token
  PROVE  \/ IndexOf(s, token) = 0 /\ \A i \in DOMAIN s : s[i] # token
         \/ /\ IndexOf(s, token) \in DOMAIN s /\ s[IndexOf(s, token)] = token
            /\ \A j \in 1..(IndexOf(s, token) - 1) : s[j] # token
<1>1. CASE \E i \in DOMAIN s : s[i] = token
  <2> DEFINE First(i) == s[i] = token /\ \A j \in 1..(i - 1) : s[j] # token
             Places == {i \in DOMAIN s : s[i] = token}
  <2>1. Places \subseteq Nat /\ Places # {}
    BY <1>1
  <2>2. PICK i \in Places : \A j \in Places : i <= j
    <3>1. PICK i \in Places : \A j \in Places : <<j, i>> \notin OpToRel(<, Nat)
      BY <2>1, NatLessThanWellFounded, WFMin
    <3>2. \A j \in Places : ~(j < i)
      BY <2>1, <3>1 DEF OpToRel
    <3> QED
      BY <2>1, <3>2
  <2>3. i \in DOMAIN s /\ First(i)
    <3>1. i \in DOMAIN s /\ s[i] = token
      BY <2>2
    <3>2. ASSUME NEW j \in 1..(i - 1) PROVE s[j] # token
      <4>1. j \in DOMAIN s /\ ~(i <= j)
        BY <3>1
      <4> QED
        BY <4>1, <2>2
    <3> QED
      BY <3>1, <3>2
  <2>4. (CHOOSE k \in DOMAIN s : First(k)) \in DOMAIN s /\ First(CHOOSE k \in DOMAIN s : First(k))
    BY <2>3
  <2>5. IndexOf(s, token) = CHOOSE k \in DOMAIN s : First(k)
    BY <1>1 DEF IndexOf
  <2> HIDE DEF First
  <2>6. IndexOf(s, token) \in DOMAIN s /\ First(IndexOf(s, token))
    BY <2>4, <2>5
  <2> QED
    BY <2>6 DEF First
<1>2. CASE ~\E i \in DOMAIN s : s[i] = token
  BY <1>2 DEF IndexOf
<1> QED
  BY <1>1, <1>2

LEMMA IndexOfType ==
  ASSUME NEW s \in Seq(Token), NEW token
  PROVE  IndexOf(s, token) \in 0..Len(s)
<1>1. DOMAIN s = 1..Len(s) /\ Len(s) \in Nat
  OBVIOUS
<1> QED
  BY <1>1, IndexOfFinds

\* A place with none before it is the one.
LEMMA IndexOfFirst ==
  ASSUME NEW s \in Seq(Token), NEW token, NEW i \in 1..Len(s), s[i] = token,
         \A j \in 1..(i - 1) : s[j] # token
  PROVE  IndexOf(s, token) = i
<1>1. DOMAIN s = 1..Len(s) /\ Len(s) \in Nat
  OBVIOUS
<1>2. PICK k \in 1..Len(s) : /\ k = IndexOf(s, token) /\ s[k] = token
                             /\ \A j \in 1..(k - 1) : s[j] # token
  BY <1>1, IndexOfFinds
<1>3. ~(k < i) /\ ~(i < k)
  BY <1>2
<1> QED
  BY <1>2, <1>3

\* What the two functions of managed_block.ts return is a text.
LEMMA PartsOfBlock ==
  ASSUME NEW s \in Seq(Token), HasBlock(s)
  PROVE  Before(s) \in Seq(Token) /\ After(s) \in Seq(Token)
<1> DEFINE open == IndexOf(s, "open")
           close == IndexOf(s, "close")
           end == IF close < Len(s) /\ s[close + 1] = "nl" THEN close + 1 ELSE close
<1>1. Len(s) \in Nat /\ open \in 1..Len(s) /\ close \in 1..Len(s)
  BY IndexOfType DEF HasBlock
<1>2. end \in 1..Len(s)
  BY <1>1
<1> HIDE DEF open, close, end
<1>3. SubSeq(s, 1, open - 1) \in Seq(Token)
  BY <1>1, SubTextIsText
<1>4. SubSeq(s, end + 1, Len(s)) \in Seq(Token)
  BY <1>1, <1>2, SubTextIsText
<1> QED
  BY <1>3, <1>4 DEF Before, After, open, close, end

LEMMA TextsStayTexts ==
  ASSUME NEW s \in Seq(Token)
  PROVE  /\ RemoveLuaBlock(s) \in Seq(Token)
         /\ \A block \in Blocks : ApplyLuaBlock(s, block) \in Seq(Token)
<1>1. RemoveLuaBlock(s) \in Seq(Token)
  <2>1. CASE ~HasBlock(s)
    BY <2>1 DEF RemoveLuaBlock
  <2>2. CASE HasBlock(s)
    <3>1. Before(s) \in Seq(Token) /\ After(s) \in Seq(Token)
      BY <2>2, PartsOfBlock
    <3>2. Front(Before(s)) \in Seq(Token)
      <4>1. Len(Before(s)) \in Nat
        BY <3>1
      <4> QED
        BY <3>1, <4>1, SubTextIsText DEF Front
    <3> QED
      BY <2>2, <3>1, <3>2, LinesOfParts DEF RemoveLuaBlock
  <2> QED
    BY <2>1, <2>2
<1>2. ASSUME NEW block \in Blocks PROVE ApplyLuaBlock(s, block) \in Seq(Token)
  <2>1. Region(block) \in Seq(Token)
    BY DEF Region, Token
  <2>2. CASE HasBlock(s)
    <3>1. Before(s) \in Seq(Token) /\ After(s) \in Seq(Token)
      BY <2>2, PartsOfBlock
    <3> HIDE DEF Region
    <3>2. Before(s) \o Region(block) \o After(s) \in Seq(Token)
      BY <2>1, <3>1, LinesOfParts
    <3> QED
      BY <2>2, <3>2 DEF ApplyLuaBlock
  <2>3. CASE ~HasBlock(s)
    <3>1. <<"nl">> \in Seq(Token) /\ <<"nl", "nl">> \in Seq(Token)
      BY DEF Token
    <3>2. s \o (IF Last(s) = "nl" THEN <<"nl">> ELSE <<"nl", "nl">>) \o Region(block) \in Seq(Token)
      <4> DEFINE separator == IF Last(s) = "nl" THEN <<"nl">> ELSE <<"nl", "nl">>
      <4>1. separator \in Seq(Token)
        BY <3>1
      <4> HIDE DEF separator
      <4>2. s \o separator \o Region(block) \in Seq(Token)
        BY <4>1, <2>1, LinesOfParts
      <4> QED
        BY <4>2 DEF separator
    <3> QED
      BY <2>1, <2>3, <3>2 DEF ApplyLuaBlock
  <2> QED
    BY <2>2, <2>3
<1> QED
  BY <1>1, <1>2

-------------------------------------------------------------------------------
(***************************************************************************)
(* The fences.  A block that was written is found again where it was put,  *)
(* whatever the text around it, as long as no fence comes before it: so it *)
(* is replaced by itself, and taken out without a trace but a line end.    *)
(***************************************************************************)
NoFence(s) == \A i \in DOMAIN s : s[i] # "open" /\ s[i] # "close"

LEMMA PlacesOfParts ==
  ASSUME NEW s \in Seq(Token), NEW t \in Seq(Token)
  PROVE  /\ s \o t \in Seq(Token) /\ Len(s \o t) = Len(s) + Len(t)
         /\ \A i \in 1..Len(s) : (s \o t)[i] = s[i]
         /\ \A i \in 1..Len(t) : (s \o t)[Len(s) + i] = t[i]
OBVIOUS

\* A piece of a text is the text that has its places.
LEMMA PieceIs ==
  ASSUME NEW s \in Seq(Token), NEW t \in Seq(Token), NEW n \in Nat, n + Len(t) <= Len(s),
         \A i \in 1..Len(t) : s[n + i] = t[i]
  PROVE  SubSeq(s, n + 1, n + Len(t)) = t
<1> DEFINE a == n + 1
           b == n + Len(t)
           piece == SubSeq(s, a, b)
<1>1. Len(t) \in Nat
  OBVIOUS
<1>2. a \in Int /\ b \in Int /\ (IF a <= b THEN b - a + 1 ELSE 0) = Len(t)
  BY <1>1
<1>3. \A i \in a..b : s[i] \in Token
  BY <1>1, ElementOfSeq
<1>4. 1..(b - a + 1) = 1..Len(t) /\ \A i \in 1..Len(t) : a + i - 1 = n + i
  BY <1>1
<1> HIDE DEF a, b
<1>5. /\ piece \in Seq(Token) /\ Len(piece) = Len(t)
      /\ \A i \in 1..Len(t) : piece[i] = s[n + i]
  BY <1>2, <1>3, <1>4, SubSeqProperties
<1> HIDE DEF piece
<1>6. piece = t
  BY <1>5, SeqEqual
<1> QED
  BY <1>6 DEF piece, a, b

\* The places of a text with a block in it.
Surrounds(s, t, block, next, n, m) ==
  /\ next \in Seq(Token) /\ Len(next) = n + 6 + m
  /\ \A i \in 1..n : next[i] = s[i]
  /\ next[n + 1] = "open" /\ next[n + 2] = "nl" /\ next[n + 3] = block
  /\ next[n + 4] = "nl" /\ next[n + 5] = "close" /\ next[n + 6] = "nl"
  /\ \A i \in 1..m : next[n + 6 + i] = t[i]

LEMMA PlacesOfRegion ==
  ASSUME NEW s \in Seq(Token), NEW t \in Seq(Token), NEW block \in Blocks
  PROVE  Surrounds(s, t, block, s \o Region(block) \o t, Len(s), Len(t))
<1> DEFINE next == s \o Region(block) \o t
<1>1. PICK r \in Seq(Token) : r = Region(block)
  <2>1. Region(block) \in Seq(Token)
    BY DEF Region, Token
  <2> QED
    BY <2>1
<1>2. /\ Len(r) = 6 /\ r[1] = "open" /\ r[2] = "nl" /\ r[3] = block
      /\ r[4] = "nl" /\ r[5] = "close" /\ r[6] = "nl"
  BY <1>1 DEF Region
<1>3. PICK head \in Seq(Token) : head = s \o r
  BY PlacesOfParts
<1>4. PICK n \in Nat : n = Len(s)
  OBVIOUS
<1> HIDE DEF next
<1>5. /\ Len(head) = n + 6
      /\ \A i \in 1..n : head[i] = s[i]
      /\ \A i \in 1..6 : head[n + i] = r[i]
  <2>1. /\ Len(s \o r) = Len(s) + Len(r)
        /\ \A i \in 1..Len(s) : (s \o r)[i] = s[i]
        /\ \A i \in 1..Len(r) : (s \o r)[Len(s) + i] = r[i]
    BY PlacesOfParts
  <2> QED
    BY <1>2, <1>3, <1>4, <2>1
<1>6. /\ next \in Seq(Token) /\ Len(next) = n + 6 + Len(t)
      /\ \A i \in 1..(n + 6) : next[i] = head[i]
      /\ \A i \in 1..Len(t) : next[n + 6 + i] = t[i]
  <2>1. /\ head \o t \in Seq(Token) /\ Len(head \o t) = Len(head) + Len(t)
        /\ \A i \in 1..Len(head) : (head \o t)[i] = head[i]
        /\ \A i \in 1..Len(t) : (head \o t)[Len(head) + i] = t[i]
    BY PlacesOfParts
  <2>2. next = head \o t
    BY <1>1, <1>3 DEF next
  <2> QED
    BY <1>5, <2>1, <2>2
<1>7. \A i \in 1..6 : next[n + i] = r[i]
  <2> SUFFICES ASSUME NEW i \in 1..6 PROVE next[n + i] = r[i]
    OBVIOUS
  <2>1. n + i \in 1..(n + 6)
    BY <1>4
  <2> QED
    BY <1>5, <1>6, <2>1
<1>8. \A i \in 1..n : next[i] = s[i]
  BY <1>4, <1>5, <1>6
<1>9. /\ next[n + 1] = r[1] /\ next[n + 2] = r[2] /\ next[n + 3] = r[3]
      /\ next[n + 4] = r[4] /\ next[n + 5] = r[5] /\ next[n + 6] = r[6]
  BY <1>7
<1>10. Surrounds(s, t, block, next, n, Len(t))
  BY <1>2, <1>6, <1>8, <1>9 DEF Surrounds
<1> QED
  BY <1>4, <1>10 DEF next

\* What a block that was written splits a text into.
LEMMA SplitsAtRegion ==
  ASSUME NEW s \in Seq(Token), NEW t \in Seq(Token), NEW block \in Blocks, NoFence(s),
         NEW next, next = s \o Region(block) \o t
  PROVE  HasBlock(next) /\ Before(next) = s /\ After(next) = t
<1>1. PICK n \in Nat : n = Len(s)
  OBVIOUS
<1>2. PICK m \in Nat : m = Len(t)
  OBVIOUS
<1>3. /\ next \in Seq(Token) /\ Len(next) = n + 6 + m
      /\ \A i \in 1..n : next[i] = s[i] /\ s[i] # "open" /\ s[i] # "close"
      /\ next[n + 1] = "open" /\ next[n + 2] = "nl" /\ next[n + 3] = block
      /\ next[n + 4] = "nl" /\ next[n + 5] = "close" /\ next[n + 6] = "nl"
      /\ \A i \in 1..m : next[n + 6 + i] = t[i]
  <2>1. \A i \in 1..n : s[i] # "open" /\ s[i] # "close"
    <3>1. DOMAIN s = 1..n
      BY <1>1
    <3> QED
      BY <3>1 DEF NoFence
  <2>2. Surrounds(s, t, block, next, n, m)
    BY <1>1, <1>2, PlacesOfRegion
  <2> QED
    BY <2>1, <2>2 DEF Surrounds
<1>4. block # "close"
  BY InstallAssumption
<1>5. IndexOf(next, "open") = n + 1
  <2>1. PICK k \in 1..Len(next) : k = n + 1
    BY <1>3
  <2>2. next[k] = "open" /\ \A j \in 1..(k - 1) : next[j] # "open"
    <3>1. k - 1 = n
      BY <2>1
    <3> QED
      BY <1>3, <2>1, <3>1
  <2>3. next \in Seq(Token)
    BY <1>3
  <2>4. IndexOf(next, "open") = k
    BY ONLY <2>2, <2>3, k \in 1..Len(next), IndexOfFirst
  <2> QED
    BY ONLY <2>1, <2>4
<1>6. IndexOf(next, "close") = n + 5
  <2>1. PICK k \in 1..Len(next) : k = n + 5
    BY <1>3
  <2>2. ASSUME NEW j \in 1..(k - 1) PROVE next[j] # "close"
    <3>1. j \in 1..n \/ j \in {n + 1, n + 2, n + 3, n + 4}
      BY <2>1
    <3> QED
      BY <1>3, <1>4, <3>1
  <2>3. next[k] = "close"
    BY <1>3, <2>1
  <2>4. next \in Seq(Token) /\ \A j \in 1..(k - 1) : next[j] # "close"
    BY <1>3, <2>2
  <2>5. IndexOf(next, "close") = k
    BY ONLY <2>3, <2>4, k \in 1..Len(next), IndexOfFirst
  <2> QED
    BY ONLY <2>1, <2>5
<1>7. HasBlock(next)
  BY <1>5, <1>6 DEF HasBlock
<1>8. Before(next) = s
  <2>1. Before(next) = SubSeq(next, 1, n)
    <3>1. (n + 1) - 1 = n
      OBVIOUS
    <3> QED
      BY <1>5, <3>1 DEF Before
  <2>2. \A i \in 1..Len(s) : next[0 + i] = s[i]
    BY <1>1, <1>3
  <2>3. 0 + Len(s) <= Len(next)
    BY <1>1, <1>3
  <2>4. SubSeq(next, 0 + 1, 0 + Len(s)) = s
    BY <1>3, <2>2, <2>3, PieceIs
  <2> QED
    BY <1>1, <2>1, <2>4
<1>9. After(next) = t
  <2>1. /\ IndexOf(next, "close") < Len(next)
        /\ next[IndexOf(next, "close") + 1] = "nl"
        /\ IndexOf(next, "close") + 1 = n + 6
    <3>1. (n + 5) + 1 = n + 6 /\ n + 5 < n + 6 + m
      OBVIOUS
    <3> QED
      BY <1>3, <1>6, <3>1
  <2>2. After(next) = SubSeq(next, (n + 6) + 1, Len(next))
    BY <2>1 DEF After
  <2>3. PICK k \in Nat : k = n + 6
    OBVIOUS
  <2>4. (\A i \in 1..Len(t) : next[k + i] = t[i]) /\ k + Len(t) <= Len(next) /\ Len(next) = k + Len(t)
    <3>1. k + m <= k + m
      BY <2>3
    <3> QED
      BY <1>2, <1>3, <2>3, <3>1
  <2>5. SubSeq(next, k + 1, k + Len(t)) = t
    BY <1>3, <2>4, PieceIs
  <2> QED
    BY <2>2, <2>3, <2>4, <2>5
<1> QED
  BY <1>7, <1>8, <1>9

-------------------------------------------------------------------------------
\* In a text whose fences are a pair, or that has none, nothing before the block
\* is a fence.
LEMMA FencedIs ==
  ASSUME NEW s \in Seq(Token), Fenced(s)
  PROVE  NoFence(s) \/ (HasBlock(s) /\ NoFence(Before(s)))
<1> DEFINE Places(token) == {i \in DOMAIN s : s[i] = token}
<1>1. \A token : IsFiniteSet(Places(token)) /\ Cardinality(Places(token)) \in Nat
  <2> SUFFICES ASSUME NEW token PROVE IsFiniteSet(Places(token)) /\ Cardinality(Places(token)) \in Nat
    OBVIOUS
  <2>1. IsFiniteSet(1..Len(s)) /\ Places(token) \subseteq 1..Len(s)
    BY FS_Interval
  <2>2. IsFiniteSet(Places(token))
    BY <2>1, FS_Subset
  <2> QED
    BY <2>2, FS_CardinalityType
<1>2. /\ Cardinality(Places("open")) = Cardinality(Places("close"))
      /\ Cardinality(Places("open")) <= 1
      /\ Cardinality(Places("open")) = 1 => HasBlock(s)
  BY DEF Fenced
<1> HIDE DEF Places
<1>3. CASE Cardinality(Places("open")) = 0
  <2>1. Places("open") = {} /\ Places("close") = {}
    BY <1>1, <1>2, <1>3, FS_EmptySet
  <2>2. NoFence(s)
    BY <2>1 DEF Places, NoFence
  <2> QED
    BY <2>2
<1>4. CASE Cardinality(Places("open")) = 1
  <2>1. HasBlock(s)
    BY <1>2, <1>4
  <2>2. PICK c : Places("close") = {c}
    BY <1>1, <1>2, <1>4, FS_Singleton
  <2>3. PICK o \in 1..Len(s) : /\ o = IndexOf(s, "open")
                               /\ \A j \in 1..(o - 1) : s[j] # "open"
    <3>1. DOMAIN s = 1..Len(s)
      OBVIOUS
    <3> QED
      BY <2>1, <3>1, IndexOfFinds DEF HasBlock
  <2>4. /\ IndexOf(s, "close") \in DOMAIN s /\ s[IndexOf(s, "close")] = "close"
        /\ IndexOf(s, "close") > o
    <3>1. IndexOf(s, "close") > o
      BY <2>1, <2>3 DEF HasBlock
    <3>2. IndexOf(s, "close") # 0
      BY <2>3, <3>1
    <3> QED
      BY <3>1, <3>2, IndexOfFinds
  <2>5. \A j \in 1..(o - 1) : s[j] # "close"
    <3> SUFFICES ASSUME NEW j \in 1..(o - 1), s[j] = "close" PROVE FALSE
      OBVIOUS
    <3>1. j \in DOMAIN s /\ j # IndexOf(s, "close")
      BY <2>3, <2>4
    <3>2. j \in Places("close") /\ IndexOf(s, "close") \in Places("close")
      BY <2>4, <3>1 DEF Places
    <3> QED
      BY <2>2, <3>1, <3>2
  <2>6. /\ Before(s) \in Seq(Token) /\ Len(Before(s)) = o - 1
        /\ \A j \in 1..(o - 1) : Before(s)[j] = s[j]
    <3>1. Before(s) = SubSeq(s, 1, o - 1)
      BY <2>3 DEF Before
    <3>2. \A j \in 1..(o - 1) : s[j] \in Token
      BY <2>3, ElementOfSeq
    <3>3. 1 \in Int /\ o - 1 \in Int /\ (IF 1 <= o - 1 THEN (o - 1) - 1 + 1 ELSE 0) = o - 1
      BY <2>3
    <3>4. 1..((o - 1) - 1 + 1) = 1..(o - 1) /\ \A j \in 1..(o - 1) : 1 + j - 1 = j
      BY <2>3
    <3> QED
      BY <3>1, <3>2, <3>3, <3>4, SubSeqProperties
  <2>7. NoFence(Before(s))
    <3>1. DOMAIN Before(s) = 1..(o - 1)
      BY <2>6
    <3> QED
      BY <2>3, <2>5, <2>6, <3>1 DEF NoFence
  <2> QED
    BY <2>1, <2>7
<1> QED
  BY <1>1, <1>2, <1>3, <1>4

LEMMA NoFenceNoBlock ==
  ASSUME NEW s \in Seq(Token), NoFence(s) PROVE ~HasBlock(s)
BY IndexOfFinds DEF NoFence, HasBlock

\* Line ends are no fences.
LEMMA NoFenceInEnds ==
  ASSUME NEW s \in Seq(Token), NoFence(s), NEW ends \in {<<>>, <<"nl">>, <<"nl", "nl">>}
  PROVE  s \o ends \in Seq(Token) /\ NoFence(s \o ends)
<1>1. ends \in Seq(Token) /\ \A i \in 1..Len(ends) : ends[i] = "nl"
  <2>1. <<>> \in Seq(Token) /\ <<"nl">> \in Seq(Token) /\ <<"nl", "nl">> \in Seq(Token)
    BY DEF Token
  <2>2. CASE ends = <<>>
    BY <2>1, <2>2
  <2>3. CASE ends = <<"nl">>
    <3>1. Len(ends) = 1 /\ ends[1] = "nl"
      BY <2>3
    <3> QED
      BY <2>1, <2>3, <3>1
  <2>4. CASE ends = <<"nl", "nl">>
    <3>1. Len(ends) = 2 /\ ends[1] = "nl" /\ ends[2] = "nl"
      BY <2>4
    <3> QED
      BY <2>1, <2>4, <3>1
  <2> QED
    BY <2>2, <2>3, <2>4
<1>2. /\ s \o ends \in Seq(Token) /\ Len(s \o ends) = Len(s) + Len(ends)
      /\ \A i \in 1..Len(s) : (s \o ends)[i] = s[i]
      /\ \A i \in 1..Len(ends) : (s \o ends)[Len(s) + i] = ends[i]
  BY <1>1, PlacesOfParts
<1>3. ASSUME NEW i \in DOMAIN (s \o ends)
      PROVE  (s \o ends)[i] # "open" /\ (s \o ends)[i] # "close"
  <2>1. CASE i \in 1..Len(s)
    <3>1. DOMAIN s = 1..Len(s)
      OBVIOUS
    <3> QED
      BY <1>2, <2>1, <3>1 DEF NoFence
  <2>2. CASE i \notin 1..Len(s)
    <3>1. i \in 1..(Len(s) + Len(ends)) /\ Len(s) \in Nat /\ Len(ends) \in Nat
      BY <1>1, <1>2
    <3>2. PICK k \in 1..Len(ends) : i = Len(s) + k
      <4>1. i - Len(s) \in 1..Len(ends) /\ i = Len(s) + (i - Len(s))
        BY <2>2, <3>1
      <4> QED
        BY <4>1
    <3> QED
      BY <1>1, <1>2, <3>2
  <2> QED
    BY <2>1, <2>2
<1> QED
  BY <1>2, <1>3 DEF NoFence

LEMMA EndsAreSuffix ==
  ASSUME NEW s \in Seq(Token)
  PROVE  IsSuffix(<<"nl", "nl">>, s \o <<"nl", "nl">>)
<1> DEFINE two == <<"nl", "nl">>
           b == s \o two
<1>1. two \in Seq(Token) /\ Len(two) = 2 /\ two[1] = "nl" /\ two[2] = "nl"
  BY DEF Token
<1>2. PICK n \in Nat : n = Len(s)
  OBVIOUS
<1>3. b \in Seq(Token) /\ Len(b) = n + 2 /\ b[n + 1] = "nl" /\ b[n + 2] = "nl"
  <2>1. /\ s \o two \in Seq(Token) /\ Len(s \o two) = Len(s) + Len(two)
        /\ \A i \in 1..Len(two) : (s \o two)[Len(s) + i] = two[i]
    BY <1>1, PlacesOfParts
  <2> QED
    BY <1>1, <1>2, <2>1
<1> HIDE DEF two, b
<1>4. /\ Reverse(two) = [i \in 1..2 |-> two[(2 - i) + 1]]
      /\ Reverse(b) = [i \in 1..(n + 2) |-> b[((n + 2) - i) + 1]]
  BY <1>1, <1>3 DEF Reverse
<1>5. /\ Reverse(two)[1] = "nl" /\ Reverse(two)[2] = "nl" /\ Len(Reverse(two)) = 2
      /\ Reverse(b)[1] = "nl" /\ Reverse(b)[2] = "nl" /\ Len(Reverse(b)) = n + 2
  <2>1. /\ 1 \in 1..2 /\ 2 \in 1..2 /\ (2 - 1) + 1 = 2 /\ (2 - 2) + 1 = 1
        /\ 1 \in 1..(n + 2) /\ 2 \in 1..(n + 2) /\ ((n + 2) - 1) + 1 = n + 2 /\ ((n + 2) - 2) + 1 = n + 1
    OBVIOUS
  <2> QED
    BY <1>1, <1>3, <1>4, <2>1
<1>6. /\ SubSeq(Reverse(two), 1, 2) \in Seq({"nl"}) /\ SubSeq(Reverse(b), 1, 2) \in Seq({"nl"})
      /\ Len(SubSeq(Reverse(two), 1, 2)) = 2 /\ Len(SubSeq(Reverse(b), 1, 2)) = 2
  <2>1. \A i \in 1..2 : Reverse(two)[i] \in {"nl"} /\ Reverse(b)[i] \in {"nl"}
    BY <1>5
  <2>2. 1 \in Int /\ 2 \in Int /\ (IF 1 <= 2 THEN 2 - 1 + 1 ELSE 0) = 2
    OBVIOUS
  <2>3. SubSeq(Reverse(two), 1, 2) \in Seq({"nl"}) /\ Len(SubSeq(Reverse(two), 1, 2)) = 2
    BY <2>1, <2>2, SubSeqProperties
  <2>4. SubSeq(Reverse(b), 1, 2) \in Seq({"nl"}) /\ Len(SubSeq(Reverse(b), 1, 2)) = 2
    BY <2>1, <2>2, SubSeqProperties
  <2> QED
    BY <2>3, <2>4
<1>7. \A i \in 1..2 : SubSeq(Reverse(two), 1, 2)[i] = SubSeq(Reverse(b), 1, 2)[i]
  <2>1. \A i \in 1..2 : SubSeq(Reverse(two), 1, 2)[i] \in {"nl"} /\ SubSeq(Reverse(b), 1, 2)[i] \in {"nl"}
    BY <1>6, ElementOfSeq
  <2> QED
    BY <2>1
<1>8. SubSeq(Reverse(two), 1, 2) = SubSeq(Reverse(b), 1, 2)
  BY <1>6, <1>7, SeqEqual
<1>9. 2 <= n + 2
  BY <1>2
<1> QED
  BY <1>5, <1>8, <1>9 DEF IsSuffix, IsPrefix, two, b

LEMMA FrontOfEnds ==
  ASSUME NEW s \in Seq(Token)
  PROVE  Front(s \o <<"nl">>) = s
<1>1. <<"nl">> \in Seq(Token) /\ Len(<<"nl">>) = 1
  BY DEF Token
<1>2. PICK t \in Seq(Token) : /\ t = s \o <<"nl">> /\ Len(t) = Len(s) + 1
                              /\ \A i \in 1..Len(s) : t[i] = s[i]
  BY <1>1, PlacesOfParts
<1>3. Len(t) - 1 = Len(s) /\ Len(s) \in Nat
  BY <1>2
<1>4. \A i \in 1..Len(s) : t[0 + i] = s[i]
  BY <1>2, <1>3
<1>5. SubSeq(t, 0 + 1, 0 + Len(s)) = s
  BY <1>2, <1>3, <1>4, PieceIs
<1> QED
  BY <1>2, <1>3, <1>5 DEF Front

LEMMA ApplyReplaces ==
  ASSUME NEW s \in Seq(Token), HasBlock(s), NEW block
  PROVE  ApplyLuaBlock(s, block) = Before(s) \o Region(block) \o After(s)
<1>1. s # <<>>
  <2>1. CASE s = <<>>
    <3>1. IndexOf(s, "open") = 0
      BY <2>1 DEF IndexOf
    <3> QED
      BY <3>1 DEF HasBlock
  <2> QED
    BY <2>1
<1> QED
  BY <1>1 DEF ApplyLuaBlock

\* Applying a block to a text, again to the outcome, and removing it.
LEMMA ApplyKeepsOutside ==
  ASSUME NEW s \in Seq(Token), Fenced(s), NEW block \in Blocks,
         NEW next, next = ApplyLuaBlock(s, block)
  PROVE  /\ ApplyLuaBlock(next, block) = next
         /\ \E ends \in {<<>>, <<"nl">>, <<"nl", "nl">>} : Outside(next) = Outside(s) \o ends
         /\ ~HasBlock(s) => RemoveLuaBlock(next) \in {s, s \o <<"nl">>}
<1>1. CASE HasBlock(s)
  <2>1. NoFence(Before(s)) /\ Before(s) \in Seq(Token) /\ After(s) \in Seq(Token)
    BY <1>1, FencedIs, NoFenceNoBlock, PartsOfBlock
  <2>2. PICK r \in Seq(Token), u \in Seq(Token), v \in Seq(Token) :
          r = Region(block) /\ u = Before(s) /\ v = After(s)
    <3>1. Region(block) \in Seq(Token)
      BY DEF Region, Token
    <3> QED
      BY <2>1, <3>1
  <2>3. next = u \o r \o v
    BY <1>1, <2>2, ApplyReplaces
  <2>4. next \in Seq(Token)
    BY <2>2, <2>3, PlacesOfParts
  <2>5. HasBlock(next) /\ Before(next) = u /\ After(next) = v
    <3>1. NoFence(u) /\ next = u \o Region(block) \o v
      BY <2>1, <2>2, <2>3
    <3> QED
      BY <3>1, SplitsAtRegion
  <2>6. ApplyLuaBlock(next, block) = next
    BY <2>2, <2>3, <2>4, <2>5, ApplyReplaces
  <2>7. Outside(next) = Outside(s) \o <<>>
    <3>1. Before(s) \o After(s) \in Seq(Token)
      BY <2>1, PlacesOfParts
    <3>2. Outside(s) = Before(s) \o After(s) /\ Outside(next) = Outside(s)
      BY <1>1, <2>2, <2>5 DEF Outside
    <3>3. \A t \in Seq(Token) : t \o <<>> = t
      OBVIOUS
    <3> QED
      BY <3>1, <3>2, <3>3
  <2> QED
    BY <1>1, <2>6, <2>7
<1>2. CASE ~HasBlock(s)
  <2> DEFINE ends == IF s = <<>> THEN <<>> ELSE IF Last(s) = "nl" THEN <<"nl">> ELSE <<"nl", "nl">>
             before == s \o ends
  <2>1. NoFence(s) /\ ends \in {<<>>, <<"nl">>, <<"nl", "nl">>} /\ <<>> \in Seq(Token)
    BY <1>2, FencedIs
  <2>2. before \in Seq(Token) /\ NoFence(before)
    BY <2>1, NoFenceInEnds
  <2>3. next = before \o Region(block) \o <<>>
    <3>1. PICK r \in Seq(Token) : r = Region(block)
      <4>1. Region(block) \in Seq(Token)
        BY DEF Region, Token
      <4> QED
        BY <4>1
    <3>2. next = before \o r
      <4>1. CASE s = <<>>
        BY <1>2, <3>1, <4>1 DEF ApplyLuaBlock
      <4>2. CASE s # <<>>
        BY <1>2, <3>1, <4>2 DEF ApplyLuaBlock
      <4> QED
        BY <4>1, <4>2
    <3>3. before \o r \in Seq(Token)
      BY <2>2, <3>1, PlacesOfParts
    <3>4. \A u \in Seq(Token) : u \o <<>> = u
      OBVIOUS
    <3> QED
      BY <3>1, <3>2, <3>3, <3>4
  <2> HIDE DEF before
  <2>4. HasBlock(next) /\ Before(next) = before /\ After(next) = <<>>
    BY <2>1, <2>2, <2>3, SplitsAtRegion
  <2>5. ApplyLuaBlock(next, block) = next
    <3>1. PICK r : r = Region(block)
      OBVIOUS
    <3>2. next = before \o r \o <<>>
      BY <2>3, <3>1
    <3>3. next \in Seq(Token)
      BY TextsStayTexts
    <3> QED
      BY <2>4, <3>1, <3>2, <3>3, ApplyReplaces
  <2>6. \A u \in Seq(Token) : u \o <<>> = u
    OBVIOUS
  <2>7. Outside(next) = Outside(s) \o ends
    BY <1>2, <2>2, <2>4, <2>6 DEF Outside, before
  <2>8. RemoveLuaBlock(next) = IF IsSuffix(<<"nl", "nl">>, before) THEN Front(before) ELSE before
    <3>1. RemoveLuaBlock(next) =
            (IF IsSuffix(<<"nl", "nl">>, before) THEN Front(before) ELSE before) \o <<>>
      BY <2>4 DEF RemoveLuaBlock
    <3>2. Front(before) \in Seq(Token)
      BY <2>2, SubTextIsText DEF Front
    <3> QED
      BY <2>2, <2>6, <3>1, <3>2
  <2>9. RemoveLuaBlock(next) \in {s, s \o <<"nl">>}
    <3>1. CASE s = <<>>
      <4>1. before = <<>>
        BY <3>1 DEF before
      <4>2. ~IsSuffix(<<"nl", "nl">>, <<>>)
        BY DEF IsSuffix, IsPrefix, Reverse
      <4> QED
        BY <2>8, <3>1, <4>1, <4>2
    <3>2. CASE s # <<>> /\ Last(s) = "nl"
      <4>1. before = s \o <<"nl">>
        BY <3>2 DEF before
      <4>2. Front(before) = s
        BY <4>1, FrontOfEnds
      <4> QED
        BY <2>8, <4>1, <4>2
    <3>3. CASE s # <<>> /\ Last(s) # "nl"
      <4>1. before = s \o <<"nl", "nl">>
        BY <3>3 DEF before
      <4>2. PICK t \in Seq(Token) : t = s \o <<"nl">>
        <5>1. <<"nl">> \in Seq(Token)
          BY DEF Token
        <5> QED
          BY <5>1, PlacesOfParts
      <4>3. before = t \o <<"nl">>
        BY <4>1, <4>2
      <4>4. Front(before) = t
        BY <4>3, FrontOfEnds
      <4>5. IsSuffix(<<"nl", "nl">>, before)
        BY <4>1, EndsAreSuffix
      <4> QED
        BY <2>8, <4>2, <4>4, <4>5
    <3> QED
      BY <3>1, <3>2, <3>3
  <2> QED
    BY <2>1, <2>5, <2>7, <2>9
<1> QED
  BY <1>1, <1>2

-------------------------------------------------------------------------------
\* What an edit of the user does to the lines of the file.
LEMMA TypeLineAdds ==
  ASSUME NEW line \in UserLines, InstallTypeOK, TypeLine(line)
  PROVE  config' \in Seq(Token) /\ LinesIn(config') = LinesIn(config) \cup {line}
<1> DEFINE text == IF config = Nothing THEN <<>> ELSE config
<1>1. text \in Seq(Token) /\ LinesIn(text) = LinesIn(config)
  <2>1. <<>> \in Seq(Token) /\ LinesIn(<<>>) = {}
    BY DEF LinesIn
  <2> QED
    BY <2>1 DEF InstallTypeOK, Texts, LinesIn
<1>2. PICK i \in 0..Len(text), end \in {<<>>, <<"nl">>} :
        config' = SubSeq(text, 1, i) \o <<line>> \o end \o SubSeq(text, i + 1, Len(text))
  BY DEF TypeLine
<1> HIDE DEF text
<1> DEFINE front == SubSeq(text, 1, i)
           back == SubSeq(text, i + 1, Len(text))
<1>3. front \in Seq(Token) /\ back \in Seq(Token) /\ text = front \o back
  BY <1>1, SplitText
<1>4. /\ <<line>> \in Seq(Token) /\ LinesIn(<<line>>) = {line}
      /\ end \in Seq(Token) /\ LinesIn(end) = {}
  <2>1. <<line>> \in Seq(Token) /\ <<>> \in Seq(Token) /\ <<"nl">> \in Seq(Token)
    BY DEF Token
  <2>2. Nothing \notin {<<line>>, <<>>, <<"nl">>} /\ "nl" \notin UserLines
    BY <2>1, InstallAssumption
  <2>3. LinesIn(<<line>>) = {line} /\ LinesIn(<<>>) = {} /\ LinesIn(<<"nl">>) = {}
    BY <2>2 DEF LinesIn
  <2> QED
    BY <2>1, <2>3
<1> HIDE DEF front, back
<1>5. /\ front \o <<line>> \in Seq(Token)
      /\ LinesIn(front \o <<line>>) = LinesIn(front) \cup {line}
  BY <1>3, <1>4, LinesOfParts
<1>6. /\ front \o <<line>> \o end \in Seq(Token)
      /\ LinesIn(front \o <<line>> \o end) = LinesIn(front) \cup {line}
  BY <1>4, <1>5, LinesOfParts
<1>7. /\ front \o <<line>> \o end \o back \in Seq(Token)
      /\ LinesIn(front \o <<line>> \o end \o back) = LinesIn(front) \cup {line} \cup LinesIn(back)
  BY <1>3, <1>6, LinesOfParts
<1>8. LinesIn(text) = LinesIn(front) \cup LinesIn(back)
  BY <1>3, LinesOfParts
<1> QED
  BY <1>1, <1>2, <1>7, <1>8 DEF front, back

LEMMA DeletePieceRemoves ==
  ASSUME InstallTypeOK, DeletePiece
  PROVE  /\ config' \in Seq(Token)
         /\ LinesIn(config') \subseteq LinesIn(config)
         /\ written' \cap LinesIn(config) \subseteq LinesIn(config')
         /\ written' \subseteq written
<1>1. config \in Seq(Token)
  BY DEF DeletePiece, InstallTypeOK, Texts
<1>2. PICK i \in DOMAIN config :
        /\ config' = SubSeq(config, 1, i - 1) \o SubSeq(config, i + 1, Len(config))
        /\ written' = written \ {config[i]}
  BY DEF DeletePiece, RemoveAt
<1> DEFINE front == SubSeq(config, 1, i - 1)
           back == SubSeq(config, i + 1, Len(config))
<1>3. i \in 1..Len(config) /\ Len(config) \in Nat /\ config[i] \in Token
  BY <1>1, <1>2, ElementOfSeq
<1>4. /\ front \in Seq(Token) /\ back \in Seq(Token)
      /\ config = front \o (<<config[i]>> \o back)
  <2>1. front \in Seq(Token) /\ SubSeq(config, i, Len(config)) \in Seq(Token)
        /\ config = front \o SubSeq(config, i, Len(config))
    <3>1. i - 1 \in 0..Len(config) /\ (i - 1) + 1 = i
      BY <1>3
    <3> QED
      BY <1>1, <3>1, SplitText
  <2>2. SubSeq(config, i, Len(config)) = <<config[i]>> \o back
    <3>1. Len(config) \in i..Len(config)
      BY <1>3
    <3> QED
      BY <1>1, <1>3, <3>1, SubSeqRecursiveFirst
  <2>3. back \in Seq(Token)
    <3>1. i \in 0..Len(config)
      BY <1>3
    <3> QED
      BY <1>1, <3>1, SplitText
  <2> QED
    BY <2>1, <2>2, <2>3
<1> DEFINE piece == <<config[i]>>
<1>5. piece \in Seq(Token) /\ LinesIn(piece) \subseteq {config[i]}
  <2>1. piece \in Seq(Token)
    BY <1>3
  <2> QED
    BY <2>1 DEF LinesIn
<1> HIDE DEF front, back, piece
<1>6. LinesIn(config) = LinesIn(front) \cup (LinesIn(piece) \cup LinesIn(back))
  <2>1. piece \o back \in Seq(Token) /\ LinesIn(piece \o back) = LinesIn(piece) \cup LinesIn(back)
    BY <1>4, <1>5, LinesOfParts
  <2>2. LinesIn(front \o (piece \o back)) = LinesIn(front) \cup LinesIn(piece \o back)
    BY <1>4, <2>1, LinesOfParts
  <2> QED
    BY <1>4, <2>1, <2>2 DEF piece
<1>7. front \o back \in Seq(Token) /\ LinesIn(front \o back) = LinesIn(front) \cup LinesIn(back)
  BY <1>4, LinesOfParts
<1> QED
  BY <1>2, <1>5, <1>6, <1>7 DEF front, back

-------------------------------------------------------------------------------
LEMMA InstallInvInit == InstallInit => InstallInv
<1> SUFFICES ASSUME InstallInit PROVE InstallInv
  OBVIOUS
<1>1. InstallTypeOK
  <2>1. config \in Texts /\ backups \in [0..MaxSecond -> Texts] /\ second \in 0..MaxSecond
    <3>1. <<>> \in Seq(Token)
      OBVIOUS
    <3> QED
      BY <3>1, InstallAssumption DEF InstallInit, Texts
  <2>2. install = NoInstall /\ Nothing \in Texts /\ <<>> \in Seq(Token)
    BY DEF InstallInit, Texts
  <2>3. install.at = "none" /\ install.next = <<>>
    BY <2>2 DEF NoInstall
  <2>4. install \in [at : {"none", "backup", "stage", "write", "rename"},
                    read : Texts, next : Seq(Token)]
    BY <2>2 DEF NoInstall
  <2> QED
    BY <2>1, <2>2, <2>3, <2>4 DEF InstallTypeOK
<1>2. NoLineLost /\ BackupCovers
  BY DEF InstallInit, NoLineLost, BackupCovers, NoInstall
<1> QED
  BY <1>1, <1>2 DEF InstallInv

LEMMA TypeLineKeeps ==
  ASSUME InstallInv, NEW line \in UserLines, TypeLine(line) PROVE InstallInv'
<1>1. config' \in Seq(Token) /\ LinesIn(config') = LinesIn(config) \cup {line}
  BY TypeLineAdds DEF InstallInv
<1>2. UNCHANGED <<staged, backups, second, install, exposed>>
  BY DEF TypeLine
<1>3. written' = written \cup {line} /\ unsaved' = unsaved \cup {line}
  BY DEF TypeLine
<1>4. InstallTypeOK'
  BY <1>1, <1>2 DEF InstallInv, InstallTypeOK, Texts
<1>5. BackedUp' = BackedUp
  BY <1>2 DEF BackedUp
<1>6. NoLineLost' /\ BackupCovers'
  BY <1>1, <1>2, <1>3, <1>5 DEF InstallInv, NoLineLost, BackupCovers
<1> QED
  BY <1>4, <1>6 DEF InstallInv

LEMMA DeletePieceKeeps ==
  ASSUME InstallInv, DeletePiece PROVE InstallInv'
<1>1. /\ config' \in Seq(Token) /\ LinesIn(config') \subseteq LinesIn(config)
      /\ written' \cap LinesIn(config) \subseteq LinesIn(config') /\ written' \subseteq written
  BY DeletePieceRemoves DEF InstallInv
<1>2. UNCHANGED <<staged, backups, second, install, unsaved, exposed>>
  BY DEF DeletePiece
<1>3. InstallTypeOK'
  BY <1>1, <1>2 DEF InstallInv, InstallTypeOK, Texts
<1>4. BackedUp' = BackedUp
  BY <1>2 DEF BackedUp
<1>5. NoLineLost' /\ BackupCovers'
  BY <1>1, <1>2, <1>4 DEF InstallInv, NoLineLost, BackupCovers
<1> QED
  BY <1>3, <1>5 DEF InstallInv

LEMMA ReadConfigKeeps ==
  ASSUME InstallInv, ReadConfig PROVE InstallInv'
<1> DEFINE current == IF config = Nothing THEN <<>> ELSE config
<1>1. PICK next \in {RemoveLuaBlock(current)} \cup {ApplyLuaBlock(current, b) : b \in Blocks} :
        install' = [at |-> IF config = Nothing THEN "stage" ELSE "backup",
                    read |-> config, next |-> next]
  BY DEF ReadConfig
<1>2. current \in Seq(Token)
  BY DEF InstallInv, InstallTypeOK, Texts
<1>3. next \in Seq(Token)
  BY <1>1, <1>2, TextsStayTexts
<1>4. UNCHANGED <<config, staged, backups, second, exposed, written>>
  BY DEF ReadConfig, userVars
<1>5. InstallTypeOK'
  <2>1. /\ install'.at \in {"backup", "stage"} /\ install'.next = next
        /\ install' \in [at : {"none", "backup", "stage", "write", "rename"},
                         read : Texts, next : Seq(Token)]
    BY <1>1, <1>3 DEF InstallInv, InstallTypeOK
  <2> QED
    BY <1>3, <1>4, <2>1 DEF InstallInv, InstallTypeOK
<1>6. BackedUp' = BackedUp
  BY <1>4 DEF BackedUp
<1>7. NoLineLost'
  BY <1>4, <1>6 DEF InstallInv, NoLineLost
<1>8. BackupCovers'
  BY <1>1, <1>4 DEF BackupCovers, LinesIn
<1> QED
  BY <1>5, <1>7, <1>8 DEF InstallInv

\* A backup that is overwritten: what it alone held is noted.
LEMMA WriteBackupKeeps ==
  ASSUME InstallInv, WriteBackup PROVE InstallInv'
<1>1. /\ config \in Seq(Token) /\ second \in 0..MaxSecond
      /\ backups \in [0..MaxSecond -> Texts] /\ backups' = [backups EXCEPT ![second] = config]
  BY DEF WriteBackup, InstallInv, InstallTypeOK, Texts
<1>2. /\ exposed' = exposed \cup (LinesIn(backups[second]) \ LinesIn(config))
      /\ UNCHANGED <<config, staged, second, written>>
      /\ install' = [install EXCEPT !.at = "stage"]
  BY DEF WriteBackup, userVars
<1>3. InstallTypeOK'
  <2>1. install' \in [at : {"none", "backup", "stage", "write", "rename"},
                      read : Texts, next : Seq(Token)] /\ install'.at = "stage"
    BY <1>2 DEF InstallInv, InstallTypeOK
  <2>2. backups' \in [0..MaxSecond -> Texts]
    BY <1>1 DEF Texts
  <2> QED
    BY <1>1, <1>2, <2>1, <2>2 DEF InstallInv, InstallTypeOK
<1>4. BackedUp \subseteq BackedUp' \cup LinesIn(backups[second])
  <2>1. \A s \in 0..MaxSecond : s # second => backups'[s] = backups[s]
    BY <1>1
  <2> QED
    BY <2>1 DEF BackedUp
<1>5. LinesIn(config) \subseteq BackedUp'
  <2>1. backups'[second] = config
    BY <1>1
  <2> QED
    BY <1>1, <2>1 DEF BackedUp
<1>6. NoLineLost'
  BY <1>2, <1>4, <1>5 DEF InstallInv, NoLineLost
<1>7. BackupCovers'
  BY <1>2, <1>5 DEF BackupCovers
<1> QED
  BY <1>3, <1>6, <1>7 DEF InstallInv

\* The only step that overwrites the file.
LEMMA RenameStagedKeeps ==
  ASSUME InstallInv, RenameStaged PROVE InstallInv'
<1>1. /\ install.at = "rename" /\ config' = staged /\ staged \in Seq(Token)
      /\ exposed' = exposed \cup (unsaved \ LinesIn(staged))
      /\ UNCHANGED <<backups, second, written>> /\ install' = NoInstall
  BY DEF RenameStaged, InstallInv, InstallTypeOK, userVars
<1>2. InstallTypeOK'
  BY <1>1 DEF InstallInv, InstallTypeOK, NoInstall, Texts
<1>3. BackedUp' = BackedUp
  BY <1>1 DEF BackedUp
<1>4. LinesIn(config) \subseteq BackedUp \cup unsaved
  BY <1>1 DEF InstallInv, BackupCovers
<1>5. NoLineLost'
  BY <1>1, <1>3, <1>4 DEF InstallInv, NoLineLost
<1>6. BackupCovers'
  BY <1>1 DEF BackupCovers, NoInstall
<1> QED
  BY <1>2, <1>5, <1>6 DEF InstallInv

\* A run that ends early may leave a part of its backup.
LEMMA InstallEndsKeeps ==
  ASSUME InstallInv, InstallFails \/ InstallKilled PROVE InstallInv'
<1>1. UNCHANGED <<config, second, written>> /\ install' = NoInstall
  BY DEF InstallFails, InstallKilled, userVars
<1>2. BackupCovers'
  BY <1>1 DEF BackupCovers, NoInstall
<1>3. CASE UNCHANGED <<backups, exposed>>
  <2>1. InstallTypeOK'
    BY <1>1, <1>3 DEF InstallInv, InstallTypeOK, NoInstall, Texts
  <2>2. NoLineLost'
    BY <1>1, <1>3 DEF InstallInv, NoLineLost, BackedUp
  <2> QED
    BY <1>2, <2>1, <2>2 DEF InstallInv
<1>4. CASE BackupBreaksOff
  <2>1. PICK n \in 0..Len(config) :
          /\ backups' = [backups EXCEPT ![second] = SubSeq(config, 1, n)]
          /\ exposed' = exposed \cup (LinesIn(backups[second]) \ LinesIn(SubSeq(config, 1, n)))
    BY <1>4 DEF BackupBreaksOff
  <2> DEFINE part == SubSeq(config, 1, n)
  <2>2. config \in Seq(Token) /\ second \in 0..MaxSecond /\ backups \in [0..MaxSecond -> Texts]
    BY <1>4 DEF BackupBreaksOff, InstallInv, InstallTypeOK, Texts
  <2>3. part \in Seq(Token)
    BY <2>2
  <2>4. backups' = [backups EXCEPT ![second] = part]
        /\ exposed' = exposed \cup (LinesIn(backups[second]) \ LinesIn(part))
    BY <2>1
  <2> HIDE DEF part
  <2>5. backups' \in [0..MaxSecond -> Texts]
    BY <2>2, <2>3, <2>4 DEF Texts
  <2>6. InstallTypeOK'
    BY <1>1, <2>5 DEF InstallInv, InstallTypeOK, NoInstall, Texts
  <2>7. BackedUp \subseteq BackedUp' \cup LinesIn(backups[second])
    <3>1. \A s \in 0..MaxSecond : s # second => backups'[s] = backups[s]
      BY <2>2, <2>4
    <3> QED
      BY <3>1 DEF BackedUp
  <2>8. LinesIn(part) \subseteq BackedUp'
    <3>1. backups'[second] = part
      BY <2>2, <2>4
    <3> QED
      BY <2>2, <3>1 DEF BackedUp, LinesIn
  <2>9. NoLineLost'
    BY <1>1, <2>4, <2>7, <2>8 DEF InstallInv, NoLineLost
  <2> QED
    BY <1>2, <2>6, <2>9 DEF InstallInv
<1> QED
  BY <1>3, <1>4 DEF InstallFails, InstallKilled

\* The other steps leave the file, the backups and the lines alone.
LEMMA StagingKeeps ==
  ASSUME InstallInv, StageOpens \/ StageWritten
  PROVE  InstallInv'
<1>1. UNCHANGED <<config, backups, second, written, unsaved, exposed>>
  BY DEF StageOpens, StageWritten, userVars
<1>2. InstallTypeOK' /\ BackupCovers'
  <2>1. CASE StageOpens
    BY <1>1, <2>1 DEF StageOpens, InstallInv, InstallTypeOK, BackupCovers, BackedUp
  <2>2. CASE StageWritten
    BY <1>1, <2>2 DEF StageWritten, InstallInv, InstallTypeOK, BackupCovers, BackedUp
  <2> QED
    BY <2>1, <2>2
<1>3. NoLineLost'
  BY <1>1 DEF InstallInv, NoLineLost, BackedUp
<1> QED
  BY <1>2, <1>3 DEF InstallInv

LEMMA InstallInvStep == InstallInv /\ [InstallNext]_installVars => InstallInv'
<1> SUFFICES ASSUME InstallInv, [InstallNext]_installVars PROVE InstallInv'
  OBVIOUS
<1>1. CASE TimePasses
  <2>1. UNCHANGED <<config, staged, backups, install, written, unsaved, exposed>>
        /\ second' \in 0..MaxSecond
    BY <1>1, InstallAssumption DEF TimePasses, userVars, InstallInv, InstallTypeOK
  <2> QED
    BY <2>1 DEF InstallInv, InstallTypeOK, NoLineLost, BackupCovers, BackedUp
<1>2. CASE DeletePiece
  BY <1>2, DeletePieceKeeps
<1>3. CASE \E line \in UserLines : TypeLine(line)
  BY <1>3, TypeLineKeeps
<1>4. CASE ReadConfig
  BY <1>4, ReadConfigKeeps
<1>5. CASE WriteBackup
  BY <1>5, WriteBackupKeeps
<1>6. CASE RenameStaged
  BY <1>6, RenameStagedKeeps
<1>7. CASE StageOpens \/ StageWritten
  BY <1>7, StagingKeeps
<1>8. CASE InstallFails \/ InstallKilled
  BY <1>8, InstallEndsKeeps
<1>9. CASE UNCHANGED installVars
  BY <1>9 DEF installVars, userVars, InstallInv, InstallTypeOK, NoLineLost, BackupCovers, BackedUp
<1> QED
  BY <1>1, <1>2, <1>3, <1>4, <1>5, <1>6, <1>7, <1>8, <1>9 DEF InstallNext

LEMMA RegionIsOwned == InstallTypeOK => OwnsOneRegion
<1> SUFFICES ASSUME InstallTypeOK, config # Nothing, Fenced(config), NEW block \in Blocks,
                    NEW next, next = ApplyLuaBlock(config, block)
             PROVE  /\ ApplyLuaBlock(next, block) = next
                    /\ \E ends \in {<<>>, <<"nl">>, <<"nl", "nl">>} : Outside(next) = Outside(config) \o ends
                    /\ ~HasBlock(config) => RemoveLuaBlock(next) \in {config, config \o <<"nl">>}
  BY DEF OwnsOneRegion
<1>1. config \in Seq(Token)
  BY DEF InstallTypeOK, Texts
<1> QED
  BY <1>1, ApplyKeepsOutside

\* Both promises of the installer, for any lines, blocks, runs, edits and times. A
\* line that the user has typed and not removed is in the file or in a
\* backup, unless it was typed between a backup and the rename of its run, or
\* its backup was overwritten within the second (orchestrator.ts:234-288,
\* backup.ts:21-35). And the block is all that belongs to the installer
\* (managed_block.ts:10-15).
THEOREM InstallStaysSafe == InstallSpec => []InstallIsSafe
<1>1. InstallInv => InstallIsSafe
  BY RegionIsOwned DEF InstallInv, InstallIsSafe
<1> QED
  BY <1>1, InstallInvInit, InstallInvStep, PTL DEF InstallSpec

-------------------------------------------------------------------------------
(***************************************************************************)
(* NoneLeftAtWork holds for any number of processes.  The group of a run   *)
(* that was killed stays empty, because only its members can put a process *)
(* in it; and a stream that is closed stays closed, because only a process *)
(* that has it open can hand it on.                                        *)
(***************************************************************************)

\* After the group was killed it has no member left.
KilledGroup ==
  runAt = "late" \/ (runAt \in {"reap", "ended"} /\ ending # "exited")
    => alive \cap inGroup = {}

\* The step and the end of the run agree.
EndFits ==
  /\ runAt = "off" => closed = {}
  /\ runAt \in {"killing", "reap"} => ending \in {"cancelled", "timedOut"}
  /\ runAt \in {"grace", "late"} => ending = "exited"

\* A reader that came to the end of its stream was right, and stays right.
ClosedStaysClosed == \A stream \in closed : \A p \in alive : stream \notin holds[p]

\* Of a run that ended by itself: no member of the group holds a stream.
NoHolder ==
  runAt = "ended" /\ ending = "exited" => \A p \in alive \cap inGroup : holds[p] = {}

RunInv == AssistantTypeOK /\ KilledGroup /\ EndFits /\ ClosedStaysClosed /\ NoHolder

\* What a process does in the group of a run and to its streams: a new one is
\* of the group only if the one that started it is, and it gets no stream that
\* this one has not.
LEMMA ForkInherits ==
  ASSUME NEW p \in Processes, NEW q \in Processes, RunInv, Fork(p, q)
  PROVE  RunInv'
<1> USE DEF RunInv
<1>1. AssistantTypeOK'
  <2>1. PICK kept \in SUBSET holds[p] : holds' = [holds EXCEPT ![q] = kept]
    BY DEF Fork
  <2>2. holds[p] \subseteq Streams
    BY DEF AssistantTypeOK
  <2>3. holds' \in [Processes -> SUBSET Streams]
    BY <2>1, <2>2 DEF AssistantTypeOK
  <2> QED
    BY <2>3 DEF AssistantTypeOK, Fork, runVars
<1>2. KilledGroup'
  BY DEF Fork, KilledGroup, AssistantTypeOK, runVars
<1>3. EndFits'
  BY DEF Fork, EndFits, runVars
<1>4. /\ q \notin alive /\ q \notin inGroup
      /\ alive' = alive \cup {q}
      /\ \A r \in alive : holds'[r] = holds[r]
      /\ holds'[q] \subseteq holds[p]
      /\ p \in alive
  BY DEF Fork, AssistantTypeOK
<1>5. ClosedStaysClosed'
  BY <1>4 DEF ClosedStaysClosed, Fork, runVars
<1>6. NoHolder'
  BY <1>4 DEF NoHolder, Fork, runVars
<1> QED
  BY <1>1, <1>2, <1>3, <1>5, <1>6

LEMMA RunInvHolds == AssistantSpec => []RunInv
<1>1. RunInit => RunInv
  BY DEF RunInit, RunInv, AssistantTypeOK, KilledGroup, EndFits, ClosedStaysClosed, NoHolder,
         Processes, Streams
<1>2. RunInv /\ [AssistantNext]_assistantVars => RunInv'
  <2> SUFFICES ASSUME RunInv, [AssistantNext]_assistantVars PROVE RunInv'
    OBVIOUS
  <2> USE DEF RunInv, KilledGroup, EndFits, ClosedStaysClosed, NoHolder
  <2>1. CASE Spawn
    <3>1. holds' \in [Processes -> SUBSET Streams]
      BY <2>1 DEF Spawn, AssistantTypeOK
    <3> QED
      BY <2>1, <3>1 DEF Spawn, AssistantTypeOK, Processes
  <2>2. CASE CancelRun
    BY <2>2 DEF CancelRun, AssistantTypeOK, runVars, processVars
  <2>3. CASE ShellStep
    <3>1. CASE PollExited
      BY <3>1 DEF PollExited, Step, AssistantTypeOK, processVars
    <3>2. CASE PollCancelled
      BY <3>2 DEF PollCancelled, Step, AssistantTypeOK, processVars
    <3>3. CASE PollTimedOut
      BY <3>3 DEF PollTimedOut, Step, AssistantTypeOK, processVars
    <3>4. CASE KillAll
      BY <3>4 DEF KillAll, KillGroup, Step, AssistantTypeOK
    <3>5. CASE Reap
      BY <3>5 DEF Reap, Step, AssistantTypeOK, processVars
    <3>6. CASE OutputComplete
      <4>1. \A p \in alive : holds[p] = {}
        BY <3>6 DEF OutputComplete, AssistantTypeOK, Streams, Processes
      <4> QED
        BY <3>6, <4>1 DEF OutputComplete, Step, AssistantTypeOK, processVars
    <3>7. CASE GraceEnds
      BY <3>7 DEF GraceEnds, KillGroup, Step, AssistantTypeOK
    <3>8. CASE LateEnds
      BY <3>8 DEF LateEnds, Step, AssistantTypeOK, processVars
    <3> QED
      BY <2>3, <3>1, <3>2, <3>3, <3>4, <3>5, <3>6, <3>7, <3>8 DEF ShellStep
  <2>4. CASE \E p, q \in Processes : Fork(p, q)
    BY <2>4, ForkInherits
  <2>5. ASSUME NEW p \in Processes, LeaveGroup(p) PROVE RunInv'
    BY <2>5 DEF LeaveGroup, AssistantTypeOK, runVars
  <2>6. ASSUME NEW p \in Processes, Exit(p) PROVE RunInv'
    BY <2>6 DEF Exit, AssistantTypeOK, runVars
  <2>7. ASSUME NEW stream \in Streams, StreamCloses(stream) PROVE RunInv'
    BY <2>7 DEF StreamCloses, Open, AssistantTypeOK, processVars
  <2>8. CASE UNCHANGED assistantVars
    BY <2>8 DEF assistantVars, runVars, processVars, AssistantTypeOK
  <2> QED
    BY <2>1, <2>2, <2>3, <2>4, <2>5, <2>6, <2>7, <2>8 DEF AssistantNext
<1> QED
  BY <1>1, <1>2, PTL DEF AssistantSpec

\* Whatever the processes of a run start, leave or hold: when the run has
\* ended, nothing of its group works on, or holds its output.
THEOREM RunsLeaveNothing == AssistantSpec => []NoneLeftAtWork
<1>1. RunInv => NoneLeftAtWork
  BY DEF RunInv, KilledGroup, NoHolder, NoneLeftAtWork
<1> QED
  BY <1>1, RunInvHolds, PTL

-------------------------------------------------------------------------------
(***************************************************************************)
(* SettingsHold: the settings of MarkDesk, for any assistants and any      *)
(* number of choices, Tests and detections.  Three things are followed on  *)
(* their way: what the last Test proved, from its end to the store and     *)
(* back to the web view (Proved, Telling); the one detection there is, if  *)
(* none is late (Detections); and the last choice, of which each of the    *)
(* author, the store, the call and the web view has one (LastChoices).     *)
(***************************************************************************)
Over(c) == c.at \in {"done", "failed"}

\* The shell takes the calls in their order.
CallsInOrder ==
  \A n \in DOMAIN calls : calls[n].at # "sent" => \A m \in 1..(n - 1) : Over(calls[m])

CallsFit ==
  \A n \in DOMAIN calls :
    /\ calls[n].kind = "get" => calls[n].at # "loaded"
    /\ calls[n].kind = "set" => calls[n].sent \in Settings /\ calls[n].change \in Changes
    /\ calls[n].at = "loaded" \/ (calls[n].kind = "get" /\ calls[n].at = "done") =>
         calls[n].copy \in Settings

\* There is at most one get: that of the window, or that of a Test.
TestFits ==
  /\ test # NoTest => shown # Unread
  /\ shown = Unread => calls # <<>> /\ \A n \in DOMAIN calls : calls[n].kind = "get"
  /\ shown # Unread => \A n \in DOMAIN calls : calls[n].kind = "get" => test.at = "reread"
  /\ \A n, m \in DOMAIN calls : calls[n].kind = "get" /\ calls[m].kind = "get" => n = m
  /\ test.at = "reread" => \E n \in DOMAIN calls : calls[n].kind = "get"
  /\ test.at \in {"reread", "recheck"} => test.id = Copilot

\* A Test of Copilot has one detection of its own, when it is nearly done with.
OwnDetection ==
  \A d, e \in rechecks : d.by = "test" => test.at = "recheck" /\ (e.by = "test" => d = e)

\* Between a load and its save nobody else has saved.
Copies ==
  /\ \A n \in DOMAIN calls : calls[n].at = "loaded" => calls[n].copy = stored
  /\ test.at = "loaded" => test.copy = stored

Proved ==
  author.confirmed =
    IF test.at \in {"ran", "loaded"} /\ test.id = Copilot
    THEN ConfirmedAfter(stored.confirmed, test.end) ELSE stored.confirmed

\* What a Test of Copilot proved is stored, and the web view has not read it.
Telling == test.at \in {"ended", "reread"} /\ test.id = Copilot

Detections ==
  /\ \A d, e \in rechecks : d = e
  /\ test.at = "recheck" => \E d \in rechecks : d.by = "test"
  /\ ~Telling =>
       /\ \A d \in rechecks : d.at = "probing" => d.confirmed = stored.confirmed
       /\ rechecks = {} /\ ready # Unread => ready = stored.confirmed

SameChoice(s, t) == s.selected = t.selected /\ s.dismissed = t.dismissed

Pending(c) == c.kind = "set" /\ ~Over(c)

\* A change that is on its way is the author's, and will be that of the web view;
\* until it is saved, the store has what the web view shows, and so has a get before
\* it.
LastChoices ==
  /\ \A n, m \in DOMAIN calls : calls[n].kind = "set" /\ calls[m].kind = "set" => n = m
  /\ shown # Unread /\ (\A n \in DOMAIN calls : calls[n].kind = "set" => calls[n].at = "failed") =>
       SameChoice(shown, author)
  /\ \A n \in DOMAIN calls : calls[n].kind = "set" /\ calls[n].at # "failed" =>
       SameChoice(author, calls[n].sent) /\ SameChoice(calls[n].sent, Change(shown, calls[n].change))
  /\ (\E n \in DOMAIN calls : Pending(calls[n])) => SameChoice(stored, shown)
  /\ (\A n \in DOMAIN calls : ~Pending(calls[n])) => SameChoice(stored, author)
  /\ \A n \in DOMAIN calls : calls[n].kind = "get" /\ calls[n].at = "done" =>
       /\ (\E m \in DOMAIN calls : m > n /\ calls[m].kind = "set") => SameChoice(calls[n].copy, shown)
       /\ (\A m \in DOMAIN calls : m > n => calls[m].kind # "set") => SameChoice(calls[n].copy, author)

Screen ==
  /\ \A n \in DOMAIN calls : calls[n].kind = "get" => calls[n].at # "failed"
  /\ shown # Unread /\ ~Telling => shown.confirmed = stored.confirmed
  /\ \A n \in DOMAIN calls : calls[n].kind = "get" /\ calls[n].at = "done" =>
       calls[n].copy.confirmed = stored.confirmed

CallsOK == SettingsTypeOK /\ CallsInOrder /\ CallsFit /\ TestFits /\ OwnDetection

SettingsInv ==
  /\ CallsOK
  /\ "overlapped" \notin spoilt =>
       /\ Copies /\ Proved
       /\ "late" \notin spoilt => Detections
       /\ {"crossed", "halfway", "unread"} \cap spoilt = {} => LastChoices /\ Screen

-------------------------------------------------------------------------------
(***************************************************************************)
(* Settings and calls as values.                                           *)
(***************************************************************************)
LEMMA SettingsAre ==
  ASSUME NEW s, s \in Settings
  PROVE  /\ s.selected \in Assistants \cup {Nobody} /\ s.dismissed \in BOOLEAN /\ s.confirmed \in BOOLEAN
         /\ \A b \in BOOLEAN : /\ [s EXCEPT !.confirmed = b] \in Settings
                               /\ [s EXCEPT !.confirmed = b].confirmed = b
                               /\ [s EXCEPT !.confirmed = b].selected = s.selected
                               /\ [s EXCEPT !.confirmed = b].dismissed = s.dismissed
BY DEF Settings

LEMMA SettingsEqual ==
  ASSUME NEW s \in Settings, NEW t \in Settings, SameChoice(s, t), s.confirmed = t.confirmed
  PROVE  s = t
BY DEF Settings, SameChoice

LEMMA ChangeIs ==
  ASSUME NEW s \in Settings, NEW c \in Changes
  PROVE  /\ Change(s, c) \in Settings /\ Change(s, c).confirmed = s.confirmed
         /\ \A t \in Settings : SameChoice(s, t) => SameChoice(Change(s, c), Change(t, c))
<1>1. CASE \E x \in Assistants \cup {Nobody} : c = [field |-> "selected", value |-> x]
  <2>1. PICK x \in Assistants \cup {Nobody} : c = [field |-> "selected", value |-> x]
    BY <1>1
  <2>2. c.field = "selected" /\ c.value = x
    BY <2>1
  <2>3. \A t \in Settings :
          /\ Change(t, c) = [t EXCEPT !.selected = x] /\ Change(t, c) \in Settings
          /\ Change(t, c).confirmed = t.confirmed /\ Change(t, c).dismissed = t.dismissed
          /\ Change(t, c).selected = x
    BY <2>2 DEF Change, Settings
  <2> QED
    BY <2>3 DEF SameChoice
<1>2. CASE c = [field |-> "dismissed", value |-> TRUE]
  <2>1. c.field = "dismissed" /\ c.value = TRUE
    BY <1>2
  <2>2. \A t \in Settings :
          /\ Change(t, c) = [t EXCEPT !.dismissed = TRUE] /\ Change(t, c) \in Settings
          /\ Change(t, c).confirmed = t.confirmed /\ Change(t, c).dismissed = TRUE
          /\ Change(t, c).selected = t.selected
    BY <2>1 DEF Change, Settings
  <2> QED
    BY <2>2 DEF SameChoice
<1> QED
  BY <1>1, <1>2 DEF Changes

LEMMA GetIsCall ==
  Get \in Call /\ Get.kind = "get" /\ Get.at = "sent"
BY DEF Get, Call

LEMMA CallFields ==
  ASSUME NEW c \in Call
  PROVE  /\ c.kind \in {"get", "set"} /\ c.at \in {"sent", "loaded", "done", "failed"}
         /\ c.change \in Changes \cup {Unread} /\ c.sent \in Settings \cup {Unread}
         /\ c.copy \in Settings \cup {Unread}
BY DEF Call

\* A call with another place, and another copy, is the call it was.
MovedTo(c, at) == [c EXCEPT !.at = at]
CopiedTo(c, copy, at) == [c EXCEPT !.copy = copy, !.at = at]

LEMMA CallMoved ==
  ASSUME NEW c \in Call, NEW at \in {"sent", "loaded", "done", "failed"}
  PROVE  /\ MovedTo(c, at) \in Call
         /\ MovedTo(c, at) = [kind |-> c.kind, change |-> c.change, sent |-> c.sent,
                              at |-> at, copy |-> c.copy]
<1>1. c = [kind |-> c.kind, change |-> c.change, sent |-> c.sent, at |-> c.at, copy |-> c.copy]
  BY DEF Call
<1>2. [c EXCEPT !.at = at] = [kind |-> c.kind, change |-> c.change, sent |-> c.sent,
                              at |-> at, copy |-> c.copy]
  BY <1>1
<1>3. [kind |-> c.kind, change |-> c.change, sent |-> c.sent, at |-> at, copy |-> c.copy] \in Call
  BY CallFields DEF Call
<1> QED
  BY <1>2, <1>3 DEF MovedTo

LEMMA CallCopied ==
  ASSUME NEW c \in Call, NEW at \in {"sent", "loaded", "done", "failed"}, NEW copy \in Settings
  PROVE  /\ CopiedTo(c, copy, at) \in Call
         /\ CopiedTo(c, copy, at) = [kind |-> c.kind, change |-> c.change, sent |-> c.sent,
                                     at |-> at, copy |-> copy]
<1> DEFINE d == [c EXCEPT !.copy = copy]
<1>1. c = [kind |-> c.kind, change |-> c.change, sent |-> c.sent, at |-> c.at, copy |-> c.copy]
  BY DEF Call
<1>2. d = [kind |-> c.kind, change |-> c.change, sent |-> c.sent, at |-> c.at, copy |-> copy]
  BY <1>1
<1>3. CopiedTo(c, copy, at) = [d EXCEPT !.at = at]
  BY DEF CopiedTo
<1> HIDE DEF d
<1>4. [d EXCEPT !.at = at] =
        [kind |-> c.kind, change |-> c.change, sent |-> c.sent, at |-> at, copy |-> copy]
  BY <1>2
<1>5. [kind |-> c.kind, change |-> c.change, sent |-> c.sent, at |-> at, copy |-> copy] \in Call
  BY CallFields DEF Call
<1> QED
  BY <1>3, <1>4, <1>5

\* The calls after one was added, moved or taken.
LEMMA Added ==
  ASSUME calls \in Seq(Call), NEW c \in Call, calls' = Append(calls, c)
  PROVE  /\ calls' \in Seq(Call) /\ Len(calls) \in Nat
         /\ DOMAIN calls = 1..Len(calls) /\ DOMAIN calls' = 1..(Len(calls) + 1)
         /\ \A n \in DOMAIN calls : calls'[n] = calls[n]
         /\ calls'[Len(calls) + 1] = c
OBVIOUS

LEMMA Moved ==
  ASSUME calls \in Seq(Call), NEW n \in DOMAIN calls, NEW c \in Call, calls' = [calls EXCEPT ![n] = c]
  PROVE  /\ calls' \in Seq(Call) /\ DOMAIN calls' = DOMAIN calls /\ calls'[n] = c
         /\ DOMAIN calls = 1..Len(calls) /\ Len(calls) \in Nat
         /\ \A m \in DOMAIN calls : m # n => calls'[m] = calls[m]
OBVIOUS

LEMMA Taken ==
  ASSUME calls \in Seq(Call), calls # <<>>, calls' = Tail(calls)
  PROVE  /\ calls' \in Seq(Call) /\ Len(calls) \in Nat \ {0}
         /\ Head(calls) = calls[1]
         /\ DOMAIN calls = 1..Len(calls) /\ DOMAIN calls' = 1..(Len(calls) - 1)
         /\ \A n \in DOMAIN calls' : calls'[n] = calls[n + 1]
OBVIOUS

\* What a step of the Test or of a detection leaves of the calls.
LEMMA CallsStay ==
  ASSUME CallsOK, UNCHANGED <<calls, shown>>, SettingsTypeOK',
         test' # NoTest => shown # Unread,
         test'.at = "reread" <=> test.at = "reread",
         test'.at \in {"reread", "recheck"} => test'.id = Copilot,
         OwnDetection'
  PROVE  CallsOK'
BY DEF CallsOK, CallsInOrder, CallsFit, TestFits, Over

LEMMA CallsStayInTest ==
  ASSUME CallsOK, UNCHANGED <<calls, shown, rechecks>>, SettingsTypeOK',
         shown # Unread, test.at \notin {"reread", "recheck"}, test'.at \notin {"reread", "recheck"}
  PROVE  CallsOK'
<1>1. OwnDetection'
  BY DEF CallsOK, OwnDetection
<1> QED
  BY <1>1, CallsStay

LEMMA ChoicesStay ==
  ASSUME LastChoices, UNCHANGED <<calls, shown>>, SameChoice(stored', stored), SameChoice(author', author)
  PROVE  LastChoices'
BY DEF LastChoices, SameChoice, Pending, Over

LEMMA ScreenStays ==
  ASSUME Screen, UNCHANGED <<calls, shown>>, stored'.confirmed = stored.confirmed, Telling => Telling'
  PROVE  Screen'
BY DEF Screen

\* A Test is idle, or it has its fields.
LEMMA TestIs ==
  ASSUME SettingsTypeOK
  PROVE  /\ test = NoTest <=> test.at = "idle"
         /\ test # NoTest => test \in
              [at : {"running", "ran", "loaded", "ended", "reread", "recheck"},
               id : Assistants, copy : Settings, end : Outcomes]
BY DEF SettingsTypeOK, NoTest

-------------------------------------------------------------------------------
(***************************************************************************)
(* The steps of the Test and of the detections.                            *)
(***************************************************************************)
LEMMA RunTestKeeps ==
  ASSUME SettingsInv, RunTest PROVE SettingsInv'
<1>1. /\ UNCHANGED <<stored, shown, calls, rechecks, ready, author, spoilt>>
      /\ shown # Unread /\ shown.selected # Nobody /\ test = NoTest /\ left' \in 0..MaxTurns
      /\ test' = [at |-> "running", id |-> shown.selected, copy |-> stored, end |-> "other"]
  BY SettingsAssumption DEF RunTest, Turn, SettingsInv, CallsOK, SettingsTypeOK
<1>2. test'.at = "running" /\ test.at = "idle"
  BY <1>1 DEF NoTest
<1>3. SettingsTypeOK'
  <2>1. shown.selected \in Assistants /\ stored \in Settings
    BY <1>1, SettingsAre DEF SettingsInv, CallsOK, SettingsTypeOK
  <2>2. test' \in [at : {"running", "ran", "loaded", "ended", "reread", "recheck"},
                   id : Assistants, copy : Settings, end : Outcomes]
    BY <1>1, <2>1 DEF Outcomes
  <2> QED
    BY <1>1, <2>2 DEF SettingsInv, CallsOK, SettingsTypeOK
<1>4. CallsOK'
  BY <1>1, <1>2, <1>3, CallsStayInTest DEF SettingsInv
<1>5. "overlapped" \notin spoilt => Copies' /\ Proved'
  BY <1>1, <1>2 DEF SettingsInv, Copies, Proved
<1>6. "overlapped" \notin spoilt /\ "late" \notin spoilt => Detections'
  BY <1>1, <1>2 DEF SettingsInv, Detections, Telling
<1>7. "overlapped" \notin spoilt /\ {"crossed", "halfway", "unread"} \cap spoilt = {} => LastChoices' /\ Screen'
  <2>1. SameChoice(stored', stored) /\ SameChoice(author', author) /\ ~Telling
    BY <1>1, <1>2 DEF SameChoice, Telling
  <2> QED
    BY <1>1, <2>1, ChoicesStay, ScreenStays DEF SettingsInv
<1> QED
  BY <1>1, <1>4, <1>5, <1>6, <1>7 DEF SettingsInv

LEMMA EndRunKeeps ==
  ASSUME SettingsInv, EndRun PROVE SettingsInv'
<1>1. PICK end \in Outcomes :
        /\ test.at = "running" /\ test' = [test EXCEPT !.at = "ran", !.end = end]
        /\ author' = IF test.id # Copilot THEN author
                     ELSE [author EXCEPT !.confirmed = ConfirmedAfter(@, end)]
        /\ UNCHANGED <<stored, shown, calls, rechecks, ready, left, spoilt>>
  BY DEF EndRun
<1>2. /\ test \in [at : {"running", "ran", "loaded", "ended", "reread", "recheck"},
                   id : Assistants, copy : Settings, end : Outcomes]
      /\ author \in Settings
  BY <1>1, TestIs DEF SettingsInv, CallsOK, SettingsTypeOK, NoTest
<1>3. /\ test'.at = "ran" /\ test'.id = test.id /\ test'.end = end
      /\ test' \in [at : {"running", "ran", "loaded", "ended", "reread", "recheck"},
                    id : Assistants, copy : Settings, end : Outcomes]
  BY <1>1, <1>2
<1>4. /\ author' \in Settings /\ SameChoice(author', author)
      /\ author'.confirmed = IF test.id = Copilot THEN ConfirmedAfter(author.confirmed, end)
                             ELSE author.confirmed
  <2>1. ConfirmedAfter(author.confirmed, end) \in BOOLEAN
    BY <1>2, SettingsAre DEF ConfirmedAfter
  <2> QED
    BY <1>1, <1>2, <2>1, SettingsAre DEF SameChoice
<1>5. SettingsTypeOK'
  BY <1>1, <1>3, <1>4 DEF SettingsInv, CallsOK, SettingsTypeOK
<1>6. CallsOK'
  <2>1. test # NoTest /\ shown # Unread
    BY <1>1 DEF SettingsInv, CallsOK, TestFits, NoTest
  <2> QED
    BY <1>1, <1>3, <1>5, <2>1, CallsStayInTest DEF SettingsInv
<1>7. "overlapped" \notin spoilt => Copies' /\ Proved'
  BY <1>1, <1>3, <1>4 DEF SettingsInv, Copies, Proved
<1>8. "overlapped" \notin spoilt /\ "late" \notin spoilt => Detections'
  BY <1>1, <1>3 DEF SettingsInv, Detections, Telling
<1>9. "overlapped" \notin spoilt /\ {"crossed", "halfway", "unread"} \cap spoilt = {} => LastChoices' /\ Screen'
  <2>1. SameChoice(stored', stored) /\ ~Telling
    BY <1>1 DEF SameChoice, Telling
  <2> QED
    BY <1>1, <1>4, <2>1, ChoicesStay, ScreenStays DEF SettingsInv
<1> QED
  BY <1>1, <1>6, <1>7, <1>8, <1>9 DEF SettingsInv

LEMMA RefuseTestKeeps ==
  ASSUME SettingsInv, RefuseTest PROVE SettingsInv'
<1>1. /\ test.at = "running" /\ test' = [test EXCEPT !.at = "ended"]
      /\ UNCHANGED <<stored, shown, calls, rechecks, ready, author, left, spoilt>>
  BY DEF RefuseTest
<1>2. test \in [at : {"running", "ran", "loaded", "ended", "reread", "recheck"},
                id : Assistants, copy : Settings, end : Outcomes]
  BY <1>1, TestIs DEF SettingsInv, CallsOK, SettingsTypeOK, NoTest
<1>3. /\ test'.at = "ended" /\ test'.id = test.id
      /\ test' \in [at : {"running", "ran", "loaded", "ended", "reread", "recheck"},
                    id : Assistants, copy : Settings, end : Outcomes]
  BY <1>1, <1>2
<1>5. SettingsTypeOK'
  BY <1>1, <1>3 DEF SettingsInv, CallsOK, SettingsTypeOK
<1>6. CallsOK'
  <2>1. test # NoTest /\ shown # Unread
    BY <1>1 DEF SettingsInv, CallsOK, TestFits, NoTest
  <2> QED
    BY <1>1, <1>3, <1>5, <2>1, CallsStayInTest DEF SettingsInv
<1>7. "overlapped" \notin spoilt => Copies' /\ Proved'
  BY <1>1, <1>3 DEF SettingsInv, Copies, Proved
<1>8. "overlapped" \notin spoilt /\ "late" \notin spoilt => Detections'
  BY <1>1, <1>3 DEF SettingsInv, Detections, Telling
<1>9. "overlapped" \notin spoilt /\ {"crossed", "halfway", "unread"} \cap spoilt = {} => LastChoices' /\ Screen'
  <2>1. SameChoice(stored', stored) /\ SameChoice(author', author) /\ ~Telling
    BY <1>1 DEF SameChoice, Telling
  <2> QED
    BY <1>1, <2>1, ChoicesStay, ScreenStays DEF SettingsInv
<1> QED
  BY <1>1, <1>6, <1>7, <1>8, <1>9 DEF SettingsInv

LEMMA LoadAfterTestKeeps ==
  ASSUME SettingsInv, LoadAfterTest PROVE SettingsInv'
<1>1. /\ test.at = "ran" /\ test' = [test EXCEPT !.at = "loaded", !.copy = stored]
      /\ UNCHANGED <<stored, shown, calls, rechecks, ready, author, left, spoilt>>
  BY DEF LoadAfterTest
<1>2. /\ test \in [at : {"running", "ran", "loaded", "ended", "reread", "recheck"},
                   id : Assistants, copy : Settings, end : Outcomes]
      /\ stored \in Settings
  BY <1>1, TestIs DEF SettingsInv, CallsOK, SettingsTypeOK, NoTest
<1>3. /\ test'.at = "loaded" /\ test'.id = test.id /\ test'.end = test.end /\ test'.copy = stored
      /\ test' \in [at : {"running", "ran", "loaded", "ended", "reread", "recheck"},
                    id : Assistants, copy : Settings, end : Outcomes]
  BY <1>1, <1>2
<1>5. SettingsTypeOK'
  BY <1>1, <1>3 DEF SettingsInv, CallsOK, SettingsTypeOK
<1>6. CallsOK'
  <2>1. test # NoTest /\ shown # Unread
    BY <1>1 DEF SettingsInv, CallsOK, TestFits, NoTest
  <2> QED
    BY <1>1, <1>3, <1>5, <2>1, CallsStayInTest DEF SettingsInv
<1>7. "overlapped" \notin spoilt => Copies' /\ Proved'
  BY <1>1, <1>3 DEF SettingsInv, Copies, Proved
<1>8. "overlapped" \notin spoilt /\ "late" \notin spoilt => Detections'
  BY <1>1, <1>3 DEF SettingsInv, Detections, Telling
<1>9. "overlapped" \notin spoilt /\ {"crossed", "halfway", "unread"} \cap spoilt = {} => LastChoices' /\ Screen'
  <2>1. SameChoice(stored', stored) /\ SameChoice(author', author) /\ ~Telling
    BY <1>1 DEF SameChoice, Telling
  <2> QED
    BY <1>1, <2>1, ChoicesStay, ScreenStays DEF SettingsInv
<1> QED
  BY <1>1, <1>6, <1>7, <1>8, <1>9 DEF SettingsInv

\* The only step that changes what the store says is confirmed.
LEMMA SaveAfterTestKeeps ==
  ASSUME SettingsInv, SaveAfterTest PROVE SettingsInv'
<1>1. /\ test.at = "loaded" /\ test' = [test EXCEPT !.at = "ended"]
      /\ UNCHANGED <<shown, calls, rechecks, ready, author, left>>
      /\ \/ SettingsAfterTest = test.copy /\ UNCHANGED <<stored, spoilt>>
         \/ /\ SettingsAfterTest # test.copy /\ stored' = SettingsAfterTest
            /\ Spoil("overlapped", \E n \in DOMAIN calls : calls[n].at = "loaded")
  BY DEF SaveAfterTest
<1>2. test \in [at : {"running", "ran", "loaded", "ended", "reread", "recheck"},
                id : Assistants, copy : Settings, end : Outcomes]
  BY <1>1, TestIs DEF SettingsInv, CallsOK, SettingsTypeOK, NoTest
<1>3. /\ test'.at = "ended" /\ test'.id = test.id
      /\ test' \in [at : {"running", "ran", "loaded", "ended", "reread", "recheck"},
                    id : Assistants, copy : Settings, end : Outcomes]
  BY <1>1, <1>2
<1>4. /\ SettingsAfterTest \in Settings /\ SameChoice(SettingsAfterTest, test.copy)
      /\ test.id # Copilot => SettingsAfterTest = test.copy
      /\ test.id = Copilot => SettingsAfterTest.confirmed = ConfirmedAfter(test.copy.confirmed, test.end)
  <2>1. test.copy \in Settings /\ ConfirmedAfter(test.copy.confirmed, test.end) \in BOOLEAN
    BY <1>2, SettingsAre DEF ConfirmedAfter
  <2> QED
    BY <2>1, SettingsAre DEF SettingsAfterTest, SameChoice
<1>5. spoilt \subseteq spoilt' /\ spoilt' \subseteq spoilt \cup {"overlapped"}
  BY <1>1 DEF Spoil
<1>6. SettingsTypeOK'
  BY <1>1, <1>3, <1>4, <1>5 DEF SettingsInv, CallsOK, SettingsTypeOK
<1>7. CallsOK'
  <2>1. test # NoTest /\ shown # Unread
    BY <1>1 DEF SettingsInv, CallsOK, TestFits, NoTest
  <2> QED
    BY <1>1, <1>3, <1>6, <2>1, CallsStayInTest DEF SettingsInv
<1>8. ASSUME "overlapped" \notin spoilt'
      PROVE  /\ "overlapped" \notin spoilt /\ SameChoice(stored', stored)
             /\ stored'.confirmed = IF test.id = Copilot THEN ConfirmedAfter(stored.confirmed, test.end)
                                    ELSE stored.confirmed
             /\ test.id # Copilot => stored' = stored
             /\ \A n \in DOMAIN calls : calls[n].at = "loaded" => stored' = stored
  <2>1. "overlapped" \notin spoilt /\ test.copy = stored
    BY <1>1, <1>5, <1>8 DEF SettingsInv, Copies
  <2>2. CASE SettingsAfterTest = test.copy /\ UNCHANGED <<stored, spoilt>>
    BY <1>4, <2>1, <2>2 DEF SameChoice
  <2>3. CASE SettingsAfterTest # test.copy
    <3>1. stored' = SettingsAfterTest /\ ~\E n \in DOMAIN calls : calls[n].at = "loaded"
      BY <1>1, <1>8, <2>3 DEF Spoil
    <3> QED
      BY <1>4, <2>1, <2>3, <3>1
  <2> QED
    BY <1>1, <2>2, <2>3
<1>9. "overlapped" \notin spoilt' => Copies' /\ Proved'
  BY <1>1, <1>3, <1>8 DEF SettingsInv, Copies, Proved
<1>10. "overlapped" \notin spoilt' /\ "late" \notin spoilt' => Detections'
  BY <1>1, <1>3, <1>5, <1>8 DEF SettingsInv, Detections, Telling
<1>11. "overlapped" \notin spoilt' /\ {"crossed", "halfway", "unread"} \cap spoilt' = {} => LastChoices' /\ Screen'
  <2> SUFFICES ASSUME "overlapped" \notin spoilt', {"crossed", "halfway", "unread"} \cap spoilt' = {}
               PROVE  LastChoices' /\ Screen'
    OBVIOUS
  <2>1. LastChoices /\ Screen
    BY <1>5, <1>8 DEF SettingsInv
  <2>2. LastChoices'
    BY <1>1, <1>8, <2>1, ChoicesStay DEF SameChoice
  <2>3. Screen'
    <3>1. CASE test.id = Copilot
      <4>1. Telling' /\ shown # Unread /\ test.at # "reread"
        BY <1>1, <1>3, <3>1 DEF Telling, SettingsInv, CallsOK, TestFits, NoTest
      <4>2. \A n \in DOMAIN calls : calls[n].kind # "get"
        BY <4>1 DEF SettingsInv, CallsOK, TestFits
      <4> QED
        BY <1>1, <4>1, <4>2 DEF Screen
    <3>2. CASE test.id # Copilot
      <4>1. ~Telling
        BY <3>2 DEF Telling
      <4> QED
        BY <1>1, <1>8, <2>1, <3>2, <4>1, ScreenStays
    <3> QED
      BY <3>1, <3>2
  <2> QED
    BY <2>2, <2>3
<1> QED
  BY <1>7, <1>9, <1>10, <1>11 DEF SettingsInv

LEMMA SavingAfterTestFailsKeeps ==
  ASSUME SettingsInv, SavingAfterTestFails PROVE SettingsInv'
<1>1. /\ test.at \in {"ran", "loaded"} /\ test' = [test EXCEPT !.at = "ended"] /\ left' \in 0..MaxTurns
      /\ author' = [author EXCEPT !.confirmed = stored.confirmed]
      /\ UNCHANGED <<stored, shown, calls, rechecks, ready, spoilt>>
  BY SettingsAssumption DEF SavingAfterTestFails, Turn, SettingsInv, CallsOK, SettingsTypeOK
<1>2. /\ test \in [at : {"running", "ran", "loaded", "ended", "reread", "recheck"},
                   id : Assistants, copy : Settings, end : Outcomes]
      /\ author \in Settings /\ stored \in Settings
  BY <1>1, TestIs DEF SettingsInv, CallsOK, SettingsTypeOK, NoTest
<1>3. /\ test'.at = "ended" /\ test'.id = test.id
      /\ test' \in [at : {"running", "ran", "loaded", "ended", "reread", "recheck"},
                    id : Assistants, copy : Settings, end : Outcomes]
  BY <1>1, <1>2
<1>4. author' \in Settings /\ SameChoice(author', author) /\ author'.confirmed = stored.confirmed
  BY <1>1, <1>2, SettingsAre DEF SameChoice
<1>5. SettingsTypeOK'
  BY <1>1, <1>3, <1>4 DEF SettingsInv, CallsOK, SettingsTypeOK
<1>6. CallsOK'
  <2>1. test # NoTest /\ shown # Unread
    BY <1>1 DEF SettingsInv, CallsOK, TestFits, NoTest
  <2> QED
    BY <1>1, <1>3, <1>5, <2>1, CallsStayInTest DEF SettingsInv
<1>7. "overlapped" \notin spoilt => Copies' /\ Proved'
  BY <1>1, <1>3, <1>4 DEF SettingsInv, Copies, Proved
<1>8. "overlapped" \notin spoilt /\ "late" \notin spoilt => Detections'
  BY <1>1, <1>3 DEF SettingsInv, Detections, Telling
<1>9. "overlapped" \notin spoilt /\ {"crossed", "halfway", "unread"} \cap spoilt = {} => LastChoices' /\ Screen'
  <2>1. SameChoice(stored', stored) /\ ~Telling
    BY <1>1 DEF SameChoice, Telling
  <2> QED
    BY <1>1, <1>4, <2>1, ChoicesStay, ScreenStays DEF SettingsInv
<1> QED
  BY <1>1, <1>6, <1>7, <1>8, <1>9 DEF SettingsInv

LEMMA RecheckKeeps ==
  ASSUME SettingsInv, Recheck PROVE SettingsInv'
<1> DEFINE d == Detection("author", left)
<1>1. /\ left' \in 0..MaxTurns /\ rechecks' = rechecks \cup {d}
      /\ Spoil("late", rechecks # {})
      /\ UNCHANGED <<stored, shown, calls, test, ready, author>>
  BY SettingsAssumption DEF Recheck, Turn, SettingsInv, CallsOK, SettingsTypeOK
<1>2. /\ d \in [by : {"mount", "author", "test"}, number : 0..MaxTurns,
                at : {"sent", "probing"}, confirmed : BOOLEAN]
      /\ d.by = "author" /\ d.at = "sent"
  BY DEF Detection, SettingsInv, CallsOK, SettingsTypeOK
<1> HIDE DEF d
<1>3. spoilt \subseteq spoilt' /\ spoilt' \subseteq spoilt \cup {"late"}
  BY <1>1 DEF Spoil
<1>4. SettingsTypeOK'
  BY <1>1, <1>2, <1>3 DEF SettingsInv, CallsOK, SettingsTypeOK
<1>5. CallsOK'
  <2>1. OwnDetection'
    BY <1>1, <1>2 DEF SettingsInv, CallsOK, OwnDetection
  <2> QED
    BY <1>1, <1>4, <2>1, CallsStay DEF SettingsInv, CallsOK, TestFits
<1>6. "overlapped" \notin spoilt' => Copies' /\ Proved'
  BY <1>1, <1>3 DEF SettingsInv, Copies, Proved
<1>7. "overlapped" \notin spoilt' /\ "late" \notin spoilt' => Detections'
  <2> SUFFICES ASSUME "overlapped" \notin spoilt', "late" \notin spoilt' PROVE Detections'
    OBVIOUS
  <2>1. Detections /\ rechecks = {}
    BY <1>1, <1>3 DEF Spoil, SettingsInv
  <2>2. rechecks' = {d} /\ test.at # "recheck"
    BY <1>1, <2>1 DEF Detections
  <2> QED
    BY <1>1, <1>2, <2>2 DEF Detections, Telling
<1>8. "overlapped" \notin spoilt' /\ {"crossed", "halfway", "unread"} \cap spoilt' = {} => LastChoices' /\ Screen'
  <2>1. SameChoice(stored', stored) /\ SameChoice(author', author) /\ (Telling => Telling')
    BY <1>1 DEF SameChoice, Telling
  <2> QED
    BY <1>1, <1>3, <2>1, ChoicesStay, ScreenStays DEF SettingsInv
<1> QED
  BY <1>5, <1>6, <1>7, <1>8 DEF SettingsInv

\* A detection is one of those there are.
LEMMA DetectionIs ==
  ASSUME SettingsTypeOK, NEW d \in rechecks, NEW c \in BOOLEAN
  PROVE  /\ d \in [by : {"mount", "author", "test"}, number : 0..MaxTurns,
                   at : {"sent", "probing"}, confirmed : BOOLEAN]
         /\ [d EXCEPT !.at = "probing", !.confirmed = c] =
              [by |-> d.by, number |-> d.number, at |-> "probing", confirmed |-> c]
<1>1. d \in [by : {"mount", "author", "test"}, number : 0..MaxTurns,
             at : {"sent", "probing"}, confirmed : BOOLEAN]
  BY DEF SettingsTypeOK
<1>2. d = [by |-> d.by, number |-> d.number, at |-> d.at, confirmed |-> d.confirmed]
  BY <1>1
<1> DEFINE e == [d EXCEPT !.at = "probing"]
<1>3. e = [by |-> d.by, number |-> d.number, at |-> "probing", confirmed |-> d.confirmed]
  BY <1>2
<1> HIDE DEF e
<1>4. [e EXCEPT !.confirmed = c] = [by |-> d.by, number |-> d.number, at |-> "probing", confirmed |-> c]
  BY <1>3
<1> QED
  BY <1>1, <1>4 DEF e

LEMMA LoadForDetectionKeeps ==
  ASSUME SettingsInv, NEW d \in rechecks, LoadForDetection(d) PROVE SettingsInv'
<1> DEFINE e == [d EXCEPT !.at = "probing", !.confirmed = stored.confirmed]
<1>1. /\ rechecks' = (rechecks \ {d}) \cup {e}
      /\ UNCHANGED <<stored, shown, calls, test, ready, author, left, spoilt>>
  BY DEF LoadForDetection
<1>2. stored.confirmed \in BOOLEAN
  BY SettingsAre DEF SettingsInv, CallsOK, SettingsTypeOK
<1>3. /\ e \in [by : {"mount", "author", "test"}, number : 0..MaxTurns,
                at : {"sent", "probing"}, confirmed : BOOLEAN]
      /\ e.by = d.by /\ e.confirmed = stored.confirmed
  BY <1>2, DetectionIs DEF SettingsInv, CallsOK
<1> HIDE DEF e
<1>4. SettingsTypeOK'
  BY <1>1, <1>3 DEF SettingsInv, CallsOK, SettingsTypeOK
<1>5. CallsOK'
  <2>1. OwnDetection'
    BY <1>1, <1>3 DEF SettingsInv, CallsOK, OwnDetection
  <2> QED
    BY <1>1, <1>4, <2>1, CallsStay DEF SettingsInv, CallsOK, TestFits
<1>6. "overlapped" \notin spoilt' => Copies' /\ Proved'
  BY <1>1 DEF SettingsInv, Copies, Proved
<1>7. "overlapped" \notin spoilt' /\ "late" \notin spoilt' => Detections'
  <2> SUFFICES ASSUME Detections PROVE Detections'
    BY <1>1 DEF SettingsInv
  <2>1. rechecks' = {e}
    BY <1>1 DEF Detections
  <2> QED
    BY <1>1, <1>3, <2>1 DEF Detections, Telling
<1>8. "overlapped" \notin spoilt' /\ {"crossed", "halfway", "unread"} \cap spoilt' = {} => LastChoices' /\ Screen'
  <2>1. SameChoice(stored', stored) /\ SameChoice(author', author) /\ (Telling => Telling')
    BY <1>1 DEF SameChoice, Telling
  <2> QED
    BY <1>1, <2>1, ChoicesStay, ScreenStays DEF SettingsInv
<1> QED
  BY <1>5, <1>6, <1>7, <1>8 DEF SettingsInv

LEMMA DetectionEndKeeps ==
  ASSUME SettingsInv, NEW d \in rechecks, EndDetection(d) \/ DetectionFails(d) PROVE SettingsInv'
<1>1. /\ left' \in 0..MaxTurns /\ rechecks' = rechecks \ {d}
      /\ test' = TestAfter(d)
      /\ UNCHANGED <<stored, shown, calls, author, spoilt>>
      /\ \/ ready' = Unread
         \/ d.at = "probing" /\ ready' = d.confirmed
  BY SettingsAssumption DEF EndDetection, DetectionFails, Turn, SettingsInv, CallsOK, SettingsTypeOK
<1>2. d.confirmed \in BOOLEAN /\ ready' \in BOOLEAN \cup {Unread}
  BY <1>1 DEF SettingsInv, CallsOK, SettingsTypeOK
<1>3. test' = test \/ (d.by = "test" /\ test' = NoTest)
  BY <1>1 DEF TestAfter
<1>4. SettingsTypeOK'
  BY <1>1, <1>2, <1>3 DEF SettingsInv, CallsOK, SettingsTypeOK
<1>5. CallsOK'
  <2>1. OwnDetection'
    BY <1>1, <1>3 DEF SettingsInv, CallsOK, OwnDetection
  <2>2. test'.at = "reread" <=> test.at = "reread"
    BY <1>3 DEF SettingsInv, CallsOK, OwnDetection, NoTest
  <2>3. (test' # NoTest => shown # Unread) /\ (test'.at \in {"reread", "recheck"} => test'.id = Copilot)
    BY <1>3 DEF SettingsInv, CallsOK, TestFits, NoTest
  <2> QED
    BY <1>1, <1>4, <2>1, <2>2, <2>3, CallsStay DEF SettingsInv
<1>6. /\ test.at = "loaded" => test' = test
      /\ test.at \in {"ran", "loaded", "ended", "reread"} => test' = test
      /\ test' # test => test'.at = "idle" /\ test.at = "recheck"
  BY <1>3 DEF SettingsInv, CallsOK, OwnDetection, NoTest
<1>7. "overlapped" \notin spoilt' => Copies' /\ Proved'
  <2> SUFFICES ASSUME Copies, Proved PROVE Copies' /\ Proved'
    BY <1>1 DEF SettingsInv
  <2>1. CASE test' = test
    BY <1>1, <2>1 DEF Copies, Proved
  <2>2. CASE test' # test
    BY <1>1, <1>6, <2>2 DEF Copies, Proved
  <2> QED
    BY <2>1, <2>2
<1>8. "overlapped" \notin spoilt' /\ "late" \notin spoilt' => Detections'
  <2> SUFFICES ASSUME Detections PROVE Detections'
    BY <1>1 DEF SettingsInv
  <2>1. rechecks' = {}
    BY <1>1 DEF Detections
  <2>2. test'.at # "recheck"
    <3>1. test.at = "recheck" => d.by = "test"
      BY DEF Detections
    <3>2. d.by = "test" => test' = NoTest
      BY <1>1 DEF TestAfter
    <3>3. CASE test.at = "recheck"
      BY <3>1, <3>2, <3>3 DEF NoTest
    <3>4. CASE test.at # "recheck"
      BY <1>6, <3>4
    <3> QED
      BY <3>3, <3>4
  <2>3. ~Telling' => ~Telling
    BY <1>6 DEF Telling
  <2>4. ~Telling' /\ ready' # Unread => ready' = stored'.confirmed
    BY <1>1, <2>3 DEF Detections
  <2> QED
    BY <2>1, <2>2, <2>4 DEF Detections
<1>9. "overlapped" \notin spoilt' /\ {"crossed", "halfway", "unread"} \cap spoilt' = {} => LastChoices' /\ Screen'
  <2>1. SameChoice(stored', stored) /\ SameChoice(author', author) /\ (Telling => Telling')
    BY <1>1, <1>6 DEF SameChoice, Telling
  <2> QED
    BY <1>1, <2>1, ChoicesStay, ScreenStays DEF SettingsInv
<1> QED
  BY <1>5, <1>7, <1>8, <1>9 DEF SettingsInv

-------------------------------------------------------------------------------
(***************************************************************************)
(* The steps of the calls.                                                 *)
(***************************************************************************)
LEMMA StoreKeeps ==
  ASSUME SettingsInv, NEW c \in Changes, Store(c) PROVE SettingsInv'
<1> DEFINE made == [Get EXCEPT !.kind = "set", !.change = c, !.sent = Change(shown, c)]
<1>1. calls' = Append(calls, made)
  BY DEF Store
<1>2. shown \in Settings /\ left' \in 0..MaxTurns
  BY SettingsAssumption DEF Store, Turn, SettingsInv, CallsOK, SettingsTypeOK
<1>3. PICK call : call = made
  OBVIOUS
<1>4. /\ shown # Unread /\ left' \in 0..MaxTurns
      /\ calls' = Append(calls, call) /\ author' = Change(author, c)
      /\ Spoil("crossed", \E n \in DOMAIN calls : calls[n].kind = "set")
      /\ UNCHANGED <<stored, shown, test, rechecks, ready>>
  BY <1>1, <1>2, <1>3 DEF Store
<1>5. shown \in Settings /\ author \in Settings /\ calls \in Seq(Call)
  BY <1>4 DEF SettingsInv, CallsOK, SettingsTypeOK
<1>6. /\ Change(shown, c) \in Settings /\ author' \in Settings
      /\ author'.confirmed = author.confirmed
      /\ SameChoice(shown, author) => SameChoice(author', Change(shown, c))
  BY <1>4, <1>5, ChangeIs DEF SameChoice
<1>7. call \in Call /\ call.kind = "set" /\ call.at = "sent" /\ call.change = c /\ call.sent = Change(shown, c)
  <2>1. made = [kind |-> "set", change |-> c, sent |-> Change(shown, c), at |-> "sent", copy |-> Unread]
    <3> DEFINE asSet == [Get EXCEPT !.kind = "set"]
               withChange == [asSet EXCEPT !.change = c]
    <3>1. asSet = [kind |-> "set", change |-> Unread, sent |-> Unread, at |-> "sent", copy |-> Unread]
      BY DEF Get
    <3> HIDE DEF asSet
    <3>2. withChange = [kind |-> "set", change |-> c, sent |-> Unread, at |-> "sent", copy |-> Unread]
      BY <3>1
    <3> HIDE DEF withChange
    <3>3. [withChange EXCEPT !.sent = Change(shown, c)] =
            [kind |-> "set", change |-> c, sent |-> Change(shown, c), at |-> "sent", copy |-> Unread]
      BY <3>2
    <3> QED
      BY <3>3 DEF asSet, withChange
  <2> HIDE DEF made
  <2> QED
    BY <1>6, <1>3, <2>1 DEF Call
<1> HIDE DEF made
<1>8. /\ calls' \in Seq(Call) /\ Len(calls) \in Nat
      /\ DOMAIN calls = 1..Len(calls) /\ DOMAIN calls' = 1..(Len(calls) + 1)
      /\ \A n \in DOMAIN calls : calls'[n] = calls[n]
      /\ calls'[Len(calls) + 1] = call
  BY <1>4, <1>5, <1>7, Added
<1>9. \A n \in DOMAIN calls' : n \in DOMAIN calls \/ (n = Len(calls) + 1 /\ calls'[n] = call)
  BY <1>8
<1>10. spoilt \subseteq spoilt' /\ spoilt' \subseteq spoilt \cup {"crossed"}
  BY <1>4 DEF Spoil
<1>11. CallsOK'
  <2>1. SettingsTypeOK'
    BY <1>4, <1>6, <1>8, <1>10 DEF SettingsInv, CallsOK, SettingsTypeOK
  <2>2. CallsInOrder'
    <3> SUFFICES ASSUME NEW n \in DOMAIN calls', calls'[n].at # "sent", NEW m \in 1..(n - 1)
                 PROVE  Over(calls'[m])
      BY DEF CallsInOrder, Over
    <3>1. n \in DOMAIN calls /\ calls'[n] = calls[n]
      BY <1>7, <1>8, <1>9
    <3>2. m \in DOMAIN calls /\ calls'[m] = calls[m]
      BY <1>8, <3>1
    <3> QED
      BY <3>1, <3>2 DEF SettingsInv, CallsOK, CallsInOrder
  <2>3. CallsFit'
    BY <1>6, <1>7, <1>8, <1>9 DEF SettingsInv, CallsOK, CallsFit
  <2>4. TestFits'
    <3>1. \A n \in DOMAIN calls' : calls'[n].kind = "get" => n \in DOMAIN calls /\ calls[n].kind = "get"
      BY <1>7, <1>8, <1>9
    <3>2. test.at = "reread" => \E n \in DOMAIN calls' : calls'[n].kind = "get"
      BY <1>8 DEF SettingsInv, CallsOK, TestFits
    <3> QED
      BY <1>4, <3>1, <3>2 DEF SettingsInv, CallsOK, TestFits
  <2> QED
    BY <1>4, <2>1, <2>2, <2>3, <2>4 DEF SettingsInv, CallsOK, OwnDetection
<1>12. "overlapped" \notin spoilt' => Copies' /\ Proved'
  <2> SUFFICES ASSUME Copies, Proved PROVE Copies' /\ Proved'
    BY <1>10 DEF SettingsInv
  <2>1. Copies'
    BY <1>4, <1>7, <1>8, <1>9 DEF Copies
  <2> QED
    BY <1>4, <1>6, <2>1 DEF Proved
<1>13. "overlapped" \notin spoilt' /\ "late" \notin spoilt' => Detections'
  BY <1>4, <1>10 DEF SettingsInv, Detections, Telling
<1>14. "overlapped" \notin spoilt' /\ {"crossed", "halfway", "unread"} \cap spoilt' = {} => LastChoices' /\ Screen'
  <2> SUFFICES ASSUME "overlapped" \notin spoilt', {"crossed", "halfway", "unread"} \cap spoilt' = {}
               PROVE  LastChoices' /\ Screen'
    OBVIOUS
  <2>1. LastChoices /\ Screen
    BY <1>10 DEF SettingsInv
  <2>2. \A n \in DOMAIN calls : calls[n].kind # "set"
    BY <1>4 DEF Spoil
  <2>3. SameChoice(shown, author) /\ SameChoice(stored, author)
    BY <1>4, <2>1, <2>2 DEF LastChoices, Pending
  <2>4. SameChoice(author', Change(shown, c)) /\ SameChoice(stored', shown')
    BY <1>4, <1>6, <2>3 DEF SameChoice
  <2>5. Len(calls) + 1 \in DOMAIN calls' /\ Pending(calls'[Len(calls) + 1])
    BY <1>7, <1>8 DEF Pending, Over
  <2>6. \A n \in DOMAIN calls : calls'[n] = calls[n] /\ calls[n].kind # "set" /\ Len(calls) + 1 > n
    BY <1>8, <2>2
  <2>7. LastChoices'
    <3>1. \A n, m \in DOMAIN calls' : calls'[n].kind = "set" /\ calls'[m].kind = "set" => n = m
      BY <1>9, <2>6
    <3>2. ~(\A n \in DOMAIN calls' : calls'[n].kind = "set" => calls'[n].at = "failed")
          /\ ~(\A n \in DOMAIN calls' : ~Pending(calls'[n]))
      BY <1>7, <1>8, <2>5
    <3>3. ASSUME NEW n \in DOMAIN calls', calls'[n].kind = "set"
          PROVE  SameChoice(author', calls'[n].sent) /\ SameChoice(calls'[n].sent, Change(shown', calls'[n].change))
      <4>1. calls'[n] = call
        BY <1>9, <2>6, <3>3
      <4> QED
        BY <1>4, <1>7, <2>4, <4>1 DEF SameChoice
    <3>4. ASSUME NEW n \in DOMAIN calls', calls'[n].kind = "get", calls'[n].at = "done"
          PROVE  /\ SameChoice(calls'[n].copy, shown')
                 /\ ~\A m \in DOMAIN calls' : m > n => calls'[m].kind # "set"
      <4>1. n \in DOMAIN calls /\ calls'[n] = calls[n]
        BY <1>7, <1>8, <1>9, <3>4
      <4>2. SameChoice(calls[n].copy, author)
        BY <2>1, <2>2, <3>4, <4>1 DEF LastChoices
      <4>3. Len(calls) + 1 > n /\ calls'[Len(calls) + 1].kind = "set"
        BY <1>7, <1>8, <4>1
      <4> QED
        BY <1>4, <2>3, <2>5, <4>1, <4>2, <4>3 DEF SameChoice
    <3> QED
      BY <2>4, <3>1, <3>2, <3>3, <3>4 DEF LastChoices
  <2>8. Screen'
    BY <1>4, <1>7, <1>8, <1>9, <2>1 DEF Screen, Telling
  <2> QED
    BY <2>7, <2>8
<1> QED
  BY <1>11, <1>12, <1>13, <1>14 DEF SettingsInv

\* The call that the shell is at, and those around it.
LEMMA AtShellIs ==
  ASSUME CallsOK, NEW n \in DOMAIN calls, AtShell(n)
  PROVE  /\ calls \in Seq(Call) /\ calls[n] \in Call
         /\ \A m \in DOMAIN calls : m < n => Over(calls[m])
         /\ \A m \in DOMAIN calls : m > n => calls[m].at = "sent"
<1>1. calls \in Seq(Call) /\ DOMAIN calls = 1..Len(calls) /\ Len(calls) \in Nat
  BY DEF CallsOK, SettingsTypeOK
<1>2. calls[n] \in Call
  BY <1>1
<1>3. \A m \in DOMAIN calls : m < n => Over(calls[m])
  BY <1>1 DEF AtShell, Over
<1>4. ASSUME NEW m \in DOMAIN calls, m > n PROVE calls[m].at = "sent"
  <2>1. n \in 1..(m - 1) /\ ~Over(calls[n])
    BY <1>1, <1>4 DEF AtShell, Over
  <2> QED
    BY <2>1 DEF CallsOK, CallsInOrder
<1> QED
  BY <1>1, <1>2, <1>3, <1>4

\* What moving the call that the shell is at leaves of the calls.
LEMMA CallMoves ==
  ASSUME CallsOK, NEW n \in DOMAIN calls, AtShell(n), NEW c \in Call, calls' = [calls EXCEPT ![n] = c],
         c.kind = calls[n].kind, c.change = calls[n].change, c.sent = calls[n].sent,
         c.at # "sent", c.kind = "get" => c.at # "loaded",
         c.at = "loaded" \/ (c.kind = "get" /\ c.at = "done") => c.copy \in Settings,
         UNCHANGED <<shown, test, rechecks>>, SettingsTypeOK'
  PROVE  CallsOK'
<1>1. /\ DOMAIN calls' = DOMAIN calls /\ calls'[n] = c /\ DOMAIN calls = 1..Len(calls)
      /\ \A m \in DOMAIN calls : m # n => calls'[m] = calls[m]
  BY Moved DEF CallsOK, SettingsTypeOK
<1>2. /\ \A m \in DOMAIN calls : m < n => Over(calls[m])
      /\ \A m \in DOMAIN calls : m > n => calls[m].at = "sent"
  BY AtShellIs
<1>3. CallsInOrder'
  <2> SUFFICES ASSUME NEW m \in DOMAIN calls', calls'[m].at # "sent", NEW k \in 1..(m - 1)
               PROVE  Over(calls'[k])
    BY DEF CallsInOrder, Over
  <2>1. ~(m > n)
    BY <1>1, <1>2
  <2>2. k \in DOMAIN calls /\ k < n
    BY <1>1, <2>1
  <2> QED
    BY <1>1, <1>2, <2>2
<1>4. \A m \in DOMAIN calls : /\ calls'[m].kind = calls[m].kind /\ calls'[m].sent = calls[m].sent
                              /\ calls'[m].change = calls[m].change
  BY <1>1
<1>5. CallsFit'
  BY <1>1, <1>4 DEF CallsOK, CallsFit
<1>6. TestFits'
  <2>1. calls # <<>> => calls' # <<>>
    BY <1>1
  <2> QED
    BY <1>1, <1>4, <2>1 DEF CallsOK, TestFits
<1> QED
  BY <1>3, <1>5, <1>6 DEF CallsOK, OwnDetection

LEMMA LoadForCallKeeps ==
  ASSUME SettingsInv, NEW n \in DOMAIN calls, LoadForCall(n) PROVE SettingsInv'
<1> DEFINE at == IF calls[n].kind = "get" THEN "done" ELSE "loaded"
<1>1. /\ AtShell(n) /\ calls[n].at = "sent"
      /\ UNCHANGED <<stored, shown, test, rechecks, ready, author, left, spoilt>>
  BY DEF LoadForCall
<1>2. /\ calls \in Seq(Call) /\ calls[n] \in Call /\ stored \in Settings
      /\ \A m \in DOMAIN calls : m < n => Over(calls[m])
      /\ \A m \in DOMAIN calls : m > n => calls[m].at = "sent"
  BY <1>1, AtShellIs DEF SettingsInv, CallsOK, SettingsTypeOK
<1>3. PICK c \in Call :
        /\ c = [kind |-> calls[n].kind, change |-> calls[n].change, sent |-> calls[n].sent,
                at |-> at, copy |-> stored]
        /\ calls' = [calls EXCEPT ![n] = c]
  <2>1. calls' = [calls EXCEPT ![n].copy = stored, ![n].at = at]
    BY DEF LoadForCall
  <2>2. calls' = [calls EXCEPT ![n] = CopiedTo(calls[n], stored, at)]
    BY <1>2, <2>1 DEF CopiedTo
  <2>3. at \in {"sent", "loaded", "done", "failed"}
    OBVIOUS
  <2> HIDE DEF at
  <2>4. /\ CopiedTo(calls[n], stored, at) \in Call
        /\ CopiedTo(calls[n], stored, at) =
             [kind |-> calls[n].kind, change |-> calls[n].change, sent |-> calls[n].sent,
              at |-> at, copy |-> stored]
    BY <1>2, <2>3, CallCopied
  <2> QED
    BY <2>2, <2>4
<1>4. /\ c.kind = calls[n].kind /\ c.change = calls[n].change /\ c.sent = calls[n].sent
      /\ c.at = at /\ c.copy = stored
  BY <1>3
<1>5. /\ calls' \in Seq(Call) /\ DOMAIN calls' = DOMAIN calls /\ calls'[n] = c
      /\ \A m \in DOMAIN calls : m # n => calls'[m] = calls[m]
      /\ DOMAIN calls = 1..Len(calls) /\ Len(calls) \in Nat
  BY <1>2, <1>3, Moved
<1>6. CallsOK'
  <2>1. SettingsTypeOK'
    BY <1>1, <1>5 DEF SettingsInv, CallsOK, SettingsTypeOK
  <2>2. /\ c.at # "sent" /\ (c.kind = "get" => c.at # "loaded")
        /\ (c.at = "loaded" \/ (c.kind = "get" /\ c.at = "done") => c.copy \in Settings)
    BY <1>2, <1>4
  <2> QED
    BY <1>1, <1>3, <1>4, <2>1, <2>2, CallMoves DEF SettingsInv
<1>7. "overlapped" \notin spoilt' => Copies' /\ Proved'
  BY <1>1, <1>4, <1>5 DEF SettingsInv, Copies, Proved
<1>8. "overlapped" \notin spoilt' /\ "late" \notin spoilt' => Detections'
  BY <1>1 DEF SettingsInv, Detections, Telling
<1>9. "overlapped" \notin spoilt' /\ {"crossed", "halfway", "unread"} \cap spoilt' = {} => LastChoices' /\ Screen'
  <2> SUFFICES ASSUME LastChoices, Screen, "overlapped" \notin spoilt PROVE LastChoices' /\ Screen'
    BY <1>1 DEF SettingsInv
  <2>1. \A m \in DOMAIN calls :
          /\ calls'[m].kind = calls[m].kind /\ calls'[m].sent = calls[m].sent
          /\ calls'[m].change = calls[m].change
          /\ (calls'[m].kind = "set" => (calls'[m].at = "failed" <=> calls[m].at = "failed"))
          /\ (Pending(calls'[m]) <=> Pending(calls[m]))
    BY <1>1, <1>4, <1>5 DEF Pending, Over
  <2>2. ASSUME NEW m \in DOMAIN calls, calls'[m].kind = "get", calls'[m].at = "done"
        PROVE  /\ (\E k \in DOMAIN calls : k > m /\ calls[k].kind = "set") => SameChoice(calls'[m].copy, shown)
               /\ (\A k \in DOMAIN calls : k > m => calls[k].kind # "set") => SameChoice(calls'[m].copy, author)
               /\ calls'[m].copy.confirmed = stored.confirmed
    <3>1. CASE m # n
      BY <1>5, <2>2, <3>1 DEF LastChoices, Screen
    <3>2. CASE m = n
      <4>1. calls'[m].copy = stored /\ calls[n].kind = "get"
        BY <1>4, <1>5, <2>2, <3>2
      <4>2. ASSUME NEW k \in DOMAIN calls, k > n, calls[k].kind = "set"
            PROVE  SameChoice(stored, shown)
        <5>1. Pending(calls[k])
          BY <1>2, <4>2 DEF Pending, Over
        <5> QED
          BY <5>1 DEF LastChoices
      <4>3. ASSUME \A k \in DOMAIN calls : k > n => calls[k].kind # "set"
            PROVE  SameChoice(stored, author)
        <5>1. ASSUME NEW k \in DOMAIN calls PROVE ~Pending(calls[k])
          <6>1. k < n \/ k = n \/ k > n
            BY <1>5
          <6> QED
            BY <1>2, <4>1, <4>3, <6>1 DEF Pending
        <5> QED
          BY <5>1 DEF LastChoices
      <4> QED
        BY <3>2, <4>1, <4>2, <4>3
    <3> QED
      BY <3>1, <3>2
  <2>3. LastChoices'
    BY <1>1, <1>5, <2>1, <2>2 DEF LastChoices, SameChoice
  <2>4. Screen'
    BY <1>1, <1>4, <1>5, <2>1, <2>2 DEF Screen, Telling
  <2> QED
    BY <2>3, <2>4
<1> QED
  BY <1>6, <1>7, <1>8, <1>9 DEF SettingsInv

\* What a save writes: what the call was sent with, but for what is confirmed.
LEMMA SaveWrites ==
  ASSUME CallsOK, NEW n \in DOMAIN calls, AtShell(n), calls[n].at = "loaded",
         NEW next, next = MergeFromUi(calls[n].copy, calls[n].sent)
  PROVE  /\ calls[n] \in Call /\ calls[n].kind = "set"
         /\ next \in Settings /\ SameChoice(next, calls[n].sent)
         /\ next.confirmed = calls[n].copy.confirmed
<1>1. calls[n] \in Call
  BY AtShellIs
<1>2. calls[n].kind = "set" /\ calls[n].sent \in Settings /\ calls[n].copy \in Settings
  BY <1>1, CallFields DEF CallsOK, CallsFit
<1>3. calls[n].copy.confirmed \in BOOLEAN
  BY <1>2, SettingsAre
<1>4. next = [calls[n].sent EXCEPT !.confirmed = calls[n].copy.confirmed]
  BY DEF MergeFromUi
<1>5. \A s \in Settings, b \in BOOLEAN :
        /\ [s EXCEPT !.confirmed = b] \in Settings /\ [s EXCEPT !.confirmed = b].confirmed = b
        /\ SameChoice([s EXCEPT !.confirmed = b], s)
  BY DEF Settings, SameChoice
<1> QED
  BY <1>1, <1>2, <1>3, <1>4, <1>5

\* The shell is done with a call: it has saved, with success or not.
LEMMA SavesKeep ==
  ASSUME SettingsInv, NEW n \in DOMAIN calls, SaveForCall(n) \/ SaveFails(n) PROVE SettingsInv'
<1>1. PICK at \in {"done", "failed"} :
        /\ AtShell(n) /\ calls[n].at = "loaded"
        /\ calls' = [calls EXCEPT ![n].at = at]
        /\ stored' = MergeFromUi(calls[n].copy, calls[n].sent)
        /\ spoilt' \subseteq spoilt \cup {"halfway", "overlapped"} /\ spoilt \subseteq spoilt'
        /\ test.at = "loaded" => "overlapped" \in spoilt'
        /\ at = "failed" => "halfway" \in spoilt'
        /\ UNCHANGED <<shown, test, rechecks, ready, author>>
        /\ left' \in 0..MaxTurns
  <2>1. left \in 0..MaxTurns
    BY DEF SettingsInv, CallsOK, SettingsTypeOK
  <2>2. CASE SaveForCall(n)
    BY <2>1, <2>2 DEF SaveForCall, Spoil
  <2>3. CASE SaveFails(n)
    BY <2>1, <2>3, SettingsAssumption DEF SaveFails, Turn
  <2> QED
    BY <2>2, <2>3
<1>2. /\ calls \in Seq(Call) /\ calls[n] \in Call /\ calls[n].kind = "set"
      /\ stored' \in Settings /\ SameChoice(stored', calls[n].sent)
      /\ stored'.confirmed = calls[n].copy.confirmed
      /\ \A m \in DOMAIN calls : m < n => Over(calls[m])
      /\ \A m \in DOMAIN calls : m > n => calls[m].at = "sent"
  BY <1>1, SaveWrites, AtShellIs DEF SettingsInv
<1>3. PICK c \in Call :
        /\ c = [kind |-> calls[n].kind, change |-> calls[n].change, sent |-> calls[n].sent,
                at |-> at, copy |-> calls[n].copy]
        /\ calls' = [calls EXCEPT ![n] = c]
  <2>1. calls' = [calls EXCEPT ![n] = MovedTo(calls[n], at)]
    BY <1>1 DEF MovedTo
  <2>2. /\ MovedTo(calls[n], at) \in Call
        /\ MovedTo(calls[n], at) =
             [kind |-> calls[n].kind, change |-> calls[n].change, sent |-> calls[n].sent,
              at |-> at, copy |-> calls[n].copy]
    BY <1>2, CallMoved
  <2> QED
    BY <2>1, <2>2
<1>4. /\ c.kind = "set" /\ c.change = calls[n].change /\ c.sent = calls[n].sent
      /\ c.at = at /\ c.copy = calls[n].copy
  BY <1>2, <1>3
<1>5. /\ calls' \in Seq(Call) /\ DOMAIN calls' = DOMAIN calls /\ calls'[n] = c
      /\ \A m \in DOMAIN calls : m # n => calls'[m] = calls[m]
      /\ DOMAIN calls = 1..Len(calls) /\ Len(calls) \in Nat
  BY <1>2, <1>3, Moved
<1>6. CallsOK'
  <2>1. SettingsTypeOK'
    BY <1>1, <1>2, <1>5 DEF SettingsInv, CallsOK, SettingsTypeOK
  <2>2. c.kind = calls[n].kind /\ c.at # "sent" /\ c.at # "loaded"
    BY <1>1, <1>2, <1>4
  <2> QED
    BY <1>1, <1>3, <1>4, <2>1, <2>2, CallMoves DEF SettingsInv
<1>7. ASSUME "overlapped" \notin spoilt'
      PROVE  /\ Copies /\ Proved /\ stored'.confirmed = stored.confirmed /\ test.at # "loaded"
  <2>1. Copies /\ Proved /\ test.at # "loaded"
    BY <1>1, <1>7 DEF SettingsInv
  <2> QED
    BY <1>1, <1>2, <2>1 DEF Copies
<1>8. "overlapped" \notin spoilt' => Copies' /\ Proved'
  <2> SUFFICES ASSUME "overlapped" \notin spoilt' PROVE Copies' /\ Proved'
    OBVIOUS
  <2>1. \A m \in DOMAIN calls' : calls'[m].at # "loaded"
    <3> SUFFICES ASSUME NEW m \in DOMAIN calls, calls'[m].at = "loaded" PROVE FALSE
      BY <1>5
    <3>1. m < n \/ m = n \/ m > n
      BY <1>5
    <3> QED
      BY <1>1, <1>2, <1>4, <1>5, <3>1 DEF Over
  <2>2. Copies'
    BY <1>1, <1>7, <2>1 DEF Copies
  <2> QED
    BY <1>1, <1>7, <2>2 DEF Proved
<1>9. "overlapped" \notin spoilt' /\ "late" \notin spoilt' => Detections'
  <2> SUFFICES ASSUME "overlapped" \notin spoilt', "late" \notin spoilt' PROVE Detections'
    OBVIOUS
  <2>1. Detections /\ stored'.confirmed = stored.confirmed
    BY <1>1, <1>7 DEF SettingsInv
  <2> QED
    BY <1>1, <2>1 DEF Detections, Telling
<1>10. "overlapped" \notin spoilt' /\ {"crossed", "halfway", "unread"} \cap spoilt' = {} => LastChoices' /\ Screen'
  <2> SUFFICES ASSUME "overlapped" \notin spoilt', {"crossed", "halfway", "unread"} \cap spoilt' = {}
               PROVE  LastChoices' /\ Screen'
    OBVIOUS
  <2>1. LastChoices /\ Screen /\ at = "done" /\ stored'.confirmed = stored.confirmed
    BY <1>1, <1>7 DEF SettingsInv
  <2>2. \A m \in DOMAIN calls :
          /\ calls'[m].kind = calls[m].kind /\ calls'[m].sent = calls[m].sent
          /\ calls'[m].change = calls[m].change
          /\ calls'[m].at = IF m = n THEN "done" ELSE calls[m].at
          /\ calls'[m].copy = calls[m].copy
    BY <1>1, <1>2, <1>4, <1>5, <2>1
  <2>3. \A m \in DOMAIN calls : calls[m].kind = "set" => m = n
    BY <1>2, <2>1 DEF LastChoices
  <2>4. /\ SameChoice(author, calls[n].sent) /\ SameChoice(calls[n].sent, Change(shown, calls[n].change))
        /\ SameChoice(stored', author')
    <3>1. calls[n].at # "failed"
      BY <1>1
    <3>2. SameChoice(author, calls[n].sent) /\ SameChoice(calls[n].sent, Change(shown, calls[n].change))
      BY <1>2, <2>1, <3>1 DEF LastChoices
    <3> QED
      BY <1>1, <1>2, <3>2 DEF SameChoice
  <2>5. \A m \in DOMAIN calls' : ~Pending(calls'[m])
    BY <1>5, <2>2, <2>3 DEF Pending, Over
  <2>6. LastChoices'
    <3>1. \A m, k \in DOMAIN calls' : calls'[m].kind = "set" /\ calls'[k].kind = "set" => m = k
      BY <1>5, <2>2, <2>3
    <3>2. ~\A m \in DOMAIN calls' : calls'[m].kind = "set" => calls'[m].at = "failed"
      BY <1>2, <1>5, <2>2
    <3>3. ASSUME NEW m \in DOMAIN calls', calls'[m].kind = "set"
          PROVE  SameChoice(author', calls'[m].sent) /\ SameChoice(calls'[m].sent, Change(shown', calls'[m].change))
      <4>1. m = n /\ calls'[m].sent = calls[n].sent /\ calls'[m].change = calls[n].change
        BY <1>5, <2>2, <2>3, <3>3
      <4> QED
        BY <1>1, <2>4, <4>1
    <3>4. ASSUME NEW m \in DOMAIN calls', calls'[m].kind = "get", calls'[m].at = "done"
          PROVE  /\ (\E k \in DOMAIN calls' : k > m /\ calls'[k].kind = "set") => SameChoice(calls'[m].copy, shown')
                 /\ (\A k \in DOMAIN calls' : k > m => calls'[k].kind # "set") => SameChoice(calls'[m].copy, author')
      <4>1. m \in DOMAIN calls /\ calls[m].kind = "get" /\ calls[m].at = "done" /\ calls'[m].copy = calls[m].copy
        BY <1>2, <1>5, <2>2, <3>4
      <4>2. \A k \in DOMAIN calls' : k \in DOMAIN calls /\ calls'[k].kind = calls[k].kind
        BY <1>5, <2>2
      <4>3. DOMAIN calls' = DOMAIN calls
        BY <1>5
      <4> QED
        BY <1>1, <2>1, <4>1, <4>2, <4>3 DEF LastChoices
    <3> QED
      BY <2>4, <2>5, <3>1, <3>2, <3>3, <3>4 DEF LastChoices
  <2>7. Screen'
    <3>1. ASSUME NEW m \in DOMAIN calls', calls'[m].kind = "get"
          PROVE  /\ calls'[m].at # "failed"
                 /\ calls'[m].at = "done" => calls'[m].copy.confirmed = stored'.confirmed
      BY <1>2, <1>5, <2>1, <2>2, <3>1 DEF Screen
    <3>2. shown' # Unread /\ ~Telling' => shown'.confirmed = stored'.confirmed
      BY <1>1, <2>1 DEF Screen, Telling
    <3> QED
      BY <3>1, <3>2 DEF Screen
  <2> QED
    BY <2>6, <2>7
<1> QED
  BY <1>6, <1>8, <1>9, <1>10 DEF SettingsInv

LEMMA CallFailsKeeps ==
  ASSUME SettingsInv, NEW n \in DOMAIN calls, CallFails(n) PROVE SettingsInv'
<1>1. /\ AtShell(n) /\ left' \in 0..MaxTurns
      /\ calls' = [calls EXCEPT ![n].at = "failed"]
      /\ UNCHANGED <<stored, shown, test, rechecks, ready>>
      /\ spoilt \subseteq spoilt' /\ spoilt' \subseteq spoilt \cup {"unread"}
      /\ \/ calls[n].kind = "get" /\ "unread" \in spoilt' /\ author' = author
         \/ calls[n].kind # "get" /\ author' = [stored EXCEPT !.confirmed = author.confirmed]
  BY SettingsAssumption DEF CallFails, Turn, Spoil, SettingsInv, CallsOK, SettingsTypeOK
<1>2. /\ calls \in Seq(Call) /\ calls[n] \in Call /\ stored \in Settings /\ author \in Settings
      /\ \A m \in DOMAIN calls : m < n => Over(calls[m])
      /\ \A m \in DOMAIN calls : m > n => calls[m].at = "sent"
  BY <1>1, AtShellIs DEF SettingsInv, CallsOK, SettingsTypeOK
<1>3. PICK c \in Call :
        /\ c = [kind |-> calls[n].kind, change |-> calls[n].change, sent |-> calls[n].sent,
                at |-> "failed", copy |-> calls[n].copy]
        /\ calls' = [calls EXCEPT ![n] = c]
  <2>1. calls' = [calls EXCEPT ![n] = MovedTo(calls[n], "failed")]
    BY <1>1 DEF MovedTo
  <2>2. /\ MovedTo(calls[n], "failed") \in Call
        /\ MovedTo(calls[n], "failed") =
             [kind |-> calls[n].kind, change |-> calls[n].change, sent |-> calls[n].sent,
              at |-> "failed", copy |-> calls[n].copy]
    BY <1>2, CallMoved
  <2> QED
    BY <2>1, <2>2
<1>4. /\ c.kind = calls[n].kind /\ c.change = calls[n].change /\ c.sent = calls[n].sent
      /\ c.at = "failed" /\ c.copy = calls[n].copy
  BY <1>3
<1>5. /\ calls' \in Seq(Call) /\ DOMAIN calls' = DOMAIN calls /\ calls'[n] = c
      /\ \A m \in DOMAIN calls : m # n => calls'[m] = calls[m]
      /\ DOMAIN calls = 1..Len(calls) /\ Len(calls) \in Nat
  BY <1>2, <1>3, Moved
<1>6. author' \in Settings /\ author'.confirmed = author.confirmed
      /\ (calls[n].kind # "get" => SameChoice(author', stored))
  <2>1. author.confirmed \in BOOLEAN
    BY <1>2, SettingsAre
  <2>2. \A b \in BOOLEAN : /\ [stored EXCEPT !.confirmed = b] \in Settings
                          /\ [stored EXCEPT !.confirmed = b].confirmed = b
                          /\ SameChoice([stored EXCEPT !.confirmed = b], stored)
    BY <1>2 DEF Settings, SameChoice
  <2> QED
    BY <1>1, <1>2, <2>1, <2>2
<1>7. CallsOK'
  <2>1. SettingsTypeOK'
    BY <1>1, <1>5, <1>6 DEF SettingsInv, CallsOK, SettingsTypeOK
  <2> QED
    BY <1>1, <1>3, <1>4, <2>1, CallMoves DEF SettingsInv
<1>8. "overlapped" \notin spoilt' => Copies' /\ Proved'
  <2> SUFFICES ASSUME Copies, Proved PROVE Copies' /\ Proved'
    BY <1>1 DEF SettingsInv
  <2>1. Copies'
    BY <1>1, <1>4, <1>5 DEF Copies
  <2> QED
    BY <1>1, <1>6, <2>1 DEF Proved
<1>9. "overlapped" \notin spoilt' /\ "late" \notin spoilt' => Detections'
  BY <1>1 DEF SettingsInv, Detections, Telling
<1>10. "overlapped" \notin spoilt' /\ {"crossed", "halfway", "unread"} \cap spoilt' = {} => LastChoices' /\ Screen'
  <2> SUFFICES ASSUME "overlapped" \notin spoilt', {"crossed", "halfway", "unread"} \cap spoilt' = {}
               PROVE  LastChoices' /\ Screen'
    OBVIOUS
  <2>1. LastChoices /\ Screen /\ calls[n].kind = "set" /\ SameChoice(author', stored)
    BY <1>1, <1>2, <1>6, CallFields DEF SettingsInv
  <2>2. \A m \in DOMAIN calls :
          /\ calls'[m].kind = calls[m].kind /\ calls'[m].copy = calls[m].copy
          /\ calls'[m].at = IF m = n THEN "failed" ELSE calls[m].at
    BY <1>4, <1>5
  <2>3. \A m \in DOMAIN calls : calls[m].kind = "set" => m = n
    BY <2>1 DEF LastChoices
  <2>4. SameChoice(stored, shown)
    <3>1. Pending(calls[n])
      BY <1>1, <2>1 DEF AtShell, Pending, Over
    <3> QED
      BY <2>1, <3>1 DEF LastChoices
  <2>5. SameChoice(shown', author') /\ SameChoice(stored', author')
    BY <1>1, <2>1, <2>4 DEF SameChoice
  <2>6. \A m \in DOMAIN calls' : calls'[m].kind = "set" => m = n /\ calls'[m].at = "failed" /\ ~Pending(calls'[m])
    BY <1>5, <2>2, <2>3 DEF Pending, Over
  <2>7. \A m \in DOMAIN calls' : ~Pending(calls'[m])
    BY <2>6 DEF Pending
  <2>8. LastChoices'
    <3>1. ASSUME NEW m \in DOMAIN calls', calls'[m].kind = "get", calls'[m].at = "done"
          PROVE  SameChoice(calls'[m].copy, shown') /\ SameChoice(calls'[m].copy, author')
      <4>1. m \in DOMAIN calls /\ calls[m].kind = "get" /\ calls[m].at = "done" /\ calls'[m].copy = calls[m].copy
        BY <1>5, <2>1, <2>2, <3>1
      <4>2. m < n
        <5>1. m # n /\ ~(m > n)
          BY <1>2, <2>1, <4>1
        <5> QED
          BY <1>5, <4>1, <5>1
      <4>3. SameChoice(calls[m].copy, shown)
        BY <2>1, <4>1, <4>2 DEF LastChoices
      <4> QED
        BY <1>1, <2>5, <4>1, <4>3 DEF SameChoice
    <3> QED
      BY <2>5, <2>6, <2>7, <3>1 DEF LastChoices
  <2>9. Screen'
    <3>1. ASSUME NEW m \in DOMAIN calls', calls'[m].kind = "get"
          PROVE  /\ calls'[m].at # "failed"
                 /\ calls'[m].at = "done" => calls'[m].copy.confirmed = stored'.confirmed
      BY <1>1, <1>5, <2>1, <2>2, <3>1 DEF Screen
    <3>2. shown' # Unread /\ ~Telling' => shown'.confirmed = stored'.confirmed
      BY <1>1, <2>1 DEF Screen, Telling
    <3> QED
      BY <3>1, <3>2 DEF Screen
  <2> QED
    BY <2>8, <2>9
<1> QED
  BY <1>7, <1>8, <1>9, <1>10 DEF SettingsInv

-------------------------------------------------------------------------------
(***************************************************************************)
(* The web view takes its answers, and the end of a Test.                  *)
(***************************************************************************)
LEMMA DefaultsAreSettings ==
  DefaultSettings \in Settings
BY DEF DefaultSettings, Settings

\* The call that is answered, and what the web view shows of it.
LEMMA AnsweredIs ==
  ASSUME CallsOK, Answered, calls' = Tail(calls)
  PROVE  /\ calls' \in Seq(Call) /\ Len(calls) \in Nat \ {0} /\ Head(calls) = calls[1]
         /\ DOMAIN calls = 1..Len(calls) /\ DOMAIN calls' = 1..(Len(calls) - 1)
         /\ \A n \in DOMAIN calls' : n + 1 \in DOMAIN calls /\ calls'[n] = calls[n + 1]
         /\ \A n \in DOMAIN calls : n = 1 \/ (n - 1 \in DOMAIN calls' /\ calls'[n - 1] = calls[n])
         /\ 1 \in DOMAIN calls /\ calls[1] \in Call /\ calls[1].at \in {"done", "failed"}
<1>1. calls \in Seq(Call) /\ calls # <<>> /\ Head(calls).at \in {"done", "failed"}
  BY DEF CallsOK, SettingsTypeOK, Answered
<1>2. /\ calls' \in Seq(Call) /\ Len(calls) \in Nat \ {0} /\ Head(calls) = calls[1]
      /\ DOMAIN calls = 1..Len(calls) /\ DOMAIN calls' = 1..(Len(calls) - 1)
      /\ \A n \in DOMAIN calls' : calls'[n] = calls[n + 1]
  BY <1>1, Taken
<1>3. /\ \A n \in DOMAIN calls' : n + 1 \in DOMAIN calls
      /\ \A n \in DOMAIN calls : n = 1 \/ (n - 1 \in DOMAIN calls' /\ (n - 1) + 1 = n)
      /\ 1 \in DOMAIN calls
  BY <1>2
<1>4. calls[1] \in Call
  BY <1>1, <1>3
<1> QED
  BY <1>1, <1>2, <1>3, <1>4

LEMMA ShownAfterIs ==
  ASSUME CallsOK, NEW n \in DOMAIN calls, calls[n] \in Call, calls[n].at \in {"done", "failed"},
         shown = Unread => calls[n].kind = "get"
  PROVE  /\ ShownAfter(calls[n]) \in Settings
         /\ calls[n].at = "failed" /\ shown # Unread => ShownAfter(calls[n]) = shown
         /\ calls[n].kind = "get" /\ calls[n].at = "done" => ShownAfter(calls[n]) = calls[n].copy
         /\ calls[n].kind = "set" /\ calls[n].at = "done" =>
              ShownAfter(calls[n]) = Change(shown, calls[n].change)
<1>1. shown \in Settings \cup {Unread} /\ calls[n].kind \in {"get", "set"}
  BY CallFields DEF CallsOK, SettingsTypeOK
<1>2. CASE calls[n].at = "failed"
  <2>1. ShownAfter(calls[n]) = IF shown = Unread THEN DefaultSettings ELSE shown
    BY <1>2 DEF ShownAfter
  <2> QED
    BY <1>1, <1>2, <2>1, DefaultsAreSettings
<1>3. CASE calls[n].at = "done" /\ calls[n].kind = "get"
  <2>1. ShownAfter(calls[n]) = calls[n].copy
    BY <1>3 DEF ShownAfter
  <2>2. calls[n].copy \in Settings
    BY <1>3 DEF CallsOK, CallsFit
  <2> QED
    BY <1>3, <2>1, <2>2
<1>4. CASE calls[n].at = "done" /\ calls[n].kind = "set"
  <2>1. ShownAfter(calls[n]) = Change(shown, calls[n].change)
    BY <1>4 DEF ShownAfter
  <2>2. calls[n].change \in Changes /\ shown \in Settings
    BY <1>1, <1>4 DEF CallsOK, CallsFit
  <2> QED
    BY <1>4, <2>1, <2>2, ChangeIs
<1> QED
  BY <1>1, <1>2, <1>3, <1>4

\* The first answer of all: the window has its settings.
LEMMA OpeningKeeps ==
  ASSUME SettingsInv, Answer, Head(calls).kind = "get" PROVE SettingsInv'
<1>1. /\ Answered /\ ~OfTest(Head(calls))
      /\ shown' = ShownAfter(Head(calls)) /\ calls' = Tail(calls)
      /\ UNCHANGED <<stored, test, rechecks, ready, author, left, spoilt>>
  BY DEF Answer
<1>2. /\ calls' \in Seq(Call) /\ Len(calls) \in Nat \ {0} /\ Head(calls) = calls[1]
      /\ DOMAIN calls = 1..Len(calls) /\ DOMAIN calls' = 1..(Len(calls) - 1)
      /\ 1 \in DOMAIN calls /\ calls[1] \in Call /\ calls[1].at \in {"done", "failed"}
  BY <1>1, AnsweredIs DEF SettingsInv
<1>3. calls[1].kind = "get" /\ shown = Unread /\ test = NoTest
  BY <1>1, <1>2 DEF OfTest, SettingsInv, CallsOK, TestFits
<1>4. \A n \in DOMAIN calls : n = 1
  BY <1>2, <1>3 DEF SettingsInv, CallsOK, TestFits
<1>5. DOMAIN calls' = {}
  <2>1. Len(calls) \in DOMAIN calls
    BY <1>2
  <2>2. Len(calls) = 1
    BY <1>4, <2>1
  <2> QED
    BY <1>2, <2>2
<1>6. /\ shown' \in Settings /\ shown' # Unread
      /\ calls[1].at = "done" => shown' = calls[1].copy
  BY <1>1, <1>2, <1>3, ShownAfterIs, SettingsAssumption DEF SettingsInv
<1>7. CallsOK'
  <2>1. SettingsTypeOK'
    BY <1>1, <1>2, <1>6 DEF SettingsInv, CallsOK, SettingsTypeOK
  <2>2. CallsInOrder' /\ CallsFit'
    BY <1>5 DEF CallsInOrder, CallsFit
  <2>3. test'.at = "idle"
    BY <1>1, <1>3 DEF NoTest
  <2>4. TestFits'
    BY <1>5, <1>6, <2>3 DEF TestFits
  <2> QED
    BY <1>1, <2>1, <2>2, <2>4 DEF SettingsInv, CallsOK, OwnDetection
<1>8. "overlapped" \notin spoilt' => Copies' /\ Proved'
  BY <1>1, <1>5 DEF SettingsInv, Copies, Proved
<1>9. "overlapped" \notin spoilt' /\ "late" \notin spoilt' => Detections'
  BY <1>1 DEF SettingsInv, Detections, Telling
<1>10. "overlapped" \notin spoilt' /\ {"crossed", "halfway", "unread"} \cap spoilt' = {} => LastChoices' /\ Screen'
  <2> SUFFICES ASSUME LastChoices, Screen PROVE LastChoices' /\ Screen'
    BY <1>1 DEF SettingsInv
  <2>1. calls[1].at = "done" /\ shown' = calls[1].copy /\ shown'.confirmed = stored.confirmed
    BY <1>2, <1>3, <1>6 DEF Screen
  <2>2. SameChoice(shown', author) /\ SameChoice(stored, author)
    <3>1. /\ \A m \in DOMAIN calls : m > 1 => calls[m].kind # "set"
          /\ \A m \in DOMAIN calls : ~Pending(calls[m])
      BY <1>3, <1>4 DEF Pending
    <3> QED
      BY <1>2, <1>3, <2>1, <3>1 DEF LastChoices
  <2>3. SameChoice(shown', author') /\ SameChoice(stored', author')
    BY <1>1, <2>2
  <2> QED
    BY <1>1, <1>5, <2>1, <2>3 DEF LastChoices, Screen
<1> QED
  BY <1>7, <1>8, <1>9, <1>10 DEF SettingsInv

\* A change comes back, stored or refused.
LEMMA ChangeAnsweredKeeps ==
  ASSUME SettingsInv, Answer, Head(calls).kind # "get" PROVE SettingsInv'
<1>1. /\ Answered
      /\ shown' = ShownAfter(Head(calls)) /\ calls' = Tail(calls)
      /\ UNCHANGED <<stored, test, rechecks, ready, author, left, spoilt>>
  BY DEF Answer
<1>2. /\ calls' \in Seq(Call) /\ Len(calls) \in Nat \ {0} /\ Head(calls) = calls[1]
      /\ DOMAIN calls = 1..Len(calls) /\ DOMAIN calls' = 1..(Len(calls) - 1)
      /\ \A n \in DOMAIN calls' : n + 1 \in DOMAIN calls /\ calls'[n] = calls[n + 1]
      /\ \A n \in DOMAIN calls : n = 1 \/ (n - 1 \in DOMAIN calls' /\ calls'[n - 1] = calls[n])
      /\ 1 \in DOMAIN calls /\ calls[1] \in Call /\ calls[1].at \in {"done", "failed"}
  BY <1>1, AnsweredIs DEF SettingsInv
<1>3. calls[1].kind = "set" /\ shown \in Settings /\ shown # Unread /\ calls[1].change \in Changes
  <2>1. calls[1].kind = "set"
    BY <1>2, CallFields
  <2>2. shown # Unread
    BY <1>2, <2>1 DEF SettingsInv, CallsOK, TestFits
  <2> QED
    BY <1>2, <2>1, <2>2 DEF SettingsInv, CallsOK, SettingsTypeOK, CallsFit
<1>4. /\ shown' \in Settings /\ shown' # Unread
      /\ calls[1].at = "failed" => shown' = shown
      /\ calls[1].at = "done" => shown' = Change(shown, calls[1].change)
      /\ shown'.confirmed = shown.confirmed
  <2>1. /\ shown' \in Settings
        /\ calls[1].at = "failed" => shown' = shown
        /\ calls[1].at = "done" => shown' = Change(shown, calls[1].change)
    BY <1>1, <1>2, <1>3, ShownAfterIs DEF SettingsInv
  <2> QED
    BY <1>2, <1>3, <2>1, ChangeIs, SettingsAssumption
<1>5. CallsOK'
  <2>1. SettingsTypeOK'
    BY <1>1, <1>2, <1>4 DEF SettingsInv, CallsOK, SettingsTypeOK
  <2>2. CallsInOrder'
    <3> SUFFICES ASSUME NEW n \in DOMAIN calls', calls'[n].at # "sent", NEW m \in 1..(n - 1)
                 PROVE  Over(calls'[m])
      BY DEF CallsInOrder, Over
    <3>1. m \in DOMAIN calls' /\ m + 1 \in 1..((n + 1) - 1)
      BY <1>2
    <3>2. n + 1 \in DOMAIN calls /\ calls[n + 1].at # "sent"
      BY <1>2
    <3>3. Over(calls[m + 1])
      BY <3>1, <3>2 DEF SettingsInv, CallsOK, CallsInOrder
    <3> QED
      BY <1>2, <3>1, <3>3
  <2>3. CallsFit'
    BY <1>2 DEF SettingsInv, CallsOK, CallsFit
  <2>4. TestFits'
    <3>1. \A n \in DOMAIN calls' : calls'[n].kind = "get" => test.at = "reread"
      BY <1>2, <1>3 DEF SettingsInv, CallsOK, TestFits
    <3>2. ASSUME NEW n \in DOMAIN calls', NEW m \in DOMAIN calls',
                 calls'[n].kind = "get", calls'[m].kind = "get"
          PROVE  n = m
      <4>1. n + 1 = m + 1
        BY <1>2, <3>2 DEF SettingsInv, CallsOK, TestFits
      <4> QED
        BY <1>2, <4>1
    <3>3. ASSUME test.at = "reread" PROVE \E n \in DOMAIN calls' : calls'[n].kind = "get"
      <4>1. PICK n \in DOMAIN calls : calls[n].kind = "get"
        BY <3>3 DEF SettingsInv, CallsOK, TestFits
      <4>2. n # 1
        BY <1>3, <4>1
      <4> QED
        BY <1>2, <4>1, <4>2
    <3> QED
      BY <1>1, <1>4, <3>1, <3>2, <3>3 DEF SettingsInv, CallsOK, TestFits
  <2> QED
    BY <1>1, <2>1, <2>2, <2>3, <2>4 DEF SettingsInv, CallsOK, OwnDetection
<1>6. "overlapped" \notin spoilt' => Copies' /\ Proved'
  BY <1>1, <1>2 DEF SettingsInv, Copies, Proved
<1>7. "overlapped" \notin spoilt' /\ "late" \notin spoilt' => Detections'
  BY <1>1 DEF SettingsInv, Detections, Telling
<1>8. "overlapped" \notin spoilt' /\ {"crossed", "halfway", "unread"} \cap spoilt' = {} => LastChoices' /\ Screen'
  <2> SUFFICES ASSUME LastChoices, Screen PROVE LastChoices' /\ Screen'
    BY <1>1 DEF SettingsInv
  <2>1. \A n \in DOMAIN calls : calls[n].kind = "set" => n = 1
    BY <1>2, <1>3 DEF LastChoices
  <2>2. \A n \in DOMAIN calls' : calls'[n].kind # "set"
    <3> SUFFICES ASSUME NEW n \in DOMAIN calls', calls'[n].kind = "set" PROVE FALSE
      OBVIOUS
    <3>1. n + 1 = 1
      BY <1>2, <2>1
    <3> QED
      BY <1>2, <3>1
  <2>3. SameChoice(stored, author)
    <3>1. \A n \in DOMAIN calls : ~Pending(calls[n])
      BY <1>2, <2>1 DEF Pending, Over
    <3> QED
      BY <3>1 DEF LastChoices
  <2>4. SameChoice(shown', author)
    <3>1. CASE calls[1].at = "failed"
      <4>1. SameChoice(shown, author)
        BY <1>3, <2>1, <3>1 DEF LastChoices
      <4> QED
        BY <1>4, <3>1, <4>1
    <3>2. CASE calls[1].at = "done"
      <4>1. SameChoice(author, calls[1].sent) /\ SameChoice(calls[1].sent, Change(shown, calls[1].change))
        BY <1>2, <1>3, <3>2 DEF LastChoices
      <4> QED
        BY <1>4, <3>2, <4>1 DEF SameChoice
    <3> QED
      BY <1>2, <3>1, <3>2
  <2>5. LastChoices'
    <3>1. ASSUME NEW n \in DOMAIN calls', calls'[n].kind = "get", calls'[n].at = "done"
          PROVE  SameChoice(calls'[n].copy, author)
      <4>1. /\ n + 1 \in DOMAIN calls /\ calls[n + 1] = calls'[n]
            /\ \A m \in DOMAIN calls : m > n + 1 => calls[m].kind # "set"
        BY <1>2, <2>1
      <4> QED
        BY <3>1, <4>1 DEF LastChoices
    <3> QED
      BY <1>1, <2>2, <2>3, <2>4, <3>1 DEF LastChoices, Pending
  <2>6. Screen'
    BY <1>1, <1>2, <1>3, <1>4 DEF Screen, Telling
  <2> QED
    BY <2>5, <2>6
<1> QED
  BY <1>5, <1>6, <1>7, <1>8 DEF SettingsInv

\* The web view has the settings that a Test of Copilot made it read.
LEMMA AnswerToTestKeeps ==
  ASSUME SettingsInv, AnswerToTest PROVE SettingsInv'
<1>1. /\ Answered /\ OfTest(Head(calls))
      /\ shown' = ShownAfter(Head(calls)) /\ calls' = Tail(calls)
      /\ test' = [test EXCEPT !.at = "recheck"]
      /\ rechecks' = rechecks \cup {Detection("test", 0)}
      /\ Spoil("late", rechecks # {})
      /\ UNCHANGED <<stored, ready, author, left>>
  BY DEF AnswerToTest
<1>2. /\ calls' \in Seq(Call) /\ Len(calls) \in Nat \ {0} /\ Head(calls) = calls[1]
      /\ DOMAIN calls = 1..Len(calls) /\ DOMAIN calls' = 1..(Len(calls) - 1)
      /\ \A n \in DOMAIN calls' : n + 1 \in DOMAIN calls /\ calls'[n] = calls[n + 1]
      /\ \A n \in DOMAIN calls : n = 1 \/ (n - 1 \in DOMAIN calls' /\ calls'[n - 1] = calls[n])
      /\ 1 \in DOMAIN calls /\ calls[1] \in Call /\ calls[1].at \in {"done", "failed"}
  BY <1>1, AnsweredIs DEF SettingsInv
<1>3. /\ calls[1].kind = "get" /\ test.at = "reread" /\ test # NoTest /\ test.id = Copilot
      /\ shown \in Settings /\ shown # Unread
  <2>1. calls[1].kind = "get" /\ test.at = "reread"
    BY <1>1, <1>2 DEF OfTest
  <2>2. test # NoTest
    BY <2>1 DEF NoTest
  <2> QED
    BY <2>1, <2>2 DEF SettingsInv, CallsOK, TestFits, SettingsTypeOK
<1>4. /\ test' \in [at : {"running", "ran", "loaded", "ended", "reread", "recheck"},
                    id : Assistants, copy : Settings, end : Outcomes]
      /\ test'.at = "recheck" /\ test'.id = Copilot
  <2>1. test \in [at : {"running", "ran", "loaded", "ended", "reread", "recheck"},
                  id : Assistants, copy : Settings, end : Outcomes]
    BY <1>3 DEF SettingsInv, CallsOK, SettingsTypeOK
  <2> QED
    BY <1>1, <1>3, <2>1
<1>5. /\ shown' \in Settings /\ shown' # Unread
      /\ calls[1].at = "done" => shown' = calls[1].copy
  BY <1>1, <1>2, <1>3, ShownAfterIs, SettingsAssumption DEF SettingsInv
<1>6. \A n \in DOMAIN calls' : calls'[n].kind # "get"
  <2> SUFFICES ASSUME NEW n \in DOMAIN calls', calls'[n].kind = "get" PROVE FALSE
    OBVIOUS
  <2>1. n + 1 = 1
    BY <1>2, <1>3 DEF SettingsInv, CallsOK, TestFits
  <2> QED
    BY <1>2, <2>1
<1>7. spoilt \subseteq spoilt' /\ spoilt' \subseteq spoilt \cup {"late"} /\ (rechecks # {} => "late" \in spoilt')
  BY <1>1 DEF Spoil
<1>8. CallsOK'
  <2>1. Detection("test", 0) \in [by : {"mount", "author", "test"}, number : 0..MaxTurns,
                                  at : {"sent", "probing"}, confirmed : BOOLEAN]
    BY SettingsAssumption DEF Detection
  <2>2. SettingsTypeOK'
    BY <1>1, <1>2, <1>4, <1>5, <1>7, <2>1 DEF SettingsInv, CallsOK, SettingsTypeOK
  <2>3. CallsInOrder'
    <3> SUFFICES ASSUME NEW n \in DOMAIN calls', calls'[n].at # "sent", NEW m \in 1..(n - 1)
                 PROVE  Over(calls'[m])
      BY DEF CallsInOrder, Over
    <3>1. m \in DOMAIN calls' /\ m + 1 \in 1..((n + 1) - 1)
      BY <1>2
    <3>2. n + 1 \in DOMAIN calls /\ calls[n + 1].at # "sent"
      BY <1>2
    <3>3. Over(calls[m + 1])
      BY <3>1, <3>2 DEF SettingsInv, CallsOK, CallsInOrder
    <3> QED
      BY <1>2, <3>1, <3>3
  <2>4. CallsFit'
    BY <1>2 DEF SettingsInv, CallsOK, CallsFit
  <2>5. TestFits'
    BY <1>4, <1>5, <1>6 DEF TestFits
  <2>6. OwnDetection'
    <3>1. \A d \in rechecks : d.by # "test"
      BY <1>3 DEF SettingsInv, CallsOK, OwnDetection
    <3>2. \A d \in rechecks' : d.by = "test" => d = Detection("test", 0)
      BY <1>1, <3>1
    <3> QED
      BY <1>4, <3>2 DEF OwnDetection
  <2> QED
    BY <2>2, <2>3, <2>4, <2>5, <2>6 DEF CallsOK
<1>9. "overlapped" \notin spoilt' => Copies' /\ Proved'
  <2> SUFFICES ASSUME Copies, Proved PROVE Copies' /\ Proved'
    BY <1>7 DEF SettingsInv
  <2>1. Copies'
    BY <1>1, <1>2, <1>4 DEF Copies
  <2>2. author.confirmed = stored.confirmed
    BY <1>3 DEF Proved
  <2> QED
    BY <1>1, <1>4, <2>1, <2>2 DEF Proved
<1>10. "overlapped" \notin spoilt' /\ "late" \notin spoilt' => Detections'
  <2> SUFFICES ASSUME "late" \notin spoilt' PROVE Detections'
    OBVIOUS
  <2>1. rechecks' = {Detection("test", 0)}
    BY <1>1, <1>7
  <2>2. Detection("test", 0).at = "sent" /\ Detection("test", 0).by = "test"
    BY DEF Detection
  <2> QED
    BY <2>1, <2>2 DEF Detections
<1>11. "overlapped" \notin spoilt' /\ {"crossed", "halfway", "unread"} \cap spoilt' = {} => LastChoices' /\ Screen'
  <2> SUFFICES ASSUME LastChoices, Screen PROVE LastChoices' /\ Screen'
    BY <1>7 DEF SettingsInv
  <2>1. calls[1].at = "done" /\ shown' = calls[1].copy /\ shown'.confirmed = stored.confirmed
    BY <1>2, <1>3, <1>5 DEF Screen
  <2>2. ASSUME NEW n \in DOMAIN calls', calls'[n].kind = "set"
        PROVE  SameChoice(shown', shown)
    <3>1. n + 1 \in DOMAIN calls /\ n + 1 > 1 /\ calls[n + 1].kind = "set"
      BY <1>2, <2>2
    <3> QED
      BY <1>2, <1>3, <2>1, <3>1 DEF LastChoices
  <2>3. ASSUME \A n \in DOMAIN calls' : calls'[n].kind # "set"
        PROVE  SameChoice(shown', author)
    <3>1. \A m \in DOMAIN calls : m > 1 => calls[m].kind # "set"
      BY <1>2, <2>3
    <3> QED
      BY <1>2, <1>3, <2>1, <3>1 DEF LastChoices
  <2>4. LastChoices'
    <3>1. ASSUME NEW n \in DOMAIN calls', NEW m \in DOMAIN calls',
                 calls'[n].kind = "set", calls'[m].kind = "set"
          PROVE  n = m
      <4>1. n + 1 = m + 1
        BY <1>2, <3>1 DEF LastChoices
      <4> QED
        BY <1>2, <4>1
    <3>2. ASSUME \A n \in DOMAIN calls' : calls'[n].kind = "set" => calls'[n].at = "failed"
          PROVE  SameChoice(shown', author')
      <4>1. CASE \A n \in DOMAIN calls' : calls'[n].kind # "set"
        BY <1>1, <2>3, <4>1
      <4>2. CASE \E n \in DOMAIN calls' : calls'[n].kind = "set"
        <5>1. \A n \in DOMAIN calls : calls[n].kind = "set" => calls[n].at = "failed"
          BY <1>2, <1>3, <3>2
        <5>2. SameChoice(shown, author)
          BY <1>3, <5>1 DEF LastChoices
        <5> QED
          BY <1>1, <2>2, <4>2, <5>2 DEF SameChoice
      <4> QED
        BY <4>1, <4>2
    <3>3. ASSUME NEW n \in DOMAIN calls', calls'[n].kind = "set", calls'[n].at # "failed"
          PROVE  SameChoice(author', calls'[n].sent) /\ SameChoice(calls'[n].sent, Change(shown', calls'[n].change))
      <4>1. /\ n + 1 \in DOMAIN calls /\ calls'[n] = calls[n + 1]
            /\ SameChoice(author, calls[n + 1].sent)
            /\ SameChoice(calls[n + 1].sent, Change(shown, calls[n + 1].change))
            /\ calls[n + 1].change \in Changes
        BY <1>2, <3>3 DEF LastChoices, SettingsInv, CallsOK, CallsFit
      <4>2. SameChoice(shown, shown')
        BY <2>2, <3>3 DEF SameChoice
      <4>3. SameChoice(Change(shown, calls[n + 1].change), Change(shown', calls[n + 1].change))
        BY <1>3, <1>5, <4>1, <4>2, ChangeIs
      <4> QED
        BY <1>1, <4>1, <4>3 DEF SameChoice
    <3>4. ASSUME NEW n \in DOMAIN calls', Pending(calls'[n])
          PROVE  SameChoice(stored', shown')
      <4>1. n + 1 \in DOMAIN calls /\ Pending(calls[n + 1]) /\ calls'[n].kind = "set"
        BY <1>2, <3>4 DEF Pending
      <4> QED
        BY <1>1, <2>2, <4>1 DEF LastChoices, SameChoice
    <3>5. ASSUME \A n \in DOMAIN calls' : ~Pending(calls'[n])
          PROVE  SameChoice(stored', author')
      <4>1. \A n \in DOMAIN calls : ~Pending(calls[n])
        <5> SUFFICES ASSUME NEW n \in DOMAIN calls, Pending(calls[n]) PROVE FALSE
          OBVIOUS
        <5>1. n # 1
          BY <1>3 DEF Pending
        <5> QED
          BY <1>2, <3>5, <5>1
      <4> QED
        BY <1>1, <4>1 DEF LastChoices
    <3> QED
      BY <1>6, <3>1, <3>2, <3>3, <3>4, <3>5 DEF LastChoices
  <2>5. Screen'
    BY <1>1, <1>6, <2>1 DEF Screen
  <2> QED
    BY <2>4, <2>5
<1> QED
  BY <1>8, <1>9, <1>10, <1>11 DEF SettingsInv

\* The Test is over, for the web view too; one of Copilot makes it read the settings.
LEMMA EndTestKeeps ==
  ASSUME SettingsInv, EndTest PROVE SettingsInv'
<1>1. /\ test.at = "ended"
      /\ \/ test.id = Copilot /\ test' = [test EXCEPT !.at = "reread"] /\ calls' = Append(calls, Get)
         \/ test.id # Copilot /\ test' = NoTest /\ calls' = calls
      /\ UNCHANGED <<stored, shown, rechecks, ready, author, left, spoilt>>
  BY DEF EndTest
<1>2. /\ test \in [at : {"running", "ran", "loaded", "ended", "reread", "recheck"},
                   id : Assistants, copy : Settings, end : Outcomes]
      /\ shown # Unread /\ calls \in Seq(Call)
  <2>1. test # NoTest
    BY <1>1 DEF NoTest
  <2> QED
    BY <2>1 DEF SettingsInv, CallsOK, SettingsTypeOK, TestFits
<1>3. /\ \A n \in DOMAIN calls : calls[n].kind # "get"
      /\ \A d \in rechecks : d.by # "test"
  BY <1>1, <1>2 DEF SettingsInv, CallsOK, TestFits, OwnDetection
<1>4. CASE test.id # Copilot
  <2>1. test' = NoTest /\ test'.at = "idle" /\ UNCHANGED <<calls, shown, stored, rechecks, ready, author, left, spoilt>>
    BY <1>1, <1>4 DEF NoTest
  <2>2. CallsOK'
    <3>1. SettingsTypeOK'
      BY <2>1 DEF SettingsInv, CallsOK, SettingsTypeOK
    <3>2. OwnDetection'
      BY <1>3, <2>1 DEF OwnDetection
    <3> QED
      BY <1>1, <2>1, <3>1, <3>2, CallsStay DEF SettingsInv
  <2>3. "overlapped" \notin spoilt' => Copies' /\ Proved'
    BY <1>1, <2>1 DEF SettingsInv, Copies, Proved
  <2>4. "overlapped" \notin spoilt' /\ "late" \notin spoilt' => Detections'
    BY <1>4, <2>1 DEF SettingsInv, Detections, Telling
  <2>5. "overlapped" \notin spoilt' /\ {"crossed", "halfway", "unread"} \cap spoilt' = {} => LastChoices' /\ Screen'
    <3> SUFFICES ASSUME LastChoices, Screen PROVE LastChoices' /\ Screen'
      BY <2>1 DEF SettingsInv
    <3>1. SameChoice(stored', stored) /\ SameChoice(author', author)
      BY <2>1 DEF SameChoice
    <3> QED
      BY <1>4, <2>1, <3>1, ChoicesStay, ScreenStays DEF Telling
  <2> QED
    BY <2>2, <2>3, <2>4, <2>5 DEF SettingsInv
<1>5. CASE test.id = Copilot
  <2>1. /\ test' \in [at : {"running", "ran", "loaded", "ended", "reread", "recheck"},
                      id : Assistants, copy : Settings, end : Outcomes]
        /\ test'.at = "reread" /\ test'.id = Copilot
    BY <1>1, <1>2, <1>5
  <2>2. /\ calls' \in Seq(Call) /\ Len(calls) \in Nat
        /\ DOMAIN calls = 1..Len(calls) /\ DOMAIN calls' = 1..(Len(calls) + 1)
        /\ \A n \in DOMAIN calls : calls'[n] = calls[n]
        /\ calls'[Len(calls) + 1] = Get
    BY <1>1, <1>2, <1>5, Added, GetIsCall
  <2>3. \A n \in DOMAIN calls' : n \in DOMAIN calls \/ n = Len(calls) + 1
    BY <2>2
  <2>4. calls'[Len(calls) + 1].kind = "get" /\ calls'[Len(calls) + 1].at = "sent"
    BY <2>2, GetIsCall
  <2>5. CallsOK'
    <3>1. SettingsTypeOK'
      BY <1>1, <2>1, <2>2 DEF SettingsInv, CallsOK, SettingsTypeOK
    <3>2. CallsInOrder'
      <4> SUFFICES ASSUME NEW n \in DOMAIN calls', calls'[n].at # "sent", NEW m \in 1..(n - 1)
                   PROVE  Over(calls'[m])
        BY DEF CallsInOrder, Over
      <4>1. n \in DOMAIN calls /\ calls'[n] = calls[n]
        BY <2>2, <2>3, <2>4
      <4>2. m \in DOMAIN calls /\ calls'[m] = calls[m]
        BY <2>2, <4>1
      <4> QED
        BY <4>1, <4>2 DEF SettingsInv, CallsOK, CallsInOrder
    <3>3. CallsFit'
      BY <2>2, <2>3, <2>4 DEF SettingsInv, CallsOK, CallsFit
    <3>4. TestFits'
      <4>1. \A n \in DOMAIN calls' : calls'[n].kind = "get" => n = Len(calls) + 1
        BY <1>3, <2>2, <2>3
      <4>2. Len(calls) + 1 \in DOMAIN calls'
        BY <2>2
      <4> QED
        BY <1>1, <1>2, <2>1, <2>4, <4>1, <4>2 DEF TestFits
    <3>5. OwnDetection'
      BY <1>1, <1>3 DEF OwnDetection
    <3> QED
      BY <3>1, <3>2, <3>3, <3>4, <3>5 DEF CallsOK
  <2>6. "overlapped" \notin spoilt' => Copies' /\ Proved'
    <3> SUFFICES ASSUME Copies, Proved PROVE Copies' /\ Proved'
      BY <1>1 DEF SettingsInv
    <3>1. Copies'
      BY <1>1, <2>1, <2>2, <2>3, <2>4 DEF Copies
    <3> QED
      BY <1>1, <2>1, <3>1 DEF Proved
  <2>7. "overlapped" \notin spoilt' /\ "late" \notin spoilt' => Detections'
    BY <1>1, <1>5, <2>1 DEF SettingsInv, Detections, Telling
  <2>8. "overlapped" \notin spoilt' /\ {"crossed", "halfway", "unread"} \cap spoilt' = {} => LastChoices' /\ Screen'
    <3> SUFFICES ASSUME LastChoices, Screen PROVE LastChoices' /\ Screen'
      BY <1>1 DEF SettingsInv
    <3>1. \A n \in DOMAIN calls' :
            calls'[n].kind = "set" => n \in DOMAIN calls /\ calls'[n] = calls[n] /\ calls[n].kind = "set"
      BY <2>2, <2>3, <2>4
    <3>2. \A n \in DOMAIN calls' : ~(calls'[n].kind = "get" /\ calls'[n].at = "done")
      BY <1>3, <2>2, <2>3, <2>4
    <3>3. \A n \in DOMAIN calls : n \in DOMAIN calls' /\ calls'[n] = calls[n]
      BY <2>2
    <3>4. \A n \in DOMAIN calls' : Pending(calls'[n]) => n \in DOMAIN calls /\ Pending(calls[n])
      BY <3>1 DEF Pending
    <3>5. LastChoices'
      <4>1. (\A n \in DOMAIN calls' : calls'[n].kind = "set" => calls'[n].at = "failed") => SameChoice(shown', author')
        BY <1>1, <1>2, <3>3 DEF LastChoices
      <4>2. (\E n \in DOMAIN calls' : Pending(calls'[n])) => SameChoice(stored', shown')
        BY <1>1, <3>4 DEF LastChoices
      <4>3. (\A n \in DOMAIN calls' : ~Pending(calls'[n])) => SameChoice(stored', author')
        BY <1>1, <3>3 DEF LastChoices
      <4>4. \A n \in DOMAIN calls' : calls'[n].kind = "set" /\ calls'[n].at # "failed" =>
              SameChoice(author', calls'[n].sent) /\ SameChoice(calls'[n].sent, Change(shown', calls'[n].change))
        BY <1>1, <3>1 DEF LastChoices
      <4>5. \A n, m \in DOMAIN calls' : calls'[n].kind = "set" /\ calls'[m].kind = "set" => n = m
        BY <3>1 DEF LastChoices
      <4> QED
        BY <3>2, <4>1, <4>2, <4>3, <4>4, <4>5 DEF LastChoices
    <3>6. Screen'
      BY <1>1, <1>3, <1>5, <2>1, <2>2, <2>3, <2>4, <3>2 DEF Screen, Telling
    <3> QED
      BY <3>5, <3>6
  <2> QED
    BY <2>5, <2>6, <2>7, <2>8 DEF SettingsInv
<1> QED
  BY <1>4, <1>5

-------------------------------------------------------------------------------
LEMMA SettingsStart ==
  SettingsInit => SettingsInv
<1> SUFFICES ASSUME SettingsInit PROVE SettingsInv
  OBVIOUS
<1>1. /\ stored \in Settings /\ author = stored /\ shown = Unread /\ ready = Unread
      /\ test = NoTest /\ spoilt = {} /\ calls = <<Get>> /\ rechecks = {Detection("mount", 0)}
      /\ left = MaxTurns
  BY DEF SettingsInit
<1>2. calls \in Seq(Call) /\ calls # <<>> /\ DOMAIN calls = {1} /\ calls[1] = Get
  BY <1>1, GetIsCall
<1>3. test.at = "idle" /\ calls[1].kind = "get" /\ calls[1].at = "sent"
  BY <1>1, <1>2, GetIsCall DEF NoTest
<1>4. /\ Detection("mount", 0) \in [by : {"mount", "author", "test"}, number : 0..MaxTurns,
                                    at : {"sent", "probing"}, confirmed : BOOLEAN]
      /\ Detection("mount", 0).by = "mount" /\ Detection("mount", 0).at = "sent"
  BY SettingsAssumption DEF Detection
<1>5. SettingsTypeOK
  BY <1>1, <1>2, <1>4, SettingsAssumption DEF SettingsTypeOK
<1>6. CallsOK
  BY <1>1, <1>2, <1>3, <1>4, <1>5 DEF CallsOK, CallsInOrder, CallsFit, TestFits, OwnDetection
<1>7. Copies /\ Proved
  BY <1>1, <1>2, <1>3 DEF Copies, Proved
<1>8. Detections
  BY <1>1, <1>3, <1>4 DEF Detections
<1>9. LastChoices /\ Screen
  BY <1>1, <1>2, <1>3 DEF LastChoices, Screen, Pending, SameChoice
<1> QED
  BY <1>6, <1>7, <1>8, <1>9 DEF SettingsInv

LEMMA SettingsStep ==
  SettingsInv /\ [SettingsNext]_settingsVars => SettingsInv'
<1> SUFFICES ASSUME SettingsInv, [SettingsNext]_settingsVars PROVE SettingsInv'
  OBVIOUS
<1>1. CASE \E c \in Changes : Store(c)
  BY <1>1, StoreKeeps
<1>2. CASE \E n \in DOMAIN calls : LoadForCall(n) \/ SaveForCall(n) \/ CallFails(n) \/ SaveFails(n)
  BY <1>2, LoadForCallKeeps, SavesKeep, CallFailsKeeps
<1>3. CASE Answer
  BY <1>3, OpeningKeeps, ChangeAnsweredKeeps
<1>4. CASE AnswerToTest
  BY <1>4, AnswerToTestKeeps
<1>5. CASE RunTest \/ EndRun \/ RefuseTest \/ LoadAfterTest \/ SaveAfterTest \/ SavingAfterTestFails
  BY <1>5, RunTestKeeps, EndRunKeeps, RefuseTestKeeps, LoadAfterTestKeeps, SaveAfterTestKeeps,
     SavingAfterTestFailsKeeps
<1>6. CASE EndTest
  BY <1>6, EndTestKeeps
<1>7. CASE Recheck
  BY <1>7, RecheckKeeps
<1>8. CASE \E d \in rechecks : LoadForDetection(d) \/ EndDetection(d) \/ DetectionFails(d)
  BY <1>8, LoadForDetectionKeeps, DetectionEndKeeps
<1>9. CASE UNCHANGED settingsVars
  <2> USE <1>9 DEF settingsVars
  <2>1. CallsOK'
    BY DEF SettingsInv, CallsOK, SettingsTypeOK, CallsInOrder, CallsFit, TestFits, OwnDetection, Over
  <2>2. (Copies => Copies') /\ (Proved => Proved') /\ (Detections => Detections')
    BY DEF Copies, Proved, Detections, Telling
  <2>3. (LastChoices => LastChoices') /\ (Screen => Screen')
    BY DEF LastChoices, Screen, Telling, Pending, SameChoice, Over
  <2> QED
    BY <2>1, <2>2, <2>3 DEF SettingsInv
<1> QED
  BY <1>1, <1>2, <1>3, <1>4, <1>5, <1>6, <1>7, <1>8, <1>9 DEF SettingsNext

LEMMA InvKeepsSettings ==
  SettingsInv => SettingsHold
<1> SUFFICES ASSUME SettingsInv, "overlapped" \notin spoilt
             PROVE  /\ ProofIsKept
                    /\ "late" \notin spoilt => StatusAgrees
                    /\ {"crossed", "halfway", "unread"} \cap spoilt = {} => ChoicesAreKept /\ ScreenAgrees
  BY DEF SettingsHold
<1>1. ProofIsKept
  BY DEF SettingsInv, Proved, ProofIsKept
<1>2. "late" \notin spoilt => StatusAgrees
  <2> SUFFICES ASSUME "late" \notin spoilt, rechecks = {}, test = NoTest, ready # Unread
               PROVE  ready = stored.confirmed
    BY DEF StatusAgrees
  <2>1. ~Telling
    BY DEF Telling, NoTest
  <2> QED
    BY <2>1 DEF SettingsInv, Detections
<1>3. ASSUME {"crossed", "halfway", "unread"} \cap spoilt = {} PROVE ChoicesAreKept
  <2> SUFFICES ASSUME \A n \in DOMAIN calls : calls[n].kind = "get" \/ calls[n].at \in {"done", "failed"}
               PROVE  SameChoice(stored, author)
    BY DEF ChoicesAreKept, SameChoice
  <2>1. \A n \in DOMAIN calls : ~Pending(calls[n])
    BY DEF Pending, Over
  <2> QED
    BY <1>3, <2>1 DEF SettingsInv, LastChoices
<1>4. ASSUME {"crossed", "halfway", "unread"} \cap spoilt = {} PROVE ScreenAgrees
  <2> SUFFICES ASSUME calls = <<>>, test = NoTest PROVE shown = stored
    BY DEF ScreenAgrees
  <2>1. shown # Unread /\ shown \in Settings /\ stored \in Settings
    BY DEF SettingsInv, CallsOK, TestFits, SettingsTypeOK
  <2>2. ~Telling
    BY DEF Telling, NoTest
  <2>3. DOMAIN calls = {}
    OBVIOUS
  <2>4. SameChoice(shown, author) /\ SameChoice(stored, author)
    BY <1>4, <2>1, <2>3 DEF SettingsInv, LastChoices
  <2>5. shown.confirmed = stored.confirmed
    BY <1>4, <2>1, <2>2 DEF SettingsInv, Screen
  <2>6. SameChoice(shown, stored)
    BY <2>4 DEF SameChoice
  <2> QED
    BY <2>1, <2>5, <2>6, SettingsEqual
<1> QED
  BY <1>1, <1>2, <1>3, <1>4

(***************************************************************************)
(* The settings of MarkDesk are kept and shown, whatever choices, Tests,   *)
(* detections and faults of the store come in between, for any assistants: *)
(* the store holds the last choice and what the last Test of Copilot       *)
(* proved, and when all is quiet the web view shows what is stored, except *)
(* for the five excuses that SettingsHold names (assistant_settings.rs,    *)
(* src-tauri/src/lib.rs, AssistantProvider).                               *)
(***************************************************************************)
THEOREM SettingsAreKept == SettingsSpec => []SettingsHold
<1>1. SettingsSpec => []SettingsInv
  BY SettingsStart, SettingsStep, PTL DEF SettingsSpec
<1> QED
  BY <1>1, InvKeepsSettings, PTL

-------------------------------------------------------------------------------
(***************************************************************************)
(* LogIsFaithful holds for any number of servers, generations and lines.   *)
(* A server that has not opened the log has the newest of its early lines  *)
(* in its queue; one that has, has the others in the file that its handle  *)
(* follows, in order, and the rest in its buffer.  A file is renamed away  *)
(* under a handle, and that changes nothing of its lines.  Without a race  *)
(* one server rotates at a time, into a hole that moves down before it, so *)
(* a file moves up once per rotation, and a server rotates once.           *)
(***************************************************************************)

\* The lines of `q` are those of server s that end with number `last`.
Tells(q, s, last) == \A i \in 1..Len(q) : q[i] = Line(s, last - Len(q) + i)

LogFile == Seq([of : Servers \cup {NoHandle}, at : Nat])

LogTypes ==
  /\ content \in Seq(LogFile) /\ Len(content) >= Keep + 1
  /\ path \in [0..Keep -> 0..Len(content)]
  /\ handle \in [Servers -> {NoHandle} \cup 1..Len(content)]
  /\ projectKnown \in [Servers -> BOOLEAN] /\ disabled \in [Servers -> BOOLEAN]
  /\ flushTimer \in [Servers -> BOOLEAN] /\ raced \in BOOLEAN
  /\ preInitQueue \in [Servers -> LogFile] /\ lineBuffer \in [Servers -> LogFile]
  /\ held \in [Servers -> LogFile]
  /\ opening \in [Servers -> {"no", "stat", "remove", "generations", "path", "open"}]
  /\ generation \in [Servers -> Nat]
  /\ logged \in [Servers -> Nat] /\ early \in [Servers -> Nat]
  /\ rotated \subseteq Servers /\ IsFiniteSet(rotated)
  /\ logFaults \in Nat

\* The queue of a server that has not opened the file has the newest of its early lines.
Unopened(s) ==
  /\ lineBuffer[s] = <<>> /\ ~flushTimer[s]
  /\ \A f \in DOMAIN content : \A i \in DOMAIN content[f] : content[f][i].of # s
  /\ held[s] = IF logged[s] = early[s] THEN <<>> ELSE <<Line(s, logged[s])>>
  /\ logged[s] \in {early[s], early[s] + 1}
  /\ opening[s] = "no" => logged[s] = early[s]
  /\ Len(preInitQueue[s]) = early[s] - FirstKept(s) + 1
  /\ Tells(preInitQueue[s], s, early[s])

\* The file of a server has all its lines but those of the buffer.
Opened(s) ==
  /\ opening[s] = "no" /\ preInitQueue[s] = <<>> /\ held[s] = <<>>
  /\ logged[s] - Len(lineBuffer[s]) >= FirstKept(s) - 1
  /\ Records(content[handle[s]], s, FirstKept(s), logged[s] - Len(lineBuffer[s]))
  /\ Tells(lineBuffer[s], s, logged[s])
  /\ lineBuffer[s] # <<>> => flushTimer[s]

Channel(s) ==
  /\ opening[s] # "no" => handle[s] = NoHandle
  /\ opening[s] # "no" \/ handle[s] # NoHandle => HasDestination(s) /\ ~disabled[s]
  /\ ~disabled[s] => IF handle[s] = NoHandle THEN Unopened(s) ELSE Opened(s)

Channels == \A s \in Servers : Channel(s)

\* A server rotates once, and alone.
RotatesOnce ==
  \A s \in Servers :
    /\ s \in rotated => opening[s] \notin {"stat", "remove"}
    /\ s \in rotated /\ opening[s] = "no" => handle[s] # NoHandle \/ disabled[s]
    /\ ~raced => \A other \in Servers : opening[s] \in Rotating /\ opening[other] \in Rotating => other = s

\* The rename that is next finds nothing where it renames to.
NextNumber(s) == IF opening[s] = "generations" THEN generation[s] ELSE 0
HoleAbove ==
  \A s \in Servers : opening[s] \in Rotating =>
    /\ NextNumber(s) \in 0..(Keep - 1) /\ (opening[s] = "generations" => generation[s] >= 1)
    /\ ~raced => path[NextNumber(s) + 1] = 0

\* How far the rotations have moved a file, and how far the one that runs.
MovedUp ==
  ~raced => \A f \in Generations :
    /\ \A i \in 0..Keep : path[i] = f => i + 1 <= f + Cardinality(rotated)
    /\ \A s \in Servers : opening[s] \in Rotating =>
         \A i \in 0..NextNumber(s) : path[i] = f => i + 2 <= f + Cardinality(rotated)


-------------------------------------------------------------------------------
(***************************************************************************)
(* Lines in a row.                                                         *)
(***************************************************************************)
LEMMA LineIs ==
  ASSUME NEW s \in Servers, NEW n \in Nat
  PROVE  /\ Line(s, n) \in [of : Servers \cup {NoHandle}, at : Nat]
         /\ Line(s, n).of = s /\ Line(s, n).at = n /\ NoHandle # s
BY LogAssumption DEF Line

LEMMA NoneTold ==
  ASSUME NEW s, NEW n \in Nat
  PROVE  <<>> \in LogFile /\ Len(<<>>) = 0 /\ Tells(<<>>, s, n)
BY DEF LogFile, Tells

LEMMA OneTold ==
  ASSUME NEW s \in Servers, NEW n \in Nat
  PROVE  <<Line(s, n)>> \in LogFile /\ Len(<<Line(s, n)>>) = 1 /\ Tells(<<Line(s, n)>>, s, n)
<1>1. PICK x : x = Line(s, n) /\ x \in [of : Servers \cup {NoHandle}, at : Nat]
  BY LineIs
<1>2. <<x>> \in LogFile /\ Len(<<x>>) = 1 /\ <<x>>[1] = x
  BY <1>1 DEF LogFile
<1>3. \A i \in 1..1 : i = 1
  OBVIOUS
<1>4. n - 1 + 1 = n
  OBVIOUS
<1> QED
  BY <1>1, <1>2, <1>3, <1>4 DEF Tells

LEMMA AppendTells ==
  ASSUME NEW s \in Servers, NEW q \in LogFile, NEW n \in Nat, Tells(q, s, n)
  PROVE  LET r == Append(q, Line(s, n + 1))
         IN  r \in LogFile /\ Len(r) = Len(q) + 1 /\ Len(q) \in Nat /\ Tells(r, s, n + 1)
<1> DEFINE r == Append(q, Line(s, n + 1))
<1>1. PICK x : x = Line(s, n + 1) /\ x \in [of : Servers \cup {NoHandle}, at : Nat]
  BY LineIs
<1>2. /\ r \in LogFile /\ Len(r) = Len(q) + 1 /\ Len(q) \in Nat
      /\ \A i \in 1..Len(q) : r[i] = q[i]
      /\ r[Len(q) + 1] = Line(s, n + 1)
  BY <1>1 DEF LogFile
<1> HIDE DEF r
<1>3. ASSUME NEW i \in 1..Len(r)
      PROVE  r[i] = Line(s, n + 1 - Len(r) + i)
  <2>1. n + 1 - Len(r) + i = n - Len(q) + i
    BY <1>2
  <2>2. CASE i \in 1..Len(q)
    BY <1>2, <2>1, <2>2 DEF Tells
  <2>3. CASE i = Len(q) + 1
    <3>1. n - Len(q) + i = n + 1
      BY <1>2, <2>3
    <3> QED
      BY <1>2, <2>1, <2>3, <3>1
  <2> QED
    BY <1>2, <2>2, <2>3
<1>4. Tells(r, s, n + 1)
  BY <1>3 DEF Tells
<1> QED
  BY <1>2, <1>4 DEF r

LEMMA TailTells ==
  ASSUME NEW s \in Servers, NEW q \in LogFile, q # <<>>, NEW n \in Nat, Tells(q, s, n)
  PROVE  Tail(q) \in LogFile /\ Len(Tail(q)) = Len(q) - 1 /\ Len(q) \in Nat /\ Tells(Tail(q), s, n)
<1>1. /\ Tail(q) \in LogFile /\ Len(Tail(q)) = Len(q) - 1 /\ Len(q) \in Nat
      /\ \A i \in 1..Len(Tail(q)) : Tail(q)[i] = q[i + 1]
  BY DEF LogFile
<1>2. ASSUME NEW i \in 1..Len(Tail(q))
      PROVE  Tail(q)[i] = Line(s, n - Len(Tail(q)) + i)
  <2>1. i + 1 \in 1..Len(q) /\ n - Len(Tail(q)) + i = n - Len(q) + (i + 1)
    BY <1>1
  <2> QED
    BY <1>1, <2>1 DEF Tells
<1> QED
  BY <1>1, <1>2 DEF Tells

\* A full queue gives up its oldest line.
LEMMA QueuedTells ==
  ASSUME NEW s \in Servers, NEW q \in LogFile, NEW n \in Nat, Tells(q, s, n),
         Len(q) = IF n > MaxPreInit THEN MaxPreInit ELSE n
  PROVE  LET r == Queued(q, Line(s, n + 1))
         IN  /\ r \in LogFile /\ Tells(r, s, n + 1)
             /\ Len(r) = IF n + 1 > MaxPreInit THEN MaxPreInit ELSE n + 1
<1>1. MaxPreInit \in Nat /\ MaxPreInit >= 1
  BY LogAssumption
<1>2. CASE Len(q) < MaxPreInit
  BY <1>1, <1>2, AppendTells DEF Queued
<1>3. CASE ~(Len(q) < MaxPreInit)
  <2>1. Len(q) = MaxPreInit /\ n >= MaxPreInit /\ q # <<>>
    BY <1>1, <1>3, NoneTold
  <2>2. Tail(q) \in LogFile /\ Len(Tail(q)) = Len(q) - 1 /\ Tells(Tail(q), s, n)
    BY <2>1, TailTells
  <2>3. PICK u : u = Tail(q)
    OBVIOUS
  <2>4. Append(u, Line(s, n + 1)) \in LogFile /\ Len(Append(u, Line(s, n + 1))) = Len(u) + 1
        /\ Tells(Append(u, Line(s, n + 1)), s, n + 1)
    BY <2>2, <2>3, AppendTells
  <2> QED
    BY <1>1, <1>3, <2>1, <2>2, <2>3, <2>4 DEF Queued
<1> QED
  BY <1>2, <1>3

\* What joins a file.
LEMMA JoinIs ==
  ASSUME NEW file \in LogFile, NEW q \in LogFile
  PROVE  /\ file \o q \in LogFile /\ Len(file) \in Nat /\ Len(q) \in Nat
         /\ DOMAIN file = 1..Len(file) /\ DOMAIN q = 1..Len(q)
         /\ DOMAIN (file \o q) = 1..(Len(file) + Len(q))
         /\ \A i \in 1..Len(file) : (file \o q)[i] = file[i]
         /\ \A i \in (Len(file) + 1)..(Len(file) + Len(q)) : i - Len(file) \in 1..Len(q) /\ (file \o q)[i] = q[i - Len(file)]
         /\ \A i \in 1..Len(q) : Len(file) + i \in 1..(Len(file) + Len(q)) /\ (file \o q)[Len(file) + i] = q[i]
         /\ \A i \in 1..Len(file) : file[i].at \in Nat
         /\ file \o <<>> = file /\ <<>> \o file = file
<1>1. /\ file \o q \in LogFile /\ Len(file) \in Nat /\ Len(q) \in Nat
      /\ DOMAIN file = 1..Len(file) /\ DOMAIN q = 1..Len(q)
      /\ DOMAIN (file \o q) = 1..(Len(file) + Len(q))
  BY DEF LogFile
<1>2. \A i \in 1..Len(file) : (file \o q)[i] = file[i]
  BY DEF LogFile
<1>3. \A i \in (Len(file) + 1)..(Len(file) + Len(q)) : (file \o q)[i] = q[i - Len(file)]
  BY DEF LogFile
<1>4. \A i \in 1..Len(q) : Len(file) + i \in (Len(file) + 1)..(Len(file) + Len(q)) /\ Len(file) + i - Len(file) = i
                           /\ Len(file) + i \in 1..(Len(file) + Len(q))
  BY <1>1
<1>5. \A i \in (Len(file) + 1)..(Len(file) + Len(q)) : i - Len(file) \in 1..Len(q)
  BY <1>1
<1>6. \A i \in 1..Len(file) : file[i].at \in Nat
  <2>1. \A i \in 1..Len(file) : file[i] \in [of : Servers \cup {NoHandle}, at : Nat]
    <3>1. PICK S : S = [of : Servers \cup {NoHandle}, at : Nat]
      OBVIOUS
    <3>2. file \in Seq(S)
      BY <3>1 DEF LogFile
    <3>3. \A i \in 1..Len(file) : file[i] \in S
      BY <3>2
    <3> QED
      BY <3>1, <3>3
  <2>2. \A x \in [of : Servers \cup {NoHandle}, at : Nat] : x.at \in Nat
    OBVIOUS
  <2> QED
    BY <2>1, <2>2
<1>7. file \o <<>> = file /\ <<>> \o file = file
  BY ConcatEmptySeq DEF LogFile
<1> QED
  BY <1>1, <1>2, <1>3, <1>4, <1>5, <1>6, <1>7

LEMMA RecordsOthers ==
  ASSUME NEW s \in Servers, NEW file \in LogFile, NEW q \in LogFile, NEW first \in Nat, NEW last \in Int,
         Records(file, s, first, last), \A i \in 1..Len(q) : q[i].of # s
  PROVE  Records(file \o q, s, first, last)
<1> DEFINE all == file \o q
<1>1. \A i : i \in DOMAIN all /\ all[i].of = s <=> i \in DOMAIN file /\ file[i].of = s
  <2>1. /\ Len(file) \in Nat /\ Len(q) \in Nat
        /\ DOMAIN file = 1..Len(file) /\ DOMAIN all = 1..(Len(file) + Len(q))
        /\ \A i \in 1..Len(file) : all[i] = file[i]
        /\ \A i \in (Len(file) + 1)..(Len(file) + Len(q)) : i - Len(file) \in 1..Len(q) /\ all[i] = q[i - Len(file)]
    BY JoinIs
  <2> HIDE DEF all
  <2>2. \A i : i \in DOMAIN all => i \in DOMAIN file \/ i \in (Len(file) + 1)..(Len(file) + Len(q))
    BY <2>1
  <2>3. \A i : i \in DOMAIN file => i \in DOMAIN all
    BY <2>1
  <2> QED
    BY <2>1, <2>2, <2>3
<1>2. \A i \in DOMAIN file : all[i] = file[i]
  <2>1. DOMAIN file = 1..Len(file) /\ \A i \in 1..Len(file) : (file \o q)[i] = file[i]
    BY JoinIs
  <2> QED
    BY <2>1
<1> HIDE DEF all
<1>3. {all[i].at : i \in {j \in DOMAIN all : all[j].of = s}} = {file[i].at : i \in {j \in DOMAIN file : file[j].of = s}}
  BY <1>1, <1>2
<1>4. \A i, j \in DOMAIN all : i < j /\ all[i].of = s /\ all[j].of = s => all[i].at < all[j].at
  BY <1>1, <1>2 DEF Records
<1>5. Records(all, s, first, last)
  BY <1>3, <1>4 DEF Records
<1> QED
  BY <1>5 DEF all

LEMMA RecordsNone ==
  ASSUME NEW s \in Servers, NEW file \in LogFile, NEW first \in Nat,
         \A i \in DOMAIN file : file[i].of # s
  PROVE  Records(file, s, first, first - 1)
<1>1. first..(first - 1) = {}
  OBVIOUS
<1> QED
  BY <1>1 DEF Records

LEMMA RecordsMore ==
  ASSUME NEW s \in Servers, NEW file \in LogFile, NEW q \in LogFile, NEW first \in Nat, NEW last \in Nat,
         last - Len(q) >= first - 1, first >= 1,
         Records(file, s, first, last - Len(q)), Tells(q, s, last)
  PROVE  Records(file \o q, s, first, last)
<1> DEFINE all == file \o q
           n == Len(file)
           before == last - Len(q)
<1>1. /\ Len(file) \in Nat /\ Len(q) \in Nat
      /\ DOMAIN file = 1..Len(file) /\ DOMAIN all = 1..(Len(file) + Len(q))
      /\ \A i \in 1..Len(file) : all[i] = file[i]
      /\ \A i \in (Len(file) + 1)..(Len(file) + Len(q)) : i - Len(file) \in 1..Len(q) /\ all[i] = q[i - Len(file)]
      /\ \A i \in 1..Len(q) : Len(file) + i \in 1..(Len(file) + Len(q)) /\ all[Len(file) + i] = q[i]
  BY JoinIs
<1>2. \A i \in 1..Len(q) : before + i \in Nat /\ q[i].of = s /\ q[i].at = before + i
  BY <1>1, LineIs DEF Tells
<1>3. \A i \in n + 1..n + Len(q) : all[i].of = s /\ all[i].at = before + (i - n) /\ i - n \in 1..Len(q)
  BY <1>1, <1>2
<1>4. \A i \in 1..n : all[i].of = s => all[i].at \in first..before
  BY <1>1 DEF Records
<1>5. \A i \in DOMAIN all : all[i].of = s => all[i].at \in first..last
  <2> HIDE DEF all
  <2>1. \A i \in DOMAIN all : i \in 1..n \/ i \in n + 1..n + Len(q)
    BY <1>1
  <2>2. \A i \in 1..Len(q) : before + i \in first..last
    BY <1>1
  <2>3. \A x \in first..before : x \in first..last
    BY <1>1
  <2> QED
    BY <1>3, <1>4, <2>1, <2>2, <2>3
<1>6. ASSUME NEW x \in first..last
      PROVE  \E i \in DOMAIN all : all[i].of = s /\ all[i].at = x
  <2>1. CASE x <= before
    <3>1. x \in {file[i].at : i \in {j \in DOMAIN file : file[j].of = s}}
      <4>1. x \in first..before
        BY <1>1, <2>1
      <4>2. {file[i].at : i \in {j \in DOMAIN file : file[j].of = s}} = first..before
        BY DEF Records
      <4> QED
        BY <4>1, <4>2
    <3>2. PICK i \in DOMAIN file : file[i].of = s /\ file[i].at = x
      BY <3>1
    <3> HIDE DEF all
    <3>3. i \in DOMAIN all /\ all[i] = file[i]
      BY <1>1, <3>2
    <3> QED
      BY <3>2, <3>3
  <2>2. CASE x > before
    <3>1. x - before \in 1..Len(q) /\ n + (x - before) \in DOMAIN all /\ all[n + (x - before)] = q[x - before]
      BY <1>1, <2>2
    <3>2. q[x - before].of = s /\ q[x - before].at = before + (x - before)
      BY <1>2, <3>1
    <3>3. before + (x - before) = x
      BY <1>1
    <3> QED
      BY <3>1, <3>2, <3>3
  <2> QED
    BY <1>1, <2>1, <2>2
<1>7. ASSUME NEW i \in DOMAIN all, NEW j \in DOMAIN all, i < j, all[i].of = s, all[j].of = s
      PROVE  all[i].at < all[j].at
  <2> HIDE DEF all
  <2>1. CASE j \in 1..n
    <3>1. i \in 1..n /\ all[i] = file[i] /\ all[j] = file[j] /\ i \in DOMAIN file /\ j \in DOMAIN file
      BY <1>1, <1>7, <2>1
    <3> QED
      BY <1>7, <3>1 DEF Records
  <2>2. CASE j \in n + 1..n + Len(q) /\ i \in 1..n
    <3>1. all[i].at \in first..before /\ all[j].at = before + (j - n) /\ j - n \in 1..Len(q)
      BY <1>3, <1>4, <1>7, <2>2
    <3>2. before \in Int /\ first \in Int
      BY <1>1
    <3> HIDE DEF before
    <3> QED
      BY <3>1, <3>2
  <2>3. CASE j \in n + 1..n + Len(q) /\ i \in n + 1..n + Len(q)
    <3>1. all[i].at = before + (i - n) /\ all[j].at = before + (j - n) /\ i - n \in 1..Len(q) /\ j - n \in 1..Len(q)
      BY <1>3, <2>3
    <3>2. before \in Int
      BY <1>1
    <3> HIDE DEF before
    <3> QED
      BY <1>1, <1>7, <3>1, <3>2
  <2> QED
    BY <1>1, <2>1, <2>2, <2>3
<1> HIDE DEF all
<1>8. {all[i].at : i \in {j \in DOMAIN all : all[j].of = s}} = first..last
  BY <1>5, <1>6
<1>9. Records(all, s, first, last)
  BY <1>7, <1>8 DEF Records
<1> QED
  BY <1>9 DEF all

-------------------------------------------------------------------------------
(***************************************************************************)
(* A step of one server leaves the channels of the others as they are.     *)
(***************************************************************************)
Untouched(t) ==
  /\ handle'[t] = handle[t] /\ projectKnown'[t] = projectKnown[t] /\ disabled'[t] = disabled[t]
  /\ flushTimer'[t] = flushTimer[t] /\ preInitQueue'[t] = preInitQueue[t] /\ lineBuffer'[t] = lineBuffer[t]
  /\ held'[t] = held[t] /\ opening'[t] = opening[t] /\ logged'[t] = logged[t] /\ early'[t] = early[t]

\* Files grow at their end, by lines of server s.
GrowsBy(s) ==
  /\ Len(content') >= Len(content) /\ DOMAIN content' = 1..Len(content')
  /\ \A f \in 1..Len(content') :
       \E q \in LogFile : /\ \A i \in 1..Len(q) : q[i].of = s
                          /\ content'[f] = (IF f <= Len(content) THEN content[f] ELSE <<>>) \o q

LEMMA FilesAre ==
  ASSUME LogTypes
  PROVE  /\ Len(content) \in Nat /\ DOMAIN content = 1..Len(content)
         /\ \A f \in 1..Len(content) : content[f] \in LogFile
         /\ Keep \in Nat /\ Keep >= 1 /\ NoHandle \notin Nat
         /\ \A s \in Servers : /\ FirstKept(s) \in Nat /\ FirstKept(s) >= 1
                               /\ FirstKept(s) - 1 <= early[s]
                               /\ early[s] - FirstKept(s) + 1 = IF early[s] > MaxPreInit THEN MaxPreInit ELSE early[s]
                               /\ Len(lineBuffer[s]) \in Nat /\ Len(preInitQueue[s]) \in Nat
                               /\ logged[s] \in Nat /\ early[s] \in Nat
<1>1. /\ Len(content) \in Nat /\ DOMAIN content = 1..Len(content)
      /\ \A f \in 1..Len(content) : content[f] \in LogFile
  <2>1. PICK S : S = LogFile
    OBVIOUS
  <2>2. content \in Seq(S)
    BY <2>1 DEF LogTypes
  <2> QED
    BY <2>1, <2>2
<1>2. Keep \in Nat /\ Keep >= 1 /\ NoHandle \notin Nat /\ MaxPreInit \in Nat /\ MaxPreInit >= 1
  BY LogAssumption
<1>3. ASSUME NEW s \in Servers
      PROVE  /\ FirstKept(s) \in Nat /\ FirstKept(s) >= 1
             /\ FirstKept(s) - 1 <= early[s]
             /\ early[s] - FirstKept(s) + 1 = IF early[s] > MaxPreInit THEN MaxPreInit ELSE early[s]
             /\ Len(lineBuffer[s]) \in Nat /\ Len(preInitQueue[s]) \in Nat
             /\ logged[s] \in Nat /\ early[s] \in Nat
  <2>1. early[s] \in Nat /\ logged[s] \in Nat
    BY DEF LogTypes
  <2>2. /\ FirstKept(s) \in Nat /\ FirstKept(s) >= 1
        /\ FirstKept(s) - 1 <= early[s]
        /\ early[s] - FirstKept(s) + 1 = IF early[s] > MaxPreInit THEN MaxPreInit ELSE early[s]
    BY <1>2, <2>1 DEF FirstKept
  <2>3. lineBuffer[s] \in LogFile /\ preInitQueue[s] \in LogFile
    BY DEF LogTypes
  <2> QED
    BY <2>1, <2>2, <2>3, JoinIs
<1> QED
  BY <1>1, <1>2, <1>3

LEMMA SameGrows ==
  ASSUME LogTypes, NEW s \in Servers, UNCHANGED content
  PROVE  GrowsBy(s)
<1>1. <<>> \in LogFile /\ \A i \in 1..Len(<<>>) : <<>>[i].of = s
  BY DEF LogFile
<1>2. Len(content) \in Nat /\ DOMAIN content = 1..Len(content) /\ \A f \in 1..Len(content) : content[f] \in LogFile
  BY FilesAre
<1>3. ASSUME NEW f \in 1..Len(content')
      PROVE  \E q \in LogFile : /\ \A i \in 1..Len(q) : q[i].of = s
                                /\ content'[f] = (IF f <= Len(content) THEN content[f] ELSE <<>>) \o q
  <2>1. f \in 1..Len(content) /\ f <= Len(content) /\ content'[f] = content[f]
    BY <1>2
  <2>2. content[f] = content[f] \o <<>>
    BY <1>2, <2>1, <1>1, JoinIs
  <2>3. content'[f] = (IF f <= Len(content) THEN content[f] ELSE <<>>) \o <<>>
    BY <2>1, <2>2
  <2> QED
    BY <1>1, <2>3
<1> QED
  BY <1>2, <1>3 DEF GrowsBy

LEMMA OthersKeep ==
  ASSUME LogTypes, NEW s \in Servers, NEW t \in Servers, t # s, Channel(t), Untouched(t), GrowsBy(s)
  PROVE  Channel(t)'
<1>1. (HasDestination(t)' <=> HasDestination(t)) /\ FirstKept(t)' = FirstKept(t)
  BY DEF Untouched, HasDestination, FirstKept
<1>2. CASE disabled[t]
  BY <1>1, <1>2 DEF Untouched, Channel
<1>3. CASE ~disabled[t] /\ handle[t] = NoHandle
  <2>1. Unopened(t)
    BY <1>3 DEF Channel
  <2>2. ASSUME NEW f \in 1..Len(content'), NEW i \in DOMAIN content'[f]
        PROVE  content'[f][i].of # t
    <3>1. PICK q \in LogFile : /\ \A k \in 1..Len(q) : q[k].of = s
                               /\ content'[f] = (IF f <= Len(content) THEN content[f] ELSE <<>>) \o q
      BY DEF GrowsBy
    <3>2. PICK file : file = IF f <= Len(content) THEN content[f] ELSE <<>>
      OBVIOUS
    <3>3. file \in LogFile /\ \A k \in DOMAIN file : file[k].of # t
      <4>1. CASE f <= Len(content)
        <5>1. f \in 1..Len(content) /\ file = content[f] /\ f \in DOMAIN content
          BY <3>2, <4>1, FilesAre
        <5> QED
          BY <2>1, <5>1, FilesAre DEF Unopened
      <4>2. CASE ~(f <= Len(content))
        <5>1. file = <<>> /\ <<>> \in LogFile /\ DOMAIN <<>> = {}
          BY <3>2, <4>2 DEF LogFile
        <5> QED
          BY <5>1
      <4> QED
        BY <4>1, <4>2
    <3>4. content'[f] = file \o q
      BY <3>1, <3>2
    <3>5. \A k \in DOMAIN (file \o q) : (file \o q)[k].of # t
      <4>1. /\ DOMAIN file = 1..Len(file)
            /\ DOMAIN (file \o q) = 1..(Len(file) + Len(q)) /\ Len(file) \in Nat /\ Len(q) \in Nat
            /\ \A k \in 1..Len(file) : (file \o q)[k] = file[k]
            /\ \A k \in (Len(file) + 1)..(Len(file) + Len(q)) : k - Len(file) \in 1..Len(q) /\ (file \o q)[k] = q[k - Len(file)]
        BY <3>3, JoinIs
      <4>2. \A k \in DOMAIN (file \o q) : k \in 1..Len(file) \/ k \in (Len(file) + 1)..(Len(file) + Len(q))
        BY <4>1
      <4> QED
        BY <3>1, <3>3, <4>1, <4>2
    <3> QED
      BY <3>4, <3>5
  <2>3. DOMAIN content' \subseteq 1..Len(content')
    BY DEF GrowsBy
  <2>4. Unopened(t)'
    BY <1>1, <2>1, <2>2, <2>3 DEF Unopened, Untouched
  <2> QED
    BY <1>1, <1>3, <2>4 DEF Channel, Untouched
<1>4. CASE ~disabled[t] /\ handle[t] # NoHandle
  <2>1. Opened(t)
    BY <1>4 DEF Channel
  <2>2. handle[t] \in 1..Len(content) /\ handle[t] \in 1..Len(content') /\ handle[t] <= Len(content)
    <3>1. handle[t] \in 1..Len(content)
      BY <1>4 DEF LogTypes
    <3>2. DOMAIN content' = 1..Len(content') /\ Len(content') >= Len(content) /\ Len(content) \in Nat
      BY FilesAre DEF GrowsBy
    <3> QED
      BY <3>1, <3>2
  <2>3. PICK q \in LogFile : /\ \A k \in 1..Len(q) : q[k].of = s
                             /\ content'[handle[t]] = content[handle[t]] \o q
    BY <2>2 DEF GrowsBy
  <2>4. PICK file : file = content[handle[t]]
    OBVIOUS
  <2>5. file \in LogFile /\ Records(file, t, FirstKept(t), logged[t] - Len(lineBuffer[t]))
    BY <2>1, <2>2, <2>4, FilesAre DEF Opened
  <2>6. PICK first, last : first = FirstKept(t) /\ last = logged[t] - Len(lineBuffer[t])
    OBVIOUS
  <2>7. first \in Nat /\ last \in Int
    BY <2>6, FilesAre
  <2>8. Records(file \o q, t, first, last)
    BY <2>3, <2>5, <2>6, <2>7, RecordsOthers
  <2>9. Opened(t)'
    BY <1>1, <2>1, <2>3, <2>4, <2>6, <2>8 DEF Opened, Untouched
  <2> QED
    BY <1>1, <1>4, <2>9 DEF Channel, Untouched
<1> QED
  BY <1>2, <1>3, <1>4

LEMMA ChannelsKeep ==
  ASSUME LogTypes, Channels, NEW s \in Servers, \A t \in Servers \ {s} : Untouched(t), GrowsBy(s), Channel(s)'
  PROVE  Channels'
<1>1. ASSUME NEW t \in Servers
      PROVE  Channel(t)'
  <2>1. CASE t = s
    BY <2>1
  <2>2. CASE t # s
    BY <2>2, OthersKeep DEF Channels
  <2> QED
    BY <2>1, <2>2
<1> QED
  BY <1>1 DEF Channels

LEMMA SetProjectRootKeeps ==
  ASSUME LogTypes, Channels, NEW s \in Servers, SetProjectRoot(s)
  PROVE  LogTypes' /\ Channels'
<1>1. /\ opening[s] = "no" /\ ~disabled[s]
      /\ projectKnown' = [projectKnown EXCEPT ![s] = TRUE]
      /\ opening' = [opening EXCEPT ![s] = IF handle[s] = NoHandle THEN "stat" ELSE "no"]
      /\ UNCHANGED <<path, content, handle, disabled, generation, preInitQueue, lineBuffer, flushTimer, held,
                     logged, early, rotated, raced, logFaults>>
  BY DEF SetProjectRoot, Runs, historyVars
<1>2. LogTypes'
  <2>1. projectKnown' \in [Servers -> BOOLEAN]
        /\ opening' \in [Servers -> {"no", "stat", "remove", "generations", "path", "open"}]
    BY <1>1 DEF LogTypes
  <2> QED
    BY <1>1, <2>1 DEF LogTypes
<1>3. \A t \in Servers \ {s} : Untouched(t)
  BY <1>1 DEF LogTypes, Untouched
<1>4. projectKnown'[s] = TRUE /\ opening'[s] = IF handle[s] = NoHandle THEN "stat" ELSE "no"
  BY <1>1 DEF LogTypes
<1>5. FirstKept(s)' = FirstKept(s) /\ HasDestination(s)'
  BY <1>1, <1>4 DEF FirstKept, HasDestination
<1>6. Channel(s)'
  <2>1. CASE handle[s] = NoHandle
    <3>1. Unopened(s)
      BY <1>1, <2>1 DEF Channels, Channel
    <3>2. Unopened(s)'
      BY <1>1, <1>4, <1>5, <2>1, <3>1 DEF Unopened
    <3> QED
      BY <1>1, <1>4, <1>5, <2>1, <3>2 DEF Channel
  <2>2. CASE handle[s] # NoHandle
    <3>1. Opened(s)
      BY <1>1, <2>2 DEF Channels, Channel
    <3>2. Opened(s)'
      BY <1>1, <1>4, <1>5, <2>2, <3>1 DEF Opened
    <3> QED
      BY <1>1, <1>4, <1>5, <2>2, <3>2 DEF Channel
  <2> QED
    BY <2>1, <2>2
<1> QED
  BY <1>1, <1>2, <1>3, <1>6, SameGrows, ChannelsKeep

\* A line that comes before there is a file to write to.
LEMMA LogEarlyKeeps ==
  ASSUME LogTypes, Channels, NEW s \in Servers, LogEvent(s), ~HasDestination(s)
  PROVE  LogTypes' /\ Channels'
<1>1. /\ opening[s] = "no" /\ ~disabled[s]
      /\ handle[s] = NoHandle
      /\ logged' = [logged EXCEPT ![s] = @ + 1]
      /\ early' = [early EXCEPT ![s] = @ + 1]
      /\ UNCHANGED <<projectKnown, rotated, raced>>
  BY DEF LogEvent, Runs, Channels, Channel
<1>2. /\ preInitQueue' = [preInitQueue EXCEPT ![s] = Queued(@, Line(s, logged[s] + 1))]
      /\ UNCHANGED <<path, content, handle, disabled, opening, generation, held, lineBuffer, flushTimer, logFaults>>
  BY <1>1 DEF LogEvent, openVars
<1>3. Unopened(s)
  BY <1>1 DEF Channels, Channel
<1>4. PICK n, q, r : n = logged[s] /\ q = preInitQueue[s] /\ r = Queued(q, Line(s, n + 1))
  OBVIOUS
<1>5. /\ n \in Nat /\ q \in LogFile /\ n = early[s]
      /\ Tells(q, s, n) /\ Len(q) = IF n > MaxPreInit THEN MaxPreInit ELSE n
  BY <1>1, <1>3, <1>4, FilesAre DEF Unopened, LogTypes
<1>6. r \in LogFile /\ Tells(r, s, n + 1) /\ Len(r) = IF n + 1 > MaxPreInit THEN MaxPreInit ELSE n + 1
  BY <1>4, <1>5, QueuedTells
<1>7. preInitQueue' = [preInitQueue EXCEPT ![s] = r]
  BY <1>2, <1>4
<1>8. LogTypes'
  <2>1. preInitQueue' \in [Servers -> LogFile] /\ logged' \in [Servers -> Nat] /\ early' \in [Servers -> Nat]
    BY <1>1, <1>6, <1>7 DEF LogTypes
  <2> QED
    BY <1>1, <1>2, <2>1 DEF LogTypes
<1>9. \A t \in Servers \ {s} : Untouched(t)
  BY <1>1, <1>2 DEF LogTypes, Untouched
<1>10. logged'[s] = n + 1 /\ early'[s] = n + 1 /\ preInitQueue'[s] = r
  BY <1>1, <1>4, <1>5, <1>7 DEF LogTypes
<1>11. early'[s] - FirstKept(s)' + 1 = IF n + 1 > MaxPreInit THEN MaxPreInit ELSE n + 1
  BY <1>5, <1>10, LogAssumption DEF FirstKept
<1>12. held[s] = <<>>
  BY <1>3, <1>4, <1>5 DEF Unopened
<1>13. Unopened(s)'
  BY <1>1, <1>2, <1>3, <1>6, <1>10, <1>11, <1>12 DEF Unopened
<1>14. HasDestination(s)' <=> HasDestination(s)
  BY <1>1 DEF HasDestination
<1>15. Channel(s)'
  BY <1>1, <1>2, <1>13, <1>14 DEF Channel
<1> QED
  BY <1>2, <1>8, <1>9, <1>15, SameGrows, ChannelsKeep

\* A line that opens the file.
LEMMA LogFirstKeeps ==
  ASSUME LogTypes, Channels, NEW s \in Servers, LogEvent(s), HasDestination(s), handle[s] = NoHandle
  PROVE  LogTypes' /\ Channels'
<1>1. /\ opening[s] = "no" /\ ~disabled[s]
      /\ logged' = [logged EXCEPT ![s] = @ + 1]
      /\ early' = [early EXCEPT ![s] = @ + 0]
      /\ opening' = [opening EXCEPT ![s] = "stat"]
      /\ held' = [held EXCEPT ![s] = <<Line(s, logged[s] + 1)>>]
      /\ UNCHANGED <<path, content, handle, disabled, generation, preInitQueue, lineBuffer, flushTimer, logFaults,
                     projectKnown, rotated, raced>>
  BY DEF LogEvent, Runs
<1>2. Unopened(s)
  BY <1>1 DEF Channels, Channel
<1>3. PICK n, q : n = logged[s] /\ q = <<Line(s, logged[s] + 1)>>
  OBVIOUS
<1>4. /\ n \in Nat /\ n = early[s] /\ n + 1 \in Nat
  BY <1>1, <1>2, <1>3 DEF Unopened, LogTypes
<1>5. q \in LogFile
  BY <1>3, <1>4, OneTold
<1>6. LogTypes'
  <2>1. held' \in [Servers -> LogFile] /\ logged' \in [Servers -> Nat] /\ early' \in [Servers -> Nat]
    BY <1>1, <1>3, <1>5 DEF LogTypes
  <2>2. opening' \in [Servers -> {"no", "stat", "remove", "generations", "path", "open"}]
    BY <1>1 DEF LogTypes
  <2> QED
    BY <1>1, <2>1, <2>2 DEF LogTypes
<1>7. early' = early
  BY <1>1 DEF LogTypes
<1>8. \A t \in Servers \ {s} : Untouched(t)
  BY <1>1 DEF LogTypes, Untouched
<1>9. logged'[s] = n + 1 /\ held'[s] = q /\ opening'[s] = "stat"
  BY <1>1, <1>3, <1>4 DEF LogTypes
<1>10. FirstKept(s)' = FirstKept(s) /\ HasDestination(s)'
  BY <1>1, <1>7 DEF FirstKept, HasDestination
<1>11. logged'[s] # early'[s] /\ logged'[s] \in {early'[s], early'[s] + 1} /\ held'[s] = <<Line(s, logged'[s])>>
  <2>1. early'[s] = n /\ logged'[s] = n + 1 /\ n # n + 1
    BY <1>4, <1>7, <1>9
  <2>2. held'[s] = <<Line(s, logged'[s])>>
    BY <1>3, <1>9
  <2> QED
    BY <2>1, <2>2
<1>12. Unopened(s)'
  BY <1>1, <1>2, <1>7, <1>9, <1>10, <1>11 DEF Unopened
<1>13. Channel(s)'
  BY <1>1, <1>9, <1>10, <1>12 DEF Channel
<1> QED
  BY <1>1, <1>6, <1>8, <1>13, SameGrows, ChannelsKeep

LEMMA ProceedKeeps ==
  ASSUME LogTypes, Channels, NEW s \in Servers, opening[s] # "no",
         NEW step \in {"remove", "generations", "path", "open"}, Proceed(s, step),
         path' \in [0..Keep -> 0..Len(content)], generation' \in [Servers -> Nat],
         rotated' \subseteq Servers, IsFiniteSet(rotated'), raced' \in BOOLEAN
  PROVE  LogTypes' /\ Channels'
<1>1. /\ opening' = [opening EXCEPT ![s] = step]
      /\ UNCHANGED <<content, handle, disabled, held, projectKnown, preInitQueue, lineBuffer, flushTimer,
                     logged, early, logFaults>>
  BY DEF Proceed
<1>2. LogTypes'
  <2>1. opening' \in [Servers -> {"no", "stat", "remove", "generations", "path", "open"}]
    BY <1>1 DEF LogTypes
  <2> QED
    BY <1>1, <2>1 DEF LogTypes
<1>3. \A t \in Servers \ {s} : Untouched(t)
  BY <1>1 DEF LogTypes, Untouched
<1>4. opening'[s] = step
  BY <1>1 DEF LogTypes
<1>5. FirstKept(s)' = FirstKept(s) /\ (HasDestination(s)' <=> HasDestination(s))
  BY <1>1 DEF FirstKept, HasDestination
<1>6. handle[s] = NoHandle /\ Unopened(s) /\ HasDestination(s) /\ ~disabled[s]
  BY DEF Channels, Channel
<1>7. Unopened(s)'
  BY <1>1, <1>4, <1>5, <1>6 DEF Unopened
<1>8. Channel(s)'
  BY <1>1, <1>4, <1>5, <1>6, <1>7 DEF Channel
<1> QED
  BY <1>1, <1>2, <1>3, <1>8, SameGrows, ChannelsKeep

LEMMA OpeningFailsKeeps ==
  ASSUME LogTypes, Channels, NEW s \in Servers, OpeningFails(s)
  PROVE  LogTypes' /\ Channels'
<1>1. /\ opening[s] # "no"
      /\ opening' = [opening EXCEPT ![s] = "no"]
      /\ disabled' = [disabled EXCEPT ![s] = TRUE]
      /\ held' = [held EXCEPT ![s] = <<>>]
      /\ logFaults' \in {logFaults, logFaults + 1}
      /\ UNCHANGED <<path, content, handle, generation, projectKnown, preInitQueue, lineBuffer, flushTimer,
                     logged, early, rotated, raced>>
  BY DEF OpeningFails
<1>2. LogTypes'
  <2>1. opening' \in [Servers -> {"no", "stat", "remove", "generations", "path", "open"}]
        /\ disabled' \in [Servers -> BOOLEAN]
    BY <1>1 DEF LogTypes
  <2>2. <<>> \in LogFile
    BY DEF LogFile
  <2>3. held' \in [Servers -> LogFile]
    BY <1>1, <2>2 DEF LogTypes
  <2>4. logFaults' \in Nat
    BY <1>1 DEF LogTypes
  <2> QED
    BY <1>1, <2>1, <2>3, <2>4 DEF LogTypes
<1>3. \A t \in Servers \ {s} : Untouched(t)
  BY <1>1 DEF LogTypes, Untouched
<1>4. opening'[s] = "no" /\ disabled'[s] = TRUE
  BY <1>1 DEF LogTypes
<1>5. handle[s] = NoHandle
  BY <1>1 DEF Channels, Channel
<1>6. Channel(s)'
  BY <1>1, <1>4, <1>5 DEF Channel
<1> QED
  BY <1>1, <1>2, <1>3, <1>6, SameGrows, ChannelsKeep

\* Lines go to a file, as the last ones in it.
LEMMA WriteGrows ==
  ASSUME LogTypes, NEW s \in Servers, NEW file \in 1..Len(content), NEW q \in LogFile,
         \A i \in 1..Len(q) : q[i].of = s, content' = [content EXCEPT ![file] = @ \o q]
  PROVE  /\ GrowsBy(s) /\ Len(content') = Len(content) /\ content' \in Seq(LogFile)
         /\ content'[file] = content[file] \o q
<1>1. Len(content) \in Nat /\ DOMAIN content = 1..Len(content) /\ \A f \in 1..Len(content) : content[f] \in LogFile
  BY FilesAre
<1>2. PICK r : r = content[file] \o q
  OBVIOUS
<1>3. r \in LogFile
  BY <1>1, <1>2, JoinIs
<1>4. content' = [content EXCEPT ![file] = r]
  BY <1>2
<1>5. PICK S : S = LogFile
  OBVIOUS
<1>6. content \in Seq(S) /\ r \in S
  BY <1>3, <1>5 DEF LogTypes
<1>7. content' \in Seq(S) /\ Len(content') = Len(content) /\ DOMAIN content' = DOMAIN content
      /\ content'[file] = r /\ \A f \in 1..Len(content) : f # file => content'[f] = content[f]
  <2>1. content' \in Seq(S) /\ Len(content') = Len(content)
        /\ \A f \in 1..Len(content) : content'[f] = IF f = file THEN r ELSE content[f]
    <3>1. PICK c : c = [content EXCEPT ![file] = r]
      OBVIOUS
    <3>2. c \in Seq(S) /\ Len(c) = Len(content) /\ \A f \in 1..Len(content) : c[f] = IF f = file THEN r ELSE content[f]
      BY <1>6, <3>1, ExceptSeq
    <3> QED
      BY <1>4, <3>1, <3>2
  <2>2. DOMAIN content' = DOMAIN content
    BY <1>4
  <2> QED
    BY <2>1, <2>2
<1>8. ASSUME NEW f \in 1..Len(content')
      PROVE  \E p \in LogFile : /\ \A i \in 1..Len(p) : p[i].of = s
                                /\ content'[f] = (IF f <= Len(content) THEN content[f] ELSE <<>>) \o p
  <2>1. f \in 1..Len(content) /\ f <= Len(content)
    BY <1>1, <1>7
  <2>2. CASE f = file
    <3>1. content'[f] = (IF f <= Len(content) THEN content[f] ELSE <<>>) \o q
      BY <1>2, <1>7, <2>1, <2>2
    <3> QED
      BY <3>1
  <2>3. CASE f # file
    <3>1. <<>> \in LogFile /\ \A i \in 1..Len(<<>>) : <<>>[i].of = s
      BY DEF LogFile
    <3>2. content'[f] = content[f] \o <<>>
      BY <1>1, <1>7, <2>1, <2>3, <3>1, JoinIs
    <3>3. content'[f] = (IF f <= Len(content) THEN content[f] ELSE <<>>) \o <<>>
      BY <2>1, <3>2
    <3> QED
      BY <3>1, <3>3
  <2> QED
    BY <2>2, <2>3
<1>9. GrowsBy(s)
  <2>1. Len(content') >= Len(content) /\ DOMAIN content' = 1..Len(content')
    BY <1>1, <1>7
  <2> QED
    BY <1>8, <2>1 DEF GrowsBy
<1> QED
  BY <1>2, <1>5, <1>7, <1>9

\* What a flush does to the channel of a server that has the file open, when
\* `lines` are the ones that wait.
LEMMA FlushKeeps ==
  ASSUME LogTypes, Channels, NEW s \in Servers, opening[s] = "no", handle[s] # NoHandle,
         NEW lines \in LogFile, Flush(s, lines),
         NEW n \in Nat, Tells(lines, s, n), n - Len(lines) >= FirstKept(s) - 1,
         Records(content[handle[s]], s, FirstKept(s), n - Len(lines)),
         logged' \in [Servers -> Nat], logged'[s] = n, \A t \in Servers \ {s} : logged'[t] = logged[t],
         UNCHANGED <<path, opening, generation, held, preInitQueue, early, projectKnown, rotated, raced>>
  PROVE  LogTypes' /\ Channels'
<1>1. /\ lineBuffer' = [lineBuffer EXCEPT ![s] = <<>>]
      /\ flushTimer' = [flushTimer EXCEPT ![s] = FALSE]
  BY DEF Flush
<1>2. /\ lineBuffer' \in [Servers -> LogFile] /\ flushTimer' \in [Servers -> BOOLEAN]
      /\ lineBuffer'[s] = <<>> /\ flushTimer'[s] = FALSE
      /\ \A t \in Servers \ {s} : lineBuffer'[t] = lineBuffer[t] /\ flushTimer'[t] = flushTimer[t]
  <2>1. <<>> \in LogFile
    BY DEF LogFile
  <2> QED
    BY <1>1, <2>1 DEF LogTypes
<1>3. Opened(s) /\ HasDestination(s) /\ ~disabled[s] /\ handle[s] \in 1..Len(content)
  BY DEF Channels, Channel, LogTypes
<1>4. FirstKept(s)' = FirstKept(s) /\ (HasDestination(s)' <=> HasDestination(s))
  BY DEF FirstKept, HasDestination
<1>5. CASE /\ content' = [content EXCEPT ![handle[s]] = @ \o lines]
           /\ UNCHANGED <<handle, disabled, logFaults>>
  <2>1. \A i \in 1..Len(lines) : lines[i].of = s
    <3>1. \A k : Line(s, k).of = s
      BY DEF Line
    <3> QED
      BY <3>1 DEF Tells
  <2>2. /\ GrowsBy(s) /\ Len(content') = Len(content) /\ content' \in Seq(LogFile)
        /\ content'[handle[s]] = content[handle[s]] \o lines
    BY <1>3, <1>5, <2>1, WriteGrows
  <2>3. LogTypes'
    BY <1>2, <1>5, <2>2 DEF LogTypes
  <2>4. \A t \in Servers \ {s} : Untouched(t)
    BY <1>2, <1>5 DEF Untouched
  <2>5. content[handle[s]] \in LogFile /\ FirstKept(s) \in Nat /\ FirstKept(s) >= 1
    BY <1>3, FilesAre
  <2>6. PICK file, first : file = content[handle[s]] /\ first = FirstKept(s)
    OBVIOUS
  <2>7. Records(file \o lines, s, first, n)
    BY <2>5, <2>6, RecordsMore
  <2>8. Len(lineBuffer'[s]) = 0 /\ Tells(lineBuffer'[s], s, n)
    BY <1>2, NoneTold
  <2>9. n - 0 = n /\ n >= first - 1
    <3>1. Len(lines) \in Nat
      BY JoinIs
    <3> QED
      BY <2>5, <2>6, <3>1
  <2>10. Opened(s)'
    BY <1>2, <1>3, <1>4, <1>5, <2>2, <2>6, <2>7, <2>8, <2>9 DEF Opened
  <2>11. Channel(s)'
    BY <1>3, <1>4, <1>5, <2>10 DEF Channel
  <2> QED
    BY <2>2, <2>3, <2>4, <2>11, ChannelsKeep
<1>6. CASE /\ logFaults' = logFaults + 1
           /\ disabled' = [disabled EXCEPT ![s] = TRUE]
           /\ handle' = [handle EXCEPT ![s] = NoHandle]
           /\ UNCHANGED content
  <2>1. /\ disabled' \in [Servers -> BOOLEAN] /\ handle' \in [Servers -> {NoHandle} \cup 1..Len(content)]
        /\ logFaults' \in Nat /\ disabled'[s] = TRUE /\ handle'[s] = NoHandle
        /\ \A t \in Servers \ {s} : disabled'[t] = disabled[t] /\ handle'[t] = handle[t]
    BY <1>6 DEF LogTypes
  <2>2. LogTypes'
    BY <1>2, <1>6, <2>1 DEF LogTypes
  <2>3. \A t \in Servers \ {s} : Untouched(t)
    BY <1>2, <2>1 DEF Untouched
  <2>4. Channel(s)'
    BY <2>1 DEF Channel
  <2> QED
    BY <1>6, <2>2, <2>3, <2>4, SameGrows, ChannelsKeep
<1> QED
  BY <1>5, <1>6 DEF Flush

LEMMA FlushTimerKeeps ==
  ASSUME LogTypes, Channels, NEW s \in Servers, FlushTimer(s)
  PROVE  LogTypes' /\ Channels'
<1>1. /\ opening[s] = "no" /\ flushTimer[s] /\ Flush(s, lineBuffer[s])
      /\ UNCHANGED <<path, opening, generation, held, projectKnown, preInitQueue, logged, early, rotated, raced>>
  BY DEF FlushTimer
<1>2. CASE handle[s] # NoHandle
  <2>1. Opened(s)
    BY <1>2 DEF Channels, Channel
  <2>2. PICK n, lines : n = logged[s] /\ lines = lineBuffer[s]
    OBVIOUS
  <2>3. n \in Nat /\ lines \in LogFile /\ Flush(s, lines)
    BY <1>1, <2>2 DEF LogTypes
  <2>4. /\ Tells(lines, s, n) /\ n - Len(lines) >= FirstKept(s) - 1
        /\ Records(content[handle[s]], s, FirstKept(s), n - Len(lines))
    BY <2>1, <2>2 DEF Opened
  <2>5. logged' \in [Servers -> Nat] /\ logged'[s] = n /\ \A t \in Servers \ {s} : logged'[t] = logged[t]
    BY <1>1, <2>2 DEF LogTypes
  <2> QED
    BY <1>1, <1>2, <2>3, <2>4, <2>5, FlushKeeps
<1>3. CASE handle[s] = NoHandle
  <2>1. disabled[s]
    BY <1>1, <1>3 DEF Channels, Channel, Unopened
  <2>2. /\ lineBuffer' = [lineBuffer EXCEPT ![s] = <<>>]
        /\ flushTimer' = [flushTimer EXCEPT ![s] = FALSE]
        /\ UNCHANGED <<content, handle, disabled, logFaults>>
    BY <1>1, <1>3 DEF Flush
  <2>3. lineBuffer' \in [Servers -> LogFile] /\ flushTimer' \in [Servers -> BOOLEAN]
    <3>1. <<>> \in LogFile
      BY DEF LogFile
    <3> QED
      BY <2>2, <3>1 DEF LogTypes
  <2>4. LogTypes'
    BY <1>1, <2>2, <2>3 DEF LogTypes
  <2>5. \A t \in Servers \ {s} : Untouched(t)
    BY <1>1, <2>2 DEF Untouched, LogTypes
  <2>6. Channel(s)'
    BY <1>1, <1>3, <2>1, <2>2 DEF Channel
  <2> QED
    BY <2>2, <2>4, <2>5, <2>6, SameGrows, ChannelsKeep
<1> QED
  BY <1>2, <1>3

\* A line of a server that has the file open.
LEMMA LogMoreKeeps ==
  ASSUME LogTypes, Channels, NEW s \in Servers, LogEvent(s), handle[s] # NoHandle
  PROVE  LogTypes' /\ Channels'
<1>1. HasDestination(s) /\ Opened(s)
  BY DEF Channels, Channel
<1>2. PICK n, lines : n = logged[s] /\ lines = Append(lineBuffer[s], Line(s, logged[s] + 1))
  OBVIOUS
<1>3. /\ opening[s] = "no" /\ ~disabled[s]
      /\ logged' = [logged EXCEPT ![s] = @ + 1]
      /\ early' = [early EXCEPT ![s] = @ + 0]
      /\ Buffer(s, lines)
      /\ UNCHANGED <<path, opening, generation, held, preInitQueue, projectKnown, rotated, raced>>
  BY <1>1, <1>2 DEF LogEvent, Runs
<1>4. early' = early
  BY <1>3 DEF LogTypes
<1>5. logged' \in [Servers -> Nat] /\ logged'[s] = n + 1 /\ n + 1 \in Nat /\ \A t \in Servers \ {s} : logged'[t] = logged[t]
  BY <1>2, <1>3 DEF LogTypes
<1>6. PICK q : q = lineBuffer[s]
  OBVIOUS
<1>7. q \in LogFile /\ n \in Nat /\ Tells(q, s, n) /\ n - Len(q) >= FirstKept(s) - 1
      /\ Records(content[handle[s]], s, FirstKept(s), n - Len(q))
  BY <1>1, <1>2, <1>6 DEF Opened, LogTypes
<1>8. lines = Append(q, Line(s, n + 1))
  BY <1>2, <1>6
<1>9. lines \in LogFile /\ Len(lines) = Len(q) + 1 /\ Len(q) \in Nat /\ Tells(lines, s, n + 1)
  BY <1>7, <1>8, AppendTells
<1>10. (n + 1) - Len(lines) = n - Len(q)
  BY <1>7, <1>9
<1>11. CASE Len(lines) >= Threshold
  <2>1. Flush(s, lines)
    BY <1>3, <1>11 DEF Buffer
  <2>2. (n + 1) - Len(lines) >= FirstKept(s) - 1
        /\ Records(content[handle[s]], s, FirstKept(s), (n + 1) - Len(lines))
    BY <1>7, <1>10
  <2>3. PICK m : m = n + 1
    OBVIOUS
  <2>4. /\ m \in Nat /\ Tells(lines, s, m) /\ m - Len(lines) >= FirstKept(s) - 1
        /\ Records(content[handle[s]], s, FirstKept(s), m - Len(lines))
        /\ logged'[s] = m
    <3>1. Tells(lines, s, m)
      BY <1>9, <2>3
    <3>2. m \in Nat /\ logged'[s] = m
      BY <1>5, <2>3
    <3>3. m - Len(lines) = n - Len(q)
      BY <1>10, <2>3
    <3>4. m - Len(lines) >= FirstKept(s) - 1
          /\ Records(content[handle[s]], s, FirstKept(s), m - Len(lines))
      BY <1>7, <3>3
    <3> QED
      BY <3>1, <3>2, <3>4
  <2> QED
    BY <1>3, <1>4, <1>5, <1>9, <2>1, <2>4, FlushKeeps
<1>12. CASE ~(Len(lines) >= Threshold)
  <2>1. /\ lineBuffer' = [lineBuffer EXCEPT ![s] = lines]
        /\ flushTimer' = [flushTimer EXCEPT ![s] = (lines # <<>>)]
        /\ UNCHANGED <<content, handle, disabled, logFaults>>
    BY <1>3, <1>12 DEF Buffer
  <2>2. lines # <<>>
    BY <1>9
  <2>3. /\ lineBuffer' \in [Servers -> LogFile] /\ flushTimer' \in [Servers -> BOOLEAN]
        /\ lineBuffer'[s] = lines /\ flushTimer'[s] = TRUE
    BY <1>9, <2>1, <2>2 DEF LogTypes
  <2>4. LogTypes'
    BY <1>3, <1>4, <1>5, <2>1, <2>3 DEF LogTypes
  <2>5. \A t \in Servers \ {s} : Untouched(t)
    BY <1>3, <1>4, <1>5, <2>1 DEF Untouched, LogTypes
  <2>6. FirstKept(s)' = FirstKept(s) /\ (HasDestination(s)' <=> HasDestination(s))
    BY <1>3, <1>4 DEF FirstKept, HasDestination
  <2>7. Opened(s)'
    <3>1. logged'[s] - Len(lineBuffer'[s]) = n - Len(q) /\ content'[handle'[s]] = content[handle[s]]
      <4>1. logged'[s] = n + 1 /\ lineBuffer'[s] = lines
        BY <1>5, <2>3
      <4>2. content'[handle'[s]] = content[handle[s]]
        BY <2>1
      <4>3. logged'[s] - Len(lineBuffer'[s]) = (n + 1) - Len(lines)
        BY <4>1, Zenon
      <4> QED
        BY <1>10, <4>2, <4>3
    <3>2. Tells(lineBuffer'[s], s, logged'[s]) /\ (lineBuffer'[s] # <<>> => flushTimer'[s])
      BY <1>5, <1>9, <2>3
    <3>3. opening'[s] = "no" /\ preInitQueue'[s] = <<>> /\ held'[s] = <<>>
      BY <1>1, <1>3 DEF Opened
    <3>4. /\ logged'[s] - Len(lineBuffer'[s]) >= FirstKept(s) - 1
          /\ Records(content'[handle'[s]], s, FirstKept(s), logged'[s] - Len(lineBuffer'[s]))
      BY <1>7, <3>1
    <3> QED
      BY <2>6, <3>2, <3>3, <3>4 DEF Opened
  <2>8. Channel(s)'
    BY <1>1, <1>3, <2>1, <2>6, <2>7 DEF Channel
  <2> QED
    BY <2>1, <2>4, <2>5, <2>8, SameGrows, ChannelsKeep
<1> QED
  BY <1>11, <1>12

LEMMA LogEventKeeps ==
  ASSUME LogTypes, Channels, NEW s \in Servers, LogEvent(s)
  PROVE  LogTypes' /\ Channels'
BY LogEarlyKeeps, LogFirstKeeps, LogMoreKeeps DEF Channels, Channel

\* The file that a server opens is there, or it is made.
LEMMA FileIsThere ==
  ASSUME LogTypes, NEW file, NEW files,
         file = IF path[0] = 0 THEN Len(content) + 1 ELSE path[0],
         files = IF path[0] = 0 THEN Append(content, <<>>) ELSE content
  PROVE  /\ files \in Seq(LogFile) /\ Len(files) \in Nat /\ Len(files) >= Len(content) /\ DOMAIN files = 1..Len(files)
         /\ file \in 1..Len(files)
         /\ \A f \in 1..Len(files) : files[f] \in LogFile /\ files[f] = IF f <= Len(content) THEN content[f] ELSE <<>>
<1>1. Len(content) \in Nat /\ DOMAIN content = 1..Len(content) /\ \A f \in 1..Len(content) : content[f] \in LogFile
  BY FilesAre
<1>2. <<>> \in LogFile
  BY DEF LogFile
<1>3. path[0] \in 0..Len(content)
  BY FilesAre DEF LogTypes
<1>4. PICK S : S = LogFile
  OBVIOUS
<1>5. content \in Seq(S) /\ <<>> \in S /\ \A f \in 1..Len(content) : content[f] \in S
  BY <1>1, <1>2, <1>4 DEF LogTypes
<1>6. CASE path[0] = 0
  <2>1. /\ files = Append(content, <<>>) /\ file = Len(content) + 1
    BY <1>6
  <2>2. /\ files \in Seq(S) /\ Len(files) = Len(content) + 1
        /\ \A f \in 1..Len(content) : files[f] = content[f]
        /\ files[Len(content) + 1] = <<>>
    BY <1>5, <2>1
  <2>3. DOMAIN files = 1..Len(files)
    BY <2>2
  <2>4. ASSUME NEW f \in 1..Len(files)
        PROVE  files[f] \in S /\ files[f] = IF f <= Len(content) THEN content[f] ELSE <<>>
    <3>1. CASE f <= Len(content)
      <4>1. f \in 1..Len(content)
        BY <3>1
      <4> QED
        BY <1>5, <2>2, <3>1, <4>1
    <3>2. CASE ~(f <= Len(content))
      <4>1. f = Len(content) + 1
        BY <1>1, <2>2, <3>2
      <4> QED
        BY <1>5, <2>2, <3>2, <4>1
    <3> QED
      BY <3>1, <3>2
  <2> QED
    BY <1>1, <1>4, <2>1, <2>2, <2>3, <2>4
<1>7. CASE path[0] # 0
  <2>1. files = content /\ file = path[0]
    BY <1>7
  <2>2. file \in 1..Len(files)
    BY <1>1, <1>3, <1>7, <2>1
  <2>3. \A f \in 1..Len(content) : f <= Len(content)
    BY <1>1
  <2>4. \A f \in 1..Len(content) : content[f] \in LogFile /\ content[f] = IF f <= Len(content) THEN content[f] ELSE <<>>
    BY <1>1, <2>3
  <2>5. content \in Seq(LogFile) /\ Len(content) >= Len(content)
    BY <1>1, <1>4, <1>5
  <2> QED
    BY <1>1, <2>1, <2>2, <2>4, <2>5
<1> QED
  BY <1>6, <1>7

LEMMA OpenLogKeeps ==
  ASSUME LogTypes, Channels, NEW s \in Servers, OpenLog(s)
  PROVE  LogTypes' /\ Channels'
<1>1. PICK file, files : /\ file = IF path[0] = 0 THEN Len(content) + 1 ELSE path[0]
                         /\ files = IF path[0] = 0 THEN Append(content, <<>>) ELSE content
  OBVIOUS
<1>2. PICK q, h : q = preInitQueue[s] /\ h = held[s]
  OBVIOUS
<1>3. /\ opening[s] = "open"
      /\ path' = [path EXCEPT ![0] = file]
      /\ opening' = [opening EXCEPT ![s] = "no"] /\ held' = [held EXCEPT ![s] = <<>>]
      /\ preInitQueue' = [preInitQueue EXCEPT ![s] = <<>>]
      /\ lineBuffer' = [lineBuffer EXCEPT ![s] = h]
      /\ flushTimer' = [flushTimer EXCEPT ![s] = (h # <<>>)]
      /\ UNCHANGED <<generation, projectKnown, logged, early, rotated, raced>>
  BY <1>1, <1>2 DEF OpenLog
<1>4. \/ /\ content' = [files EXCEPT ![file] = @ \o q]
         /\ handle' = [handle EXCEPT ![s] = file]
         /\ UNCHANGED <<disabled, logFaults>>
      \/ /\ logFaults' = logFaults + 1
         /\ disabled' = [disabled EXCEPT ![s] = TRUE]
         /\ content' = files
         /\ UNCHANGED handle
  BY <1>1, <1>2 DEF OpenLog
<1>5. /\ files \in Seq(LogFile) /\ Len(files) \in Nat /\ Len(files) >= Len(content) /\ DOMAIN files = 1..Len(files)
      /\ file \in 1..Len(files)
      /\ \A f \in 1..Len(files) : files[f] \in LogFile /\ files[f] = IF f <= Len(content) THEN content[f] ELSE <<>>
  BY <1>1, FileIsThere
<1>6. Unopened(s) /\ HasDestination(s) /\ ~disabled[s] /\ handle[s] = NoHandle
  BY <1>3 DEF Channels, Channel
<1>7. q \in LogFile /\ h \in LogFile /\ <<>> \in LogFile
  <2>1. <<>> \in LogFile
    BY DEF LogFile
  <2> QED
    BY <1>2, <2>1 DEF LogTypes
<1>8. /\ opening' \in [Servers -> {"no", "stat", "remove", "generations", "path", "open"}] /\ opening'[s] = "no"
      /\ held' \in [Servers -> LogFile] /\ held'[s] = <<>>
      /\ preInitQueue' \in [Servers -> LogFile] /\ preInitQueue'[s] = <<>>
      /\ lineBuffer' \in [Servers -> LogFile] /\ lineBuffer'[s] = h
      /\ flushTimer' \in [Servers -> BOOLEAN] /\ flushTimer'[s] = (h # <<>>)
  BY <1>3, <1>7 DEF LogTypes
<1>9. ASSUME NEW t \in Servers \ {s}
      PROVE  /\ flushTimer'[t] = flushTimer[t] /\ preInitQueue'[t] = preInitQueue[t] /\ lineBuffer'[t] = lineBuffer[t]
             /\ held'[t] = held[t] /\ opening'[t] = opening[t]
  BY <1>3 DEF LogTypes
<1>10. path' \in [0..Keep -> 0..Len(files)] /\ Len(files) >= Keep + 1
  <2>1. Keep \in Nat /\ Len(content) \in Nat /\ Len(content) >= Keep + 1
    BY FilesAre DEF LogTypes
  <2>2. 0..Len(content) \subseteq 0..Len(files) /\ file \in 0..Len(files)
    BY <1>5, <2>1
  <2>3. path \in [0..Keep -> 0..Len(content)]
    BY DEF LogTypes
  <2> QED
    BY <1>3, <1>5, <2>1, <2>2, <2>3
<1>11. {NoHandle} \cup 1..Len(content) \subseteq {NoHandle} \cup 1..Len(files)
  BY <1>5, FilesAre
<1>12. FirstKept(s)' = FirstKept(s) /\ HasDestination(s)'
  BY <1>3, <1>6 DEF FirstKept, HasDestination
<1>13. CASE /\ content' = [files EXCEPT ![file] = @ \o q]
            /\ handle' = [handle EXCEPT ![s] = file]
            /\ UNCHANGED <<disabled, logFaults>>
  <2>1. PICK earlier, r : earlier = files[file] /\ r = earlier \o q
    OBVIOUS
  <2>2. earlier \in LogFile /\ r \in LogFile
    BY <1>5, <1>7, <2>1, JoinIs
  <2>3. /\ content' \in Seq(LogFile) /\ Len(content') = Len(files) /\ DOMAIN content' = 1..Len(content')
        /\ \A f \in 1..Len(files) : content'[f] = IF f = file THEN r ELSE files[f]
    <3>1. PICK S : S = LogFile
      OBVIOUS
    <3>2. PICK c : c = [files EXCEPT ![file] = r]
      OBVIOUS
    <3>3. files \in Seq(S) /\ r \in S
      BY <1>5, <2>2, <3>1
    <3>4. c \in Seq(S) /\ Len(c) = Len(files) /\ \A f \in 1..Len(files) : c[f] = IF f = file THEN r ELSE files[f]
      BY <1>5, <3>2, <3>3, ExceptSeq
    <3>5. content' = c /\ DOMAIN c = DOMAIN files
      BY <1>13, <2>1, <3>2
    <3> QED
      BY <1>5, <3>1, <3>4, <3>5
  <2>4. handle' \in [Servers -> {NoHandle} \cup 1..Len(files)] /\ handle'[s] = file
        /\ \A t \in Servers \ {s} : handle'[t] = handle[t]
    BY <1>5, <1>11, <1>13 DEF LogTypes
  <2>5. LogTypes'
    BY <1>3, <1>8, <1>10, <1>13, <2>3, <2>4 DEF LogTypes
  <2>6. \A t \in Servers \ {s} : Untouched(t)
    BY <1>3, <1>9, <1>13, <2>4 DEF Untouched
  <2>7. Tells(q, s, early[s]) /\ Len(q) = early[s] - FirstKept(s) + 1
    BY <1>2, <1>6 DEF Unopened
  <2>8. GrowsBy(s)
    <3>1. \A k : Line(s, k).of = s
      BY DEF Line
    <3>2. \A i \in 1..Len(q) : q[i].of = s
      BY <2>7, <3>1 DEF Tells
    <3>3. ASSUME NEW f \in 1..Len(content')
          PROVE  \E p \in LogFile : /\ \A i \in 1..Len(p) : p[i].of = s
                                    /\ content'[f] = (IF f <= Len(content) THEN content[f] ELSE <<>>) \o p
      <4>1. f \in 1..Len(files) /\ files[f] = IF f <= Len(content) THEN content[f] ELSE <<>>
        BY <1>5, <2>3
      <4>2. CASE f = file
        <5>1. content'[f] = files[f] \o q
          BY <2>1, <2>3, <4>1, <4>2
        <5> QED
          BY <1>7, <3>2, <4>1, <5>1
      <4>3. CASE f # file
        <5>1. content'[f] = files[f] \o <<>>
          BY <1>5, <1>7, <2>3, <4>1, <4>3, JoinIs
        <5>2. \A i \in 1..Len(<<>>) : <<>>[i].of = s
          OBVIOUS
        <5> QED
          BY <1>7, <4>1, <5>1, <5>2
      <4> QED
        BY <4>2, <4>3
    <3> QED
      BY <1>5, <2>3, <3>3 DEF GrowsBy
  <2>9. PICK first, n : first = FirstKept(s) /\ n = early[s]
    OBVIOUS
  <2>10. first \in Nat /\ first >= 1 /\ n \in Nat /\ first - 1 <= n /\ Len(q) = n - first + 1 /\ Len(q) \in Nat
    BY <2>7, <2>9, <1>7, FilesAre, JoinIs
  <2>11. Records(r, s, first, n)
    <3>1. \A i \in DOMAIN earlier : earlier[i].of # s
      <4>1. CASE file <= Len(content)
        <5>1. file \in DOMAIN content /\ earlier = content[file]
          BY <1>5, <2>1, <4>1, FilesAre
        <5> QED
          BY <1>6, <5>1 DEF Unopened
      <4>2. CASE ~(file <= Len(content))
        <5>1. earlier = <<>> /\ DOMAIN <<>> = {}
          BY <1>5, <2>1, <4>2
        <5> QED
          BY <5>1
      <4> QED
        BY <4>1, <4>2
    <3>2. Records(earlier, s, first, first - 1)
      BY <2>2, <2>10, <3>1, RecordsNone
    <3>3. n - Len(q) = first - 1
      BY <2>10
    <3> QED
      BY <1>7, <2>1, <2>2, <2>7, <2>9, <2>10, <3>2, <3>3, RecordsMore
  <2>12. Len(h) \in Nat /\ Tells(h, s, logged[s]) /\ logged[s] - Len(h) = n
    <3>1. logged[s] \in Nat
      BY DEF LogTypes
    <3>2. CASE logged[s] = early[s]
      <4>1. h = <<>>
        BY <1>2, <1>6, <3>2 DEF Unopened
      <4>2. Len(h) = 0 /\ Tells(h, s, logged[s])
        BY <3>1, <4>1, NoneTold
      <4> QED
        BY <2>9, <3>1, <3>2, <4>2
    <3>3. CASE logged[s] # early[s]
      <4>1. h = <<Line(s, logged[s])>> /\ logged[s] = n + 1
        BY <1>2, <1>6, <2>9, <3>3 DEF Unopened
      <4>2. Len(h) = 1 /\ Tells(h, s, logged[s])
        BY <3>1, <4>1, OneTold
      <4> QED
        BY <2>10, <3>1, <4>1, <4>2
    <3> QED
      BY <3>2, <3>3
  <2>13. Opened(s)'
    <3>1. content'[handle'[s]] = r /\ logged'[s] - Len(lineBuffer'[s]) = n
      BY <1>3, <1>5, <1>8, <2>3, <2>4, <2>12
    <3>2. Tells(lineBuffer'[s], s, logged'[s]) /\ (lineBuffer'[s] # <<>> => flushTimer'[s])
      BY <1>3, <1>8, <2>12
    <3>3. n >= first - 1
      BY <2>10
    <3> QED
      BY <1>8, <1>12, <2>9, <2>11, <3>1, <3>2, <3>3 DEF Opened
  <2>14. Channel(s)'
    <3>1. handle'[s] # NoHandle
      BY <1>5, <2>4, LogAssumption
    <3>2. disabled'[s] = disabled[s]
      BY <1>13
    <3> QED
      BY <1>6, <1>8, <1>12, <2>13, <3>1, <3>2 DEF Channel
  <2> QED
    BY <2>5, <2>6, <2>8, <2>14, ChannelsKeep
<1>14. CASE /\ logFaults' = logFaults + 1
            /\ disabled' = [disabled EXCEPT ![s] = TRUE]
            /\ content' = files
            /\ UNCHANGED handle
  <2>1. disabled' \in [Servers -> BOOLEAN] /\ disabled'[s] = TRUE /\ logFaults' \in Nat
        /\ handle' \in [Servers -> {NoHandle} \cup 1..Len(files)]
        /\ \A t \in Servers \ {s} : disabled'[t] = disabled[t]
    BY <1>11, <1>14 DEF LogTypes
  <2>2. LogTypes'
    BY <1>3, <1>5, <1>8, <1>10, <1>14, <2>1 DEF LogTypes
  <2>3. \A t \in Servers \ {s} : Untouched(t)
    BY <1>3, <1>9, <1>14, <2>1 DEF Untouched
  <2>4. GrowsBy(s)
    <3>1. ASSUME NEW f \in 1..Len(content')
          PROVE  \E p \in LogFile : /\ \A i \in 1..Len(p) : p[i].of = s
                                    /\ content'[f] = (IF f <= Len(content) THEN content[f] ELSE <<>>) \o p
      <4>1. f \in 1..Len(files) /\ files[f] = IF f <= Len(content) THEN content[f] ELSE <<>>
        BY <1>5, <1>14
      <4>2. content'[f] = files[f] \o <<>>
        BY <1>5, <1>7, <1>14, <4>1, JoinIs
      <4>3. \A i \in 1..Len(<<>>) : <<>>[i].of = s
        OBVIOUS
      <4> QED
        BY <1>7, <4>1, <4>2, <4>3
    <3> QED
      BY <1>5, <1>14, <3>1 DEF GrowsBy
  <2>5. Channel(s)'
    BY <1>6, <1>8, <1>14, <2>1 DEF Channel
  <2> QED
    BY <2>2, <2>3, <2>4, <2>5, ChannelsKeep
<1> QED
  BY <1>4, <1>13, <1>14

-------------------------------------------------------------------------------
(***************************************************************************)
(* The rotations.                                                          *)
(***************************************************************************)
Rotations == RotatesOnce /\ HoleAbove /\ MovedUp /\ GenerationsAreKept

\* What a step that renames nothing leaves as it is.
NotRotating(t) ==
  /\ opening'[t] \in Rotating => opening'[t] = opening[t]
  /\ t \in rotated => opening'[t] \notin {"stat", "remove"}
  /\ t \in rotated /\ opening'[t] = "no" => handle'[t] # NoHandle \/ disabled'[t]

LEMMA RotationsStay ==
  ASSUME LogTypes, Rotations, UNCHANGED <<rotated, raced, generation>>,
         \A i \in 1..Keep : path'[i] = path[i], path'[0] = path[0] \/ (path'[0] \notin Generations /\ path[0] = 0),
         \A s \in Servers : NotRotating(s)
  PROVE  Rotations'
<1>1. Keep \in Nat /\ Keep >= 1 /\ \A i \in 0..Keep : i = 0 \/ i \in 1..Keep
  BY FilesAre
<1>2. \A s \in Servers : opening'[s] \in Rotating => NextNumber(s)' = NextNumber(s) /\ opening[s] \in Rotating
  BY DEF NextNumber, NotRotating
<1>3. RotatesOnce'
  BY DEF Rotations, RotatesOnce, NotRotating
<1>4. HoleAbove'
  <2>1. ASSUME NEW s \in Servers, opening'[s] \in Rotating
        PROVE  /\ NextNumber(s) \in 0..(Keep - 1) /\ (opening[s] = "generations" => generation[s] >= 1)
               /\ ~raced => path'[NextNumber(s) + 1] = 0
    <3>1. /\ NextNumber(s) \in 0..(Keep - 1) /\ (opening[s] = "generations" => generation[s] >= 1)
          /\ ~raced => path[NextNumber(s) + 1] = 0
      BY <1>2, <2>1 DEF Rotations, HoleAbove
    <3>2. NextNumber(s) + 1 \in 1..Keep
      BY <1>1, <3>1
    <3> QED
      BY <3>1, <3>2
  <2>2. \A s \in Servers : opening'[s] \in Rotating => (opening'[s] = "generations" <=> opening[s] = "generations")
    BY DEF NotRotating
  <2> QED
    BY <1>2, <2>1, <2>2 DEF HoleAbove
<1>5. MovedUp'
  <2>1. ASSUME NEW f \in Generations, ~raced, NEW i \in 0..Keep, path'[i] = f
        PROVE  path[i] = f
    BY <1>1, <2>1
  <2>2. ASSUME NEW f \in Generations, ~raced, NEW s \in Servers, opening'[s] \in Rotating, NEW i \in 0..NextNumber(s), path'[i] = f
        PROVE  i + 2 <= f + Cardinality(rotated)
    <3>1. NextNumber(s) \in 0..(Keep - 1)
      BY <1>2, <2>2 DEF Rotations, HoleAbove
    <3>2. i \in 0..Keep
      BY <1>1, <3>1
    <3> QED
      BY <1>2, <2>1, <2>2, <3>2 DEF Rotations, MovedUp
  <2>3. ASSUME NEW f \in Generations, ~raced, NEW i \in 0..Keep, path'[i] = f
        PROVE  i + 1 <= f + Cardinality(rotated)
    BY <2>1, <2>3 DEF Rotations, MovedUp
  <2> QED
    BY <1>2, <2>2, <2>3 DEF MovedUp
<1>6. GenerationsAreKept'
  <2>1. ASSUME NEW f \in Generations, \A i \in 0..Keep : path'[i] # f
        PROVE  raced \/ Cardinality(rotated) > Keep + 1 - f
    <3>1. \A i \in 0..Keep : path[i] # f
      <4>1. f # 0
        BY <1>1 DEF Generations
      <4> QED
        BY <1>1, <2>1, <4>1
    <3> QED
      BY <3>1 DEF Rotations, GenerationsAreKept
  <2> QED
    BY <2>1 DEF GenerationsAreKept
<1> QED
  BY <1>3, <1>4, <1>5, <1>6 DEF Rotations

\* The steps that rename nothing.
LEMMA StillKeeps ==
  ASSUME LogTypes, Channels, Rotations, NEW s \in Servers,
         SetProjectRoot(s) \/ LogEvent(s) \/ FlushTimer(s) \/ StatLog(s) \/ OpeningFails(s)
  PROVE  Rotations'
<1>1. /\ UNCHANGED <<rotated, raced, generation, path>>
  BY DEF SetProjectRoot, LogEvent, FlushTimer, StatLog, Proceed, OpeningFails, historyVars, openVars
<1>2. /\ \A t \in Servers : /\ t \in rotated => opening[t] \notin {"stat", "remove"}
                            /\ t \in rotated /\ opening[t] = "no" => handle[t] # NoHandle \/ disabled[t]
      /\ opening \in [Servers -> {"no", "stat", "remove", "generations", "path", "open"}]
      /\ disabled \in [Servers -> BOOLEAN] /\ handle \in [Servers -> {NoHandle} \cup 1..Len(content)]
  BY DEF Rotations, RotatesOnce, LogTypes
<1>3. ASSUME NEW t \in Servers
      PROVE  NotRotating(t)
  <2>1. CASE SetProjectRoot(s)
    <3>1. opening' = [opening EXCEPT ![s] = IF handle[s] = NoHandle THEN "stat" ELSE "no"]
          /\ UNCHANGED <<handle, disabled>> /\ opening[s] = "no" /\ ~disabled[s]
      BY <2>1 DEF SetProjectRoot, Runs
    <3>2. opening'[t] = IF t = s THEN (IF handle[s] = NoHandle THEN "stat" ELSE "no") ELSE opening[t]
      BY <1>2, <3>1, Zenon
    <3> QED
      BY <1>2, <3>1, <3>2 DEF Rotating, NotRotating
  <2>2. CASE LogEvent(s) /\ ~HasDestination(s)
    <3>1. handle[s] = NoHandle
      BY <2>2 DEF Channels, Channel
    <3>2. UNCHANGED <<opening, handle, disabled>>
      BY <2>2, <3>1 DEF LogEvent, openVars
    <3> QED
      BY <1>2, <3>2 DEF NotRotating
  <2>3. CASE LogEvent(s) /\ HasDestination(s) /\ handle[s] = NoHandle
    <3>1. opening' = [opening EXCEPT ![s] = "stat"] /\ UNCHANGED <<handle, disabled>> /\ opening[s] = "no" /\ ~disabled[s]
      BY <2>3 DEF LogEvent, Runs
    <3>2. opening'[t] = IF t = s THEN "stat" ELSE opening[t]
      BY <1>2, <3>1
    <3> QED
      BY <1>2, <2>3, <3>1, <3>2 DEF Rotating, NotRotating
  <2>4. CASE \/ LogEvent(s) /\ HasDestination(s) /\ handle[s] # NoHandle
             \/ FlushTimer(s)
    <3>1. opening' = opening
      BY <2>4 DEF LogEvent, FlushTimer
    <3>2. \/ UNCHANGED <<handle, disabled>>
          \/ disabled' = [disabled EXCEPT ![s] = TRUE] /\ handle' = [handle EXCEPT ![s] = NoHandle]
      BY <2>4 DEF LogEvent, Buffer, FlushTimer, Flush
    <3>3. (handle'[t] = handle[t] /\ disabled'[t] = disabled[t]) \/ disabled'[t] = TRUE
      BY <1>2, <3>2
    <3> QED
      BY <1>2, <3>1, <3>3 DEF NotRotating
  <2>5. CASE StatLog(s)
    <3>1. /\ opening[s] = "stat" /\ UNCHANGED <<handle, disabled>>
          /\ opening' = [opening EXCEPT ![s] = "remove"] \/ opening' = [opening EXCEPT ![s] = "open"]
      BY <2>5 DEF StatLog, Proceed
    <3>2. opening'[t] = opening[t] \/ (t = s /\ opening'[t] \in {"remove", "open"})
      BY <1>2, <3>1, Zenon
    <3> QED
      BY <1>2, <3>1, <3>2 DEF Rotating, NotRotating
  <2>6. CASE OpeningFails(s)
    <3>1. /\ opening' = [opening EXCEPT ![s] = "no"] /\ disabled' = [disabled EXCEPT ![s] = TRUE] /\ UNCHANGED handle
      BY <2>6 DEF OpeningFails
    <3>2. opening'[t] = IF t = s THEN "no" ELSE opening[t]
      BY <1>2, <3>1
    <3>3. disabled'[t] = IF t = s THEN TRUE ELSE disabled[t]
      BY <1>2, <3>1
    <3> QED
      BY <1>2, <3>1, <3>2, <3>3 DEF Rotating, NotRotating
  <2> QED
    BY <2>1, <2>2, <2>3, <2>4, <2>5, <2>6
<1>4. (\A i \in 1..Keep : path'[i] = path[i]) /\ path'[0] = path[0]
  BY <1>1
<1> QED
  BY <1>1, <1>3, <1>4, RotationsStay

LEMMA OpenLogRotates ==
  ASSUME LogTypes, Channels, Rotations, NEW s \in Servers, OpenLog(s)
  PROVE  Rotations'
<1>1. PICK file : file = IF path[0] = 0 THEN Len(content) + 1 ELSE path[0]
  OBVIOUS
<1>2. /\ opening[s] = "open" /\ UNCHANGED <<generation, rotated, raced>>
      /\ path' = [path EXCEPT ![0] = file] /\ opening' = [opening EXCEPT ![s] = "no"]
      /\ \/ handle' = [handle EXCEPT ![s] = file] /\ UNCHANGED disabled
         \/ disabled' = [disabled EXCEPT ![s] = TRUE] /\ UNCHANGED handle
  BY <1>1 DEF OpenLog
<1>3. Len(content) \in Nat /\ Len(content) >= Keep + 1 /\ Keep \in Nat /\ NoHandle \notin Nat /\ path[0] \in Nat
  <2>1. Len(content) \in Nat /\ Len(content) >= Keep + 1 /\ Keep \in Nat /\ NoHandle \notin Nat
    BY FilesAre DEF LogTypes
  <2>2. path \in [0..Keep -> 0..Len(content)] /\ 0 \in 0..Keep
    BY <2>1 DEF LogTypes
  <2> QED
    BY <2>1, <2>2
<1>4. \A i \in 1..Keep : path'[i] = path[i]
  BY <1>2, <1>3 DEF LogTypes
<1>5. path'[0] = path[0] \/ (path'[0] \notin Generations /\ path[0] = 0)
  <2>1. path'[0] = file
    <3>1. path \in [0..Keep -> 0..Len(content)] /\ 0 \in 0..Keep
      BY <1>3 DEF LogTypes
    <3> QED
      BY <1>2, <3>1
  <2>2. path[0] = 0 => file \notin Generations
    BY <1>1, <1>3 DEF Generations
  <2> QED
    BY <1>1, <2>1, <2>2
<1>6. file # NoHandle
  BY <1>1, <1>3
<1>7. ASSUME NEW t \in Servers
      PROVE  NotRotating(t)
  <2>1. /\ t \in rotated => opening[t] \notin {"stat", "remove"}
        /\ t \in rotated /\ opening[t] = "no" => handle[t] # NoHandle \/ disabled[t]
        /\ opening \in [Servers -> {"no", "stat", "remove", "generations", "path", "open"}]
        /\ disabled \in [Servers -> BOOLEAN] /\ handle \in [Servers -> {NoHandle} \cup 1..Len(content)]
    BY DEF Rotations, RotatesOnce, LogTypes
  <2>2. opening'[t] = IF t = s THEN "no" ELSE opening[t]
    BY <1>2, <2>1
  <2>3. t = s => handle'[t] # NoHandle \/ disabled'[t] = TRUE
    BY <1>2, <1>6, <2>1
  <2>4. t # s => handle'[t] = handle[t] /\ disabled'[t] = disabled[t]
    BY <1>2, <2>1
  <2> QED
    BY <1>2, <2>1, <2>2, <2>3, <2>4 DEF Rotating, NotRotating
<1> QED
  BY <1>2, <1>4, <1>5, <1>7, RotationsStay

LEMMA RemoveOldestKeeps ==
  ASSUME LogTypes, Channels, Rotations, NEW s \in Servers, RemoveOldest(s)
  PROVE  LogTypes' /\ Channels' /\ Rotations'
<1>1. PICK step : step = IF Keep = 1 THEN "path" ELSE "generations"
  OBVIOUS
<1>2. /\ opening[s] = "remove" /\ path' = [path EXCEPT ![Keep] = 0]
      /\ rotated' = rotated \cup {s} /\ raced' = (raced \/ \E other \in Servers : opening[other] \in Rotating)
      /\ Proceed(s, step) /\ generation' = [generation EXCEPT ![s] = Keep - 1]
  BY <1>1 DEF RemoveOldest
<1>3. /\ opening' = [opening EXCEPT ![s] = step]
      /\ UNCHANGED <<content, handle, disabled>>
  BY <1>2 DEF Proceed
<1>4. Keep \in Nat /\ Keep >= 1 /\ Len(content) \in Nat
  BY FilesAre
<1>5. path \in [0..Keep -> 0..Len(content)] /\ generation \in [Servers -> Nat] /\ rotated \subseteq Servers
      /\ IsFiniteSet(rotated) /\ raced \in BOOLEAN
      /\ opening \in [Servers -> {"no", "stat", "remove", "generations", "path", "open"}]
  BY DEF LogTypes
<1>6. path' \in [0..Keep -> 0..Len(content)] /\ \A i \in 0..Keep : path'[i] = IF i = Keep THEN 0 ELSE path[i]
  <2>1. Keep \in 0..Keep /\ 0 \in 0..Len(content)
    BY <1>4
  <2> QED
    BY <1>2, <1>5, <2>1
<1>7. generation' \in [Servers -> Nat] /\ generation'[s] = Keep - 1
  BY <1>2, <1>4, <1>5
<1>8. s \notin rotated
  BY <1>2 DEF Rotations, RotatesOnce
<1>9. /\ IsFiniteSet(rotated') /\ Cardinality(rotated') = Cardinality(rotated) + 1
      /\ Cardinality(rotated) \in Nat
  BY <1>2, <1>5, <1>8, FS_AddElement, FS_CardinalityType
<1>10. LogTypes' /\ Channels'
  <2>1. step \in {"remove", "generations", "path", "open"} /\ rotated' \subseteq Servers /\ raced' \in BOOLEAN /\ opening[s] # "no"
    BY <1>1, <1>2, <1>5
  <2> QED
    BY <1>2, <1>6, <1>7, <1>9, <2>1, ProceedKeeps
<1>11. \A t \in Servers : opening'[t] = IF t = s THEN step ELSE opening[t]
  BY <1>3, <1>5
<1>12. NextNumber(s)' = Keep - 1 /\ (step = "generations" => Keep - 1 >= 1) /\ step \in Rotating
  BY <1>1, <1>4, <1>7, <1>11 DEF NextNumber, Rotating
<1>13. ~raced' => ~raced /\ \A t \in Servers : opening'[t] \in Rotating => t = s
  BY <1>2, <1>5, <1>11
<1>14. RotatesOnce'
  <2>1. \A t \in Servers : /\ t \in rotated => opening[t] \notin {"stat", "remove"}
                           /\ t \in rotated /\ opening[t] = "no" => handle[t] # NoHandle \/ disabled[t]
    BY DEF Rotations, RotatesOnce
  <2>2. step \notin {"no", "stat", "remove"}
    BY <1>1
  <2>3. \A t \in Servers : /\ t \in rotated' => opening'[t] \notin {"stat", "remove"}
                           /\ t \in rotated' /\ opening'[t] = "no" => handle'[t] # NoHandle \/ disabled'[t]
    BY <1>2, <1>3, <1>11, <2>1, <2>2
  <2> QED
    BY <1>13, <2>3 DEF RotatesOnce
<1>15. HoleAbove'
  <2>1. Keep - 1 \in 0..(Keep - 1) /\ path'[Keep - 1 + 1] = 0
    <3>1. Keep - 1 \in 0..(Keep - 1) /\ Keep - 1 + 1 = Keep /\ Keep \in 0..Keep
      BY <1>4
    <3> QED
      BY <1>6, <3>1
  <2>2. ASSUME NEW t \in Servers, opening'[t] \in Rotating
        PROVE  /\ NextNumber(t)' \in 0..(Keep - 1) /\ (opening'[t] = "generations" => generation'[t] >= 1)
               /\ ~raced' => path'[NextNumber(t)' + 1] = 0
    <3>1. CASE t = s
      BY <1>7, <1>11, <1>12, <2>1, <3>1
    <3>2. CASE t # s
      <4>1. raced' /\ opening'[t] = opening[t] /\ generation'[t] = generation[t]
        BY <1>2, <1>5, <1>11, <1>13, <2>2, <3>2
      <4>2. NextNumber(t)' = NextNumber(t)
        BY <4>1 DEF NextNumber
      <4> QED
        BY <2>2, <4>1, <4>2 DEF Rotations, HoleAbove
    <3> QED
      BY <3>1, <3>2
  <2> QED
    BY <2>2 DEF HoleAbove
<1>16. MovedUp'
  <2>1. ASSUME ~raced', NEW f \in Generations, NEW i \in 0..Keep, path'[i] = f
        PROVE  i <= Keep - 1 => i + 2 <= f + Cardinality(rotated')
    <3> SUFFICES ASSUME i <= Keep - 1
                 PROVE  i + 2 <= f + Cardinality(rotated')
      OBVIOUS
    <3>1. path[i] = f
      BY <1>4, <1>6, <2>1
    <3>2. i + 1 <= f + Cardinality(rotated)
      BY <1>13, <2>1, <3>1 DEF Rotations, MovedUp
    <3>3. f \in Nat
      BY <1>4 DEF Generations
    <3> QED
      BY <1>4, <1>9, <3>2, <3>3
  <2>2. ASSUME ~raced', NEW f \in Generations, NEW i \in 0..Keep, path'[i] = f
        PROVE  i + 1 <= f + Cardinality(rotated')
    <3>1. f \in Nat /\ f # 0
      BY <1>4 DEF Generations
    <3>2. i # Keep
      BY <1>6, <2>2, <3>1
    <3>3. i + 2 <= f + Cardinality(rotated')
      BY <1>4, <2>1, <2>2, <3>2
    <3> QED
      BY <1>4, <1>9, <3>1, <3>3
  <2>3. ASSUME ~raced', NEW f \in Generations, NEW i \in 0..(Keep - 1), path'[i] = f
        PROVE  i + 2 <= f + Cardinality(rotated')
    <3>1. i \in 0..Keep /\ i <= Keep - 1
      BY <1>4
    <3> QED
      BY <2>1, <2>3, <3>1
  <2> QED
    BY <1>12, <1>13, <2>2, <2>3 DEF MovedUp
<1>17. GenerationsAreKept'
  <2>1. ASSUME NEW f \in Generations, \A i \in 0..Keep : path'[i] # f, ~raced'
        PROVE  Cardinality(rotated') > Keep + 1 - f
    <3>1. f \in Nat
      BY <1>4 DEF Generations
    <3>2. CASE path[Keep] = f
      <4>1. Keep + 1 <= f + Cardinality(rotated)
        BY <1>4, <1>13, <2>1, <3>2 DEF Rotations, MovedUp
      <4> QED
        BY <1>4, <1>9, <3>1, <4>1
    <3>3. CASE path[Keep] # f
      <4>1. \A i \in 0..Keep : path[i] # f
        BY <1>6, <2>1, <3>3
      <4>2. Cardinality(rotated) > Keep + 1 - f
        BY <1>13, <2>1, <4>1 DEF Rotations, GenerationsAreKept
      <4> QED
        BY <1>4, <1>9, <3>1, <4>2
    <3> QED
      BY <3>2, <3>3
  <2> QED
    BY <2>1 DEF GenerationsAreKept
<1> QED
  BY <1>10, <1>14, <1>15, <1>16, <1>17 DEF Rotations

\* A rename moves one file up, to a number that nothing has.
LEMMA RenameMoves ==
  ASSUME LogTypes, Channels, Rotations, NEW s \in Servers, NEW n \in 0..(Keep - 1), NEW step \in {"generations", "path", "open"},
         opening[s] \in Rotating, NextNumber(s) = n, Proceed(s, step), UNCHANGED <<rotated, raced>>,
         path' = IF path[n] = 0 THEN path ELSE [path EXCEPT ![n + 1] = path[n], ![n] = 0],
         generation' \in [Servers -> Nat], \A t \in Servers \ {s} : generation'[t] = generation[t],
         step = "generations" => n >= 2 /\ generation'[s] = n - 1,
         step = "path" => n = 1,
         step = "open" => n = 0
  PROVE  LogTypes' /\ Channels' /\ Rotations'
<1>1. /\ opening' = [opening EXCEPT ![s] = step]
      /\ UNCHANGED <<content, handle, disabled>>
  BY DEF Proceed
<1>2. Keep \in Nat /\ Keep >= 1 /\ Len(content) \in Nat
  BY FilesAre
<1>3. path \in [0..Keep -> 0..Len(content)] /\ rotated \subseteq Servers
      /\ IsFiniteSet(rotated) /\ raced \in BOOLEAN
      /\ opening \in [Servers -> {"no", "stat", "remove", "generations", "path", "open"}]
  BY DEF LogTypes
<1>4. n \in 0..Keep /\ n + 1 \in 0..Keep /\ n \in Nat /\ n + 1 # n
  BY <1>2
<1>5. path' \in [0..Keep -> 0..Len(content)]
      /\ \A i \in 0..Keep : path'[i] = IF path[n] = 0 THEN path[i]
                                       ELSE IF i = n + 1 THEN path[n] ELSE IF i = n THEN 0 ELSE path[i]
  <2>1. PICK v : v = path[n]
    OBVIOUS
  <2>2. v \in 0..Len(content) /\ 0 \in 0..Len(content)
    BY <1>2, <1>3, <1>4, <2>1
  <2>3. path' = IF v = 0 THEN path ELSE [path EXCEPT ![n + 1] = v, ![n] = 0]
    BY <2>1
  <2>4. CASE v = 0
    BY <1>3, <2>1, <2>3, <2>4
  <2>5. CASE v # 0
    <3>1. path' = [path EXCEPT ![n + 1] = v, ![n] = 0]
      BY <2>3, <2>5
    <3>2. path' \in [0..Keep -> 0..Len(content)]
      BY <1>3, <1>4, <2>2, <3>1
    <3>3. \A i \in 0..Keep : path'[i] = IF i = n + 1 THEN v ELSE IF i = n THEN 0 ELSE path[i]
      BY <1>3, <1>4, <3>1
    <3> QED
      BY <2>1, <2>5, <3>2, <3>3
  <2> QED
    BY <2>4, <2>5
<1>6. LogTypes' /\ Channels'
  <2>1. opening[s] # "no"
    BY DEF Rotating
  <2>2. rotated' \subseteq Servers /\ IsFiniteSet(rotated') /\ raced' \in BOOLEAN
    BY <1>3
  <2> QED
    BY <1>5, <2>1, <2>2, ProceedKeeps
<1>7. \A t \in Servers : opening'[t] = IF t = s THEN step ELSE opening[t]
  BY <1>1, <1>3
<1>8. ~raced => \A t \in Servers : opening[t] \in Rotating => t = s
  BY DEF Rotations, RotatesOnce
<1>9. ~raced => path[n + 1] = 0
  BY DEF Rotations, HoleAbove
<1>10. RotatesOnce'
  <2>1. \A t \in Servers : /\ t \in rotated => opening[t] \notin {"stat", "remove"}
                           /\ t \in rotated /\ opening[t] = "no" => handle[t] # NoHandle \/ disabled[t]
    BY DEF Rotations, RotatesOnce
  <2>2. step \notin {"no", "stat", "remove"}
    OBVIOUS
  <2>3. \A t \in Servers : /\ t \in rotated => opening'[t] \notin {"stat", "remove"}
                           /\ t \in rotated /\ opening'[t] = "no" => handle'[t] # NoHandle \/ disabled'[t]
    BY <1>1, <1>7, <2>1, <2>2
  <2>4. \A t \in Servers : opening'[t] \in Rotating => opening[t] \in Rotating
    BY <1>7
  <2> QED
    BY <1>8, <2>3, <2>4 DEF RotatesOnce
<1>11. step \in Rotating => NextNumber(s)' = n - 1 /\ n >= 1
  BY <1>4, <1>7 DEF Rotating, NextNumber
<1>12. \A t \in Servers : ~raced /\ opening'[t] \in Rotating => t = s /\ step \in Rotating
  BY <1>7, <1>8
<1>13. ~raced => path'[n] = 0
  BY <1>4, <1>5
<1>14. HoleAbove'
  <2>1. step \in Rotating => /\ n - 1 \in 0..(Keep - 1) /\ n - 1 + 1 = n
                             /\ (step = "generations" => generation'[s] >= 1)
    BY <1>2, <1>4, <1>11
  <2>2. ASSUME NEW t \in Servers, opening'[t] \in Rotating
        PROVE  /\ NextNumber(t)' \in 0..(Keep - 1) /\ (opening'[t] = "generations" => generation'[t] >= 1)
               /\ ~raced => path'[NextNumber(t)' + 1] = 0
    <3>1. CASE t = s
      <4>1. NextNumber(t)' = n - 1 /\ opening'[t] = step /\ step \in Rotating
        BY <1>7, <1>11, <2>2, <3>1
      <4> QED
        BY <1>13, <2>1, <3>1, <4>1
    <3>2. CASE t # s
      <4>1. raced /\ opening'[t] = opening[t] /\ generation'[t] = generation[t]
        BY <1>3, <1>7, <1>12, <2>2, <3>2
      <4>2. NextNumber(t)' = NextNumber(t)
        BY <4>1 DEF NextNumber
      <4> QED
        BY <2>2, <4>1, <4>2 DEF Rotations, HoleAbove
    <3> QED
      BY <3>1, <3>2
  <2> QED
    BY <2>2 DEF HoleAbove
<1>15. Cardinality(rotated) \in Nat
  BY <1>3, FS_CardinalityType
<1>16. ASSUME ~raced, NEW f \in Generations, NEW i \in 0..Keep, path'[i] = f
       PROVE  \/ path[i] = f /\ i # n /\ i # n + 1
              \/ i = n + 1 /\ path[n] = f
  <2>1. f # 0
    BY <1>2 DEF Generations
  <2> QED
    BY <1>4, <1>5, <1>9, <1>16, <2>1
<1>17. ASSUME ~raced, NEW f \in Generations, path[n] = f
       PROVE  n + 2 <= f + Cardinality(rotated)
  <2>1. n \in 0..NextNumber(s)
    BY <1>4
  <2> QED
    BY <1>17, <2>1 DEF Rotations, MovedUp
<1>18. MovedUp'
  <2>1. ASSUME ~raced, NEW f \in Generations, NEW i \in 0..Keep, path'[i] = f
        PROVE  i + 1 <= f + Cardinality(rotated)
    <3>1. CASE path[i] = f
      BY <2>1, <3>1 DEF Rotations, MovedUp
    <3>2. CASE i = n + 1 /\ path[n] = f
      <4>1. n + 2 <= f + Cardinality(rotated)
        BY <1>17, <2>1, <3>2
      <4> QED
        BY <1>4, <3>2, <4>1
    <3> QED
      BY <1>16, <2>1, <3>1, <3>2
  <2>2. ASSUME ~raced, NEW f \in Generations, step \in Rotating, NEW i \in 0..(n - 1), path'[i] = f
        PROVE  i + 2 <= f + Cardinality(rotated)
    <3>1. i \in 0..Keep /\ i \in 0..n /\ i # n + 1
      BY <1>2, <1>4
    <3>2. path[i] = f
      BY <1>16, <2>2, <3>1
    <3> QED
      BY <2>2, <3>1, <3>2 DEF Rotations, MovedUp
  <2>3. ASSUME ~raced, NEW f \in Generations, NEW t \in Servers, opening'[t] \in Rotating, NEW i \in 0..NextNumber(t)', path'[i] = f
        PROVE  i + 2 <= f + Cardinality(rotated)
    <3>1. t = s /\ step \in Rotating
      BY <1>12, <2>3
    <3>2. i \in 0..(n - 1)
      BY <1>11, <2>3, <3>1
    <3> QED
      BY <2>2, <2>3, <3>1, <3>2
  <2> QED
    BY <2>1, <2>3 DEF MovedUp
<1>19. GenerationsAreKept'
  <2>1. ASSUME NEW f \in Generations, \A i \in 0..Keep : path'[i] # f, ~raced
        PROVE  Cardinality(rotated) > Keep + 1 - f
    <3>1. ASSUME NEW i \in 0..Keep
          PROVE  path[i] # f
      <4>1. f # 0
        BY <1>2 DEF Generations
      <4>2. path'[i] # f /\ path'[n + 1] # f
        BY <1>4, <2>1
      <4> QED
        BY <1>4, <1>5, <1>9, <2>1, <4>1, <4>2
    <3> QED
      BY <2>1, <3>1 DEF Rotations, GenerationsAreKept
  <2> QED
    BY <2>1 DEF GenerationsAreKept
<1> QED
  BY <1>6, <1>10, <1>14, <1>18, <1>19 DEF Rotations

LEMMA RenamesKeep ==
  ASSUME LogTypes, Channels, Rotations, NEW s \in Servers, RenameGeneration(s) \/ RenameLog(s)
  PROVE  LogTypes' /\ Channels' /\ Rotations'
<1>1. CASE RenameGeneration(s)
  <2>1. PICK n, step : n = generation[s] /\ step = IF n = 1 THEN "path" ELSE "generations"
    OBVIOUS
  <2>2. /\ opening[s] = "generations"
        /\ path' = IF path[n] = 0 THEN path ELSE [path EXCEPT ![n + 1] = path[n], ![n] = 0]
        /\ generation' = [generation EXCEPT ![s] = n - 1]
        /\ Proceed(s, step) /\ UNCHANGED <<rotated, raced>>
    BY <1>1, <2>1 DEF RenameGeneration
  <2>3. opening[s] \in Rotating /\ NextNumber(s) = n
    BY <2>1, <2>2 DEF Rotating, NextNumber
  <2>4. n \in 0..(Keep - 1) /\ n >= 1
    BY <2>1, <2>2, <2>3 DEF Rotations, HoleAbove
  <2>5. Keep \in Nat
    BY FilesAre
  <2>6. generation' \in [Servers -> Nat] /\ generation'[s] = n - 1 /\ \A t \in Servers \ {s} : generation'[t] = generation[t]
    <3>1. n - 1 \in Nat
      BY <2>4, <2>5
    <3> QED
      BY <2>2, <3>1 DEF LogTypes
  <2>7. /\ step \in {"generations", "path", "open"} /\ (step = "generations" => n >= 2) /\ (step = "path" => n = 1) /\ step # "open"
    BY <2>1, <2>4, <2>5
  <2> QED
    BY <2>2, <2>3, <2>4, <2>6, <2>7, RenameMoves
<1>2. CASE RenameLog(s)
  <2>1. /\ opening[s] = "path" /\ path[0] # 0
        /\ path' = [path EXCEPT ![1] = path[0], ![0] = 0]
        /\ Proceed(s, "open") /\ UNCHANGED <<generation, rotated, raced>>
    BY <1>2 DEF RenameLog
  <2>2. PICK n : n = 0
    OBVIOUS
  <2>3. opening[s] \in Rotating /\ NextNumber(s) = n
    BY <2>1, <2>2 DEF Rotating, NextNumber
  <2>4. path' = IF path[n] = 0 THEN path ELSE [path EXCEPT ![n + 1] = path[n], ![n] = 0]
    <3>1. n + 1 = 1
      BY <2>2
    <3> QED
      BY <2>1, <2>2, <3>1
  <2>5. n \in 0..(Keep - 1)
    BY <2>2, FilesAre
  <2>6. generation' \in [Servers -> Nat] /\ \A t \in Servers \ {s} : generation'[t] = generation[t]
    BY <2>1 DEF LogTypes
  <2>7. PICK step : step = "open"
    OBVIOUS
  <2>8. /\ step \in {"generations", "path", "open"} /\ step # "generations" /\ step # "path" /\ Proceed(s, step)
    BY <2>1, <2>7
  <2> QED
    BY <2>1, <2>2, <2>3, <2>4, <2>5, <2>6, <2>8, RenameMoves
<1> QED
  BY <1>1, <1>2

LEMMA StatLogKeeps ==
  ASSUME LogTypes, Channels, NEW s \in Servers, StatLog(s)
  PROVE  LogTypes' /\ Channels'
<1>1. PICK step \in {"remove", "open"} : Proceed(s, step)
  BY DEF StatLog
<1>2. opening[s] # "no" /\ UNCHANGED <<path, generation, rotated, raced>>
  BY DEF StatLog
<1>3. /\ path' \in [0..Keep -> 0..Len(content)] /\ generation' \in [Servers -> Nat]
      /\ rotated' \subseteq Servers /\ IsFiniteSet(rotated') /\ raced' \in BOOLEAN
  BY <1>2 DEF LogTypes
<1> QED
  BY <1>1, <1>2, <1>3, ProceedKeeps

LogInv == LogTypes /\ Channels /\ Rotations

LEMMA LogInitially ==
  ASSUME LogInit
  PROVE  LogInv
<1>1. PICK size \in {0, MaxSize} :
        content = [f \in Generations |-> [i \in 1..(IF f = 1 THEN size ELSE MaxSize) |-> OldLine]]
  BY DEF LogInit
<1>2. /\ path = [i \in 0..Keep |-> i + 1]
      /\ handle = [s \in Servers |-> NoHandle]
      /\ projectKnown = [s \in Servers |-> FALSE] /\ disabled = [s \in Servers |-> FALSE]
      /\ preInitQueue = [s \in Servers |-> <<>>] /\ lineBuffer = [s \in Servers |-> <<>>]
      /\ flushTimer = [s \in Servers |-> FALSE]
      /\ opening = [s \in Servers |-> "no"] /\ generation = [s \in Servers |-> 0]
      /\ held = [s \in Servers |-> <<>>]
      /\ logged = [s \in Servers |-> 0] /\ early = [s \in Servers |-> 0]
      /\ rotated = {} /\ raced = FALSE /\ logFaults = 0
  BY DEF LogInit
<1>3. Keep \in Nat /\ Keep >= 1 /\ MaxSize \in Nat /\ MaxPreInit \in Nat /\ NoHandle \notin Servers
  BY LogAssumption
<1>4. PICK S : S = [of : Servers \cup {NoHandle}, at : Nat]
  OBVIOUS
<1>5. OldLine \in S /\ OldLine.of = NoHandle
  BY <1>4 DEF OldLine
<1>6. \A k \in Nat : [i \in 1..k |-> OldLine] \in Seq(S)
  BY <1>5
<1>7. \A f \in Generations : content[f] = [i \in 1..(IF f = 1 THEN size ELSE MaxSize) |-> OldLine]
  BY <1>1
<1>8. \A f \in Generations : content[f] \in LogFile /\ \A i \in DOMAIN content[f] : content[f][i] = OldLine
  <2>1. \A f \in Generations : (IF f = 1 THEN size ELSE MaxSize) \in Nat
    BY <1>1, <1>3
  <2>2. ASSUME NEW f \in Generations
        PROVE  content[f] \in LogFile /\ \A i \in DOMAIN content[f] : content[f][i] = OldLine
    <3>1. PICK k \in Nat : content[f] = [i \in 1..k |-> OldLine]
      BY <1>7, <2>1
    <3> QED
      BY <1>4, <1>6, <3>1 DEF LogFile
  <2> QED
    BY <2>2
<1>9. content \in Seq(LogFile) /\ Len(content) = Keep + 1 /\ DOMAIN content = Generations
  <2>1. DOMAIN content = 1..(Keep + 1)
    BY <1>1 DEF Generations
  <2>2. content = [f \in 1..(Keep + 1) |-> content[f]]
    BY <1>1 DEF Generations
  <2>3. PICK T : T = LogFile
    OBVIOUS
  <2>4. \A f \in 1..(Keep + 1) : content[f] \in T
    BY <1>8, <2>3 DEF Generations
  <2>5. PICK k \in Nat : k = Keep + 1
    BY <1>3
  <2>6. content \in [1..k -> T]
    BY <2>2, <2>4, <2>5
  <2>7. content \in Seq(T) /\ Len(content) = k
    BY <2>5, <2>6
  <2> QED
    BY <2>1, <2>3, <2>5, <2>7 DEF Generations
<1>10. <<>> \in LogFile /\ IsFiniteSet({}) /\ Cardinality({}) = 0
  BY FS_EmptySet DEF LogFile
<1>11. LogTypes
  <2>1. path \in [0..Keep -> 0..Len(content)] /\ Len(content) >= Keep + 1
    BY <1>2, <1>3, <1>9
  <2>2. /\ preInitQueue \in [Servers -> LogFile] /\ lineBuffer \in [Servers -> LogFile] /\ held \in [Servers -> LogFile]
    BY <1>2, <1>10
  <2>3. /\ handle \in [Servers -> {NoHandle} \cup 1..Len(content)]
        /\ projectKnown \in [Servers -> BOOLEAN] /\ disabled \in [Servers -> BOOLEAN]
        /\ flushTimer \in [Servers -> BOOLEAN] /\ raced \in BOOLEAN
        /\ opening \in [Servers -> {"no", "stat", "remove", "generations", "path", "open"}]
        /\ generation \in [Servers -> Nat] /\ logged \in [Servers -> Nat] /\ early \in [Servers -> Nat]
        /\ rotated \subseteq Servers /\ IsFiniteSet(rotated) /\ logFaults \in Nat
    BY <1>2, <1>10
  <2> QED
    BY <1>9, <2>1, <2>2, <2>3 DEF LogTypes
<1>12. ASSUME NEW s \in Servers
       PROVE  Channel(s)
  <2>1. /\ handle[s] = NoHandle /\ ~disabled[s] /\ opening[s] = "no" /\ ~flushTimer[s]
        /\ preInitQueue[s] = <<>> /\ lineBuffer[s] = <<>> /\ held[s] = <<>> /\ logged[s] = 0 /\ early[s] = 0
    BY <1>2
  <2>2. FirstKept(s) = 1
    BY <1>3, <2>1 DEF FirstKept
  <2>3. Len(<<>>) = 0 /\ Tells(<<>>, s, 0)
    BY NoneTold
  <2>4. \A f \in DOMAIN content : \A i \in DOMAIN content[f] : content[f][i].of # s
    BY <1>3, <1>5, <1>8, <1>9
  <2>5. Unopened(s)
    BY <2>1, <2>2, <2>3, <2>4 DEF Unopened
  <2> QED
    BY <2>1, <2>5 DEF Channel
<1>13. \A s \in Servers : opening[s] = "no"
  BY <1>2
<1>14. RotatesOnce /\ HoleAbove
  BY <1>2, <1>13 DEF RotatesOnce, HoleAbove, Rotating
<1>15. MovedUp
  <2>1. \A f \in Generations : \A i \in 0..Keep : path[i] = f => i + 1 <= f + 0
    BY <1>2, <1>3 DEF Generations
  <2> QED
    BY <1>2, <1>10, <1>13, <2>1 DEF MovedUp, Rotating
<1>16. GenerationsAreKept
  <2>1. \A f \in Generations : f - 1 \in 0..Keep /\ path[f - 1] = f
    BY <1>2, <1>3 DEF Generations
  <2> QED
    BY <2>1 DEF GenerationsAreKept
<1> QED
  BY <1>11, <1>12, <1>14, <1>15, <1>16 DEF LogInv, Channels, Rotations

LEMMA LogStepHolds ==
  ASSUME LogInv, LogNext
  PROVE  LogInv'
<1>1. LogTypes /\ Channels /\ Rotations
  BY DEF LogInv
<1>2. PICK s \in Servers : \/ SetProjectRoot(s) \/ LogEvent(s) \/ FlushTimer(s) \/ StatLog(s) \/ RemoveOldest(s)
                           \/ RenameGeneration(s) \/ RenameLog(s) \/ OpeningFails(s) \/ OpenLog(s)
  BY DEF LogNext
<1>3. CASE SetProjectRoot(s) \/ LogEvent(s) \/ FlushTimer(s) \/ StatLog(s) \/ OpeningFails(s)
  <2>1. LogTypes' /\ Channels'
    BY <1>1, <1>3, SetProjectRootKeeps, LogEventKeeps, FlushTimerKeeps, StatLogKeeps, OpeningFailsKeeps
  <2> QED
    BY <1>1, <1>3, <2>1, StillKeeps DEF LogInv
<1>4. CASE RemoveOldest(s)
  BY <1>1, <1>4, RemoveOldestKeeps DEF LogInv
<1>5. CASE RenameGeneration(s) \/ RenameLog(s)
  BY <1>1, <1>5, RenamesKeep DEF LogInv
<1>6. CASE OpenLog(s)
  BY <1>1, <1>6, OpenLogKeeps, OpenLogRotates DEF LogInv
<1> QED
  BY <1>2, <1>3, <1>4, <1>5, <1>6

LEMMA LogStays ==
  ASSUME LogInv, UNCHANGED logVars
  PROVE  LogInv'
<1>1. UNCHANGED <<path, content, handle, projectKnown, disabled, preInitQueue, lineBuffer, flushTimer, opening,
                  generation, held, logged, rotated, raced, early, logFaults>>
  BY DEF logVars, openVars, historyVars
<1>2. LogTypes'
  BY <1>1 DEF LogInv, LogTypes
<1>3. ASSUME NEW s \in Servers
      PROVE  Channel(s)'
  <2>1. FirstKept(s)' = FirstKept(s) /\ (HasDestination(s)' <=> HasDestination(s))
    BY <1>1 DEF FirstKept, HasDestination
  <2>2. (Unopened(s) => Unopened(s)') /\ (Opened(s) => Opened(s)')
    BY <1>1, <2>1 DEF Unopened, Opened
  <2> QED
    BY <1>1, <2>1, <2>2 DEF LogInv, Channels, Channel
<1>4. Rotations'
  BY <1>1 DEF LogInv, Rotations, RotatesOnce, HoleAbove, MovedUp, GenerationsAreKept, NextNumber
<1> QED
  BY <1>2, <1>3, <1>4 DEF LogInv, Channels

LEMMA InvKeepsLines ==
  ASSUME LogInv
  PROVE  LogIsFaithful
<1>1. LogTypes /\ Channels /\ Rotations
  BY DEF LogInv
<1>2. ASSUME NEW s \in Servers, ~disabled[s], NEW waiting, waiting = preInitQueue[s] \o lineBuffer[s] \o held[s]
      PROVE  LET last == logged[s] - Len(waiting)
             IN /\ waiting = [i \in 1..Len(waiting) |-> Line(s, last + i)]
                /\ last >= FirstKept(s) - 1
                /\ IF handle[s] = NoHandle THEN last = FirstKept(s) - 1
                                          ELSE Records(content[handle[s]], s, FirstKept(s), last)
                /\ lineBuffer[s] # <<>> => flushTimer[s]
  <2> DEFINE last == logged[s] - Len(waiting)
  <2>1. /\ FirstKept(s) \in Nat /\ Len(lineBuffer[s]) \in Nat /\ Len(preInitQueue[s]) \in Nat
        /\ logged[s] \in Nat /\ early[s] \in Nat
    BY <1>1, FilesAre
  <2>2. /\ preInitQueue[s] \in LogFile /\ lineBuffer[s] \in LogFile /\ held[s] \in LogFile /\ <<>> \in LogFile
    BY <1>1, NoneTold DEF LogTypes
  <2>3. ASSUME NEW q \in LogFile, waiting = q, Tells(q, s, logged[s])
        PROVE  waiting = [i \in 1..Len(waiting) |-> Line(s, last + i)]
    <3>1. Len(q) \in Nat /\ DOMAIN q = 1..Len(q)
      BY JoinIs
    <3>2. q = [i \in 1..Len(q) |-> q[i]]
      BY <3>1, <2>3 DEF LogFile
    <3>3. \A i \in 1..Len(q) : q[i] = Line(s, logged[s] - Len(q) + i)
      BY <2>3 DEF Tells
    <3> QED
      BY <2>3, <3>2, <3>3
  <2>4. CASE handle[s] = NoHandle
    <3>1. Unopened(s)
      BY <1>1, <1>2, <2>4 DEF Channels, Channel
    <3>2. PICK q, n : q = preInitQueue[s] /\ n = early[s]
      OBVIOUS
    <3>3. q \in LogFile /\ n \in Nat /\ Tells(q, s, n) /\ Len(q) = n - FirstKept(s) + 1 /\ Len(q) \in Nat
      BY <2>1, <2>2, <3>1, <3>2 DEF Unopened
    <3>4. waiting = q \o held[s]
      <4>1. q \o <<>> = q
        BY <3>3, JoinIs
      <4> QED
        BY <1>2, <3>1, <3>2, <4>1 DEF Unopened
    <3>5. waiting \in LogFile /\ Tells(waiting, s, logged[s]) /\ logged[s] - Len(waiting) = FirstKept(s) - 1
      <4>1. CASE logged[s] = n
        <5>1. waiting = q
          BY <3>1, <3>2, <3>3, <3>4, <4>1, JoinIs DEF Unopened
        <5> QED
          BY <2>1, <3>3, <4>1, <5>1
      <4>2. CASE logged[s] # n
        <5>1. logged[s] = n + 1 /\ held[s] = <<Line(s, n + 1)>>
          BY <3>1, <3>2, <4>2 DEF Unopened
        <5>2. waiting = Append(q, Line(s, n + 1))
          <6>1. PICK x : x = Line(s, n + 1)
            OBVIOUS
          <6>2. q \o <<x>> = Append(q, x)
            BY <3>3, AppendIsConcat DEF LogFile
          <6> QED
            BY <3>4, <5>1, <6>1, <6>2
        <5>3. waiting \in LogFile /\ Len(waiting) = Len(q) + 1 /\ Tells(waiting, s, n + 1)
          BY <3>3, <5>2, AppendTells
        <5> QED
          BY <2>1, <3>3, <5>1, <5>3
      <4> QED
        BY <4>1, <4>2
    <3>6. lineBuffer[s] = <<>>
      BY <3>1 DEF Unopened
    <3>7. last >= FirstKept(s) - 1
      BY <2>1, <3>5
    <3> QED
      BY <2>3, <2>4, <3>5, <3>6, <3>7
  <2>5. CASE handle[s] # NoHandle
    <3>1. Opened(s)
      BY <1>1, <1>2, <2>5 DEF Channels, Channel
    <3>2. waiting = lineBuffer[s]
      <4>1. <<>> \o lineBuffer[s] = lineBuffer[s] /\ lineBuffer[s] \o <<>> = lineBuffer[s]
        BY <2>2, JoinIs
      <4> QED
        BY <1>2, <3>1, <4>1 DEF Opened
    <3> QED
      BY <2>2, <2>3, <2>5, <3>1, <3>2 DEF Opened
  <2> QED
    BY <2>4, <2>5
<1>3. LinesAreKept
  BY <1>2 DEF LinesAreKept
<1> QED
  BY <1>1, <1>3 DEF LogIsFaithful, Rotations

(***************************************************************************)
(* Whatever the servers log, rotate and rename, a server that can write    *)
(* loses none but the oldest of its early lines and has the others in      *)
(* order, and a generation is gone only when it was the oldest, or two     *)
(* rotations raced.                                                        *)
(***************************************************************************)
THEOREM LogStaysFaithful == LogSpec => []LogIsFaithful
<1>1. LogInv /\ [LogNext]_logVars => LogInv'
  BY LogStepHolds, LogStays
<1>2. LogSpec => []LogInv
  BY <1>1, LogInitially, PTL DEF LogSpec
<1>3. LogInv => LogIsFaithful
  BY InvKeepsLines
<1> QED
  BY <1>2, <1>3, PTL
===============================================================================
