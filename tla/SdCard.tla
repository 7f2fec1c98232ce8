------------------------------- MODULE SdCard -------------------------------
(***************************************************************************)
(* The SD card of SD.c: mounting, unmounting, and SD_Write_Data, on top of *)
(* esp_vfs_fat_sdmmc_mount / _unmount and of stdio over FatFs.  One task   *)
(* uses the card; what makes it hard is that every step can fail, that     *)
(* stdio and FatFs keep written data in memory until the file is closed,   *)
(* and that the chip can lose power or reboot at any point.                *)
(***************************************************************************)
EXTENDS Integers

CONSTANT Lengths   \* bound: lengths of the data given to SD_Write_Data

ASSUME SdAssumption == Lengths \subseteq Nat \ {0}

VARIABLES
  card,    \* the static pointer of SD.c: "NULL", "card", or "freed" memory
  vfs,     \* MOUNT_POINT: "none", "mounted", or "broken" (its card was freed)
  disk,    \* length of the file as its directory entry on the card has it
  open,    \* a FILE is open on it
  wrote,   \* bytes fwrite accepted since it was opened
  closeOk, \* did the last fclose succeed?  No caller looks at its result
  sdPc,    \* where SD_Write_Data is
  length,  \* its argument
  acked    \* length it last returned ESP_OK for, until the file is reopened

sdVars == <<card, vfs, disk, open, wrote, closeOk, sdPc, length, acked>>

NoFile == -1
NotAcked == -1

SdTypeOK ==
  /\ card \in {"NULL", "card", "freed"}
  /\ vfs \in {"none", "mounted", "broken"}
  /\ disk \in Nat \cup {NoFile}
  /\ open \in BOOLEAN /\ closeOk \in BOOLEAN
  /\ wrote \in Nat
  /\ sdPc \in {"idle", "write", "close"}
  /\ length \in Nat
  /\ acked \in Nat \cup {NotAcked}

SdInit ==
  /\ card = "NULL" /\ vfs = "none"
  /\ disk = NoFile
  /\ open = FALSE /\ wrote = 0 /\ closeOk = TRUE
  /\ sdPc = "idle" /\ length = 0
  /\ acked = NotAcked

-----------------------------------------------------------------------------
(* esp_vfs_fat_sdmmc_mount: succeeds, keeping the file or, when the volume *)
(* was unreadable, having formatted the card ...                           *)
MountOk ==
  /\ vfs = "none"
  /\ card' = "card" /\ vfs' = "mounted"
  /\ \/ UNCHANGED <<disk, acked>>
     \/ disk' = NoFile /\ acked' = NotAcked

(* Mutant of MountFails: the pointer is cleared before the mount is tried. *)
MountFailsClears ==
  /\ card' = "NULL"
  /\ vfs' \in IF vfs = "broken" THEN {"broken", "none"} ELSE {vfs}
  /\ UNCHANGED <<disk, acked>>

(* ... fails and takes back what it did: a mounted card fails it at the    *)
(* host, a broken one at f_mount, which unregisters the path; when         *)
(* partition_card or the mount after it fails, the file is gone as well ...*)
MountFails ==
  /\ vfs' \in IF vfs = "broken" THEN {"broken", "none"} ELSE {vfs}
  /\ UNCHANGED card
  /\ \/ UNCHANGED <<disk, acked>>
     \/ vfs # "mounted" /\ disk' = NoFile /\ acked' = NotAcked

(* ... or fails at the calloc at its very end, after *out_card was set: the*)
(* card is freed and the host stopped, but the volume stays registered.  It*)
(* may have been formatted, too.                                           *)
MountNoMem ==
  /\ vfs = "none"
  /\ card' = "freed" /\ vfs' = "broken"
  /\ \/ UNCHANGED <<disk, acked>>
     \/ disk' = NoFile /\ acked' = NotAcked

(* SD_Init, which reports nothing to its caller *)
SD_Init == MountOk \/ MountFails \/ MountNoMem

(* Mutant of SD_Unmount: the pointer is dropped, the volume stays mounted. *)
SD_UnmountForgets == card' = "NULL" /\ UNCHANGED vfs

(* SD_Unmount; esp_vfs_fat_sdcard_unmount does not know a freed card. *)
SD_Unmount ==
  /\ vfs' = IF card = "card" THEN "none" ELSE vfs
  /\ card' = "NULL"

-----------------------------------------------------------------------------
(* stdio on the mounted volume *)

(* fopen(.., "w") truncates; the new directory entry may be on the card.   *)
(* On a broken volume it fails or ends in an abort: to read the directory, *)
(* FatFs uses the freed card, and the stopped host takes a mutex that is   *)
(* NULL (sdmmc_transaction.c:112).                                         *)
FopenW ==
  /\ vfs = "mounted"
  /\ open' = TRUE /\ wrote' = 0
  /\ disk' \in {disk, 0}
  /\ acked' = NotAcked
  /\ UNCHANGED closeOk

Fwrite(n) == wrote' = wrote + n /\ UNCHANGED <<open, closeOk, disk>>

(* fclose flushes the buffers and writes the directory entry, if it can. *)
Fclose ==
  /\ open' = FALSE
  /\ closeOk' \in BOOLEAN
  /\ disk' = IF closeOk' THEN wrote ELSE disk

(* Power loss, or the reboot after an abort: only the card keeps its data. *)
SdReboot ==
  /\ card' = "NULL" /\ vfs' = "none"
  /\ open' = FALSE /\ wrote' = 0
  /\ sdPc' = "idle" /\ length' = 0
  /\ UNCHANGED <<disk, closeOk, acked>>

-----------------------------------------------------------------------------
(* SD_Write_Data *)

WriteOpen ==
  /\ sdPc = "idle"
  /\ \E n \in Lengths : length' = n
  /\ FopenW
  /\ sdPc' = "write"
  /\ UNCHANGED <<card, vfs>>

(* bytes_written: all of length, or fewer when the card fails or is full *)
WriteData ==
  /\ sdPc = "write"
  /\ \E n \in 0 .. length : Fwrite(n)
  /\ sdPc' = "close"
  /\ UNCHANGED <<card, vfs, length, acked>>

(* Mutant of WriteClose: a short write is not noticed. *)
WriteCloseUnchecked ==
  /\ sdPc = "close"
  /\ Fclose
  /\ acked' = length
  /\ sdPc' = "idle"
  /\ UNCHANGED <<card, vfs, wrote, length>>

WriteClose ==
  /\ sdPc = "close"
  /\ Fclose
  /\ acked' = IF wrote = length THEN length ELSE NotAcked
  /\ sdPc' = "idle"
  /\ UNCHANGED <<card, vfs, wrote, length>>

CallSdInit ==
  /\ sdPc = "idle"
  /\ SD_Init
  /\ UNCHANGED <<open, wrote, closeOk, sdPc, length>>

CallSdUnmount ==
  /\ sdPc = "idle"
  /\ SD_Unmount
  /\ UNCHANGED <<disk, open, wrote, closeOk, sdPc, length, acked>>

(* What an application does with the card by itself *)
SdNext ==
  \/ CallSdInit \/ CallSdUnmount
  \/ WriteOpen \/ WriteData \/ WriteClose

-----------------------------------------------------------------------------
(* What SD_Write_Data reported as "File written successfully" (SD.c:212) is*)
(* on the card, and stays there through unmounts, mounts, failed writes and*)
(* power losses.  The fclose whose result SD.c:204 drops must have worked. *)
AckedIsStored == acked # NotAcked /\ closeOk => disk = acked

(* A mounted volume can always be unmounted again: nothing loses the       *)
(* pointer, not a second SD_Init that fails, nor a write that fails.       *)
MountedIsKnown == vfs = "mounted" => card = "card"
=============================================================================
