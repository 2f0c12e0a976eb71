------------------------------- MODULE Firmware -------------------------------
(***************************************************************************)
(* Flashing an image and restoring a backup (flash.js, with uploadFile()   *)
(* and awaitReconnect() of ui.js).  A file is uploaded to a fixed place    *)
(* in /tmp, checked there, and used from there when the user has said yes; *)
(* the page then waits for the router to answer at the addresses that it   *)
(* expects.  Other sessions use the same place.  Here one page; what it    *)
(* says of the file comes in part from its own upload and in part from     *)
(* what it found there.  sysupgrade and tar are external.                  *)
(***************************************************************************)
EXTENDS Naturals, FiniteSets

CONSTANTS Files,    \* what may be uploaded: records, see FileType
          NoFile

FileType == [valid : BOOLEAN,      \* sysupgrade takes it; or it is an archive
             forceable : BOOLEAN,  \* sysupgrade --force takes it
             fits : BOOLEAN,       \* in the flash memory
             backup : BOOLEAN]     \* it can keep the configuration
ASSUME FirmwareAssumption == Files \subseteq FileType /\ NoFile \notin FileType

VARIABLES
  job,      \* what the page does: "flash" or "restore"
  stage,    \* where it is: see FlashInit
  uploaded, \* the file that the page has sent
  described, \* the file that the checks of the page were about
  keep,     \* the checkbox "Keep settings"
  force,    \* the checkbox "Force upgrade"
  tmp,      \* the file in /tmp
  router,   \* its address, what it runs, whether it is up
  meddled   \* history: has another session changed the file since the upload?

flashVars == <<job, stage, uploaded, described, keep, force, tmp, router, meddled>>

\* Where the page finds the router now, and where a router without settings is.
Own == "own"
DefaultAddress == "default"
Up(address, runs, kept) == [address |-> address, up |-> TRUE, runs |-> runs, kept |-> kept, forced |-> FALSE]

FlashInit ==
  /\ job \in {"flash", "restore"}
  /\ stage = "idle" \* picking, uploading, checking, testing, asking, sent, waiting, stuck
  /\ uploaded = NoFile /\ described = NoFile
  /\ keep = FALSE /\ force = FALSE
  /\ tmp \in {NoFile} \cup Files
  /\ router = Up(Own, NoFile, TRUE)
  /\ meddled = FALSE

Page == <<job, keep, force>>

-----------------------------------------------------------------------------
(* uploadFile() *)

PickFile ==
  /\ stage = "idle" /\ router.up
  /\ \E f \in Files : uploaded' = f
  /\ stage' = "picking"
  /\ UNCHANGED <<Page, described, tmp, router, meddled>>

Upload ==
  /\ stage = "picking"
  /\ stage' \in {"uploading", "idle"}
  /\ UNCHANGED <<Page, uploaded, described, tmp, router, meddled>>

\* The answer tells the size and the checksums of what was stored.
Stored ==
  /\ stage = "uploading"
  /\ \/ tmp' = uploaded /\ meddled' = FALSE /\ stage' = "checking"
     \/ UNCHANGED <<tmp, meddled>> /\ stage' = "idle"
  /\ UNCHANGED <<Page, uploaded, described, router>>

-----------------------------------------------------------------------------
(* handleSysupgrade(), handleRestore() *)

TmpRemoved == tmp' = NoFile

\* validate_firmware_image, or a listing of the archive: an archive that cannot be
\* read is removed.  Where the request fails there is a message, but the dialog
\* "Checking image" stays as it is.
Check ==
  /\ stage = "checking"
  /\ \/ /\ described' = tmp
        /\ IF job = "flash" THEN stage' = "testing" /\ UNCHANGED tmp
           ELSE IF tmp # NoFile /\ tmp.valid THEN stage' = "asking" /\ UNCHANGED tmp
           ELSE stage' = "idle" /\ TmpRemoved
     \/ /\ stage' = IF job = "flash" THEN "stuck" ELSE "idle"
        /\ UNCHANGED <<described, tmp>>
  /\ UNCHANGED <<Page, uploaded, router, meddled>>

\* What is known of the file in the dialog: the size is that of the upload.
Valid == described # NoFile /\ described.valid
Forceable == described # NoFile /\ described.forceable
MayKeep == described # NoFile /\ described.backup
MayForce == (~Valid \/ ~uploaded.fits) /\ Forceable

\* sysupgrade --test: only what it says is shown.
Test ==
  /\ stage = "testing"
  /\ \/ stage' = "asking" /\ keep' = MayKeep /\ force' = FALSE
     \/ stage' = "stuck" /\ UNCHANGED <<keep, force>>
  /\ UNCHANGED <<job, uploaded, described, tmp, router, meddled>>

Tick ==
  /\ stage = "asking" /\ job = "flash"
  /\ \/ MayKeep /\ keep' = ~keep /\ UNCHANGED force
     \/ MayForce /\ force' = ~force /\ UNCHANGED keep
  /\ UNCHANGED <<job, stage, uploaded, described, tmp, router, meddled>>

\* The button Cancel removes the file, whoever has stored it.
Cancel ==
  /\ stage = "asking"
  /\ TmpRemoved /\ stage' = "idle"
  /\ UNCHANGED <<Page, uploaded, described, router, meddled>>

\* The button Continue.
AlwaysEnabled == TRUE \* mutant
Continues == job = "restore" \/ (Valid /\ uploaded.fits) \/ force
Confirm ==
  /\ stage = "asking" /\ Continues
  /\ stage' = "sent"
  /\ UNCHANGED <<Page, uploaded, described, tmp, router, meddled>>

-----------------------------------------------------------------------------
(* The router *)

\* handleSysupgradeConfirm(): the page does not look at the answer.  sysupgrade
\* refuses a file that it does not take, and the router stays as it was.
Takes == tmp # NoFile /\ (tmp.valid \/ (force /\ tmp.forceable))
Flash ==
  /\ stage = "sent" /\ job = "flash" /\ router.up
  /\ router' = IF Takes THEN [address |-> IF keep THEN Own ELSE DefaultAddress, up |-> FALSE,
                              runs |-> tmp, kept |-> keep, forced |-> force]
               ELSE router
  /\ tmp' = IF Takes THEN NoFile ELSE tmp
  /\ stage' = "waiting"
  /\ UNCHANGED <<Page, uploaded, described, meddled>>

\* handleRestoreConfirm(): the archive is unpacked, then the router restarted; each
\* may fail, with a message and the dialog as it was.  The settings restored may
\* be those of another address.
Restore ==
  /\ stage = "sent" /\ job = "restore" /\ router.up
  /\ \/ /\ tmp # NoFile /\ tmp.valid
        /\ \E a \in {Own, DefaultAddress, "another"} :
             \/ stage' = "waiting" /\ router' = [router EXCEPT !.address = a, !.up = FALSE]
             \/ stage' = "asking" /\ UNCHANGED router
     \/ stage' = "asking" /\ UNCHANGED router
  /\ UNCHANGED <<Page, uploaded, described, tmp, meddled>>

Boot ==
  /\ ~router.up
  /\ router' = [router EXCEPT !.up = TRUE]
  /\ tmp' = NoFile
  /\ UNCHANGED <<Page, stage, uploaded, described, meddled>>

\* Another session stores a file there, or removes it.
Meddle ==
  /\ router.up /\ stage \notin {"idle", "waiting", "stuck"}
  /\ tmp' \in Files \cup {NoFile} /\ tmp' # tmp
  /\ meddled' = TRUE
  /\ UNCHANGED <<Page, stage, uploaded, described, router>>

\* awaitReconnect(): the page goes to the first address that answers, also before
\* the router has gone down; and the user may come back to the page any time.
OwnOnly(kept) == {Own} \* mutant
Awaited(kept) == IF job = "restore" THEN {Own, DefaultAddress}
                 ELSE IF kept THEN {Own} ELSE {DefaultAddress}
Opened ==
  /\ stage' = "idle"
  /\ uploaded' = NoFile /\ described' = NoFile /\ keep' = FALSE /\ force' = FALSE
  /\ router' = Up(router.address, router.runs, router.kept)
  /\ meddled' = FALSE
  /\ UNCHANGED <<job, tmp>>
Reconnected == stage = "waiting" /\ router.up /\ router.address \in Awaited(keep) /\ Opened
Reload == stage \in {"stuck", "waiting"} /\ router.up /\ Opened

FlashNext == \/ PickFile \/ Upload \/ Stored \/ Check \/ Test \/ Tick \/ Cancel \/ Confirm
             \/ Flash \/ Restore \/ Boot \/ Meddle \/ Reconnected \/ Reload
FlashSpec == FlashInit /\ [][FlashNext]_flashVars

-----------------------------------------------------------------------------
(* Properties *)

\* As long as no other session meddles with the file: what runs is what was
\* uploaded and described to the user; a file that is not valid or does not fit is
\* flashed only when forced, and the settings are kept only where the image can.
FlashedAsAgreed ==
  stage = "waiting" /\ job = "flash" /\ ~router.up /\ ~meddled =>
    /\ router.runs = uploaded
    /\ (router.runs.valid /\ router.runs.fits) \/ router.forced
    /\ router.kept => router.runs.backup

\* A router that was flashed comes up where the page waits for it.
ComesBack ==
  stage = "waiting" /\ job = "flash" /\ ~router.up => router.address \in Awaited(keep)

FlashSound == FlashedAsAgreed /\ ComesBack
=============================================================================
