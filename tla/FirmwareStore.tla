---------------------------- MODULE FirmwareStore ----------------------------
(***************************************************************************)
(* Firmware binaries: rows of the table firmware and files of the storage  *)
(* directory, which no transaction holds together                          *)
(* (services/firmware.service.ts), the campaigns that refer to them        *)
(* (FirmwareCampaignService.start) and the downloads of the chargers       *)
(* (controllers/firmware.controller.ts), on a process that crashes.        *)
(***************************************************************************)
EXTENDS Naturals

CONSTANTS
  Calls,      \* requests ever made: bounds the model; an upload's id names its row
  Binaries,   \* the SHA256 of what is uploaded
  Originals,  \* sanitized original names
  NoFile,     \* a call that has not read its row
  MaxFaults   \* crashes and failed queries or file operations: bounds the model

ASSUME FaultsAssumption == MaxFaults \in Nat
ASSUME NoFileAssumption == NoFile \notin Binaries \X Originals

VARIABLES
  rows,       \* the table firmware
  campaigns,  \* firmwareId of the rows of firmware_campaign
  disk,       \* a file: "absent", "whole", or the upload that truncated it last
  call,       \* each request: what it does, the await it is at, its arguments
  raced,      \* history: files two requests were writing or removing at once
  faults      \* history: faults so far

vars == <<rows, campaigns, disk, call, raced, faults>>

(* filename: a prefix of the SHA256 and the original name.                  *)
Files == Binaries \X Originals
Sha256(f) == f[1]

Rows == [id : Calls, file : Files, isActive : BOOLEAN]
New  == [op |-> "none", at |-> "new"]
Done == [op |-> "none", at |-> "done"]

(* Awaits at which the request is about to change its file.                 *)
AtFile == {"open", "write", "create", "unlink"}

OnFile  == {"upload", "download"}
OnId    == {"delete", "update", "start"}
Awaits  == {"find", "count", "delete", "update", "insert", "exists", "stream"} \cup AtFile

InFlight == [op : OnFile \cup OnId, at : Awaits, id : Calls, file : Files \cup {NoFile}]

CallType ==
  /\ call \in [Calls -> {New, Done} \cup InFlight]
  /\ \A c \in Calls :
       call[c] \in InFlight /\ (call[c].op \in OnFile \/ call[c].at # "find")
         => call[c].file \in Files

TypeOK ==
  /\ rows \in SUBSET Rows
  /\ campaigns \in SUBSET Calls
  /\ disk \in [Files -> {"absent", "whole"} \cup Calls]
  /\ CallType
  /\ raced \in SUBSET Files
  /\ faults \in Nat

Init ==
  /\ rows = {}
  /\ campaigns = {}
  /\ disk = [f \in Files |-> "absent"]
  /\ call = [c \in Calls |-> New]
  /\ raced = {}
  /\ faults = 0

At(c, op, at) == call[c].op = op /\ call[c].at = at
Goto(c, at)   == call' = [call EXCEPT ![c].at = at]
Return(c)     == call' = [call EXCEPT ![c] = Done]
CostsFault    == faults < MaxFaults /\ faults' = faults + 1
SetFile(f, x) == disk' = [disk EXCEPT ![f] = x]

WithId(i)     == {r \in rows : r.id = i}
WithSha256(b) == {r \in rows : Sha256(r.file) = b}
WithName(f)   == {r \in rows : r.file = f}

(* Requests that are writing or removing file f, or are about to.           *)
Busy(f) == {c \in Calls : call[c].at \in AtFile /\ call[c].file = f}

------------------------------------------------------------------------------
(* A request begins with the lookup of a row.                               *)

RequestFile(c, op, f) ==
  /\ call[c] = New
  /\ call' = [call EXCEPT ![c] = [op |-> op, at |-> "find", id |-> c, file |-> f]]
  /\ UNCHANGED <<rows, campaigns, disk, faults>>

(* An id the caller has seen, or one that no row has.                       *)
Known(c) == {r.id : r \in rows} \cup {c}

RequestRow(c, op, i) ==
  /\ call[c] = New
  /\ call' = [call EXCEPT ![c] = [op |-> op, at |-> "find", id |-> i, file |-> NoFile]]
  /\ UNCHANGED <<rows, campaigns, disk, faults>>

------------------------------------------------------------------------------
(* upload                                                                   *)

(* 409 when the binary has a row.                                           *)
FindBySha256(c) ==
  /\ At(c, "upload", "find")
  /\ IF WithSha256(Sha256(call[c].file)) # {} THEN Return(c) ELSE Goto(c, "open")
  /\ UNCHANGED <<rows, campaigns, disk, faults>>

(* writeFile opens the file, truncating what another upload may have there. *)
OpenFile(c) ==
  /\ At(c, "upload", "open")
  /\ SetFile(call[c].file, c)
  /\ Goto(c, "write")
  /\ UNCHANGED <<rows, campaigns, faults>>

(* Uploads to one name write the same bytes: the file is whole once the one *)
(* that truncated it last is through, if the name still leads to it.        *)
WriteFile(c) ==
  /\ At(c, "upload", "write")
  /\ IF disk[call[c].file] = c THEN SetFile(call[c].file, "whole") ELSE UNCHANGED disk
  /\ Goto(c, "create")
  /\ UNCHANGED <<rows, campaigns, faults>>

(* Thrown outside the try: what was written so far stays.                   *)
WriteFails(c) ==
  /\ At(c, "upload", "open") \/ At(c, "upload", "write")
  /\ CostsFault
  /\ Return(c)
  /\ UNCHANGED <<rows, campaigns, disk>>

(* filename and sha256 are unique, and a name is of one binary only.        *)
Create(c) ==
  /\ At(c, "upload", "create")
  /\ WithSha256(Sha256(call[c].file)) = {}
  /\ rows' = rows \cup {[id |-> c, file |-> call[c].file, isActive |-> TRUE]}
  /\ Return(c)
  /\ UNCHANGED <<campaigns, disk, faults>>

(* Faulty variant of CreateFails, for mutation testing.                     *)
CreateFailsForGood(c) ==
  /\ At(c, "upload", "create")
  /\ IF WithSha256(Sha256(call[c].file)) # {} THEN UNCHANGED faults ELSE CostsFault
  /\ Return(c)
  /\ UNCHANGED <<rows, campaigns, disk>>

CreateFails(c) ==
  /\ At(c, "upload", "create")
  /\ IF WithSha256(Sha256(call[c].file)) # {} THEN UNCHANGED faults ELSE CostsFault
  /\ Goto(c, "unlink")
  /\ UNCHANGED <<rows, campaigns, disk>>

(* The rollback of an upload and the end of a delete: whatever the file has *)
(* become, it goes.                                                         *)
Unlink(c) ==
  /\ call[c].at = "unlink"
  /\ SetFile(call[c].file, "absent")
  /\ Return(c)
  /\ UNCHANGED <<rows, campaigns, faults>>

(* Caught.                                                                  *)
UnlinkFails(c) ==
  /\ call[c].at = "unlink"
  /\ CostsFault
  /\ Return(c)
  /\ UNCHANGED <<rows, campaigns, disk>>

------------------------------------------------------------------------------
(* delete, update, and the campaign's start                                 *)

AfterFind == [delete |-> "count", start |-> "insert", update |-> "update"]

(* Faulty variant of FindById, for mutation testing.                        *)
FindIdOnly(c) ==
  /\ call[c].op \in OnId /\ call[c].at = "find"
  /\ \/ WithId(call[c].id) = {} /\ Return(c)
     \/ WithId(call[c].id) # {} /\ Goto(c, AfterFind[call[c].op])
  /\ UNCHANGED <<rows, campaigns, disk, faults>>

(* 404 without a row; a campaign is not started for an inactive one.        *)
FindById(c) ==
  /\ call[c].op \in OnId /\ call[c].at = "find"
  /\ \/ WithId(call[c].id) = {} /\ Return(c)
     \/ \E r \in WithId(call[c].id) :
          IF call[c].op = "start" /\ ~r.isActive
          THEN Return(c)
          ELSE call' = [call EXCEPT ![c].at = AfterFind[call[c].op], ![c].file = r.file]
  /\ UNCHANGED <<rows, campaigns, disk, faults>>

(* Faulty variant of CountCampaigns, for mutation testing.                  *)
CountAndUnlink(c) ==
  /\ At(c, "delete", "count")
  /\ IF call[c].id \in campaigns
     THEN Return(c) /\ UNCHANGED disk
     ELSE Goto(c, "delete") /\ SetFile(call[c].file, "absent")
  /\ UNCHANGED <<rows, campaigns, faults>>

(* 409 when a campaign has used it.                                         *)
CountCampaigns(c) ==
  /\ At(c, "delete", "count")
  /\ IF call[c].id \in campaigns THEN Return(c) ELSE Goto(c, "delete")
  /\ UNCHANGED <<rows, campaigns, disk, faults>>

(* The row may be gone by now, or a campaign refer to it: the foreign key   *)
(* then refuses.                                                            *)
DeleteRow(c) ==
  /\ At(c, "delete", "delete")
  /\ IF WithId(call[c].id) = {} \/ call[c].id \in campaigns
     THEN Return(c) /\ UNCHANGED rows
     ELSE Goto(c, "unlink") /\ rows' = rows \ WithId(call[c].id)
  /\ UNCHANGED <<campaigns, disk, faults>>

UpdateRow(c) ==
  /\ At(c, "update", "update")
  /\ \E b \in BOOLEAN :
       rows' = (rows \ WithId(call[c].id))
                 \cup {[r EXCEPT !.isActive = b] : r \in WithId(call[c].id)}
  /\ Return(c)
  /\ UNCHANGED <<campaigns, disk, faults>>

(* The foreign key refuses a campaign without a firmware.                   *)
InsertCampaign(c) ==
  /\ At(c, "start", "insert")
  /\ campaigns' = IF WithId(call[c].id) = {} THEN campaigns ELSE campaigns \cup {call[c].id}
  /\ Return(c)
  /\ UNCHANGED <<rows, disk, faults>>

(* Every other query of a request ends it when it fails.                    *)
QueryFails(c) ==
  /\ call[c].at \in {"find", "count", "delete", "update", "insert"}
  /\ CostsFault
  /\ Return(c)
  /\ UNCHANGED <<rows, campaigns, disk>>

------------------------------------------------------------------------------
(* download                                                                 *)

FindByName(c) ==
  /\ At(c, "download", "find")
  /\ IF WithName(call[c].file) = {} THEN Return(c) ELSE Goto(c, "exists")
  /\ UNCHANGED <<rows, campaigns, disk, faults>>

(* 404 when the file is not there.                                          *)
ExistsSync(c) ==
  /\ At(c, "download", "exists")
  /\ IF disk[call[c].file] = "absent" THEN Return(c) ELSE Goto(c, "stream")
  /\ UNCHANGED <<rows, campaigns, disk, faults>>

Stream(c) ==
  /\ At(c, "download", "stream")
  /\ disk[call[c].file] # "absent"
  /\ Return(c)
  /\ UNCHANGED <<rows, campaigns, disk, faults>>

(* The process ends: the requests in flight are gone, tables and files stay. *)
ProcessEnds ==
  /\ call' = [c \in Calls |-> IF call[c] = New THEN New ELSE Done]
  /\ UNCHANGED <<rows, campaigns, disk>>

(* The stream opens its file later than existsSync looked: an error of the  *)
(* stream has no listener and is an uncaught exception.                     *)
StreamFails(c) ==
  /\ At(c, "download", "stream")
  /\ disk[call[c].file] = "absent"
  /\ faults' = faults + 1
  /\ ProcessEnds

Crash == CostsFault /\ ProcessEnds

------------------------------------------------------------------------------
Upload(c) ==
  \/ FindBySha256(c) \/ OpenFile(c) \/ WriteFile(c) \/ WriteFails(c)
  \/ Create(c) \/ CreateFails(c)

OnRow(c) ==
  \/ FindById(c) \/ CountCampaigns(c) \/ DeleteRow(c)
  \/ UpdateRow(c) \/ InsertCampaign(c)

Download(c) == FindByName(c) \/ ExistsSync(c) \/ Stream(c) \/ StreamFails(c)

(* Every request the model has was answered.                                *)
AllDone == (\A c \in Calls : call[c] = Done) /\ UNCHANGED <<rows, campaigns, disk, call, faults>>

Step ==
  \/ \E c \in Calls :
       \/ \E op \in OnFile, f \in Files : RequestFile(c, op, f)
       \/ \E op \in OnId, i \in Known(c) : RequestRow(c, op, i)
       \/ Upload(c) \/ OnRow(c) \/ Download(c)
       \/ Unlink(c) \/ UnlinkFails(c) \/ QueryFails(c)
  \/ Crash
  \/ AllDone

Meet(f) == \E c, d \in Busy(f) : c # d

Next == Step /\ raced' = raced \cup {f \in Files : Meet(f)'}

Spec == Init /\ [][Next]_vars

------------------------------------------------------------------------------
(* Properties                                                               *)

(* A firmware that has a row can be downloaded, whatever crashes or fails   *)
(* and whatever campaigns start while it is being deleted: its file is      *)
(* there, and complete, unless two requests changed that file at once (two  *)
(* uploads of one binary, or an upload right after the delete of it).       *)
RowsKeepTheirFile ==
  \A r \in rows : r.file \notin raced => disk[r.file] = "whole"

(* Without faults nothing is left on the disk that no row names, even when  *)
(* uploads of one binary race: the loser of the unique key clears up, and   *)
(* so does a delete.                                                        *)
NothingIsLeftOnDisk ==
  \A f \in Files :
    faults = 0 /\ Busy(f) = {} /\ disk[f] # "absent" => WithName(f) # {}
==============================================================================
