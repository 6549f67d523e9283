---------------------------- MODULE RecordsProofs ----------------------------
(* Proofs about the records: FirmwareStore (its types, that a firmware with *)
(* a row keeps its file unless two requests meet at that file, and that     *)
(* nothing is left on the disk), IdTokens (an open session keeps its card)  *)
(* and Diagnostics (a request that ended stays so, and a failure is told in *)
(* both tables).                                                            *)
EXTENDS Records, Sequences, TLAPS

(* A row was created by an upload that has ended, and so was the row a      *)
(* request has read.                                                        *)
IdsAreDone ==
  /\ \A r \in rows : call[r.id] = Done
  /\ \A c \in Calls : call[c] \in InFlight /\ call[c].op \in OnId /\ call[c].at # "find"
       => /\ call[call[c].id] = Done
          /\ \A r \in WithId(call[c].id) : r.file = call[c].file

(* The unique keys id and sha256.                                           *)
UniqueKeys ==
  \A r, s \in rows : r.id = s.id \/ Sha256(r.file) = Sha256(s.file) => r = s

Noticed == \A f \in Files : Meet(f) => f \in raced

(* The file of a row is whole and nobody is about to change it; and a       *)
(* request alone with its file finds there what it has written.             *)
FileIsSafe(f) ==
  /\ \A r \in rows : r.file = f => disk[f] = "whole" /\ Busy(f) = {}
  /\ \A c \in Busy(f) : /\ call[c].at = "write"  => disk[f] = c
                        /\ call[c].at = "create" => disk[f] = "whole"

FilesAreSafe == \A f \in Files : f \notin raced => FileIsSafe(f)

IInv == TypeOK /\ IdsAreDone /\ UniqueKeys /\ Noticed /\ FilesAreSafe

------------------------------------------------------------------------------
LEMMA Distinct ==
  /\ New # Done
  /\ New \notin InFlight
  /\ Done \notin InFlight
  /\ New.at = "new" /\ Done.at = "done" /\ New.op = "none" /\ Done.op = "none"
  /\ \A f \in Files : f # NoFile
BY NoFileAssumption DEF New, Done, InFlight, Awaits, AtFile, Files

(* What a step may do to the calls: one of them moves.                      *)
Moves(c) ==
  /\ call' \in [Calls -> {New, Done} \cup InFlight]
  /\ \A d \in Calls \ {c} : call'[d] = call[d]

LEMMA ReturnMoves ==
  ASSUME TypeOK, NEW c \in Calls, Return(c)
  PROVE  Moves(c) /\ call'[c] = Done
BY DEF TypeOK, CallType, Return, Moves

LEMMA GotoMoves ==
  ASSUME TypeOK, NEW c \in Calls, call[c] \in InFlight, NEW at \in Awaits, Goto(c, at)
  PROVE  /\ Moves(c)
         /\ call'[c] \in InFlight
         /\ call'[c].op = call[c].op /\ call'[c].id = call[c].id
         /\ call'[c].file = call[c].file /\ call'[c].at = at
<1>1. call'[c] = [call[c] EXCEPT !.at = at]
  BY DEF TypeOK, CallType, Goto
<1>2. call'[c] \in InFlight
  BY <1>1 DEF InFlight
<1>3. \A d \in Calls \ {c} : call'[d] = call[d]
  BY DEF TypeOK, CallType, Goto
<1>4. call' \in [Calls -> {New, Done} \cup InFlight]
  BY <1>2, <1>3 DEF TypeOK, CallType, Goto
<1> QED
  BY <1>1, <1>2, <1>3, <1>4 DEF Moves, InFlight

(* FindById's move: on to an await, with the file of the row it has read.   *)
Reads(c, at, f) == call' = [call EXCEPT ![c].at = at, ![c].file = f]

LEMMA ReadsMoves ==
  ASSUME TypeOK, NEW c \in Calls, call[c] \in InFlight, NEW at \in Awaits, NEW f \in Files,
         Reads(c, at, f)
  PROVE  /\ Moves(c)
         /\ call'[c] \in InFlight
         /\ call'[c].op = call[c].op /\ call'[c].id = call[c].id
         /\ call'[c].file = f /\ call'[c].at = at
<1>1. call'[c] = [op |-> call[c].op, at |-> at, id |-> call[c].id, file |-> f]
  BY DEF Reads, TypeOK, CallType, InFlight
<1>2. call'[c] \in InFlight
  BY <1>1 DEF InFlight
<1>3. \A d \in Calls \ {c} : call'[d] = call[d]
  BY DEF Reads, TypeOK, CallType
<1>4. call' \in [Calls -> {New, Done} \cup InFlight]
  BY <1>2, <1>3 DEF Reads, TypeOK, CallType
<1> QED
  BY <1>1, <1>2, <1>3, <1>4 DEF Moves, InFlight

LEMMA RequestMoves ==
  ASSUME TypeOK, NEW c \in Calls, NEW op \in OnFile \cup OnId, NEW i \in Calls,
         NEW f \in Files \cup {NoFile},
         call' = [call EXCEPT ![c] = [op |-> op, at |-> "find", id |-> i, file |-> f]]
  PROVE  /\ Moves(c)
         /\ call'[c] = [op |-> op, at |-> "find", id |-> i, file |-> f]
         /\ call'[c] \in InFlight
BY DEF TypeOK, CallType, Moves, InFlight, Awaits

(* A request at one of its awaits is in flight.                             *)
LEMMA AtInFlight ==
  ASSUME TypeOK, NEW c \in Calls
  PROVE  /\ call[c].at \in Awaits => call[c] \in InFlight /\ call[c] # Done /\ call[c] # New
         /\ call[c].op \in OnFile \cup OnId => call[c] \in InFlight
         /\ call[c] \in InFlight => call[c] # Done /\ call[c] # New
         /\ call[c] \in InFlight => call[c].id \in Calls /\ call[c].at \in Awaits
BY Distinct DEF TypeOK, CallType, InFlight, Awaits, AtFile, OnFile, OnId

LEMMA BusyHasFile ==
  ASSUME TypeOK, NEW c \in Calls, call[c].at \in AtFile
  PROVE  call[c] \in InFlight /\ call[c].file \in Files /\ c \in Busy(call[c].file)
BY AtInFlight DEF TypeOK, CallType, Busy, Awaits, AtFile

------------------------------------------------------------------------------
(* The three kinds of moves of the calls.                                   *)

Ends(c)    == Moves(c) /\ call[c] # Done /\ call'[c] = Done
Advances(c) ==
  /\ Moves(c)
  /\ call[c] \in InFlight /\ call'[c] \in InFlight
  /\ call'[c].op = call[c].op /\ call'[c].id = call[c].id
Begins(c) ==
  /\ Moves(c)
  /\ call[c] = New
  /\ call'[c] \in InFlight /\ call'[c].at = "find"

LEMMA MovesType ==
  ASSUME TypeOK, NEW c \in Calls, Moves(c),
         call'[c] \in InFlight /\ (call'[c].op \in OnFile \/ call'[c].at # "find")
           => call'[c].file \in Files
  PROVE  CallType'
BY DEF TypeOK, CallType, Moves

LEMMA EndsType ==
  ASSUME TypeOK, NEW c \in Calls, Ends(c)
  PROVE  CallType'
BY MovesType, Distinct DEF Ends

LEMMA AdvancesType ==
  ASSUME TypeOK, NEW c \in Calls, Advances(c), call'[c].file \in Files
  PROVE  CallType'
BY MovesType DEF Advances

LEMMA DoneStays ==
  ASSUME TypeOK, NEW c \in Calls, Ends(c) \/ Advances(c) \/ Begins(c)
  PROVE  \A d \in Calls : call[d] = Done => call'[d] = Done
BY Distinct, AtInFlight DEF Ends, Advances, Begins, Moves

LEMMA ReturnEnds ==
  ASSUME TypeOK, NEW c \in Calls, call[c].at \in Awaits, Return(c)
  PROVE  Ends(c) /\ CallType'
BY ReturnMoves, AtInFlight, EndsType DEF Ends

LEMMA GotoAdvances ==
  ASSUME TypeOK, NEW c \in Calls, call[c].at \in Awaits, call[c].file \in Files,
         NEW at \in Awaits, Goto(c, at)
  PROVE  /\ Advances(c) /\ CallType'
         /\ call'[c].file = call[c].file /\ call'[c].at = at
BY GotoMoves, AtInFlight, AdvancesType DEF Advances

(* What a move leaves of the requests at a file.                            *)
LEMMA BusyMoves ==
  ASSUME TypeOK, NEW c \in Calls, Moves(c), NEW f
  PROVE  /\ \A d \in Calls \ {c} : d \in Busy(f)' <=> d \in Busy(f)
         /\ c \in Busy(f)' <=> call'[c].at \in AtFile /\ call'[c].file = f
BY DEF Moves, Busy

------------------------------------------------------------------------------
(* What a step leaves alone.                                                *)

(* The rows of the new table are those of the old one, but for isActive.    *)
RowsKept == \A r \in rows' : \E s \in rows : s.id = r.id /\ s.file = r.file

LEMMA IdsStayDone ==
  ASSUME IInv, NEW c \in Calls, Ends(c) \/ Advances(c) \/ Begins(c), RowsKept,
         call'[c] \in InFlight /\ call'[c].op \in OnId /\ call'[c].at # "find"
           => /\ call[call'[c].id] = Done
              /\ \A r \in WithId(call'[c].id) : r.file = call'[c].file
  PROVE  IdsAreDone'
<1>1. \A d \in Calls : call[d] = Done => call'[d] = Done
  BY DoneStays DEF IInv
<1>2. \A r \in rows' : call'[r.id] = Done
  BY <1>1 DEF IInv, IdsAreDone, RowsKept, TypeOK, Rows
<1>3. ASSUME NEW d \in Calls, call'[d] \in InFlight, call'[d].op \in OnId, call'[d].at # "find"
      PROVE  (call[call[d].id] = Done /\ \A r \in WithId(call[d].id) : r.file = call[d].file)'
  <2>1. /\ call[call'[d].id] = Done
        /\ \A r \in WithId(call'[d].id) : r.file = call'[d].file
    BY <1>3 DEF IInv, IdsAreDone, Ends, Advances, Begins, Moves
  <2>2. call'[d].id \in Calls
    BY <1>3 DEF InFlight
  <2> QED
    BY <1>1, <2>1, <2>2 DEF RowsKept, WithId
<1> QED
  BY <1>2, <1>3 DEF IdsAreDone, WithId

(* A file that is not changed and gets no row is as safe as it was, when    *)
(* nobody comes to it but to remove it.                                     *)
LEMMA Quiet ==
  ASSUME IInv, NEW c \in Calls, Moves(c), NEW f \in Files, f \notin raced,
         disk'[f] = disk[f], RowsKept,
         c \in Busy(f)' => c \in Busy(f) /\ call'[c].at = "unlink"
  PROVE  FileIsSafe(f)'
<1>1. FileIsSafe(f)
  BY DEF IInv, FilesAreSafe
<1>2. \A d \in Busy(f)' : d \in Busy(f)
  BY BusyMoves DEF IInv, Busy
<1>3. ASSUME NEW r \in rows', r.file = f
      PROVE  disk'[f] = "whole" /\ Busy(f)' = {}
  BY <1>1, <1>2, <1>3 DEF RowsKept, FileIsSafe
<1>4. ASSUME NEW d \in Busy(f)'
      PROVE  /\ call'[d].at = "write"  => disk'[f] = d
             /\ call'[d].at = "create" => disk'[f] = "whole"
  <2>1. CASE d = c
    BY <1>4, <2>1
  <2>2. CASE d # c
    BY <1>1, <1>2, <1>4, <2>2 DEF FileIsSafe, Moves, Busy
  <2> QED
    BY <2>1, <2>2
<1> QED
  BY <1>3, <1>4 DEF FileIsSafe

(* A request alone with its file: the file has no row, and nobody else is   *)
(* at it.                                                                   *)
LEMMA AloneWithFile ==
  ASSUME IInv, NEW c \in Calls, NEW f \in Files, c \in Busy(f), f \notin raced
  PROVE  /\ Busy(f) = {c}
         /\ \A r \in rows : r.file # f
BY DEF IInv, Noticed, Meet, FilesAreSafe, FileIsSafe

(* What the invariant says of a step, but for raced, which only grows.      *)
Preserved ==
  /\ rows' \in SUBSET Rows
  /\ campaigns' \in SUBSET Calls
  /\ disk' \in [Files -> {"absent", "whole"} \cup Calls]
  /\ CallType'
  /\ IdsAreDone'
  /\ UniqueKeys'
  /\ \A f \in Files : f \notin raced => FileIsSafe(f)'
  /\ faults' \in Nat

(* A request ends and leaves its file and the keys of the rows alone.       *)
LEMMA EndPreserves ==
  ASSUME IInv, NEW c \in Calls, call[c].at \in Awaits, Return(c),
         rows' \in SUBSET Rows, RowsKept, UniqueKeys',
         campaigns' \in SUBSET Calls, disk' = disk, faults' \in Nat
  PROVE  Preserved
<1>1. Ends(c) /\ CallType' /\ Moves(c) /\ call'[c] = Done
  BY ReturnEnds DEF IInv, Ends
<1>2. \A f \in Files : c \notin Busy(f)'
  BY <1>1, Distinct DEF Busy, AtFile
<1>3. IdsAreDone'
  BY <1>1, Distinct, IdsStayDone
<1>4. \A f \in Files : f \notin raced => FileIsSafe(f)'
  BY <1>1, <1>2, Quiet
<1> QED
  BY <1>1, <1>3, <1>4 DEF Preserved, IInv, TypeOK

LEMMA NothingChanges ==
  ASSUME IInv, UNCHANGED <<rows, campaigns, disk>>
  PROVE  /\ rows' \in SUBSET Rows /\ RowsKept /\ UniqueKeys'
         /\ campaigns' \in SUBSET Calls /\ disk' = disk
         /\ disk' \in [Files -> {"absent", "whole"} \cup Calls]
BY DEF IInv, TypeOK, RowsKept, UniqueKeys

(* A request goes on, the row it works on being read already.               *)
LEMMA GotoKeepsIds ==
  ASSUME IInv, NEW c \in Calls, call[c].at \in Awaits, call[c].file \in Files,
         NEW at \in Awaits, Goto(c, at),
         call[c].op \in OnFile \/ call[c].at # "find", RowsKept
  PROVE  /\ CallType' /\ IdsAreDone' /\ Moves(c)
         /\ call'[c].file = call[c].file /\ call'[c].at = at
<1>1. /\ Advances(c) /\ CallType' /\ Moves(c)
      /\ call'[c].file = call[c].file /\ call'[c].at = at
  BY GotoAdvances DEF IInv, Advances
<1>2. OnFile \cap OnId = {}
  BY DEF OnFile, OnId
<1>3. call'[c] \in InFlight /\ call'[c].op \in OnId /\ call'[c].at # "find"
        => /\ call[call'[c].id] = Done
           /\ \A r \in WithId(call'[c].id) : r.file = call'[c].file
  BY <1>1, <1>2 DEF IInv, IdsAreDone, Advances
<1> QED
  BY <1>1, <1>3, IdsStayDone

(* It goes on without coming to its file, or turns to removing it.          *)
LEMMA GotoPreserves ==
  ASSUME IInv, NEW c \in Calls, call[c].at \in Awaits, call[c].file \in Files,
         NEW at \in Awaits, Goto(c, at),
         call[c].op \in OnFile \/ call[c].at # "find",
         at \notin AtFile \/ (at = "unlink" /\ call[c].at \in AtFile),
         UNCHANGED <<rows, campaigns, disk>>, faults' \in Nat
  PROVE  Preserved
<1>1. /\ CallType' /\ IdsAreDone' /\ Moves(c)
      /\ call'[c].file = call[c].file /\ call'[c].at = at
  BY GotoKeepsIds, NothingChanges
<1>2. ASSUME NEW f \in Files, f \notin raced
      PROVE  FileIsSafe(f)'
  <2>1. c \in Busy(f)' => c \in Busy(f) /\ call'[c].at = "unlink"
    BY <1>1 DEF Busy
  <2> QED
    BY <1>1, <1>2, <2>1, Quiet, NothingChanges
<1> QED
  BY <1>1, <1>2, NothingChanges DEF Preserved

------------------------------------------------------------------------------
(* Steps at the file.  Of the other files nothing changes.                  *)

LEMMA OtherFiles ==
  ASSUME IInv, NEW c \in Calls, Moves(c), NEW g \in Files,
         call[c].file = g \/ call'[c].file = g,
         call'[c].file = g \/ call'[c].at \notin AtFile,
         NEW f \in Files \ {g}, f \notin raced, disk'[f] = disk[f],
         \A r \in rows' : r.file = f => r \in rows
  PROVE  FileIsSafe(f)'
<1>1. FileIsSafe(f)
  BY DEF IInv, FilesAreSafe
<1>2. c \notin Busy(f)'
  BY DEF Busy
<1>3. \A d \in Busy(f)' : d \in Busy(f) /\ d # c /\ call'[d] = call[d]
  BY <1>2, BusyMoves DEF IInv, Busy, Moves
<1> QED
  BY <1>1, <1>3 DEF FileIsSafe

LEMMA FindBySha256Preserves ==
  ASSUME IInv, NEW c \in Calls, FindBySha256(c)
  PROVE  Preserved
<1>1. call[c].at \in Awaits /\ call[c].op \in OnFile /\ faults' \in Nat
  BY DEF FindBySha256, At, Awaits, OnFile, IInv, TypeOK
<1>2. call[c].file \in Files
  BY <1>1, AtInFlight DEF IInv, TypeOK, CallType
<1>3. CASE Return(c)
  BY <1>1, <1>3, EndPreserves, NothingChanges DEF FindBySha256
<1>4. CASE WithSha256(Sha256(call[c].file)) = {} /\ Goto(c, "open")
  <2>1. "open" \in Awaits
    BY DEF Awaits, AtFile
  <2>2. /\ CallType' /\ IdsAreDone' /\ Moves(c)
        /\ call'[c].file = call[c].file /\ call'[c].at = "open"
    BY <1>1, <1>2, <1>4, <2>1, GotoKeepsIds, NothingChanges DEF FindBySha256
  <2>3. ASSUME NEW f \in Files, f \notin raced
        PROVE  FileIsSafe(f)'
    <3>1. CASE f # call[c].file
      BY <1>2, <2>2, <2>3, <3>1, OtherFiles DEF FindBySha256
    <3>2. CASE f = call[c].file
      <4>1. \A r \in rows' : r.file # f
        BY <1>4, <3>2 DEF WithSha256, FindBySha256
      <4>2. \A d \in Busy(f)' \ {c} : d \in Busy(f) /\ call'[d] = call[d]
        BY <2>2, BusyMoves DEF IInv, Busy, Moves
      <4> QED
        BY <2>2, <2>3, <4>1, <4>2 DEF FileIsSafe, IInv, FilesAreSafe, FindBySha256
    <3> QED
      BY <3>1, <3>2
  <2> QED
    BY <1>1, <2>2, <2>3, NothingChanges DEF Preserved, FindBySha256
<1> QED
  BY <1>3, <1>4 DEF FindBySha256

(* A request at its file writes or removes it and moves on.  The rows may   *)
(* lose some, which a delete has done before, or gain what it has written.  *)
LEMMA AtFilePreserves ==
  ASSUME IInv, NEW c \in Calls, call[c].at \in AtFile,
         Moves(c), CallType', IdsAreDone',
         call'[c].file = call[c].file \/ call'[c].at \notin AtFile,
         UNCHANGED <<rows, campaigns, faults>>,
         NEW x \in {"absent", "whole"} \cup Calls,
         disk' = [disk EXCEPT ![call[c].file] = x],
         call'[c].at = "write" => x = c,
         call'[c].at = "create" /\ call[c].file \notin raced => x = "whole"
  PROVE  Preserved
<1>1. call[c].file \in Files /\ c \in Busy(call[c].file)
  BY BusyHasFile DEF IInv
<1>2. /\ disk' \in [Files -> {"absent", "whole"} \cup Calls]
      /\ disk'[call[c].file] = x
      /\ \A f \in Files \ {call[c].file} : disk'[f] = disk[f]
  BY <1>1 DEF IInv, TypeOK
<1>3. ASSUME NEW f \in Files, f \notin raced
      PROVE  FileIsSafe(f)'
  <2>1. CASE f # call[c].file
    BY <1>1, <1>2, <1>3, <2>1, OtherFiles
  <2>2. CASE f = call[c].file
    <3>1. Busy(f) = {c} /\ \A r \in rows : r.file # f
      BY <1>1, <1>3, <2>2, AloneWithFile
    <3>2. \A d \in Busy(f)' : d = c
      BY <3>1, BusyMoves DEF IInv, Busy
    <3> QED
      BY <1>2, <1>3, <2>2, <3>1, <3>2 DEF FileIsSafe
  <2> QED
    BY <2>1, <2>2
<1> QED
  BY <1>2, <1>3 DEF Preserved, IInv, TypeOK, UniqueKeys

LEMMA OpenFilePreserves ==
  ASSUME IInv, NEW c \in Calls, OpenFile(c)
  PROVE  Preserved
<1>1. call[c].at \in AtFile /\ call[c].at \in Awaits /\ call[c].op \in OnFile
  BY DEF OpenFile, At, Awaits, AtFile, OnFile
<1>2. call[c].file \in Files /\ "write" \in Awaits
  BY <1>1, BusyHasFile DEF IInv, Awaits, AtFile
<1>3. RowsKept
  BY DEF OpenFile, RowsKept
<1>4. /\ CallType' /\ IdsAreDone' /\ Moves(c)
      /\ call'[c].file = call[c].file /\ call'[c].at = "write"
  BY <1>1, <1>2, <1>3, GotoKeepsIds DEF OpenFile
<1> QED
  BY <1>1, <1>4, AtFilePreserves DEF OpenFile, SetFile

LEMMA WriteFilePreserves ==
  ASSUME IInv, NEW c \in Calls, WriteFile(c)
  PROVE  Preserved
<1>1. call[c].at \in AtFile /\ call[c].at \in Awaits /\ call[c].op \in OnFile
      /\ call[c].at = "write"
  BY DEF WriteFile, At, Awaits, AtFile, OnFile
<1>2. call[c].file \in Files /\ "create" \in Awaits /\ c \in Busy(call[c].file)
  BY <1>1, BusyHasFile DEF IInv, Awaits, AtFile
<1>3. RowsKept
  BY DEF WriteFile, RowsKept
<1>4. /\ CallType' /\ IdsAreDone' /\ Moves(c)
      /\ call'[c].file = call[c].file /\ call'[c].at = "create"
  BY <1>1, <1>2, <1>3, GotoKeepsIds DEF WriteFile
<1>5. CASE disk[call[c].file] = c
  BY <1>1, <1>4, <1>5, AtFilePreserves DEF WriteFile, SetFile
<1>6. CASE disk[call[c].file] # c
  <2>1. call[c].file \in raced
    BY <1>1, <1>2, <1>6 DEF IInv, FilesAreSafe, FileIsSafe
  <2>2. disk' = [disk EXCEPT ![call[c].file] = disk[call[c].file]]
    BY <1>2, <1>6 DEF WriteFile, IInv, TypeOK
  <2>3. disk[call[c].file] \in {"absent", "whole"} \cup Calls
    BY <1>2 DEF IInv, TypeOK
  <2> QED
    BY <1>1, <1>4, <2>1, <2>2, <2>3, AtFilePreserves DEF WriteFile
<1> QED
  BY <1>5, <1>6

LEMMA UnlinkPreserves ==
  ASSUME IInv, NEW c \in Calls, Unlink(c)
  PROVE  Preserved
<1>1. call[c].at \in AtFile /\ call[c].at \in Awaits
  BY DEF Unlink, Awaits, AtFile
<1>2. RowsKept
  BY DEF Unlink, RowsKept
<1>3. Ends(c) /\ CallType' /\ Moves(c) /\ call'[c] = Done
  BY <1>1, ReturnEnds DEF IInv, Ends, Unlink
<1>4. call'[c].at \notin AtFile /\ call'[c].at \notin {"write", "create"}
  BY <1>3, Distinct DEF AtFile
<1>5. IdsAreDone'
  BY <1>2, <1>3, Distinct, IdsStayDone
<1> QED
  BY <1>1, <1>3, <1>4, <1>5, AtFilePreserves DEF Unlink, SetFile

LEMMA CreatePreserves ==
  ASSUME IInv, NEW c \in Calls, Create(c)
  PROVE  Preserved
<1> DEFINE g == call[c].file
           row == [id |-> c, file |-> g, isActive |-> TRUE]
<1>1. /\ call[c].at \in AtFile /\ call[c].at \in Awaits /\ call[c].at = "create"
      /\ WithSha256(Sha256(g)) = {} /\ Return(c) /\ rows' = rows \cup {row}
      /\ UNCHANGED <<campaigns, disk, faults>>
  BY DEF Create, At, Awaits, AtFile
<1>2. g \in Files /\ c \in Busy(g)
  BY <1>1, BusyHasFile DEF IInv
<1>3. Ends(c) /\ CallType' /\ Moves(c) /\ call'[c] = Done
  BY <1>1, ReturnEnds DEF IInv, Ends
<1>4. row \in Rows /\ row.id = c /\ row.file = g
  BY <1>2 DEF Rows
<1>5. \A r \in rows : r.id # c /\ Sha256(r.file) # Sha256(g)
  BY <1>1, <1>3 DEF IInv, IdsAreDone, Ends, WithSha256
<1>6. UniqueKeys'
  <2>1. ASSUME NEW r \in rows', NEW s \in rows',
               r.id = s.id \/ Sha256(r.file) = Sha256(s.file)
        PROVE  r = s
    <3> HIDE DEF row
    <3>1. CASE r \in rows /\ s \in rows
      BY <2>1, <3>1 DEF IInv, UniqueKeys
    <3>2. CASE r = row \/ s = row
      BY <1>1, <1>4, <1>5, <2>1, <3>2 DEF Sha256
    <3> QED
      BY <1>1, <3>1, <3>2
  <2> QED
    BY <2>1 DEF UniqueKeys
<1>7. IdsAreDone'
  <2>1. \A d \in Calls : call[d] = Done => call'[d] = Done
    BY <1>3, DoneStays DEF IInv
  <2>2. \A r \in rows' : call'[r.id] = Done
    BY <1>1, <1>3, <2>1 DEF IInv, IdsAreDone, TypeOK, Rows
  <2>3. ASSUME NEW d \in Calls, call'[d] \in InFlight, call'[d].op \in OnId, call'[d].at # "find"
        PROVE  (call[call[d].id] = Done /\ \A r \in WithId(call[d].id) : r.file = call[d].file)'
    <3>1. d # c /\ call'[d] = call[d]
      BY <1>3, <2>3, Distinct DEF Moves
    <3>2. call[call[d].id] = Done /\ \A r \in WithId(call[d].id) : r.file = call[d].file
      BY <2>3, <3>1 DEF IInv, IdsAreDone
    <3>3. call[d].id \in Calls /\ call[d].id # c
      BY <1>3, <2>3, <3>1, <3>2 DEF InFlight, Ends
    <3> QED
      BY <1>1, <2>1, <3>1, <3>2, <3>3 DEF WithId
  <2> QED
    BY <2>2, <2>3 DEF IdsAreDone, WithId
<1>8. ASSUME NEW f \in Files, f \notin raced
      PROVE  FileIsSafe(f)'
  <2>1. CASE f # g
    BY <1>1, <1>2, <1>3, <1>8, <2>1, Distinct, OtherFiles DEF AtFile
  <2>2. CASE f = g
    <3>1. Busy(f) = {c} /\ disk[f] = "whole"
      BY <1>1, <1>2, <1>8, <2>2, AloneWithFile DEF IInv, FilesAreSafe, FileIsSafe
    <3>2. Busy(f)' = {}
      BY <1>3, <3>1, Distinct, BusyMoves DEF IInv, Busy, AtFile
    <3> QED
      BY <1>1, <3>1, <3>2 DEF FileIsSafe
  <2> QED
    BY <2>1, <2>2
<1> QED
  BY <1>1, <1>3, <1>4, <1>6, <1>7, <1>8 DEF Preserved, IInv, TypeOK

------------------------------------------------------------------------------
(* Steps on the rows.                                                       *)

LEMMA RowAtHand ==
  ASSUME IInv, NEW c \in Calls, call[c].op \in OnId, call[c].at \in Awaits \ {"find"}
  PROVE  /\ call[c].file \in Files /\ call[c].id \in Calls
         /\ \A r \in WithId(call[c].id) : r.file = call[c].file
BY AtInFlight DEF IInv, IdsAreDone, TypeOK, CallType

LEMMA DeleteRowPreserves ==
  ASSUME IInv, NEW c \in Calls, DeleteRow(c)
  PROVE  Preserved
<1> DEFINE g == call[c].file
<1>1. /\ call[c].op \in OnId /\ call[c].at \in Awaits \ {"find"}
      /\ UNCHANGED <<campaigns, disk, faults>>
  BY DEF DeleteRow, At, OnId, Awaits
<1>2. CASE Return(c) /\ UNCHANGED rows
  BY <1>1, <1>2, EndPreserves, NothingChanges DEF IInv, TypeOK
<1>3. CASE WithId(call[c].id) # {} /\ Goto(c, "unlink") /\ rows' = rows \ WithId(call[c].id)
  <2>1. g \in Files /\ \A r \in WithId(call[c].id) : r.file = g
    BY <1>1, RowAtHand
  <2>2. RowsKept /\ rows' \in SUBSET Rows /\ UniqueKeys'
    BY <1>3 DEF RowsKept, IInv, TypeOK, UniqueKeys
  <2>3. "unlink" \in Awaits
    BY DEF Awaits, AtFile
  <2>4. /\ CallType' /\ IdsAreDone' /\ Moves(c)
        /\ call'[c].file = g /\ call'[c].at = "unlink"
    BY <1>1, <1>3, <2>1, <2>2, <2>3, GotoKeepsIds
  <2>5. ASSUME NEW f \in Files, f \notin raced
        PROVE  FileIsSafe(f)'
    <3>1. CASE f # g
      BY <1>1, <1>3, <2>1, <2>4, <2>5, <3>1, OtherFiles
    <3>2. CASE f = g
      <4>1. PICK r \in WithId(call[c].id) : TRUE
        BY <1>3
      <4>2. r \in rows /\ r.file = f
        BY <2>1, <3>2 DEF WithId
      <4>3. Busy(f) = {}
        BY <2>5, <4>2 DEF IInv, FilesAreSafe, FileIsSafe
      <4>4. \A s \in rows' : s.file # f
        BY <1>3, <4>1, <4>2 DEF IInv, UniqueKeys, WithId
      <4>5. \A d \in Busy(f)' : d = c
        BY <2>4, <4>3, BusyMoves DEF IInv, Busy
      <4> QED
        BY <2>4, <4>4, <4>5 DEF FileIsSafe
    <3> QED
      BY <3>1, <3>2
  <2> QED
    BY <1>1, <2>2, <2>4, <2>5 DEF Preserved, IInv, TypeOK
<1> QED
  BY <1>2, <1>3 DEF DeleteRow

LEMMA UpdateRowPreserves ==
  ASSUME IInv, NEW c \in Calls, UpdateRow(c)
  PROVE  Preserved
<1>1. /\ call[c].at \in Awaits /\ Return(c) /\ UNCHANGED <<campaigns, disk, faults>>
  BY DEF UpdateRow, At, Awaits
<1>2. PICK b \in BOOLEAN :
        rows' = (rows \ WithId(call[c].id))
                  \cup {[r EXCEPT !.isActive = b] : r \in WithId(call[c].id)}
  BY DEF UpdateRow
<1>3. \A r \in rows' : \E s \in rows :
        /\ s.id = r.id /\ s.file = r.file /\ r \in Rows
        /\ r = IF s.id = call[c].id THEN [s EXCEPT !.isActive = b] ELSE s
  BY <1>2 DEF WithId, IInv, TypeOK, Rows
<1>4. RowsKept /\ rows' \in SUBSET Rows
  BY <1>3 DEF RowsKept
<1>5. UniqueKeys'
  <2>1. ASSUME NEW r1 \in rows', NEW r2 \in rows',
               r1.id = r2.id \/ Sha256(r1.file) = Sha256(r2.file)
        PROVE  r1 = r2
    <3>1. PICK s1 \in rows : /\ s1.id = r1.id /\ s1.file = r1.file
                             /\ r1 = IF s1.id = call[c].id THEN [s1 EXCEPT !.isActive = b] ELSE s1
      BY <1>3
    <3>2. PICK s2 \in rows : /\ s2.id = r2.id /\ s2.file = r2.file
                             /\ r2 = IF s2.id = call[c].id THEN [s2 EXCEPT !.isActive = b] ELSE s2
      BY <1>3
    <3>3. s1 = s2
      BY <2>1, <3>1, <3>2 DEF IInv, UniqueKeys, Sha256
    <3> QED
      BY <3>1, <3>2, <3>3
  <2> QED
    BY <2>1 DEF UniqueKeys
<1> QED
  BY <1>1, <1>4, <1>5, EndPreserves DEF IInv, TypeOK

LEMMA InsertCampaignPreserves ==
  ASSUME IInv, NEW c \in Calls, InsertCampaign(c)
  PROVE  Preserved
<1>1. /\ call[c].op \in OnId /\ call[c].at \in Awaits \ {"find"}
      /\ Return(c) /\ UNCHANGED <<rows, disk, faults>>
  BY DEF InsertCampaign, At, OnId, Awaits
<1>2. campaigns' \in SUBSET Calls
  BY <1>1, RowAtHand DEF InsertCampaign, IInv, TypeOK
<1>3. rows' \in SUBSET Rows /\ RowsKept /\ UniqueKeys'
  BY <1>1 DEF IInv, TypeOK, RowsKept, UniqueKeys
<1> QED
  BY <1>1, <1>2, <1>3, EndPreserves DEF IInv, TypeOK

LEMMA FindByIdPreserves ==
  ASSUME IInv, NEW c \in Calls, FindById(c)
  PROVE  Preserved
<1>1. /\ call[c].op \in OnId /\ call[c].at \in Awaits /\ faults' \in Nat
      /\ UNCHANGED <<rows, campaigns, disk>>
  BY DEF FindById, OnId, Awaits, IInv, TypeOK
<1>2. CASE Return(c)
  BY <1>1, <1>2, EndPreserves, NothingChanges
<1>3. ASSUME NEW r \in WithId(call[c].id),
             call' = [call EXCEPT ![c].at = AfterFind[call[c].op], ![c].file = r.file]
      PROVE  Preserved
  <2> DEFINE at == AfterFind[call[c].op]
  <2>1. at \in Awaits /\ at \notin AtFile
    BY <1>1 DEF AfterFind, OnId, Awaits, AtFile
  <2>2. r \in rows /\ r.id = call[c].id /\ r.file \in Files /\ r.id \in Calls
    BY DEF WithId, IInv, TypeOK, Rows
  <2>3. call[c] \in InFlight
    BY <1>1, AtInFlight DEF IInv
  <2>4. Reads(c, at, r.file)
    BY <1>3 DEF Reads
  <2> HIDE DEF at
  <2>5. /\ Moves(c) /\ call'[c] \in InFlight
        /\ call'[c].op = call[c].op /\ call'[c].id = call[c].id
        /\ call'[c].file = r.file /\ call'[c].at = at
    BY <2>1, <2>2, <2>3, <2>4, ReadsMoves DEF IInv
  <2>6. Advances(c) /\ CallType'
    BY <2>2, <2>3, <2>5, AdvancesType DEF IInv, Advances
  <2>7. /\ call[call'[c].id] = Done
        /\ \A s \in WithId(call'[c].id) : s.file = call'[c].file
    BY <2>2, <2>5 DEF IInv, IdsAreDone, UniqueKeys, WithId
  <2>8. IdsAreDone'
    BY <1>1, <2>6, <2>7, NothingChanges, IdsStayDone
  <2>9. ASSUME NEW f \in Files, f \notin raced
        PROVE  FileIsSafe(f)'
    BY <1>1, <2>1, <2>5, <2>9, Quiet, NothingChanges DEF Busy
  <2> QED
    BY <1>1, <2>6, <2>8, <2>9, NothingChanges DEF Preserved
<1> QED
  BY <1>2, <1>3 DEF FindById

------------------------------------------------------------------------------
(* The other steps.                                                         *)

LEMMA BeginPreserves ==
  ASSUME IInv, NEW c \in Calls, call[c] = New,
         NEW op \in OnFile \cup OnId, NEW i \in Calls, NEW f \in Files \cup {NoFile},
         op \in OnFile => f \in Files,
         call' = [call EXCEPT ![c] = [op |-> op, at |-> "find", id |-> i, file |-> f]],
         UNCHANGED <<rows, campaigns, disk, faults>>
  PROVE  Preserved
<1>1. /\ Moves(c) /\ call'[c] \in InFlight
      /\ call'[c].op = op /\ call'[c].at = "find" /\ call'[c].file = f
  <2>1. /\ Moves(c) /\ call'[c] \in InFlight
        /\ call'[c] = [op |-> op, at |-> "find", id |-> i, file |-> f]
    BY RequestMoves DEF IInv
  <2> QED
    BY <2>1
<1>2. Begins(c)
  BY <1>1 DEF Begins
<1>3. CallType'
  BY <1>1, MovesType DEF IInv
<1>4. IdsAreDone'
  BY <1>1, <1>2, NothingChanges, IdsStayDone
<1>5. ASSUME NEW g \in Files, g \notin raced
      PROVE  FileIsSafe(g)'
  BY <1>1, <1>5, Quiet, NothingChanges DEF Busy, AtFile
<1> QED
  BY <1>3, <1>4, <1>5, NothingChanges DEF Preserved, IInv, TypeOK

LEMMA RequestPreserves ==
  ASSUME IInv, NEW c \in Calls,
         \/ \E op \in OnFile, f \in Files : RequestFile(c, op, f)
         \/ \E op \in OnId, i \in Known(c) : RequestRow(c, op, i)
  PROVE  Preserved
<1>1. ASSUME NEW op \in OnFile, NEW f \in Files, RequestFile(c, op, f)
      PROVE  Preserved
  BY <1>1, BeginPreserves DEF RequestFile
<1>2. ASSUME NEW op \in OnId, NEW i \in Known(c), RequestRow(c, op, i)
      PROVE  Preserved
  <2>1. i \in Calls
    BY DEF Known, IInv, TypeOK, Rows
  <2>2. op \notin OnFile
    BY DEF OnFile, OnId
  <2> QED
    BY <1>2, <2>1, <2>2, BeginPreserves DEF RequestRow
<1> QED
  BY <1>1, <1>2

(* A query or a file operation that fails.                                  *)
LEMMA FailurePreserves ==
  ASSUME IInv, NEW c \in Calls,
         WriteFails(c) \/ UnlinkFails(c) \/ QueryFails(c)
  PROVE  Preserved
<1>1. call[c].at \in Awaits /\ Return(c) /\ faults' \in Nat
  BY DEF WriteFails, UnlinkFails, QueryFails, At, Awaits, AtFile, CostsFault, IInv, TypeOK
<1>2. UNCHANGED <<rows, campaigns, disk>>
  BY DEF WriteFails, UnlinkFails, QueryFails
<1> QED
  BY <1>1, <1>2, EndPreserves, NothingChanges

LEMMA CreateFailsPreserves ==
  ASSUME IInv, NEW c \in Calls, CreateFails(c)
  PROVE  Preserved
<1>1. /\ call[c].at \in Awaits /\ call[c].at \in AtFile /\ call[c].op \in OnFile
      /\ Goto(c, "unlink") /\ UNCHANGED <<rows, campaigns, disk>> /\ faults' \in Nat
  BY DEF CreateFails, At, Awaits, AtFile, OnFile, CostsFault, IInv, TypeOK
<1>2. call[c].file \in Files /\ "unlink" \in Awaits
  BY <1>1, BusyHasFile DEF IInv, Awaits, AtFile
<1> QED
  BY <1>1, <1>2, GotoPreserves

(* A step that ends the request or takes it on to another await.            *)
LEMMA EndOrGoto ==
  ASSUME IInv, NEW c \in Calls, call[c].at \in Awaits, call[c].file \in Files,
         NEW at \in Awaits \ AtFile, Return(c) \/ Goto(c, at),
         call[c].op \in OnFile \/ call[c].at # "find",
         UNCHANGED <<rows, campaigns, disk, faults>>
  PROVE  Preserved
<1>1. faults' \in Nat
  BY DEF IInv, TypeOK
<1> QED
  BY <1>1, EndPreserves, GotoPreserves, NothingChanges

LEMMA CountCampaignsPreserves ==
  ASSUME IInv, NEW c \in Calls, CountCampaigns(c)
  PROVE  Preserved
<1>1. /\ call[c].op \in OnId /\ call[c].at \in Awaits \ {"find"}
      /\ (Return(c) \/ Goto(c, "delete"))
      /\ UNCHANGED <<rows, campaigns, disk, faults>>
  BY DEF CountCampaigns, At, OnId, Awaits
<1>2. "delete" \in Awaits \ AtFile
  BY DEF Awaits, AtFile
<1> QED
  BY <1>1, <1>2, RowAtHand, EndOrGoto

LEMMA DownloadPreserves ==
  ASSUME IInv, NEW c \in Calls, FindByName(c) \/ ExistsSync(c) \/ Stream(c)
  PROVE  Preserved
<1>1. /\ call[c].op \in OnFile /\ call[c].at \in Awaits
      /\ (Return(c) \/ Goto(c, "exists") \/ Goto(c, "stream"))
      /\ UNCHANGED <<rows, campaigns, disk, faults>>
  BY DEF FindByName, ExistsSync, Stream, At, OnFile, Awaits
<1>2. call[c].file \in Files
  BY <1>1, AtInFlight DEF IInv, TypeOK, CallType
<1>3. {"exists", "stream"} \subseteq Awaits \ AtFile
  BY DEF Awaits, AtFile
<1> QED
  BY <1>1, <1>2, <1>3, EndOrGoto

(* The end of the process, by a crash or by a stream: nobody is at a file.  *)
LEMMA ProcessEndsPreserves ==
  ASSUME IInv, ProcessEnds, faults' \in Nat
  PROVE  Preserved
<1>1. /\ UNCHANGED <<rows, campaigns, disk>>
      /\ \A d \in Calls : call'[d] = New \/ call'[d] = Done
      /\ \A d \in Calls : call[d] = Done => call'[d] = Done
      /\ call' \in [Calls -> {New, Done}]
  BY Distinct DEF ProcessEnds
<1>2. CallType'
  <2>1. call' \in [Calls -> {New, Done} \cup InFlight]
    <3> DEFINE S == {New, Done} \cup InFlight
    <3>1. New \in S /\ Done \in S
      OBVIOUS
    <3> HIDE DEF S
    <3>2. call' \in [Calls -> S]
      BY <3>1 DEF ProcessEnds
    <3> QED
      BY <3>2 DEF S
  <2>2. \A d \in Calls : call'[d] \notin InFlight
    BY <1>1, Distinct
  <2> QED
    BY <2>1, <2>2 DEF CallType
<1>3. IdsAreDone'
  BY <1>1, Distinct DEF IInv, IdsAreDone, TypeOK, Rows
<1>4. ASSUME NEW f \in Files, f \notin raced
      PROVE  FileIsSafe(f)'
  <2>1. Busy(f)' = {}
    BY <1>1, Distinct DEF Busy, AtFile
  <2> QED
    BY <1>1, <1>4, <2>1 DEF IInv, FilesAreSafe, FileIsSafe
<1> QED
  BY <1>1, <1>2, <1>3, <1>4, NothingChanges DEF Preserved

LEMMA StreamFailsOrCrashPreserves ==
  ASSUME IInv, Crash \/ \E c \in Calls : StreamFails(c)
  PROVE  Preserved
BY ProcessEndsPreserves DEF Crash, StreamFails, CostsFault, IInv, TypeOK

LEMMA NothingPreserves ==
  ASSUME IInv, UNCHANGED <<rows, campaigns, disk, call, faults>>
  PROVE  Preserved
BY DEF IInv, TypeOK, CallType, IdsAreDone, UniqueKeys, FilesAreSafe, FileIsSafe, Busy,
       WithId, Preserved

LEMMA StepPreserves ==
  ASSUME IInv, Step
  PROVE  Preserved
<1>1. ASSUME NEW c \in Calls, Upload(c)
      PROVE  Preserved
  BY <1>1, FindBySha256Preserves, OpenFilePreserves, WriteFilePreserves, FailurePreserves,
     CreatePreserves, CreateFailsPreserves DEF Upload
<1>2. ASSUME NEW c \in Calls, OnRow(c)
      PROVE  Preserved
  BY <1>2, FindByIdPreserves, CountCampaignsPreserves, DeleteRowPreserves,
     UpdateRowPreserves, InsertCampaignPreserves DEF OnRow
<1>3. ASSUME NEW c \in Calls, Download(c)
      PROVE  Preserved
  BY <1>3, DownloadPreserves, StreamFailsOrCrashPreserves DEF Download
<1>4. ASSUME NEW c \in Calls, Unlink(c) \/ UnlinkFails(c) \/ QueryFails(c)
      PROVE  Preserved
  BY <1>4, UnlinkPreserves, FailurePreserves
<1>5. CASE Crash
  BY <1>5, StreamFailsOrCrashPreserves
<1>6. CASE AllDone
  BY <1>6, NothingPreserves DEF AllDone
<1> QED
  BY <1>1, <1>2, <1>3, <1>4, <1>5, <1>6, RequestPreserves DEF Step

------------------------------------------------------------------------------
LEMMA InitInv == Init => IInv
<1> SUFFICES ASSUME Init PROVE IInv
  OBVIOUS
<1>1. \A f \in Files : Busy(f) = {}
  BY Distinct DEF Init, Busy, AtFile
<1>2. TypeOK
  BY Distinct DEF Init, TypeOK, CallType
<1>3. IdsAreDone /\ UniqueKeys
  BY Distinct DEF Init, IdsAreDone, UniqueKeys
<1>4. Noticed /\ FilesAreSafe
  BY <1>1 DEF Init, Noticed, Meet, FilesAreSafe, FileIsSafe
<1> QED
  BY <1>2, <1>3, <1>4 DEF IInv

LEMMA NextInv == IInv /\ [Next]_vars => IInv'
<1> SUFFICES ASSUME IInv, [Next]_vars PROVE IInv'
  OBVIOUS
<1>1. CASE Next
  <2>1. Preserved
    BY <1>1, StepPreserves DEF Next
  <2>2. raced' = raced \cup {f \in Files : Meet(f)'}
    BY <1>1 DEF Next
  <2>3. TypeOK' /\ Noticed'
    BY <2>1, <2>2 DEF Preserved, IInv, TypeOK, Noticed
  <2>4. FilesAreSafe'
    BY <2>1, <2>2 DEF Preserved, FilesAreSafe
  <2> QED
    BY <2>1, <2>3, <2>4 DEF Preserved, IInv
<1>2. CASE UNCHANGED vars
  BY <1>2 DEF vars, IInv, TypeOK, CallType, IdsAreDone, UniqueKeys, Noticed, Meet,
              FilesAreSafe, FileIsSafe, Busy, WithId
<1> QED
  BY <1>1, <1>2

(* The tables, the storage directory and the requests keep their types for  *)
(* every number of requests and files and however often the process dies: a *)
(* request that changes a file has read the row it belongs to.              *)
THEOREM TypeCorrect == Spec => []TypeOK
<1>1. IInv => TypeOK
  BY DEF IInv
<1> QED
  BY InitInv, NextInv, <1>1, PTL DEF Spec

(* The file of a firmware that has a row is whole as long as no two         *)
(* requests change it at once, for every number of requests, names and      *)
(* binaries, and whatever fails: upload writes the file before it creates   *)
(* the row, delete removes the row before the file, and the unique hash     *)
(* keeps an upload from a file that has a row.                              *)
THEOREM FilesKept == Spec => []RowsKeepTheirFile
<1>1. IInv => RowsKeepTheirFile
  BY DEF IInv, TypeOK, Rows, FilesAreSafe, FileIsSafe, RowsKeepTheirFile
<1> QED
  BY InitInv, NextInv, <1>1, PTL DEF Spec

------------------------------------------------------------------------------
(* Nothing is left on the disk: without faults, whoever has a file on it    *)
(* that no row names will either create the row or remove the file.         *)

Cleans(c, f) == call[c].at \in {"write", "create", "unlink"} /\ call[c].file = f

NoOrphans ==
  faults = 0 =>
    \A f \in Files :
      disk[f] # "absent" => WithName(f) # {} \/ \E c \in Calls : Cleans(c, f)

(* A request that moves leaves its file to itself, to a row, or absent.     *)
LEMMA OrphansKept ==
  ASSUME IInv, NoOrphans, faults = 0, NEW c \in Calls, Moves(c),
         \A f \in Files :
           /\ disk'[f] # "absent" => disk[f] # "absent" \/ Cleans(c, f)'
           /\ Cleans(c, f) /\ disk'[f] # "absent" => Cleans(c, f)' \/ WithName(f)' # {}
           /\ WithName(f) # {} => Cleans(c, f)' \/ WithName(f)' # {}
  PROVE  NoOrphans'
<1> SUFFICES ASSUME NEW f \in Files, disk'[f] # "absent"
             PROVE  WithName(f)' # {} \/ \E d \in Calls : Cleans(d, f)'
  BY DEF NoOrphans
<1>1. \A d \in Calls \ {c} : Cleans(d, f) => Cleans(d, f)'
  BY DEF Moves, Cleans
<1> QED
  BY <1>1 DEF NoOrphans

(* It was not at its file, and the rows keep their names.                   *)
LEMMA AwayFromFile ==
  ASSUME IInv, NoOrphans, faults = 0, NEW c \in Calls, Moves(c),
         call[c].at \notin {"write", "create", "unlink"}, disk' = disk,
         \A r \in rows : \E s \in rows' : s.file = r.file
  PROVE  NoOrphans'
<1>1. \A f \in Files : ~Cleans(c, f)
  BY DEF Cleans
<1>2. \A f \in Files : WithName(f) # {} => WithName(f)' # {}
  BY DEF WithName
<1> QED
  BY <1>1, <1>2, OrphansKept

LEMMA UploadOrphans ==
  ASSUME IInv, NoOrphans, faults = 0, faults' = 0, NEW c \in Calls, Upload(c)
  PROVE  NoOrphans'
<1>0. ~CostsFault
  BY DEF CostsFault
<1>1. CASE FindBySha256(c)
  <2>1. call[c].at \in Awaits /\ "open" \in Awaits /\ call[c].at = "find"
        /\ UNCHANGED <<rows, disk>>
    BY <1>1 DEF FindBySha256, At, Awaits, AtFile
  <2>2. Moves(c)
    BY <1>1, <2>1, ReturnMoves, GotoMoves, AtInFlight DEF FindBySha256, IInv
  <2> QED
    BY <2>1, <2>2, AwayFromFile
<1>2. ASSUME NEW at \in {"write", "create", "unlink"}, Goto(c, at),
             call[c].at \in {"open", "write", "create"},
             UNCHANGED rows,
             \A f \in Files : f # call[c].file => disk'[f] = disk[f]
      PROVE  NoOrphans'
  <2>1. call[c] \in InFlight /\ at \in Awaits
    BY <1>2, AtInFlight DEF IInv, Awaits, AtFile
  <2>2. Moves(c) /\ call'[c].file = call[c].file /\ call'[c].at = at
    BY <1>2, <2>1, GotoMoves DEF IInv
  <2>3. \A f \in Files : WithName(f) # {} => WithName(f)' # {}
    BY <1>2 DEF WithName
  <2>4. \A f \in Files : f = call[c].file => Cleans(c, f)'
    BY <2>2 DEF Cleans
  <2>5. \A f \in Files : Cleans(c, f) => f = call[c].file
    BY DEF Cleans
  <2> QED
    BY <1>2, <2>2, <2>3, <2>4, <2>5, OrphansKept
<1>3. CASE OpenFile(c)
  BY <1>2, <1>3 DEF OpenFile, At, SetFile, IInv, TypeOK
<1>4. CASE WriteFile(c)
  BY <1>2, <1>4 DEF WriteFile, At, SetFile, IInv, TypeOK
<1>5. CASE CreateFails(c)
  BY <1>2, <1>5 DEF CreateFails, At
<1>6. CASE Create(c)
  <2>1. call[c].at = "create" /\ Moves(c) /\ UNCHANGED disk
        /\ rows' = rows \cup {[id |-> c, file |-> call[c].file, isActive |-> TRUE]}
    BY <1>6, ReturnMoves DEF Create, At, IInv
  <2>2. \A f \in Files : WithName(f) # {} => WithName(f)' # {}
    BY <2>1 DEF WithName
  <2> DEFINE row == [id |-> c, file |-> call[c].file, isActive |-> TRUE]
  <2>3. row.file = call[c].file
    OBVIOUS
  <2>4. row \in rows'
    BY <2>1
  <2> HIDE DEF row
  <2>5. \E r \in rows' : r.file = call[c].file
    BY <2>3, <2>4
  <2>6. \A f \in Files : Cleans(c, f) => WithName(f)' # {}
    BY <2>5 DEF WithName, Cleans
  <2> QED
    BY <2>1, <2>2, <2>6, OrphansKept
<1> QED
  BY <1>0, <1>1, <1>3, <1>4, <1>5, <1>6 DEF Upload, WriteFails

LEMMA UnlinkOrphans ==
  ASSUME IInv, NoOrphans, faults = 0, NEW c \in Calls, Unlink(c)
  PROVE  NoOrphans'
<1>1. Moves(c) /\ UNCHANGED rows /\ disk' = [disk EXCEPT ![call[c].file] = "absent"]
  BY ReturnMoves DEF Unlink, SetFile, IInv
<1>2. \A f \in Files : /\ f # call[c].file => disk'[f] = disk[f]
                       /\ f = call[c].file => disk'[f] = "absent"
  BY <1>1 DEF IInv, TypeOK
<1>3. \A f \in Files : /\ Cleans(c, f) => f = call[c].file
                       /\ WithName(f) # {} => WithName(f)' # {}
  BY <1>1 DEF Cleans, WithName
<1> QED
  BY <1>1, <1>2, <1>3, OrphansKept

LEMMA OnRowOrphans ==
  ASSUME IInv, NoOrphans, faults = 0, NEW c \in Calls, OnRow(c)
  PROVE  NoOrphans'
<1>1. /\ call[c].at \in {"find", "count", "delete", "update", "insert"}
      /\ call[c].op \in OnId /\ UNCHANGED disk
  BY DEF OnRow, FindById, CountCampaigns, DeleteRow, UpdateRow, InsertCampaign, At, OnId
<1>2. call[c] \in InFlight /\ call[c].at \notin {"write", "create", "unlink"}
  BY <1>1, AtInFlight DEF IInv
<1>3. CASE FindById(c)
  <2>1. ASSUME NEW r \in WithId(call[c].id), Reads(c, AfterFind[call[c].op], r.file)
        PROVE  Moves(c)
    <3>1. AfterFind[call[c].op] \in Awaits
      BY <1>1 DEF AfterFind, OnId, Awaits
    <3>2. r.file \in Files
      BY DEF WithId, IInv, TypeOK, Rows
    <3> QED
      BY <1>2, <2>1, <3>1, <3>2, ReadsMoves DEF IInv
  <2>2. Moves(c)
    BY <1>3, <2>1, ReturnMoves DEF FindById, Reads, IInv
  <2> QED
    BY <1>1, <1>2, <1>3, <2>2, AwayFromFile DEF FindById
<1>4. CASE CountCampaigns(c)
  <2>1. "delete" \in Awaits
    BY DEF Awaits
  <2>2. Moves(c)
    BY <1>2, <1>4, <2>1, ReturnMoves, GotoMoves DEF CountCampaigns, IInv
  <2> QED
    BY <1>1, <1>2, <1>4, <2>2, AwayFromFile DEF CountCampaigns
<1>5. CASE DeleteRow(c)
  <2>1. CASE Return(c) /\ UNCHANGED rows
    BY <1>1, <1>2, <2>1, ReturnMoves, AwayFromFile DEF IInv
  <2>2. CASE Goto(c, "unlink") /\ rows' = rows \ WithId(call[c].id)
    <3>1. "unlink" \in Awaits
      BY DEF Awaits, AtFile
    <3>2. Moves(c) /\ call'[c].file = call[c].file /\ call'[c].at = "unlink"
      BY <1>2, <2>2, <3>1, GotoMoves DEF IInv
    <3>3. \A r \in WithId(call[c].id) : r.file = call[c].file
      BY <1>2, <1>5 DEF DeleteRow, At, OnId, IInv, IdsAreDone
    <3>4. \A f \in Files : WithName(f) # {} => Cleans(c, f)' \/ WithName(f)' # {}
      BY <2>2, <3>2, <3>3 DEF WithName, Cleans
    <3>5. \A f \in Files : ~Cleans(c, f)
      BY <1>2 DEF Cleans
    <3> QED
      BY <1>1, <3>2, <3>4, <3>5, OrphansKept
  <2> QED
    BY <1>5, <2>1, <2>2 DEF DeleteRow
<1>6. CASE UpdateRow(c)
  <2>1. PICK b \in BOOLEAN :
          rows' = (rows \ WithId(call[c].id))
                    \cup {[r EXCEPT !.isActive = b] : r \in WithId(call[c].id)}
    BY <1>6 DEF UpdateRow
  <2>2. \A r \in rows : [r EXCEPT !.isActive = b].file = r.file
    BY DEF IInv, TypeOK, Rows
  <2>3. \A r \in rows : \E s \in rows' : s.file = r.file
    BY <2>1, <2>2 DEF WithId
  <2> QED
    BY <1>1, <1>2, <1>6, <2>3, ReturnMoves, AwayFromFile DEF UpdateRow, IInv
<1>7. CASE InsertCampaign(c)
  BY <1>1, <1>2, <1>7, ReturnMoves, AwayFromFile DEF InsertCampaign, IInv
<1> QED
  BY <1>3, <1>4, <1>5, <1>6, <1>7 DEF OnRow

LEMMA DownloadOrphans ==
  ASSUME IInv, NoOrphans, faults = 0, NEW c \in Calls,
         FindByName(c) \/ ExistsSync(c) \/ Stream(c)
  PROVE  NoOrphans'
<1>1. /\ call[c].at \in {"find", "exists", "stream"}
      /\ (Return(c) \/ Goto(c, "exists") \/ Goto(c, "stream"))
      /\ UNCHANGED <<rows, disk>>
  BY DEF FindByName, ExistsSync, Stream, At
<1>2. call[c] \in InFlight /\ {"exists", "stream"} \subseteq Awaits
  BY <1>1, AtInFlight DEF IInv, Awaits
<1>3. Moves(c)
  BY <1>1, <1>2, ReturnMoves, GotoMoves DEF IInv
<1> QED
  BY <1>1, <1>3, AwayFromFile

LEMMA RequestOrphans ==
  ASSUME IInv, NoOrphans, faults = 0, NEW c \in Calls,
         \/ \E op \in OnFile, f \in Files : RequestFile(c, op, f)
         \/ \E op \in OnId, i \in Known(c) : RequestRow(c, op, i)
  PROVE  NoOrphans'
<1>1. call[c] = New /\ UNCHANGED <<rows, disk>>
  BY DEF RequestFile, RequestRow
<1>2. Known(c) \subseteq Calls
  BY DEF Known, IInv, TypeOK, Rows
<1>3. Moves(c)
  BY <1>2, RequestMoves DEF RequestFile, RequestRow, IInv
<1>4. call[c].at \notin {"write", "create", "unlink"}
  BY <1>1, Distinct
<1> QED
  BY <1>1, <1>3, <1>4, AwayFromFile

LEMMA FaultCounts ==
  ASSUME IInv, CostsFault \/ faults' = faults + 1
  PROVE  faults' # 0
BY DEF CostsFault, IInv, TypeOK

LEMMA OrphansStep == IInv /\ NoOrphans /\ [Next]_vars => NoOrphans'
<1> SUFFICES ASSUME IInv, NoOrphans, [Next]_vars, faults' = 0 PROVE NoOrphans'
  BY DEF NoOrphans
<1>0. CASE UNCHANGED <<rows, disk, call, faults>>
  BY <1>0 DEF NoOrphans, WithName, Cleans
<1>1. ASSUME NEW c \in Calls, Upload(c) PROVE NoOrphans'
  <2>1. UNCHANGED faults \/ CostsFault
    BY <1>1 DEF Upload, FindBySha256, OpenFile, WriteFile, WriteFails, Create, CreateFails
  <2> QED
    BY <1>1, <2>1, FaultCounts, UploadOrphans
<1>2. ASSUME NEW c \in Calls, OnRow(c) PROVE NoOrphans'
  <2>1. UNCHANGED faults
    BY <1>2 DEF OnRow, FindById, CountCampaigns, DeleteRow, UpdateRow, InsertCampaign
  <2> QED
    BY <1>2, <2>1, OnRowOrphans
<1>3. ASSUME NEW c \in Calls, Download(c) \/ Unlink(c) PROVE NoOrphans'
  BY <1>3, FaultCounts, DownloadOrphans, UnlinkOrphans
  DEF Download, FindByName, ExistsSync, Stream, StreamFails, Unlink
<1>4. ASSUME NEW c \in Calls,
             \/ \E op \in OnFile, f \in Files : RequestFile(c, op, f)
             \/ \E op \in OnId, i \in Known(c) : RequestRow(c, op, i)
      PROVE  NoOrphans'
  <2>1. UNCHANGED faults
    BY <1>4 DEF RequestFile, RequestRow
  <2> QED
    BY <1>4, <2>1, RequestOrphans
<1>5. ASSUME NEW c \in Calls, UnlinkFails(c) \/ QueryFails(c) PROVE NoOrphans'
  BY <1>5, FaultCounts DEF UnlinkFails, QueryFails
<1>6. CASE Crash
  BY <1>6, FaultCounts DEF Crash
<1>7. CASE Step
  BY <1>0, <1>1, <1>2, <1>3, <1>4, <1>5, <1>6, <1>7 DEF Step, AllDone
<1> QED
  BY <1>0, <1>7 DEF Next, vars

(* Without faults every file on the disk that nobody is at has its row,     *)
(* however uploads and deletes of one binary interleave: the loser of the   *)
(* unique key and the delete clear up (firmware.service.ts:63-84, 118-126). *)
THEOREM DiskIsClean == Spec => []NothingIsLeftOnDisk
<1>1. Init => NoOrphans
  BY DEF Init, NoOrphans
<1>2. NoOrphans => NothingIsLeftOnDisk
  BY DEF NoOrphans, NothingIsLeftOnDisk, Cleans, Busy, AtFile
<1> QED
  BY InitInv, NextInv, OrphansStep, <1>1, <1>2, PTL DEF Spec

------------------------------------------------------------------------------
(* Cards.  Once a delete has found no open session of its card, no session  *)
(* that is open has the card, but for those that opened since: these the    *)
(* check could not see.                                                     *)

CheckStillHolds ==
  \A r \in Removals, s \in Sessions :
    Tokens!At(r, "delete") /\ status[s] \in Tokens!Open /\ s \notin late
      => idTag[s] # removal[r].tag

FoundExist == \A s \in found : status[s] # "none"

CardInv ==
  Tokens!TypeOK /\ CheckStillHolds /\ FoundExist /\ Tokens!OpenSessionsKeepTheirCard

LEMMA CardInit == Tokens!Init => CardInv
<1> SUFFICES ASSUME Tokens!Init PROVE CardInv
  OBVIOUS
<1>1. Tokens!TypeOK
  BY DEF Tokens!Init, Tokens!TypeOK, Tokens!Statuses
<1>2. \A s \in Sessions : status[s] \notin Tokens!Open
  BY DEF Tokens!Init, Tokens!Open
<1>3. FoundExist
  BY DEF Tokens!Init, FoundExist
<1> QED
  BY <1>1, <1>2, <1>3 DEF CardInv, CheckStillHolds, Tokens!OpenSessionsKeepTheirCard

(* What a delete that moves has in hand.                                    *)
LEMMA RemovalMoves ==
  ASSUME Tokens!TypeOK, NEW r \in Removals, NEW t \in Tags,
         NEW at \in {"find", "check", "delete"},
         \/ removal' = [removal EXCEPT ![r] = [at |-> at, tag |-> t]]
         \/ Tokens!Goto(r, at) /\ removal[r] \in [at : {"find", "check", "delete"}, tag : {t}]
  PROVE  /\ removal' \in [Removals -> {Tokens!New, Tokens!Done}
                                        \cup [at : {"find", "check", "delete"}, tag : Tags]]
         /\ removal'[r].at = at /\ removal'[r].tag = t
         /\ \A q \in Removals \ {r} : removal'[q] = removal[q]
<1> DEFINE new == [at |-> at, tag |-> t]
<1>1. new \in [at : {"find", "check", "delete"}, tag : Tags] /\ new.at = at /\ new.tag = t
  OBVIOUS
<1>2. removal' = [removal EXCEPT ![r] = new]
  BY DEF Tokens!Goto
<1> HIDE DEF new
<1> QED
  BY <1>1, <1>2 DEF Tokens!TypeOK

LEMMA RemovalEnds ==
  ASSUME Tokens!TypeOK, NEW r \in Removals, Tokens!Return(r)
  PROVE  /\ removal' \in [Removals -> {Tokens!New, Tokens!Done}
                                        \cup [at : {"find", "check", "delete"}, tag : Tags]]
         /\ \A q \in Removals : Tokens!At(q, "delete")' =>
              Tokens!At(q, "delete") /\ removal'[q] = removal[q]
BY DEF Tokens!TypeOK, Tokens!Return, Tokens!At, Tokens!Done

(* A delete that moves, but not to the statement that deletes.              *)
LEMMA QuietRemoval ==
  ASSUME CardInv, UNCHANGED <<status, idTag, found, card, late>>, tokens' \in SUBSET Tags,
         removal' \in [Removals -> {Tokens!New, Tokens!Done}
                                     \cup [at : {"find", "check", "delete"}, tag : Tags]],
         \A q \in Removals : Tokens!At(q, "delete")' =>
           Tokens!At(q, "delete") /\ removal'[q] = removal[q]
  PROVE  CardInv'
<1>1. Tokens!TypeOK' /\ FoundExist' /\ Tokens!OpenSessionsKeepTheirCard'
  BY DEF CardInv, Tokens!TypeOK, FoundExist, Tokens!OpenSessionsKeepTheirCard
<1>2. CheckStillHolds'
  BY DEF CardInv, CheckStillHolds
<1> QED
  BY <1>1, <1>2 DEF CardInv

(* A session that is not about to lose its card opens, or is noticed late.  *)
LEMMA OpenSessionCard ==
  ASSUME CardInv, NEW s \in Sessions, NEW t \in Tags \cup {NoTag},
         NEW st \in {"Pending", "Active"}, Tokens!OpenSession(s, t, st)
  PROVE  CardInv'
<1>1. /\ status' = [status EXCEPT ![s] = st] /\ idTag' = [idTag EXCEPT ![s] = t]
      /\ card' = [card EXCEPT ![s] = t] /\ UNCHANGED <<tokens, found, removal>>
      /\ late' = IF Tokens!AboutToDelete(t) THEN late \cup {s} ELSE late
  BY DEF Tokens!OpenSession
<1>2. Tokens!TypeOK'
  BY <1>1 DEF CardInv, Tokens!TypeOK, Tokens!Statuses
<1>3. /\ status'[s] = st /\ idTag'[s] = t /\ card'[s] = t
      /\ \A q \in Sessions \ {s} :
           status'[q] = status[q] /\ idTag'[q] = idTag[q] /\ card'[q] = card[q]
      /\ late \subseteq late'
  BY <1>1 DEF CardInv, Tokens!TypeOK
<1>4. FoundExist'
  BY <1>1, <1>3 DEF CardInv, FoundExist, Tokens!TypeOK
<1>5. Tokens!OpenSessionsKeepTheirCard'
  BY <1>3 DEF CardInv, Tokens!OpenSessionsKeepTheirCard
<1>6. ASSUME NEW r \in Removals, Tokens!At(r, "delete"), s \notin late'
      PROVE  removal[r].tag # t
  <2>1. removal[r] = [at |-> "delete", tag |-> removal[r].tag]
    BY <1>6 DEF Tokens!At
  <2> QED
    BY <1>1, <1>6, <2>1 DEF Tokens!AboutToDelete
<1>7. CheckStillHolds'
  BY <1>1, <1>3, <1>6 DEF CardInv, CheckStillHolds, Tokens!At
<1> QED
  BY <1>2, <1>4, <1>5, <1>7 DEF CardInv

LEMMA SessionCard ==
  ASSUME CardInv, NEW s \in Sessions,
         Tokens!FindPending(s) \/ Tokens!Activate(s) \/ Tokens!EndSession(s)
  PROVE  CardInv'
<1>1. UNCHANGED <<tokens, idTag, card, removal>>
  BY DEF Tokens!FindPending, Tokens!Activate, Tokens!EndSession
<1>2. Tokens!TypeOK'
  BY DEF CardInv, Tokens!TypeOK, Tokens!Statuses, Tokens!FindPending, Tokens!Activate,
         Tokens!EndSession
<1>3. /\ \A q \in Sessions \ {s} : status'[q] = status[q]
      /\ late \subseteq late'
      /\ status'[s] \in Tokens!Open => status[s] \in Tokens!Open \/ s \in late'
      /\ found' \subseteq found \cup {s}
      /\ s \in found' => status'[s] # "none"
  BY DEF CardInv, FoundExist, Tokens!TypeOK, Tokens!Statuses, Tokens!Open,
         Tokens!FindPending, Tokens!Activate, Tokens!EndSession
<1>4. FoundExist'
  BY <1>3 DEF CardInv, FoundExist, Tokens!TypeOK
<1>5. Tokens!OpenSessionsKeepTheirCard'
  BY <1>1, <1>3 DEF CardInv, Tokens!OpenSessionsKeepTheirCard
<1>6. CheckStillHolds'
  BY <1>1, <1>3 DEF CardInv, CheckStillHolds, Tokens!At
<1> QED
  BY <1>2, <1>4, <1>5, <1>6 DEF CardInv

LEMMA RemovalCard ==
  ASSUME CardInv, NEW r \in Removals,
         \/ \E t \in Tags : Tokens!Request(r, t)
         \/ Tokens!FindToken(r) \/ Tokens!FindOpenSession(r) \/ Tokens!DeleteToken(r)
         \/ Tokens!Abandon(r)
  PROVE  CardInv'
<1>1. ASSUME NEW t \in Tags, Tokens!Request(r, t) PROVE CardInv'
  <2>1. removal' = [removal EXCEPT ![r] = [at |-> "find", tag |-> t]]
        /\ UNCHANGED <<tokens, status, idTag, found, card, late>>
    BY <1>1 DEF Tokens!Request, Tokens!sessionVars
  <2> QED
    BY <2>1, RemovalMoves, QuietRemoval DEF CardInv, Tokens!At, Tokens!TypeOK
<1>2. CASE Tokens!Return(r) /\ UNCHANGED <<tokens, status, idTag, found, card, late>>
  BY <1>2, RemovalEnds, QuietRemoval DEF CardInv, Tokens!TypeOK
<1>3. CASE Tokens!FindToken(r) /\ Tokens!Goto(r, "check")
  <2>1. PICK t \in Tags : removal[r] \in [at : {"find", "check", "delete"}, tag : {t}]
    BY <1>3 DEF Tokens!FindToken, Tokens!At
  <2>2. UNCHANGED <<tokens, status, idTag, found, card, late>>
    BY <1>3 DEF Tokens!FindToken, Tokens!sessionVars
  <2> QED
    BY <1>3, <2>1, <2>2, RemovalMoves, QuietRemoval DEF CardInv, Tokens!At, Tokens!TypeOK
<1>4. CASE Tokens!FindOpenSession(r) /\ Tokens!Goto(r, "delete")
           /\ Tokens!OpenSessions(removal[r].tag) = {}
  <2>1. PICK t \in Tags : removal[r] \in [at : {"find", "check", "delete"}, tag : {t}]
    BY <1>4 DEF Tokens!FindOpenSession, Tokens!At
  <2>2. UNCHANGED <<tokens, status, idTag, found, card, late>>
    BY <1>4 DEF Tokens!FindOpenSession, Tokens!sessionVars
  <2>3. /\ removal' \in [Removals -> {Tokens!New, Tokens!Done}
                                       \cup [at : {"find", "check", "delete"}, tag : Tags]]
        /\ removal'[r].tag = t
        /\ \A q \in Removals \ {r} : removal'[q] = removal[q]
    BY <1>4, <2>1, RemovalMoves DEF CardInv
  <2>4. \A s \in Sessions : status[s] \in Tokens!Open => idTag[s] # t
    BY <1>4, <2>1 DEF Tokens!OpenSessions
  <2>5. Tokens!TypeOK' /\ FoundExist' /\ Tokens!OpenSessionsKeepTheirCard'
    BY <2>2, <2>3 DEF CardInv, Tokens!TypeOK, FoundExist, Tokens!OpenSessionsKeepTheirCard
  <2>6. CheckStillHolds'
    BY <2>2, <2>3, <2>4 DEF CardInv, CheckStillHolds, Tokens!At
  <2> QED
    BY <2>5, <2>6 DEF CardInv
<1>5. CASE Tokens!DeleteToken(r)
  <2>1. PICK t \in Tags : t = removal[r].tag /\ Tokens!At(r, "delete")
    BY <1>5 DEF Tokens!DeleteToken, Tokens!At
  <2>2. /\ tokens' = tokens \ {t}
        /\ idTag' = [s \in Sessions |-> IF idTag[s] = t THEN NoTag ELSE idTag[s]]
        /\ Tokens!Return(r) /\ UNCHANGED <<status, found, card, late>>
    BY <1>5, <2>1 DEF Tokens!DeleteToken
  <2>3. \A s \in Sessions : status[s] \in Tokens!Open /\ s \notin late => idTag'[s] = idTag[s]
    BY <2>1, <2>2 DEF CardInv, CheckStillHolds
  <2>4. Tokens!TypeOK'
    BY <2>2, RemovalEnds DEF CardInv, Tokens!TypeOK
  <2>5. FoundExist' /\ Tokens!OpenSessionsKeepTheirCard'
    BY <2>2, <2>3 DEF CardInv, FoundExist, Tokens!OpenSessionsKeepTheirCard
  <2>6. CheckStillHolds'
    BY <2>2, <2>3, RemovalEnds DEF CardInv, CheckStillHolds
  <2> QED
    BY <2>4, <2>5, <2>6 DEF CardInv
<1> QED
  BY <1>1, <1>2, <1>3, <1>4, <1>5
  DEF Tokens!FindToken, Tokens!FindOpenSession, Tokens!Abandon, Tokens!sessionVars

LEMMA CardStep == CardInv /\ [Tokens!Next]_(Tokens!vars) => CardInv'
<1> SUFFICES ASSUME CardInv, [Tokens!Next]_(Tokens!vars) PROVE CardInv'
  OBVIOUS
<1>1. ASSUME NEW t \in Tags, Tokens!Register(t) PROVE CardInv'
  <2>1. UNCHANGED <<status, idTag, found, card, late, removal>> /\ tokens' \in SUBSET Tags
    BY <1>1 DEF Tokens!Register, Tokens!sessionVars, CardInv, Tokens!TypeOK
  <2> QED
    BY <2>1, QuietRemoval DEF CardInv, Tokens!TypeOK, Tokens!At
<1>2. ASSUME NEW s \in Sessions,
             \/ \E t \in Tags : Tokens!StartWithCard(s, t)
             \/ \E t \in Tags \cup {NoTag} : Tokens!CreatePending(s, t)
      PROVE  CardInv'
  BY <1>2, OpenSessionCard DEF Tokens!StartWithCard, Tokens!CreatePending
<1>3. CASE Tokens!Finished \/ UNCHANGED Tokens!vars
  <2>1. UNCHANGED <<tokens, status, idTag, found, card, late, removal>>
    BY <1>3 DEF Tokens!Finished, Tokens!vars, Tokens!sessionVars
  <2> QED
    BY <2>1, QuietRemoval DEF CardInv, Tokens!TypeOK, Tokens!At
<1> QED
  BY <1>1, <1>2, <1>3, SessionCard, RemovalCard DEF Tokens!Next

(* An open session keeps its card, for any number of cards, sessions and    *)
(* deletes, however they interleave: the delete's check is enough but for a *)
(* session that opens, or opens again, after it (idTokens.routes.ts:152).   *)
THEOREM CardsKept == Tokens!Spec => []OpenSessionsKeepTheirCard
<1>1. CardInv => OpenSessionsKeepTheirCard
  BY DEF CardInv, OpenSessionsKeepTheirCard
<1> QED
  BY CardInit, CardStep, <1>1, PTL DEF Tokens!Spec

------------------------------------------------------------------------------
(* Diagnostics.  A report has a request in hand that was open when it found *)
(* it, and if it is closed by now, that was noticed.                        *)

SettledFirst == \A r \in Requests : pc[r] = "record" => settled[r] \in Diag!Results

ReportIsNotIdle ==
  \A h \in Slots :
    report[h] # Diag!Idle /\ report[h].at # "station" => report[h].status # "Idle"

ClosedInHand ==
  \A h \in Slots :
    Diag!HandlerAt(h, "update") /\ completed[report[h].open] => report[h].open \in overtaken

EndInv == Diag!TypeOK /\ SettledFirst /\ ReportIsNotIdle /\ ClosedInHand

LEMMA EndInit == Diag!Init => EndInv
<1> SUFFICES ASSUME Diag!Init PROVE EndInv
  OBVIOUS
<1>1. Diag!TypeOK
  BY FaultsAssumption DEF Diag!Init, Diag!TypeOK, Diag!TableType, Diag!Statuses, Diag!Points
<1>2. SettledFirst /\ ReportIsNotIdle /\ ClosedInHand
  BY DEF Diag!Init, SettledFirst, ReportIsNotIdle, ClosedInHand, Diag!HandlerAt
<1> QED
  BY <1>1, <1>2 DEF EndInv

LEMMA ReportFields ==
  ASSUME Diag!TypeOK, NEW h \in Slots, NEW at \in {"station", "find", "update"},
         Diag!HandlerAt(h, at)
  PROVE  /\ report[h] \in Diag!Reports /\ report[h] # Diag!Idle /\ report[h].at = at
         /\ report[h].station \in Stations /\ report[h].status \in Diag!Statuses
         /\ at = "update" => report[h].open \in Requests
BY DEF Diag!TypeOK, Diag!HandlerAt, Diag!Reports

LEMMA FaultsInRange ==
  ASSUME Diag!TypeOK, UNCHANGED diagFaults \/ Diag!CostsFault
  PROVE  diagFaults' \in 0 .. MaxFaults
BY FaultsAssumption DEF Diag!TypeOK, Diag!CostsFault

(* A step of sendGetDiagnostics: it leaves the reports alone, and reopens   *)
(* no request.                                                              *)
SenderMoves(r) ==
  /\ Diag!TableType' /\ pc' \in [Requests -> Diag!Points]
  /\ settled' \in [Requests -> Diag!Results \cup {"none"}]
  /\ SettledFirst'
  /\ UNCHANGED <<report, diagStatus, diagnosticsStatus>>
  /\ \A q \in Requests : completed[q] => completed'[q]

LEMMA SenderType ==
  ASSUME EndInv, NEW r \in Requests, Diag!Sender(r)
  PROVE  SenderMoves(r)
<1>t. Diag!TypeOK /\ Diag!TableType /\ SettledFirst
  BY DEF EndInv, Diag!TypeOK
<1>1. CASE Diag!Begin(r)
  <2>1. requested' = Append(requested, r) /\ Diag!SetResult(r, "pending")
        /\ Diag!Goto(r, "wait")
        /\ UNCHANGED <<report, diagStatus, diagnosticsStatus, completed, settled>>
    BY <1>1 DEF Diag!Begin
  <2>2. requested' \in Seq(Requests)
    BY <1>t, <2>1 DEF Diag!TableType
  <2>3. Diag!TableType'
    BY <1>t, <2>1, <2>2 DEF Diag!TableType, Diag!SetResult
  <2>4. pc' \in [Requests -> Diag!Points] /\ SettledFirst'
    BY <1>t, <2>1 DEF Diag!TypeOK, Diag!Points, Diag!Goto, SettledFirst
  <2> QED
    BY <1>t, <2>1, <2>3, <2>4 DEF SenderMoves, Diag!TypeOK
<1>2. ASSUME NEW p \in {"wait", "returned", "close"}, Diag!Goto(r, p),
             UNCHANGED <<report, diagStatus, diagnosticsStatus, settled, requested>>,
             completed' \in [Requests -> BOOLEAN],
             \A q \in Requests : completed[q] => completed'[q],
             result' \in [Requests -> Diag!Results \cup {"absent", "pending"}]
      PROVE  SenderMoves(r)
  <2>1. Diag!TableType'
    BY <1>t, <1>2 DEF Diag!TableType
  <2>2. pc' \in [Requests -> Diag!Points] /\ SettledFirst'
    BY <1>t, <1>2 DEF Diag!TypeOK, Diag!Points, Diag!Goto, SettledFirst
  <2> QED
    BY <1>t, <1>2, <2>1, <2>2 DEF SenderMoves, Diag!TypeOK
<1>3. CASE Diag!BeginWithoutRows(r) \/ Diag!RecordAnswerFails(r)
           \/ Diag!RecordFailureFails(r) \/ Diag!CloseRequestFails(r)
  <2>1. PICK p \in {"wait", "returned", "close"} : Diag!Goto(r, p)
    BY <1>3 DEF Diag!BeginWithoutRows, Diag!RecordAnswerFails, Diag!RecordFailureFails,
                Diag!CloseRequestFails
  <2>2. UNCHANGED <<report, diagStatus, diagnosticsStatus, settled, requested, completed,
                    result>>
    BY <1>3 DEF Diag!BeginWithoutRows, Diag!RecordAnswerFails, Diag!RecordFailureFails,
                Diag!CloseRequestFails, Diag!tables
  <2> QED
    BY <1>t, <1>2, <2>1, <2>2 DEF Diag!TableType
<1>4. ASSUME NEW s \in Diag!Results, Diag!Settle(r, s) PROVE SenderMoves(r)
  <2>1. /\ settled' = [settled EXCEPT ![r] = s] /\ Diag!Goto(r, "record")
        /\ UNCHANGED <<report, diagStatus, diagnosticsStatus, requested, completed, result>>
    BY <1>4 DEF Diag!Settle, Diag!tables
  <2>2. Diag!TableType'
    BY <1>t, <2>1 DEF Diag!TableType
  <2>3. /\ settled' \in [Requests -> Diag!Results \cup {"none"}]
        /\ pc' \in [Requests -> Diag!Points] /\ SettledFirst'
    BY <1>t, <2>1 DEF Diag!TypeOK, Diag!Points, Diag!Goto, SettledFirst
  <2> QED
    BY <2>1, <2>2, <2>3 DEF SenderMoves
<1>5. CASE Diag!RecordAnswer(r) \/ Diag!RecordFailure(r)
  <2>1. PICK p \in {"wait", "returned", "close"} : Diag!Goto(r, p)
    BY <1>5 DEF Diag!RecordAnswer, Diag!RecordFailure
  <2>2. PICK s \in Diag!Results : Diag!SetResult(r, s)
    BY <1>t, <1>5 DEF Diag!RecordAnswer, Diag!RecordFailure, SettledFirst, Diag!Results
  <2>3. UNCHANGED <<report, diagStatus, diagnosticsStatus, settled, requested, completed>>
    BY <1>5 DEF Diag!RecordAnswer, Diag!RecordFailure
  <2>4. result' \in [Requests -> Diag!Results \cup {"absent", "pending"}]
    BY <1>t, <2>2 DEF Diag!TableType, Diag!SetResult
  <2> QED
    BY <1>t, <1>2, <2>1, <2>3, <2>4 DEF Diag!TableType
<1>6. CASE Diag!CloseRequest(r)
  <2>1. /\ completed' = [completed EXCEPT ![r] = TRUE] /\ Diag!Goto(r, "returned")
        /\ UNCHANGED <<report, diagStatus, diagnosticsStatus, settled, requested, result>>
    BY <1>6 DEF Diag!CloseRequest, Diag!Complete
  <2>2. /\ completed' \in [Requests -> BOOLEAN]
        /\ \A q \in Requests : completed[q] => completed'[q]
    BY <1>t, <2>1 DEF Diag!TableType
  <2> QED
    BY <1>t, <1>2, <2>1, <2>2 DEF Diag!TableType
<1> QED
  BY <1>1, <1>3, <1>4, <1>5, <1>6 DEF Diag!Sender

LEMMA StepFaults ==
  ASSUME Diag!Step
  PROVE  UNCHANGED diagFaults \/ Diag!CostsFault
<1>1. ASSUME NEW r \in Requests, Diag!Sender(r)
      PROVE  UNCHANGED diagFaults \/ Diag!CostsFault
  BY <1>1
  DEF Diag!Sender, Diag!Begin, Diag!BeginWithoutRows, Diag!Settle, Diag!RecordAnswer,
      Diag!RecordAnswerFails, Diag!RecordFailure, Diag!RecordFailureFails,
      Diag!CloseRequest, Diag!CloseRequestFails
<1>2. ASSUME NEW h \in Slots, Diag!Handler(h)
      PROVE  UNCHANGED diagFaults \/ Diag!CostsFault
  BY <1>2 DEF Diag!Handler, Diag!Receive, Diag!UpdateStation, Diag!UpdateStationFails,
              Diag!FindOpen, Diag!UpdateRequest, Diag!QueryFails
<1> QED
  BY <1>1, <1>2 DEF Diag!Step, Diag!Sweep, Diag!Crash

(* A step of a report: it changes no request but the one it has in hand.    *)
ReportMoves(h) ==
  /\ Diag!TableType'
  /\ UNCHANGED <<pc, settled, result>>
  /\ report' \in [Slots -> Diag!Reports \cup {Diag!Idle}]
  /\ \A i \in Slots \ {h} : report'[i] = report[i]
  /\ report'[h] # Diag!Idle /\ report'[h].at # "station" => report'[h].status # "Idle"
  /\ report'[h] # Diag!Idle /\ report'[h].at = "update" =>
       report'[h].open \in Requests /\ ~completed[report'[h].open]
  /\ \A q \in Requests :
       \/ diagStatus'[q] = diagStatus[q] /\ completed'[q] = completed[q]
       \/ Diag!HandlerAt(h, "update") /\ report[h].open = q /\ diagStatus'[q] # "Idle"

(* One that leaves the table of requests as it is.                          *)
LEMMA QuietReport ==
  ASSUME EndInv, NEW h \in Slots, NEW g \in Diag!Reports \cup {Diag!Idle},
         report' = [report EXCEPT ![h] = g],
         g # Diag!Idle /\ g.at # "station" => g.status # "Idle",
         g # Diag!Idle /\ g.at = "update" => g.open \in Requests /\ ~completed[g.open],
         UNCHANGED <<pc, settled, result, requested, diagStatus, completed>>,
         diagnosticsStatus' \in [Stations -> Diag!Statuses]
  PROVE  ReportMoves(h)
<1>1. Diag!TableType'
  BY DEF EndInv, Diag!TypeOK, Diag!TableType
<1>2. /\ report' \in [Slots -> Diag!Reports \cup {Diag!Idle}]
      /\ report'[h] = g
      /\ \A i \in Slots \ {h} : report'[i] = report[i]
  BY DEF EndInv, Diag!TypeOK
<1> QED
  BY <1>1, <1>2 DEF ReportMoves

LEMMA HandlerType ==
  ASSUME EndInv, NEW h \in Slots, Diag!Handler(h)
  PROVE  ReportMoves(h)
<1>t. Diag!TypeOK /\ Diag!TableType /\ diagnosticsStatus \in [Stations -> Diag!Statuses]
  BY DEF EndInv, Diag!TypeOK, Diag!TableType
<1>1. CASE Diag!Finish(h) /\ UNCHANGED <<pc, settled, result, requested, diagStatus, completed>>
           /\ diagnosticsStatus' \in [Stations -> Diag!Statuses]
  BY <1>1, QuietReport DEF Diag!Finish
<1>2. ASSUME NEW s \in Stations, NEW p \in Payloads, Diag!Receive(h, s, p)
      PROVE  ReportMoves(h)
  <2> DEFINE g == [station |-> s, at |-> "station", status |-> Diag!Normalized(p),
                   open |-> NoRequest]
  <2>1. g \in Diag!Reports /\ g.at = "station"
    BY DEF Diag!Reports, Diag!Normalized, Diag!Statuses
  <2>2. /\ report' = [report EXCEPT ![h] = g]
        /\ UNCHANGED <<pc, settled, result, requested, diagStatus, completed, diagnosticsStatus>>
    BY <1>2 DEF Diag!Receive, Diag!tables, Diag!command
  <2> HIDE DEF g
  <2> QED
    BY <1>t, <2>1, <2>2, QuietReport
<1>3. CASE Diag!UpdateStation(h) \/ Diag!UpdateStationFails(h)
  <2>1. /\ UNCHANGED <<pc, settled, result, requested, diagStatus, completed>>
        /\ Diag!AfterStation(h) /\ Diag!HandlerAt(h, "station")
    BY <1>3 DEF Diag!UpdateStation, Diag!UpdateStationFails, Diag!tables, Diag!command
  <2>2. report[h] \in Diag!Reports /\ report[h].status \in Diag!Statuses
    BY <1>t, <2>1, ReportFields
  <2>3. diagnosticsStatus' \in [Stations -> Diag!Statuses]
    BY <1>t, <1>3, <2>2 DEF Diag!UpdateStation, Diag!UpdateStationFails
  <2>4. CASE report[h].status # "Idle" /\ report' = [report EXCEPT ![h].at = "find"]
    <3> DEFINE g == [report[h] EXCEPT !.at = "find"]
    <3>1. g \in Diag!Reports /\ g.at = "find" /\ g.status = report[h].status
      BY <2>2 DEF Diag!Reports
    <3>2. report' = [report EXCEPT ![h] = g]
      BY <2>4
    <3> HIDE DEF g
    <3> QED
      BY <2>1, <2>3, <2>4, <3>1, <3>2, QuietReport
  <2> QED
    BY <1>1, <2>1, <2>3, <2>4 DEF Diag!AfterStation
<1>4. CASE Diag!FindOpen(h)
  <2>1. /\ UNCHANGED <<pc, settled, result, requested, diagStatus, completed, diagnosticsStatus>>
        /\ Diag!HandlerAt(h, "find")
    BY <1>4 DEF Diag!FindOpen, Diag!tables, Diag!command
  <2>2. /\ report[h] \in Diag!Reports /\ report[h] # Diag!Idle
        /\ report[h].at = "find" /\ report[h].status # "Idle"
    BY <1>t, <2>1, ReportFields DEF EndInv, ReportIsNotIdle
  <2>3. ASSUME NEW i \in Diag!OpenRequests(report[h].station),
               report' = [report EXCEPT ![h].at = "update", ![h].open = requested[i]]
        PROVE  ReportMoves(h)
    <3> DEFINE g == [report[h] EXCEPT !.at = "update", !.open = requested[i]]
    <3>1. requested[i] \in Requests /\ ~completed[requested[i]]
      BY <1>t DEF Diag!OpenRequests, Diag!TableType
    <3>2. /\ g \in Diag!Reports /\ g.at = "update" /\ g.open = requested[i]
          /\ g.status = report[h].status
      BY <2>2, <3>1 DEF Diag!Reports
    <3>3. report' = [report EXCEPT ![h] = g]
      BY <2>3
    <3> HIDE DEF g
    <3> QED
      BY <1>t, <2>1, <2>2, <3>1, <3>2, <3>3, QuietReport
  <2> QED
    BY <1>1, <1>t, <1>4, <2>1, <2>3 DEF Diag!FindOpen
<1>5. CASE Diag!UpdateRequest(h)
  <2>1. PICK q \in Requests, s \in Diag!Statuses :
          q = report[h].open /\ s = report[h].status /\ s # "Idle"
    BY <1>t, <1>5, ReportFields DEF Diag!UpdateRequest, EndInv, ReportIsNotIdle
  <2>2. /\ diagStatus' = [diagStatus EXCEPT ![q] = s]
        /\ completed' = [completed EXCEPT ![q] = s \in Diag!Final]
        /\ Diag!Finish(h) /\ Diag!HandlerAt(h, "update")
        /\ UNCHANGED <<pc, settled, result, requested, diagnosticsStatus>>
    BY <1>5, <2>1 DEF Diag!UpdateRequest, Diag!command
  <2>3. Diag!TableType'
    BY <1>t, <2>2 DEF Diag!TableType
  <2>4. /\ report' \in [Slots -> Diag!Reports \cup {Diag!Idle}]
        /\ report'[h] = Diag!Idle
        /\ \A i \in Slots \ {h} : report'[i] = report[i]
    BY <1>t, <2>2 DEF Diag!TypeOK, Diag!Finish
  <2>5. \A p \in Requests :
          \/ diagStatus'[p] = diagStatus[p] /\ completed'[p] = completed[p]
          \/ p = q /\ diagStatus'[p] # "Idle"
    BY <1>t, <2>1, <2>2 DEF Diag!TableType
  <2> QED
    BY <2>1, <2>2, <2>3, <2>4, <2>5 DEF ReportMoves
<1>6. CASE Diag!QueryFails(h)
  BY <1>t, <1>1, <1>6 DEF Diag!QueryFails, Diag!tables, Diag!command
<1> QED
  BY <1>2, <1>3, <1>4, <1>5, <1>6 DEF Diag!Handler

(* A request that ends while a report has it in hand is noted.              *)
Noted ==
  overtaken' = overtaken
    \cup {r \in Requests : ~completed[r] /\ completed'[r] /\ Diag!InHand(r)'}

LEMMA ClosedInHandStep ==
  ASSUME EndInv, Noted,
         \A h \in Slots : Diag!HandlerAt(h, "update")' =>
           /\ report'[h].open \in Requests
           /\ report'[h] = report[h] \/ ~completed[report'[h].open]
  PROVE  ClosedInHand'
<1> SUFFICES ASSUME NEW h \in Slots, Diag!HandlerAt(h, "update")', completed'[report'[h].open]
             PROVE  report'[h].open \in overtaken'
  BY DEF ClosedInHand
<1>1. CASE completed[report'[h].open]
  BY <1>1 DEF EndInv, ClosedInHand, Diag!HandlerAt, Noted
<1>2. CASE ~completed[report'[h].open]
  BY <1>2 DEF Diag!InHand, Diag!HandlerAt, Noted
<1> QED
  BY <1>1, <1>2

LEMMA SenderEnd ==
  ASSUME EndInv, Noted, NEW r \in Requests, SenderMoves(r), diagFaults' \in 0 .. MaxFaults
  PROVE  EndInv' /\ Diag!StepKeepsEnds
<1>1. \A h \in Slots : Diag!HandlerAt(h, "update")' =>
        report'[h] = report[h] /\ report'[h].open \in Requests
  BY DEF SenderMoves, EndInv, Diag!TypeOK, Diag!HandlerAt
<1>2. ClosedInHand'
  BY <1>1, ClosedInHandStep
<1>3. Diag!TypeOK'
  BY DEF SenderMoves, EndInv, Diag!TypeOK, Noted
<1>4. SettledFirst' /\ ReportIsNotIdle' /\ Diag!StepKeepsEnds
  BY DEF SenderMoves, EndInv, ReportIsNotIdle, Diag!StepKeepsEnds
<1> QED
  BY <1>2, <1>3, <1>4 DEF EndInv

LEMMA ReportEnd ==
  ASSUME EndInv, Noted, NEW h \in Slots, ReportMoves(h), diagFaults' \in 0 .. MaxFaults
  PROVE  EndInv' /\ Diag!StepKeepsEnds
<1>1. \A i \in Slots : Diag!HandlerAt(i, "update")' =>
        /\ report'[i].open \in Requests
        /\ report'[i] = report[i] \/ ~completed[report'[i].open]
  BY DEF ReportMoves, EndInv, Diag!TypeOK, Diag!HandlerAt
<1>2. ClosedInHand'
  BY <1>1, ClosedInHandStep
<1>3. Diag!TypeOK'
  BY <1>1 DEF ReportMoves, EndInv, Diag!TypeOK, Diag!HandlerAt, Noted
<1>4. SettledFirst' /\ ReportIsNotIdle'
  BY DEF ReportMoves, EndInv, SettledFirst, ReportIsNotIdle
<1>5. Diag!StepKeepsEnds
  BY DEF ReportMoves, EndInv, ClosedInHand, Diag!StepKeepsEnds
<1> QED
  BY <1>2, <1>3, <1>4, <1>5 DEF EndInv

LEMMA EndStep ==
  EndInv /\ [Diag!Next]_(Diag!vars) => EndInv' /\ [Diag!StepKeepsEnds]_diagVars
<1> SUFFICES ASSUME EndInv, [Diag!Next]_(Diag!vars)
             PROVE  EndInv' /\ [Diag!StepKeepsEnds]_diagVars
  OBVIOUS
<1>t. Diag!TypeOK /\ Diag!TableType
  BY DEF EndInv, Diag!TypeOK
<1>1. CASE UNCHANGED Diag!vars
  <2>1. UNCHANGED diagVars
    BY <1>1 DEF Diag!vars, Diag!tables, Diag!command, diagVars
  <2>2. Diag!TypeOK'
    BY <1>t, <2>1 DEF diagVars, Diag!TypeOK, Diag!TableType
  <2>3. SettledFirst' /\ ReportIsNotIdle' /\ ClosedInHand'
    BY <2>1 DEF diagVars, EndInv, SettledFirst, ReportIsNotIdle, ClosedInHand, Diag!HandlerAt
  <2> QED
    BY <2>1, <2>2, <2>3 DEF EndInv
<1>2. CASE Diag!Next
  <2>0. Noted /\ diagFaults' \in 0 .. MaxFaults /\ Diag!Step
    BY <1>t, <1>2, StepFaults, FaultsInRange DEF Diag!Next, Noted
  <2>1. ASSUME NEW r \in Requests, Diag!Sender(r) PROVE EndInv' /\ Diag!StepKeepsEnds
    BY <2>0, <2>1, SenderType, SenderEnd
  <2>2. ASSUME NEW h \in Slots, Diag!Handler(h) PROVE EndInv' /\ Diag!StepKeepsEnds
    BY <2>0, <2>2, HandlerType, ReportEnd
  <2>3. CASE Diag!Sweep
    <3>1. UNCHANGED <<requested, diagStatus, completed, pc, settled, diagnosticsStatus,
                      report, diagFaults>>
      BY <2>3 DEF Diag!Sweep, Diag!command
    <3>2. Diag!TableType'
      BY <1>t, <2>3, <3>1 DEF Diag!Sweep, Diag!TableType, Diag!Results
    <3>3. Diag!TypeOK'
      BY <1>t, <2>0, <3>1, <3>2 DEF Diag!TypeOK, Noted
    <3>4. \A h \in Slots : Diag!HandlerAt(h, "update")' =>
            report'[h] = report[h] /\ report'[h].open \in Requests
      BY <1>t, <3>1 DEF Diag!TypeOK, Diag!HandlerAt
    <3>5. ClosedInHand' /\ SettledFirst' /\ ReportIsNotIdle' /\ Diag!StepKeepsEnds
      BY <2>0, <3>1, <3>4, ClosedInHandStep
      DEF EndInv, SettledFirst, ReportIsNotIdle, Diag!StepKeepsEnds
    <3> QED
      BY <3>3, <3>5 DEF EndInv
  <2>4. CASE Diag!Crash
    <3>1. /\ UNCHANGED <<requested, diagStatus, completed, result, settled, diagnosticsStatus>>
          /\ \A h \in Slots : report'[h] = Diag!Idle
          /\ report' \in [Slots -> {Diag!Idle}]
          /\ pc' = [r \in Requests |-> IF pc[r] \in Diag!InMemory THEN "dead" ELSE pc[r]]
      BY <2>4 DEF Diag!Crash, Diag!tables
    <3>2. Diag!TableType'
      BY <1>t, <3>1 DEF Diag!TableType
    <3>3. pc' \in [Requests -> Diag!Points] /\ SettledFirst'
      BY <1>t, <3>1 DEF Diag!TypeOK, Diag!Points, EndInv, SettledFirst
    <3>4. Diag!TypeOK'
      BY <1>t, <2>0, <3>1, <3>2, <3>3 DEF Diag!TypeOK, Noted
    <3>5. ClosedInHand' /\ ReportIsNotIdle' /\ Diag!StepKeepsEnds
      BY <3>1 DEF ClosedInHand, ReportIsNotIdle, Diag!HandlerAt, Diag!StepKeepsEnds
    <3> QED
      BY <3>3, <3>4, <3>5 DEF EndInv
  <2> QED
    BY <2>0, <2>1, <2>2, <2>3, <2>4 DEF Diag!Step
<1> QED
  BY <1>1, <1>2

(* A request that ended stays as it ended, for any number of requests and   *)
(* reports and whatever fails: only a report that had found it open         *)
(* (diagnosticsStatusNotification.handler.ts:45-64) can reopen it.          *)
THEOREM EndsKept == Diag!Spec => EndIsKept
BY EndInit, EndStep, PTL DEF Diag!Spec, EndIsKept

(* While nothing has failed, a call that is under way has its row, one that *)
(* is to be closed has its failure recorded, and a request closed without a *)
(* report is one whose call is over.                                        *)
Recorded(r) ==
  /\ pc[r] # "new" => result[r] # "absent"
  /\ pc[r] = "close" => result[r] \in {"error", "timeout"}
  /\ completed[r] /\ diagStatus[r] = "Idle" =>
       pc[r] = "returned" /\ result[r] \in {"error", "timeout"}
  /\ pc[r] = "returned" /\ settled[r] # "completed" => completed[r] \/ r \in overtaken

FailureIsRecorded == diagFaults = 0 => \A r \in Requests : Recorded(r)

LEMMA RecordedInit == Diag!Init => FailureIsRecorded
BY DEF Diag!Init, FailureIsRecorded, Recorded

LEMMA SenderRecords ==
  ASSUME EndInv, Noted, NEW r \in Requests, Diag!Sender(r), ~Diag!CostsFault,
         \A q \in Requests : Recorded(q)
  PROVE  \A q \in Requests : Recorded(q)'
<1> SUFFICES ASSUME NEW q \in Requests PROVE Recorded(q)'
  OBVIOUS
<1>t. /\ pc \in [Requests -> Diag!Points]
      /\ settled \in [Requests -> Diag!Results \cup {"none"}]
      /\ result \in [Requests -> Diag!Results \cup {"absent", "pending"}]
      /\ completed \in [Requests -> BOOLEAN]
      /\ SettledFirst /\ Recorded(q) /\ Recorded(r)
      /\ q \in overtaken => q \in overtaken'
  BY DEF EndInv, Diag!TypeOK, Diag!TableType, Noted
<1>0. UNCHANGED diagStatus
  BY SenderType DEF SenderMoves
<1>1. CASE Diag!Begin(r)
  BY <1>t, <1>0, <1>1 DEF Diag!Begin, Diag!SetResult, Diag!Goto, Recorded
<1>2. ASSUME NEW s \in Diag!Results, Diag!Settle(r, s) PROVE Recorded(q)'
  BY <1>t, <1>0, <1>2 DEF Diag!Settle, Diag!Goto, Diag!tables, Recorded
<1>3. CASE Diag!RecordAnswer(r)
  BY <1>t, <1>0, <1>3 DEF Diag!RecordAnswer, Diag!SetResult, Diag!Goto, Recorded
<1>4. CASE Diag!RecordFailure(r)
  <2>1. settled[r] \in {"error", "timeout"}
    BY <1>t, <1>4 DEF Diag!RecordFailure, SettledFirst, Diag!Results
  <2> QED
    BY <1>t, <1>0, <1>4, <2>1 DEF Diag!RecordFailure, Diag!SetResult, Diag!Goto, Recorded
<1>5. CASE Diag!CloseRequest(r)
  BY <1>t, <1>0, <1>5 DEF Diag!CloseRequest, Diag!Complete, Diag!Goto, Recorded
<1>6. ~Diag!BeginWithoutRows(r)
  BY DEF Diag!BeginWithoutRows
<1>7. ~(Diag!RecordAnswerFails(r) \/ Diag!RecordFailureFails(r) \/ Diag!CloseRequestFails(r))
  BY <1>t DEF Diag!RecordAnswerFails, Diag!RecordFailureFails, Diag!CloseRequestFails,
              Recorded
<1> QED
  BY <1>1, <1>2, <1>3, <1>4, <1>5, <1>6, <1>7 DEF Diag!Sender

LEMMA RecordedStep ==
  EndInv /\ FailureIsRecorded /\ [Diag!Next]_(Diag!vars) => FailureIsRecorded'
<1> SUFFICES ASSUME EndInv, FailureIsRecorded, [Diag!Next]_(Diag!vars), diagFaults' = 0
             PROVE  \A q \in Requests : Recorded(q)'
  BY DEF FailureIsRecorded
<1>t. /\ diagFaults \in 0 .. MaxFaults
      /\ result \in [Requests -> Diag!Results \cup {"absent", "pending"}]
  BY DEF EndInv, Diag!TypeOK, Diag!TableType
<1>1. CASE UNCHANGED Diag!vars
  BY <1>1 DEF Diag!vars, Diag!tables, Diag!command, FailureIsRecorded, Recorded
<1>2. CASE Diag!Next
  <2>1. Diag!Step /\ Noted
    BY <1>2 DEF Diag!Next, Noted
  <2>2. ~Diag!CostsFault
    BY <1>t, FaultsAssumption DEF Diag!CostsFault
  <2>3. \A q \in Requests : Recorded(q)
    BY <2>1, <2>2, StepFaults DEF FailureIsRecorded
  <2>4. ASSUME NEW r \in Requests, Diag!Sender(r)
        PROVE  \A q \in Requests : Recorded(q)'
    BY <2>1, <2>2, <2>3, <2>4, SenderRecords
  <2>5. ASSUME NEW h \in Slots, Diag!Handler(h), NEW q \in Requests
        PROVE  Recorded(q)'
    <3>1. UNCHANGED <<pc, settled, result>>
      BY <2>5, HandlerType DEF ReportMoves
    <3>2. \/ diagStatus'[q] = diagStatus[q] /\ completed'[q] = completed[q]
          \/ Diag!HandlerAt(h, "update") /\ report[h].open = q /\ diagStatus'[q] # "Idle"
      BY <2>5, HandlerType DEF ReportMoves
    <3>3. completed[q] /\ ~completed'[q] => q \in overtaken
      BY <3>2 DEF EndInv, ClosedInHand
    <3> QED
      BY <2>1, <2>3, <3>1, <3>2, <3>3 DEF Recorded, Noted
  <2>6. ASSUME Diag!Sweep, NEW q \in Requests PROVE Recorded(q)'
    <3>1. UNCHANGED <<pc, settled, completed, diagStatus>>
      BY <2>6 DEF Diag!Sweep, Diag!command
    <3>2. \/ result'[q] = result[q]
          \/ result[q] = "pending" /\ result'[q] = "timeout"
      BY <2>6 DEF Diag!Sweep, Diag!StalePending
    <3> QED
      BY <2>1, <2>3, <3>1, <3>2 DEF Recorded, Noted
  <2>7. ~Diag!Crash
    BY <2>2 DEF Diag!Crash
  <2> QED
    BY <2>1, <2>4, <2>5, <2>6, <2>7 DEF Diag!Step
<1> QED
  BY <1>1, <1>2

(* A call that failed is recorded in both tables, for any number of         *)
(* requests and reports, though a statement of its own closes the request   *)
(* (getDiagnostics.command.ts:122-141) and reports and janitors write the   *)
(* same rows.                                                               *)
THEOREM FailuresAreRecorded == Diag!Spec => []FailureIsOnBothTables
<1>1. EndInv /\ FailureIsRecorded => FailureIsOnBothTables
  BY DEF FailureIsRecorded, Recorded, FailureIsOnBothTables, Diag!FailureIsOnBothTables
<1> QED
  BY EndInit, EndStep, RecordedInit, RecordedStep, <1>1, PTL DEF Diag!Spec

------------------------------------------------------------------------------
(* All three, as Records composes them.                                     *)

LEMMA OneStep ==
  [OneNext]_<<part, vars, diagVars, tokenVars>> =>
    [Next]_vars /\ [Diag!Next]_(Diag!vars) /\ [Tokens!Next]_(Tokens!vars)
<1>1. diagVars' = diagVars => Diag!vars' = Diag!vars
  BY DEF diagVars, Diag!vars, Diag!tables, Diag!command
<1>2. tokenVars' = tokenVars => Tokens!vars' = Tokens!vars
  BY DEF tokenVars, Tokens!vars, Tokens!sessionVars
<1> QED
  BY <1>1, <1>2 DEF OneNext

(* What each part is proved to keep, it keeps in the composition.           *)
THEOREM EachPartRuns == OneSpec => Spec /\ Diag!Spec /\ Tokens!Spec
BY OneStep, PTL DEF OneSpec, OneInit, Spec, Diag!Spec, Tokens!Spec

(* The records keep their types, whatever fails and whichever part moves.   *)
THEOREM AllTypesCorrect == OneSpec => []AllTypesOK
<1>1. EndInv /\ CardInv => Diag!TypeOK /\ Tokens!TypeOK
  BY DEF EndInv, CardInv
<1>2. Diag!Spec /\ Tokens!Spec => [](Diag!TypeOK /\ Tokens!TypeOK)
  BY EndInit, EndStep, CardInit, CardStep, <1>1, PTL DEF Diag!Spec, Tokens!Spec
<1> QED
  BY EachPartRuns, TypeCorrect, <1>2, PTL DEF AllTypesOK
=============================================================================
