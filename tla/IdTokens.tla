------------------------------- MODULE IdTokens -------------------------------
(***************************************************************************)
(* Cards: rows of the table id_token, which operators register and delete  *)
(* (internal-api/routes/idTokens.routes.ts), and the sessions that refer   *)
(* to them (startTransaction.handler.ts).  The delete looks for open       *)
(* sessions in one query and deletes in another; the foreign key of        *)
(* transaction.idTag is ON DELETE SET NULL and refuses nothing.            *)
(***************************************************************************)

CONSTANTS
  Tags,      \* numbers of cards
  Sessions,  \* rows of the table transaction ever created: bounds the model
  Removals,  \* DELETE requests ever made: bounds the model
  NoTag      \* null

VARIABLES
  tokens,   \* table id_token: the cards that are registered
  status,   \* table transaction: status
  idTag,    \* table transaction: idTag
  removal,  \* each DELETE request: the await it is at and its card
  found,    \* sessions a StartTransaction has read as pending
  card,     \* history: the card a session was opened with
  late      \* history: sessions that opened when a check had not seen them so

sessionVars == <<status, idTag, found, card, late>>
vars == <<tokens, sessionVars, removal>>

Statuses == {"none", "Pending", "Active", "ended"}
Open     == {"Pending", "Active"}
New      == [at |-> "new"]
Done     == [at |-> "done"]

TypeOK ==
  /\ tokens \in SUBSET Tags
  /\ status \in [Sessions -> Statuses]
  /\ idTag \in [Sessions -> Tags \cup {NoTag}]
  /\ removal \in [Removals -> {New, Done} \cup [at : {"find", "check", "delete"}, tag : Tags]]
  /\ found \in SUBSET Sessions
  /\ card \in [Sessions -> Tags \cup {NoTag}]
  /\ late \in SUBSET Sessions

Init ==
  /\ tokens = {}
  /\ status = [s \in Sessions |-> "none"]
  /\ idTag = [s \in Sessions |-> NoTag]
  /\ removal = [r \in Removals |-> New]
  /\ found = {}
  /\ card = [s \in Sessions |-> NoTag]
  /\ late = {}

------------------------------------------------------------------------------
(* POST; a number is registered once.                                       *)
Register(t) ==
  /\ t \notin tokens
  /\ tokens' = tokens \cup {t}
  /\ UNCHANGED <<sessionVars, removal>>

AboutToDelete(t) == \E r \in Removals : removal[r] = [at |-> "delete", tag |-> t]

(* A row of a session is inserted; the foreign key wants its card.          *)
OpenSession(s, t, st) ==
  /\ status[s] = "none"
  /\ t \in tokens \cup {NoTag}
  /\ status' = [status EXCEPT ![s] = st]
  /\ idTag' = [idTag EXCEPT ![s] = t]
  /\ card' = [card EXCEPT ![s] = t]
  /\ late' = IF AboutToDelete(t) THEN late \cup {s} ELSE late
  /\ UNCHANGED <<tokens, found, removal>>

(* StartTransaction with a card; whether the card is blocked was a matter   *)
(* of Authorize and is not asked again.                                     *)
StartWithCard(s, t) == t # NoTag /\ OpenSession(s, t, "Active")

(* External: the Portal opens a session, for a card or for its app.         *)
CreatePending(s, t) == OpenSession(s, t, "Pending")

(* StartTransaction of a pending session: findFirst, and an update by id.   *)
FindPending(s) ==
  /\ status[s] = "Pending"
  /\ found' = found \cup {s}
  /\ UNCHANGED <<tokens, status, idTag, card, late, removal>>

Activate(s) ==
  /\ s \in found
  /\ found' = found \ {s}
  /\ status' = [status EXCEPT ![s] = "Active"]
  /\ late' = IF status[s] = "ended" THEN late \cup {s} ELSE late
  /\ UNCHANGED <<tokens, idTag, card, removal>>

(* It is stopped, timed out or swept.                                       *)
EndSession(s) ==
  /\ status[s] \in Open
  /\ status' = [status EXCEPT ![s] = "ended"]
  /\ UNCHANGED <<tokens, idTag, found, card, late, removal>>

------------------------------------------------------------------------------
(* DELETE                                                                   *)

At(r, at)   == removal[r] \in [at : {at}, tag : Tags]
Goto(r, at) == removal' = [removal EXCEPT ![r].at = at]
Return(r)   == removal' = [removal EXCEPT ![r] = Done]

Request(r, t) ==
  /\ removal[r] = New
  /\ removal' = [removal EXCEPT ![r] = [at |-> "find", tag |-> t]]
  /\ UNCHANGED <<tokens, sessionVars>>

(* 404                                                                      *)
FindToken(r) ==
  /\ At(r, "find")
  /\ IF removal[r].tag \in tokens THEN Goto(r, "check") ELSE Return(r)
  /\ UNCHANGED <<tokens, sessionVars>>

(* Faulty variant of OpenSessions, for mutation testing.                    *)
ActiveSessions(t) == {s \in Sessions : idTag[s] = t /\ status[s] = "Active"}

OpenSessions(t) == {s \in Sessions : idTag[s] = t /\ status[s] \in Open}

(* 409 while a session of the card is open.                                 *)
FindOpenSession(r) ==
  /\ At(r, "check")
  /\ IF OpenSessions(removal[r].tag) = {} THEN Goto(r, "delete") ELSE Return(r)
  /\ UNCHANGED <<tokens, sessionVars>>

(* The database takes the card out of every session, ended ones as well. A  *)
(* card that is gone by now is an error of the query.                       *)
DeleteToken(r) ==
  LET t == removal[r].tag IN
  /\ At(r, "delete")
  /\ tokens' = tokens \ {t}
  /\ idTag' = [s \in Sessions |-> IF idTag[s] = t THEN NoTag ELSE idTag[s]]
  /\ Return(r)
  /\ UNCHANGED <<status, found, card, late>>

(* A query fails, or the process dies: the request ends where it is.        *)
Abandon(r) ==
  /\ removal[r] \notin {New, Done}
  /\ Return(r)
  /\ UNCHANGED <<tokens, sessionVars>>

Finished ==
  /\ \A s \in Sessions : status[s] = "ended"
  /\ \A r \in Removals : removal[r] = Done
  /\ tokens = Tags
  /\ UNCHANGED vars

Next ==
  \/ \E t \in Tags : Register(t)
  \/ \E s \in Sessions :
       \/ \E t \in Tags : StartWithCard(s, t)
       \/ \E t \in Tags \cup {NoTag} : CreatePending(s, t)
       \/ FindPending(s) \/ Activate(s) \/ EndSession(s)
  \/ \E r \in Removals :
       \/ \E t \in Tags : Request(r, t)
       \/ FindToken(r) \/ FindOpenSession(r) \/ DeleteToken(r) \/ Abandon(r)
  \/ Finished

Spec == Init /\ [][Next]_vars

------------------------------------------------------------------------------
(* Properties                                                               *)

(* An open session keeps the card it was opened with: the database itself   *)
(* would take the card from it, and only the check of the route prevents    *)
(* that.  It cannot for a session that opens between check and delete, nor  *)
(* for one that StartTransaction revives after it had ended.                *)
OpenSessionsKeepTheirCard ==
  \A s \in Sessions : status[s] \in Open /\ s \notin late => idTag[s] = card[s]
==============================================================================
