------------------------------ MODULE Directory ------------------------------
(***************************************************************************)
(* The administrators' directory: operators with their PINs, contact       *)
(* numbers and queue logins (operators.service, contact-numbers.service),  *)
(* the queues and their members (queues.service), and the default trunk    *)
(* (settings.service).  A request reads, checks and writes in separate     *)
(* statements.  A PIN is hashed in the row and kept beside it as text, in  *)
(* a column that every boot of the backend drops and adds again, and in    *)
(* the process.  Names and texts are left out; every queue has one name.   *)
(***************************************************************************)
EXTENDS Naturals, FiniteSets

CONSTANTS Staff,         \* operators' identifiers
          Pins,          \* PINs, positive numbers
          Contacts,      \* contact numbers' identifiers
          StaffQueues,   \* queues' identifiers, which are numbers
          Trunks,        \* trunks' identifiers
          DeskRequests,  \* requests under way at a time
          MaxPinColumns  \* bound: how often the column can still be added

\* A PIN is a text; 0 stands for none.
ASSUME PinAssumption == Pins \subseteq Nat \ {0} /\ Pins # {}

VARIABLES
  staff,       \* operator -> its row: hashed pin and contact, or Vacant
  plainPin,    \* operator -> the text in the pin column
  pinColumn,   \* the column exists
  pinAdds,     \* how often it was added (Postgres counts dropped columns)
  pinCached,   \* pinColumnAvailable
  runtimePins, \* operator -> the text kept by the process
  contactRows, \* contact numbers with a row
  loggedIn,    \* operators with a queue in Redis
  staffReq,    \* request -> what it is doing
  pinsMixed,   \* operators whose PIN two requests have set at once (history)
  slugOf,      \* queue -> its slug, NoSlug without a row
  members,     \* queue -> its rows in queue_operators
  queueReq,    \* request -> what it is doing
  trunkRows,   \* trunks with a row
  trunkSetting, \* the value of default_outbound_trunk_id, or NoRow
  settingReq   \* request -> the trunk it has checked and is about to save

staffVars == <<staff, plainPin, pinColumn, pinAdds, pinCached, runtimePins,
               contactRows, loggedIn, staffReq, pinsMixed>>
queueRows == <<slugOf, members, queueReq>>
settingVars == <<trunkRows, trunkSetting, settingReq>>
deskVars == <<staffVars, queueRows, settingVars>>

NoRow == "none"
NoPin == 0
NoContact == "unlinked"
Vacant == [pin |-> NoPin, contact |-> NoContact]
NoSlug == 0
Free == [pc |-> "idle"]
Hired == {o \in Staff : staff[o] # Vacant}

\* A database with or without operators, just after a boot.
DeskInit ==
  /\ staff \in {[o \in Staff |-> Vacant],
                [o \in Staff |-> [pin |-> CHOOSE p \in Pins : TRUE, contact |-> NoContact]]}
  /\ plainPin = [o \in Staff |-> NoPin] /\ runtimePins = [o \in Staff |-> NoPin]
  /\ pinColumn = TRUE /\ pinAdds = 0 /\ pinCached = "unknown"
  /\ contactRows = {} /\ loggedIn = {} /\ pinsMixed = {}
  /\ staffReq = [r \in DeskRequests |-> Free]
  /\ slugOf = [q \in StaffQueues |-> NoSlug] /\ members = [q \in StaffQueues |-> {}]
  /\ queueReq = [r \in DeskRequests |-> Free]
  /\ trunkRows = Trunks /\ trunkSetting = NoRow
  /\ settingReq = [r \in DeskRequests |-> Free]

(******************************** operators ********************************)

StaffGoto(r, next) == staffReq' = [staffReq EXCEPT ![r] = next]

\* Requests about to set the PIN of o.
Setting(o) == {r \in DeskRequests : staffReq[r].pc \in {"save", "plain", "keep"} /\ staffReq[r].id = o}

\* The contact linked, if any, must have a row.
ensureOperatorLinks(contact) == contact = NoContact \/ contact \in contactRows

\* create and update up to the await of the hash: the row read or made, with
\* the changes asked for.
BeginSave(r, o, row, newPin) ==
  /\ staffReq[r] = Free /\ ensureOperatorLinks(row.contact)
  /\ StaffGoto(r, [pc |-> "save", id |-> o, row |-> row, set |-> newPin])
  /\ pinsMixed' = IF Setting(o) # {} THEN pinsMixed \cup {o} ELSE pinsMixed
  /\ UNCHANGED <<staff, plainPin, pinColumn, pinAdds, pinCached, runtimePins, contactRows, loggedIn>>

createOperator(r) ==
  \E o \in Staff \ Hired, p \in Pins, c \in Contacts \cup {NoContact} :
     BeginSave(r, o, [pin |-> p, contact |-> c], TRUE)

updateOperator(r) ==
  \E o \in Hired :
     \/ \E p \in Pins : BeginSave(r, o, [staff[o] EXCEPT !.pin = p], TRUE)
     \/ \E c \in Contacts \cup {NoContact} : BeginSave(r, o, [staff[o] EXCEPT !.contact = c], FALSE)

\* The row as read is written, also over a row deleted meanwhile; the contact
\* must still be there.
SaveOperator(r) ==
  /\ staffReq[r].pc = "save"
  /\ LET q == staffReq[r] IN
     IF ensureOperatorLinks(q.row.contact)
     THEN /\ staff' = [staff EXCEPT ![q.id] = q.row]
          /\ StaffGoto(r, IF q.set THEN [q EXCEPT !.pc = "plain"] ELSE Free)
     ELSE UNCHANGED staff /\ StaffGoto(r, Free)
  /\ UNCHANGED <<plainPin, pinColumn, pinAdds, pinCached, runtimePins, contactRows, loggedIn, pinsMixed>>

\* What hasPinColumn answers, and then remembers.
hasPinColumn == IF pinCached = "unknown" THEN pinColumn ELSE pinCached = "yes"

\* Faulty variant: the text is stored for new operators only.
storePlainPinOnce(r) ==
  /\ staffReq[r].pc = "plain"
  /\ LET q == staffReq[r] IN
     /\ plainPin' = IF hasPinColumn /\ staff[q.id] # Vacant /\ plainPin[q.id] = NoPin
                    THEN [plainPin EXCEPT ![q.id] = q.row.pin] ELSE plainPin
     /\ StaffGoto(r, [q EXCEPT !.pc = "keep"])
  /\ pinCached' = IF hasPinColumn THEN "yes" ELSE "no"
  /\ UNCHANGED <<staff, pinColumn, pinAdds, runtimePins, contactRows, loggedIn, pinsMixed>>

storePlainPinIfSupported(r) ==
  /\ staffReq[r].pc = "plain"
  /\ LET q == staffReq[r] IN
     /\ plainPin' = IF hasPinColumn /\ staff[q.id] # Vacant
                    THEN [plainPin EXCEPT ![q.id] = q.row.pin] ELSE plainPin
     /\ StaffGoto(r, [q EXCEPT !.pc = "keep"])
  /\ pinCached' = IF hasPinColumn THEN "yes" ELSE "no"
  /\ UNCHANGED <<staff, pinColumn, pinAdds, runtimePins, contactRows, loggedIn, pinsMixed>>

\* runtimePins.set, once the statement before it is done.
KeepPin(r) ==
  /\ staffReq[r].pc = "keep"
  /\ runtimePins' = [runtimePins EXCEPT ![staffReq[r].id] = staffReq[r].row.pin]
  /\ StaffGoto(r, Free)
  /\ UNCHANGED <<staff, plainPin, pinColumn, pinAdds, pinCached, contactRows, loggedIn, pinsMixed>>

\* getPin and the answers of toResponse: a text read from the column is kept
\* in the process.
getPin(r) ==
  \E o \in Hired :
     /\ staffReq[r] = Free /\ pinColumn /\ plainPin[o] # NoPin
     /\ StaffGoto(r, [pc |-> "keep", id |-> o, row |-> [staff[o] EXCEPT !.pin = plainPin[o]], set |-> FALSE])
     /\ pinCached' = "yes"
     /\ pinsMixed' = IF Setting(o) # {} THEN pinsMixed \cup {o} ELSE pinsMixed
     /\ UNCHANGED <<staff, plainPin, pinColumn, pinAdds, runtimePins, contactRows, loggedIn>>

\* remove: the row with its memberships, then the keys in Redis, then the text.
removeOperator(r) ==
  \E o \in Hired :
     /\ staffReq[r] = Free
     /\ staff' = [staff EXCEPT ![o] = Vacant] /\ plainPin' = [plainPin EXCEPT ![o] = NoPin]
     /\ members' = [q \in StaffQueues |-> members[q] \ {o}]
     /\ StaffGoto(r, [pc |-> "redis", id |-> o])
     /\ UNCHANGED <<pinColumn, pinAdds, pinCached, runtimePins, contactRows, loggedIn, pinsMixed, slugOf, queueReq>>

\* An error of Redis is only logged.
cleanupRedis(r) ==
  /\ staffReq[r].pc = "redis"
  /\ \/ loggedIn' = loggedIn \ {staffReq[r].id}
     \/ UNCHANGED loggedIn
  /\ runtimePins' = [runtimePins EXCEPT ![staffReq[r].id] = NoPin]
  /\ StaffGoto(r, Free)
  /\ UNCHANGED <<staff, plainPin, pinColumn, pinAdds, pinCached, contactRows, pinsMixed>>

\* The login node, of an operator it has just found in the table.
OperatorLogsIn ==
  \E o \in Hired \ loggedIn :
     /\ loggedIn' = loggedIn \cup {o}
     /\ UNCHANGED <<staff, plainPin, pinColumn, pinAdds, pinCached, runtimePins, contactRows, staffReq, pinsMixed>>

createContact ==
  \E c \in Contacts \ contactRows :
     /\ contactRows' = contactRows \cup {c}
     /\ UNCHANGED <<staff, plainPin, pinColumn, pinAdds, pinCached, runtimePins, loggedIn, staffReq, pinsMixed>>

\* ON DELETE SET NULL.
removeContact ==
  \E c \in contactRows :
     /\ contactRows' = contactRows \ {c}
     /\ staff' = [o \in Staff |-> IF o \in Hired /\ staff[o].contact = c
                                  THEN [staff[o] EXCEPT !.contact = NoContact] ELSE staff[o]]
     /\ UNCHANGED <<plainPin, pinColumn, pinAdds, pinCached, runtimePins, loggedIn, staffReq, pinsMixed>>

\* A boot replays every migration: the pin column is dropped and, while the
\* table has columns left, added again.
runSqlMigrations ==
  /\ pinAdds < MaxPinColumns
  /\ pinAdds' = pinAdds + 1 /\ pinColumn' = (pinAdds + 1 < MaxPinColumns)
  /\ plainPin' = [o \in Staff |-> NoPin]
  /\ runtimePins' = [o \in Staff |-> NoPin] /\ pinCached' = "unknown"
  /\ staffReq' = [r \in DeskRequests |-> Free] /\ pinsMixed' = {}
  /\ queueReq' = [r \in DeskRequests |-> Free]
  /\ settingReq' = [r \in DeskRequests |-> Free]
  /\ UNCHANGED <<staff, contactRows, loggedIn, slugOf, members, trunkRows, trunkSetting>>

OperatorNext ==
  \/ /\ \/ \E r \in DeskRequests :
              \/ createOperator(r) \/ updateOperator(r) \/ SaveOperator(r)
              \/ storePlainPinIfSupported(r) \/ KeepPin(r) \/ getPin(r) \/ cleanupRedis(r)
        \/ OperatorLogsIn \/ createContact \/ removeContact
     /\ UNCHANGED queueRows
     /\ UNCHANGED settingVars
  \/ (\E r \in DeskRequests : removeOperator(r)) /\ UNCHANGED settingVars
  \/ runSqlMigrations

(********************************* queues **********************************)

QueueGoto(r, next) == queueReq' = [queueReq EXCEPT ![r] = next]

\* The first free of the name, the name and 1, the name and 2 ...; a queue
\* may keep its own.
ensureUniqueSlug(q) ==
  LET taken == {slugOf[p] : p \in StaffQueues \ {q}}
      free == {n \in 1..(Cardinality(StaffQueues) + 1) : n \notin taken}
  IN CHOOSE n \in free : \A m \in free : n <= m

\* create and update of a queue, up to the slug chosen.
BeginQueue(r) ==
  \E q \in StaffQueues, ops \in SUBSET Staff :
     /\ queueReq[r] = Free
     /\ QueueGoto(r, [pc |-> "save", id |-> q, slug |-> ensureUniqueSlug(q), ops |-> ops])
     /\ UNCHANGED <<slugOf, members>>

\* The slug is UNIQUE: a slug taken meanwhile fails the request.
SaveQueue(r) ==
  /\ queueReq[r].pc = "save"
  /\ LET q == queueReq[r] IN
     IF \E p \in StaffQueues \ {q.id} : slugOf[p] = q.slug
     THEN QueueGoto(r, Free) /\ UNCHANGED slugOf
     ELSE slugOf' = [slugOf EXCEPT ![q.id] = q.slug] /\ QueueGoto(r, [q EXCEPT !.pc = "clear"])
  /\ UNCHANGED members

\* syncOperators: DELETE, then INSERT, in no transaction; a member or queue
\* deleted meanwhile fails the INSERT.
ClearMembers(r) ==
  /\ queueReq[r].pc = "clear"
  /\ members' = [members EXCEPT ![queueReq[r].id] = {}]
  /\ QueueGoto(r, [queueReq[r] EXCEPT !.pc = "insert"])
  /\ UNCHANGED slugOf

InsertMembers(r) ==
  /\ queueReq[r].pc = "insert"
  /\ LET q == queueReq[r] IN
     members' = IF q.ops \subseteq Hired /\ slugOf[q.id] # NoSlug
                THEN [members EXCEPT ![q.id] = @ \cup q.ops] ELSE members
  /\ QueueGoto(r, Free)
  /\ UNCHANGED slugOf

\* remove; the memberships go with the row.
removeQueue ==
  \E q \in StaffQueues :
     /\ slugOf[q] # NoSlug
     /\ slugOf' = [slugOf EXCEPT ![q] = NoSlug] /\ members' = [members EXCEPT ![q] = {}]
     /\ UNCHANGED queueReq

QueueDeskNext ==
  \/ /\ \/ \E r \in DeskRequests :
              BeginQueue(r) \/ SaveQueue(r) \/ ClearMembers(r) \/ InsertMembers(r)
        \/ removeQueue
     /\ UNCHANGED <<staffVars, settingVars>>
  \/ (\E r \in DeskRequests : removeOperator(r)) /\ UNCHANGED settingVars

(******************************** settings *********************************)

\* Defaults are inserted where the key has no row.
seedDefaults ==
  /\ trunkSetting = NoRow /\ trunkSetting' = "null"
  /\ UNCHANGED <<trunkRows, settingReq>>

\* set: the defaults are there; the value is checked, then saved.
normalizeValue(r) ==
  \E t \in trunkRows \cup {"null"} :
     /\ trunkSetting # NoRow /\ settingReq[r] = Free
     /\ settingReq' = [settingReq EXCEPT ![r] = [pc |-> "save", trunk |-> t]]
     /\ UNCHANGED <<trunkRows, trunkSetting>>

setSetting(r) ==
  /\ settingReq[r].pc = "save"
  /\ trunkSetting' = settingReq[r].trunk
  /\ settingReq' = [settingReq EXCEPT ![r] = Free]
  /\ UNCHANGED trunkRows

\* A trunk's row goes; the setting, a text, keeps its number.
TrunkRemoved ==
  \E t \in trunkRows : trunkRows' = trunkRows \ {t} /\ UNCHANGED <<trunkSetting, settingReq>>

\* What direct outbound calls use: a trunk that is there, or none.
getDefaultTrunk == IF trunkSetting \in trunkRows THEN {trunkSetting} ELSE {}

SettingNext ==
  /\ \/ seedDefaults \/ TrunkRemoved
     \/ \E r \in DeskRequests : normalizeValue(r) \/ setSetting(r)
  /\ UNCHANGED <<staffVars, queueRows>>

-----------------------------------------------------------------------------
(* The PIN an administrator is shown, from the column or from the process, *)
(* is the one the operator can log in with: however creations, updates,    *)
(* removals, reads and boots are ordered, a text never outlives the hash   *)
(* it belongs to, unless two requests dealt with one operator's PIN at a   *)
(* time.  Boots keep this true by losing every text.                       *)
ShownPinWorks ==
  \A o \in Hired \ pinsMixed :
     Setting(o) = {} =>
        /\ plainPin[o] \in {NoPin, staff[o].pin}
        /\ pinColumn /\ plainPin[o] = NoPin => runtimePins[o] \in {NoPin, staff[o].pin}
=============================================================================
