---------------------------- MODULE CampaignDesk ----------------------------
(***************************************************************************)
(* The life of a campaign before it is dialed (campaigns.service): its     *)
(* creation, edits, contact uploads, scheduling and removal by             *)
(* administrators whose requests read the row, check it and write it in    *)
(* separate statements.  What happens from "scheduled" on is module        *)
(* CampaignSystem's; here a due campaign simply runs and ends.  Phone      *)
(* numbers are already in the normal form normalizePhoneNumber gives them. *)
(***************************************************************************)
EXTENDS Naturals, FiniteSets

CONSTANTS PhoneNumbers,   \* numbers a CSV file may hold
          CampaignAdmins  \* requests under way at a time

VARIABLES cmp,         \* the campaign's row, or NoCampaign
          phones,      \* the rows of campaign_contacts: the number, and the
                       \* request that inserted it, which does so only once
          cmpReq,      \* request -> what it is doing
          uploadCut    \* an upload has ended between its rows and its count (history)

campaignDeskVars == <<cmp, phones, cmpReq, uploadCut>>

NoCampaign == [status |-> "none", flow |-> FALSE, trunk |-> FALSE, due |-> "none", total |-> 0]
AtRest == [pc |-> "rest"]
Stored == cmp.status # "none"
ContactCount == Cardinality(phones)

CampaignDeskInit ==
  /\ cmp = NoCampaign /\ phones = {}
  /\ cmpReq = [r \in CampaignAdmins |-> AtRest] /\ uploadCut = FALSE

CampaignGoto(r, next) == cmpReq' = [cmpReq EXCEPT ![r] = next]

\* What normalizePayload lets through, of the fields that matter here.
normalizePayload == [flow : BOOLEAN, trunk : BOOLEAN, due : {"none", "future"}]

\* create inserts a draft, under a number no request knows; without contacts it is never scheduled at once.
createCampaign ==
  \E p \in normalizePayload :
     /\ ~Stored /\ \A r \in CampaignAdmins : cmpReq[r] = AtRest
     /\ cmp' = [status |-> "draft", flow |-> p.flow, trunk |-> p.trunk, due |-> p.due, total |-> 0]
     /\ uploadCut' = FALSE
     /\ UNCHANGED <<phones, cmpReq>>

\* update: draft and scheduled campaigns may be edited, also to lose what
\* scheduling required.
updateCampaign(r) ==
  \E p \in normalizePayload :
     /\ cmpReq[r] = AtRest /\ cmp.status \in {"draft", "scheduled"}
     /\ CampaignGoto(r, [pc |-> "edit", with |-> p])
     /\ UNCHANGED <<cmp, phones, uploadCut>>

WriteEdit(r) ==
  /\ cmpReq[r].pc = "edit"
  /\ LET p == cmpReq[r].with IN
     cmp' = IF Stored THEN [cmp EXCEPT !.flow = p.flow, !.trunk = p.trunk, !.due = p.due] ELSE cmp
  /\ CampaignGoto(r, [pc |-> "auto"])
  /\ UNCHANGED <<phones, uploadCut>>

\* A flow, a trunk, a time to come and contacts.
validateSchedulingRequirements == cmp.flow /\ cmp.trunk /\ cmp.due = "future" /\ cmp.total > 0

\* tryAutoSchedule reads, and writes where the row is still a draft.
tryAutoSchedule(r) ==
  \/ /\ cmpReq[r].pc = "auto"
     /\ CampaignGoto(r, IF cmp.status = "draft" /\ validateSchedulingRequirements
                        THEN [pc |-> "autowrite"] ELSE AtRest)
     /\ UNCHANGED <<cmp, phones, uploadCut>>
  \/ /\ cmpReq[r].pc = "autowrite"
     /\ cmp' = IF cmp.status = "draft" THEN [cmp EXCEPT !.status = "scheduled"] ELSE cmp
     /\ CampaignGoto(r, AtRest)
     /\ UNCHANGED <<phones, uploadCut>>

\* schedule reads a draft, and writes without asking again.
scheduleCampaign(r) ==
  \/ /\ cmpReq[r] = AtRest /\ cmp.status = "draft" /\ validateSchedulingRequirements
     /\ CampaignGoto(r, [pc |-> "schedule"])
     /\ UNCHANGED <<cmp, phones, uploadCut>>
  \/ /\ cmpReq[r].pc = "schedule"
     /\ cmp' = IF Stored THEN [cmp EXCEPT !.status = "scheduled"] ELSE cmp
     /\ CampaignGoto(r, AtRest)
     /\ UNCHANGED <<phones, uploadCut>>

\* remove: the contacts go with the row.
removeCampaign(r) ==
  \/ /\ cmpReq[r] = AtRest /\ cmp.status \in {"draft", "cancelled", "completed"}
     /\ CampaignGoto(r, [pc |-> "delete"])
     /\ UNCHANGED <<cmp, phones, uploadCut>>
  \/ /\ cmpReq[r].pc = "delete"
     /\ cmp' = NoCampaign /\ phones' = {}
     /\ CampaignGoto(r, AtRest)
     /\ UNCHANGED uploadCut

\* uploadContacts reads the numbers there are; the file's rows that are new
\* are inserted one statement at a time.  Any status will do.
uploadContacts(r) ==
  \E file \in SUBSET PhoneNumbers :
     /\ cmpReq[r] = AtRest /\ Stored
     /\ CampaignGoto(r, [pc |-> "import", rows |-> {n \in file : \A c \in phones : c[1] # n}])
     /\ UNCHANGED <<cmp, phones, uploadCut>>

\* A campaign removed meanwhile refuses the row and ends the upload.
ImportRow(r) ==
  /\ cmpReq[r].pc = "import"
  /\ \E n \in cmpReq[r].rows :
        IF Stored
        THEN /\ phones' = phones \cup {<<n, r>>}
             /\ CampaignGoto(r, [cmpReq[r] EXCEPT !.rows = @ \ {n}])
        ELSE CampaignGoto(r, AtRest) /\ UNCHANGED phones
  /\ UNCHANGED <<cmp, uploadCut>>

\* Faulty variant: a number imported twice is counted once.
CountNumbers(r) ==
  /\ cmpReq[r].pc = "import" /\ cmpReq[r].rows = {}
  /\ cmp' = IF Stored THEN [cmp EXCEPT !.total = Cardinality({c[1] : c \in phones})] ELSE cmp
  /\ CampaignGoto(r, AtRest)
  /\ UNCHANGED <<phones, uploadCut>>

CountContacts(r) ==
  /\ cmpReq[r].pc = "import" /\ cmpReq[r].rows = {}
  /\ cmp' = IF Stored THEN [cmp EXCEPT !.total = ContactCount] ELSE cmp
  /\ CampaignGoto(r, AtRest)
  /\ UNCHANGED <<phones, uploadCut>>

\* The backend stops, or a statement fails: what was written stays.
RequestCut(r) ==
  /\ cmpReq[r] # AtRest
  /\ uploadCut' = (uploadCut \/ cmpReq[r].pc = "import")
  /\ CampaignGoto(r, AtRest)
  /\ UNCHANGED <<cmp, phones>>

\* The scheduled time comes; startDueCampaigns and the dialer take over; a
\* flow or a trunk is deleted, and the row loses its link.
CampaignMoves ==
  /\ \/ cmp.due = "future" /\ cmp' = [cmp EXCEPT !.due = "past"]
     \/ cmp.status = "scheduled" /\ cmp.due = "past" /\ cmp' = [cmp EXCEPT !.status = "running"]
     \/ /\ cmp.status \in {"scheduled", "running"}
        /\ \E s \in {"completed", "cancelled"} : cmp' = [cmp EXCEPT !.status = s]
     \/ Stored /\ cmp' \in {[cmp EXCEPT !.flow = FALSE], [cmp EXCEPT !.trunk = FALSE]}
  /\ UNCHANGED <<phones, cmpReq, uploadCut>>

CampaignDeskNext ==
  \/ createCampaign \/ CampaignMoves
  \/ \E r \in CampaignAdmins :
        \/ updateCampaign(r) \/ WriteEdit(r) \/ tryAutoSchedule(r) \/ scheduleCampaign(r)
        \/ removeCampaign(r) \/ uploadContacts(r) \/ ImportRow(r) \/ CountContacts(r)
        \/ RequestCut(r)

-----------------------------------------------------------------------------
(* The number of contacts scheduling relies on is the number of contact    *)
(* rows once no upload is under way, however uploads overlap with one      *)
(* another and with a removal, unless one was cut off before its count.    *)
TotalsTrue ==
  (\A r \in CampaignAdmins : cmpReq[r].pc # "import") /\ ~uploadCut => cmp.total = ContactCount
=============================================================================
