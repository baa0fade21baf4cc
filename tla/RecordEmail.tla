----------------------------- MODULE RecordEmail -----------------------------
(***************************************************************************)
(* The status of an installation record and the mail that drives it        *)
(* (backend/src/modules/installation-records/installation-records.service  *)
(* .ts: autoSendRecordEmail, retrySendEmail, markSepActivated, remove).    *)
(*                                                                         *)
(* create does not wait for the mail: autoSendRecordEmail goes on in the   *)
(* background after the answer, and what it throws is dropped.  A request  *)
(* reads the record, prepares the PDF, talks to the mail server and writes *)
(* the status without looking at it again.                                 *)
(***************************************************************************)
EXTENDS Naturals

CONSTANTS RecordIds,       \* rows of table installation_records
          EmailRequests    \* slots for mails and activations in flight

VARIABLES status,     \* InstallationRecord.status, with NONE and DELETED for no row
          mails,      \* how often the mail server took the record: 0, 1, 2 = more
          unaddressed,\* records found without recipients when their mail was due
          mailOn,     \* settings notifications.email.enabled and email.enabled
          skipped,    \* records whose mail the settings suppressed
          lost,       \* records the mail server took while its answer was lost
          emailReq    \* requests in flight

emailVars == <<status, mails, unaddressed, mailOn, skipped, lost, emailReq>>
mailVars == <<mails, unaddressed, mailOn, skipped, lost>>

RecordStatus == {"DRAFT", "SENT", "SEND_FAILED", "SEP_ACTIVATED"}

\* at: the step that is due: prepare the mail, mail it, write an outcome.
EmailRequest ==
  [at : {"prepare", "mail", "unaddressed", "sent", "failed", "activate"}, record : RecordIds]
  \union {[at |-> "idle"]}

NoRequest == [at |-> "idle"]

EmailTypeOK ==
  /\ status \in [RecordIds -> RecordStatus \union {"NONE", "DELETED"}]
  /\ mails \in [RecordIds -> 0..2]
  /\ unaddressed \subseteq RecordIds /\ skipped \subseteq RecordIds /\ lost \subseteq RecordIds
  /\ mailOn \in BOOLEAN
  /\ emailReq \in [EmailRequests -> EmailRequest]

EmailInit ==
  /\ status = [rec \in RecordIds |-> "NONE"]
  /\ mails = [rec \in RecordIds |-> 0]
  /\ unaddressed = {} /\ skipped = {} /\ lost = {}
  /\ mailOn \in BOOLEAN
  /\ emailReq = [r \in EmailRequests |-> NoRequest]

-----------------------------------------------------------------------------
(* The first query of each request. *)

Begin(r, rec, at) ==
  /\ emailReq[r].at = "idle"
  /\ emailReq' = [emailReq EXCEPT ![r] = [at |-> at, record |-> rec]]
  /\ UNCHANGED mailVars

\* create: the insert, and the mail it leaves running.
CreateRecord(r, rec) ==
  /\ status[rec] = "NONE"
  /\ status' = [status EXCEPT ![rec] = "DRAFT"]
  /\ Begin(r, rec, "prepare")

\* Mutant of RetrySend: any record that has been mailed can be mailed again.
RetryAny(r, rec) ==
  /\ status[rec] \in RecordStatus \ {"DRAFT"}
  /\ Begin(r, rec, "prepare")
  /\ UNCHANGED status

\* retrySendEmail: only from SEND_FAILED.
RetrySend(r, rec) ==
  /\ status[rec] = "SEND_FAILED"
  /\ Begin(r, rec, "prepare")
  /\ UNCHANGED status

\* markSepActivated: only from SENT.
ReadActivate(r, rec) ==
  /\ status[rec] = "SENT"
  /\ Begin(r, rec, "activate")
  /\ UNCHANGED status

DeleteRecord(rec) ==
  /\ status[rec] \in RecordStatus
  /\ status' = [status EXCEPT ![rec] = "DELETED"]
  /\ UNCHANGED <<mailVars, emailReq>>

-----------------------------------------------------------------------------
(* autoSendRecordEmail: recipients and PDF, mail server, status. *)

Proceed(r, at) ==
  emailReq' = [emailReq EXCEPT ![r] = [at |-> at, record |-> emailReq[r].record]]

\* The recipients of the branch are read, some or none, and the PDF is there.
Prepare(r) ==
  /\ emailReq[r].at = "prepare"
  /\ \E at \in {"mail", "unaddressed"} : Proceed(r, at)
  /\ UNCHANGED <<status, mailVars>>

Mailed(r) ==
  mails' = [mails EXCEPT ![emailReq[r].record] = IF @ < 2 THEN @ + 1 ELSE 2]

\* The mail server takes the mail and says so.
MailAccepted(r) ==
  /\ emailReq[r].at = "mail" /\ mailOn
  /\ Mailed(r)
  /\ Proceed(r, "sent")
  /\ UNCHANGED <<status, unaddressed, mailOn, skipped, lost>>

\* Mutant of MailRefused: the error of the mail server ends the request.
MailRefusedThrows(r) ==
  /\ emailReq[r].at = "mail"
  /\ emailReq' = [emailReq EXCEPT ![r] = NoRequest]
  /\ UNCHANGED <<status, mailVars>>

\* The mail server does not take it.
MailRefused(r) ==
  /\ emailReq[r].at = "mail" /\ mailOn
  /\ Proceed(r, "failed")
  /\ UNCHANGED <<status, mailVars>>

\* The mail server takes it, and its answer is lost.
MailAnswerLost(r) ==
  /\ emailReq[r].at = "mail" /\ mailOn
  /\ Mailed(r)
  /\ lost' = lost \union {emailReq[r].record}
  /\ Proceed(r, "failed")
  /\ UNCHANGED <<status, unaddressed, mailOn, skipped>>

\* Mutant of Outcome: an activated record is put among the old ones.
OutcomeLegacy == [unaddressed |-> "SENT", sent |-> "SENT", failed |-> "SEND_FAILED",
                  activate |-> "LEGACY_COMPLETED"]

\* Mutant of Outcome: a failed mail is recorded as sent.
OutcomeAlwaysSent == [unaddressed |-> "SENT", sent |-> "SENT", failed |-> "SENT",
                      activate |-> "SEP_ACTIVATED"]

\* Mail is switched off: sendMail logs that and returns as if it had mailed.
MailSkipped(r) ==
  /\ emailReq[r].at = "mail" /\ ~mailOn
  /\ skipped' = skipped \union {emailReq[r].record}
  /\ Proceed(r, "sent")
  /\ UNCHANGED <<status, mails, unaddressed, mailOn, lost>>

Outcome == [unaddressed |-> "SENT", sent |-> "SENT", failed |-> "SEND_FAILED",
            activate |-> "SEP_ACTIVATED"]

\* The update, by id only: whatever the status is by now.
WriteStatus(r) ==
  LET rec == emailReq[r].record
  IN  /\ emailReq[r].at \in DOMAIN Outcome
      /\ status' = IF status[rec] = "DELETED" THEN status
                   ELSE [status EXCEPT ![rec] = Outcome[emailReq[r].at]]
      /\ unaddressed' = IF emailReq[r].at = "unaddressed"
                        THEN unaddressed \union {rec} ELSE unaddressed
      /\ emailReq' = [emailReq EXCEPT ![r] = NoRequest]
      /\ UNCHANGED <<mails, mailOn, skipped, lost>>

\* generatePdf throws, which is before the try, or the backend stops.
EmailAbandoned(r) ==
  /\ emailReq[r].at # "idle"
  /\ emailReq' = [emailReq EXCEPT ![r] = NoRequest]
  /\ UNCHANGED <<status, mailVars>>

SendStep(r) ==
  \/ Prepare(r) \/ WriteStatus(r)
  \/ MailAccepted(r) \/ MailRefused(r) \/ MailAnswerLost(r) \/ MailSkipped(r)

SwitchMail ==
  mailOn' = ~mailOn /\ UNCHANGED <<status, mails, unaddressed, skipped, lost, emailReq>>

BeginRequest(r, rec) == CreateRecord(r, rec) \/ RetrySend(r, rec) \/ ReadActivate(r, rec)

EmailNext ==
  \/ \E r \in EmailRequests, rec \in RecordIds : BeginRequest(r, rec)
  \/ (\E rec \in RecordIds : DeleteRecord(rec)) \/ SwitchMail
  \/ \E r \in EmailRequests : SendStep(r) \/ EmailAbandoned(r)

EmailSpec == EmailInit /\ [][EmailNext]_emailVars

-----------------------------------------------------------------------------
(* Nothing goes wrong but the mail server and its answers, and nobody      *)
(* starts on a record somebody is at work on.                              *)

Unattended(rec) == \A r \in EmailRequests : emailReq[r] # NoRequest => emailReq[r].record # rec

CalmNext ==
  \/ \E r \in EmailRequests, rec \in RecordIds : Unattended(rec) /\ BeginRequest(r, rec)
  \/ (\E rec \in RecordIds : DeleteRecord(rec)) \/ SwitchMail
  \/ \E r \in EmailRequests : SendStep(r)

CalmEmailSafety == EmailInit /\ [][CalmNext]_emailVars

CalmEmailSpec == CalmEmailSafety /\ \A r \in EmailRequests : WF_emailVars(SendStep(r))

-----------------------------------------------------------------------------
(* Properties *)

\* A record that says SENT was taken by the mail server, or had nobody to go
\* to, or was not to be mailed: whatever retries overlap and wherever they stop,
\* a failure of the mail leaves no SENT behind and activation skips no mail.
NoFalseSent ==
  \A rec \in RecordIds :
    status[rec] \in {"SENT", "SEP_ACTIVATED"} =>
      mails[rec] > 0 \/ rec \in unaddressed \union skipped

\* The transitions StatusTransitionGuard lists, and deletion.
Transitions ==
  {<<"NONE", "DRAFT">>, <<"DRAFT", "SENT">>, <<"DRAFT", "SEND_FAILED">>,
   <<"SEND_FAILED", "SENT">>, <<"SENT", "SEP_ACTIVATED">>}

\* A record's status moves only along the table of StatusTransitionGuard, which
\* the writes themselves never consult: it rests on what each request read.
LegalTransitions ==
  [][\A rec \in RecordIds :
       \/ status'[rec] \in {status[rec], "DELETED"}
       \/ <<status[rec], status'[rec]>> \in Transitions]_emailVars

\* The recipients get a record twice only after an answer of the mail server was
\* lost: retry starts only after a mail that, as far as the backend knows, did not
\* leave, and SENT does not go back.
MailedOnce == \A rec \in RecordIds : mails[rec] < 2 \/ rec \in lost

\* A created record does not stay a DRAFT: create mails it, and only from
\* SEND_FAILED can anybody mail it again.
LeavesDraft == \A rec \in RecordIds : status[rec] = "DRAFT" ~> status[rec] # "DRAFT"

=============================================================================
