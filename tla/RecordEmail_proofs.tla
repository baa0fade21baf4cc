-------------------------- MODULE RecordEmail_proofs --------------------------
(***************************************************************************)
(* No mail that failed is recorded as sent, for any number of records and  *)
(* of mails, retries and activations in flight, in every interleaving: the *)
(* writes never look at the status, so the argument is what a request      *)
(* about to write knows.                                                   *)
(***************************************************************************)
EXTENDS RecordEmail, TLAPS

\* The record was mailed, had nobody to go to, or was not to be mailed.
Settled(rec) == mails[rec] > 0 \/ rec \in unaddressed \union skipped

\* A request about to write SENT or SEP_ACTIVATED knows that; one that found no
\* recipients makes it so in the very step.
KnowsSettled(r) ==
  emailReq[r].at \in {"sent", "activate"} => Settled(emailReq[r].record)

WritesWhatHappened == \A r \in EmailRequests : KnowsSettled(r)

EmailInv == EmailTypeOK /\ WritesWhatHappened /\ NoFalseSent

\* Before the first record.
LEMMA InitEmailInv == EmailInit => EmailInv
PROOF
  <1> SUFFICES ASSUME EmailInit PROVE EmailInv
    OBVIOUS
  <1>1. EmailTypeOK
    BY DEF EmailInit, EmailTypeOK, NoRequest, EmailRequest
  <1>2. WritesWhatHappened /\ NoFalseSent
    BY DEF EmailInit, WritesWhatHappened, KnowsSettled, NoFalseSent, NoRequest
  <1> QED
    BY <1>1, <1>2 DEF EmailInv

\* Every step keeps the types.
LEMMA NextEmailTypeOK == EmailTypeOK /\ [EmailNext]_emailVars => EmailTypeOK'
PROOF
  <1> SUFFICES ASSUME EmailTypeOK, [EmailNext]_emailVars PROVE EmailTypeOK'
    OBVIOUS
  <1> USE DEF EmailTypeOK, mailVars
  <1>1. ASSUME NEW r \in EmailRequests, NEW rec \in RecordIds, BeginRequest(r, rec)
        PROVE  EmailTypeOK'
    BY <1>1 DEF BeginRequest, CreateRecord, RetrySend, ReadActivate, Begin, EmailRequest,
                RecordStatus
  <1>2. ASSUME NEW r \in EmailRequests, emailReq[r].at # "idle"
        PROVE  emailReq[r].record \in RecordIds
    BY <1>2 DEF EmailRequest
  <1>3. ASSUME NEW r \in EmailRequests, emailReq[r].at # "idle",
               NEW at \in {"mail", "unaddressed", "sent", "failed"}, Proceed(r, at)
        PROVE  emailReq' \in [EmailRequests -> EmailRequest]
    <2>1. [at |-> at, record |-> emailReq[r].record] \in EmailRequest
      BY <1>2, <1>3 DEF EmailRequest
    <2> QED
      BY <1>3, <2>1 DEF Proceed
  <1>4. ASSUME NEW r \in EmailRequests, Prepare(r) \/ MailRefused(r)
        PROVE  EmailTypeOK'
    BY <1>3, <1>4 DEF Prepare, MailRefused
  <1>5. ASSUME NEW r \in EmailRequests, MailAccepted(r) \/ MailAnswerLost(r)
        PROVE  EmailTypeOK'
    <2>1. mails' \in [RecordIds -> 0..2] /\ lost' \subseteq RecordIds
      BY <1>5, <1>2 DEF MailAccepted, MailAnswerLost, Mailed
    <2> QED
      BY <1>3, <1>5, <2>1 DEF MailAccepted, MailAnswerLost
  <1>6. ASSUME NEW r \in EmailRequests, MailSkipped(r)
        PROVE  EmailTypeOK'
    BY <1>2, <1>3, <1>6 DEF MailSkipped
  <1>7. ASSUME NEW r \in EmailRequests, WriteStatus(r)
        PROVE  EmailTypeOK'
    <2>1. emailReq[r].record \in RecordIds /\ Outcome[emailReq[r].at] \in RecordStatus
      BY <1>2, <1>7 DEF WriteStatus, Outcome, RecordStatus
    <2> QED
      BY <1>7, <2>1 DEF WriteStatus, NoRequest, EmailRequest
  <1>8. ASSUME NEW r \in EmailRequests, EmailAbandoned(r)
        PROVE  EmailTypeOK'
    BY <1>8 DEF EmailAbandoned, NoRequest, EmailRequest
  <1>9. ASSUME (\E rec \in RecordIds : DeleteRecord(rec)) \/ SwitchMail
        PROVE  EmailTypeOK'
    BY <1>9 DEF DeleteRecord, SwitchMail
  <1>10. ASSUME UNCHANGED emailVars
         PROVE  EmailTypeOK'
    BY <1>10 DEF emailVars
  <1> QED
    BY <1>1, <1>4, <1>5, <1>6, <1>7, <1>8, <1>9, <1>10 DEF EmailNext, SendStep

\* What is settled stays settled: mails are only counted up.
LEMMA SettledStays ==
  ASSUME EmailTypeOK, [EmailNext]_emailVars, NEW rec \in RecordIds, Settled(rec)
  PROVE  Settled(rec)'
PROOF
  <1> USE DEF EmailTypeOK, mailVars, Settled
  <1>1. ASSUME NEW r \in EmailRequests, Mailed(r)
        PROVE  mails[rec] > 0 => mails'[rec] > 0
    BY <1>1 DEF Mailed
  <1>2. ASSUME NEW r \in EmailRequests, SendStep(r) \/ EmailAbandoned(r)
        PROVE  Settled(rec)'
    BY <1>1, <1>2 DEF SendStep, Prepare, MailAccepted, MailRefused, MailSkipped, WriteStatus,
                      MailAnswerLost, EmailAbandoned
  <1>3. ASSUME NEW r \in EmailRequests, NEW c \in RecordIds, BeginRequest(r, c)
        PROVE  Settled(rec)'
    BY <1>3 DEF BeginRequest, CreateRecord, RetrySend, ReadActivate, Begin
  <1>4. ASSUME (\E c \in RecordIds : DeleteRecord(c)) \/ SwitchMail \/ UNCHANGED emailVars
        PROVE  Settled(rec)'
    BY <1>4 DEF DeleteRecord, SwitchMail, emailVars
  <1> QED
    BY <1>2, <1>3, <1>4 DEF EmailNext

\* Every step keeps the invariant.
LEMMA NextEmailInv == EmailInv /\ [EmailNext]_emailVars => EmailInv'
PROOF
  <1> SUFFICES ASSUME EmailInv, [EmailNext]_emailVars PROVE EmailInv'
    OBVIOUS
  <1> USE DEF EmailInv
  <1>1. EmailTypeOK'
    BY NextEmailTypeOK
  <1>2. \A rec \in RecordIds : Settled(rec) => Settled(rec)'
    BY SettledStays
  \* A status or a request that stays as it is needs nothing new.
  <1>3. ASSUME status' = status
        PROVE  NoFalseSent'
    BY <1>2, <1>3 DEF NoFalseSent, Settled
  <1>4. ASSUME NEW r \in EmailRequests, emailReq'[r] = emailReq[r]
        PROVE  KnowsSettled(r)'
    <2>1. CASE emailReq[r].at \in {"sent", "activate"}
      <3>1. emailReq[r].record \in RecordIds
        BY <2>1 DEF EmailTypeOK, EmailRequest
      <3> QED
        BY <1>2, <1>4, <2>1, <3>1 DEF WritesWhatHappened, KnowsSettled, Settled
    <2>2. CASE emailReq[r].at \notin {"sent", "activate"}
      BY <1>4, <2>2 DEF KnowsSettled
    <2> QED
      BY <2>1, <2>2
  \* So only the request that takes the step has to be looked at.
  <1>5. ASSUME NEW r \in EmailRequests, KnowsSettled(r)',
                \A q \in EmailRequests \ {r} : emailReq'[q] = emailReq[q]
         PROVE  WritesWhatHappened'
    BY <1>4, <1>5 DEF WritesWhatHappened
  <1>6. ASSUME NEW r \in EmailRequests, NEW rec \in RecordIds, BeginRequest(r, rec)
        PROVE  EmailInv'
    <2>1. /\ \A q \in EmailRequests \ {r} : emailReq'[q] = emailReq[q]
          /\ emailReq'[r].at = "activate" => emailReq'[r].record = rec /\ status[rec] = "SENT"
          /\ emailReq'[r].at # "sent"
          /\ UNCHANGED mailVars
      BY <1>6 DEF BeginRequest, CreateRecord, RetrySend, ReadActivate, Begin, EmailTypeOK
    <2>2. KnowsSettled(r)'
      BY <2>1 DEF KnowsSettled, NoFalseSent, Settled, mailVars
    <2>3. NoFalseSent'
      BY <1>3, <1>6, <2>1 DEF BeginRequest, CreateRecord, RetrySend, ReadActivate,
                             NoFalseSent, mailVars, EmailTypeOK
    <2> QED
      BY <1>1, <1>5, <2>1, <2>2, <2>3
  <1>7. ASSUME NEW r \in EmailRequests,
               Prepare(r) \/ MailRefused(r) \/ MailAnswerLost(r) \/ EmailAbandoned(r)
        PROVE  EmailInv'
    <2>1. /\ \A q \in EmailRequests \ {r} : emailReq'[q] = emailReq[q]
          /\ emailReq'[r].at \notin {"sent", "activate"}
          /\ status' = status
      BY <1>7 DEF Prepare, MailRefused, MailAnswerLost, EmailAbandoned, Proceed, NoRequest,
                  EmailTypeOK
    <2>2. KnowsSettled(r)'
      BY <2>1 DEF KnowsSettled
    <2> QED
      BY <1>1, <1>3, <1>5, <2>1, <2>2
  \* The two steps after which SENT is due settle the record themselves.
  <1>8. ASSUME NEW r \in EmailRequests, MailAccepted(r) \/ MailSkipped(r)
        PROVE  EmailInv'
    <2>1. emailReq[r].record \in RecordIds
      BY <1>8 DEF MailAccepted, MailSkipped, EmailTypeOK, EmailRequest
    <2>2. /\ \A q \in EmailRequests \ {r} : emailReq'[q] = emailReq[q]
          /\ emailReq'[r].record = emailReq[r].record
          /\ status' = status
      BY <1>8 DEF MailAccepted, MailSkipped, Proceed, EmailTypeOK
    <2>3. KnowsSettled(r)'
      BY <1>8, <2>1, <2>2 DEF MailAccepted, MailSkipped, Mailed, Settled, KnowsSettled, EmailTypeOK
    <2> QED
      BY <1>1, <1>3, <1>5, <2>2, <2>3
  <1>9. ASSUME NEW r \in EmailRequests, WriteStatus(r)
        PROVE  EmailInv'
    <2>1. PICK rec \in RecordIds : rec = emailReq[r].record
      BY <1>9 DEF WriteStatus, Outcome, EmailTypeOK, EmailRequest
    <2>2. /\ \A q \in EmailRequests \ {r} : emailReq'[q] = emailReq[q]
          /\ emailReq'[r] = NoRequest
      BY <1>9 DEF WriteStatus, EmailTypeOK
    <2>3. KnowsSettled(r)'
      BY <2>2 DEF KnowsSettled, NoRequest
    <2>4. status'[rec] \in {"SENT", "SEP_ACTIVATED"} => Settled(rec)'
      <3>1. CASE emailReq[r].at \in {"sent", "activate"}
        BY <1>2, <2>1, <3>1 DEF WritesWhatHappened, KnowsSettled, Settled
      <3>2. CASE emailReq[r].at = "unaddressed"
        BY <1>9, <2>1, <3>2 DEF WriteStatus, Settled
      <3>3. CASE emailReq[r].at = "failed"
        BY <1>9, <2>1, <3>3 DEF WriteStatus, Outcome, EmailTypeOK
      <3> QED
        BY <1>9, <3>1, <3>2, <3>3 DEF WriteStatus, Outcome
    <2>5. \A c \in RecordIds : c # rec => status'[c] = status[c]
      BY <1>9, <2>1 DEF WriteStatus, EmailTypeOK
    <2>6. NoFalseSent'
      BY <1>2, <2>4, <2>5 DEF NoFalseSent, Settled
    <2> QED
      BY <1>1, <1>5, <2>2, <2>3, <2>6
  <1>10. ASSUME (\E c \in RecordIds : DeleteRecord(c)) \/ SwitchMail \/ UNCHANGED emailVars
        PROVE  EmailInv'
    <2>1. emailReq' = emailReq /\ UNCHANGED <<mails, unaddressed, skipped>>
      BY <1>10 DEF DeleteRecord, SwitchMail, emailVars, mailVars
    <2>2. WritesWhatHappened'
      BY <1>4, <2>1 DEF WritesWhatHappened
    <2>3. NoFalseSent'
      BY <1>3, <1>10, <2>1 DEF DeleteRecord, SwitchMail, emailVars, NoFalseSent, EmailTypeOK
    <2> QED
      BY <1>1, <2>2, <2>3
  <1> QED
    BY <1>6, <1>7, <1>8, <1>9, <1>10 DEF EmailNext, SendStep

\* The types hold however requests overlap.
THEOREM EmailTypeCorrect == EmailSpec => []EmailTypeOK
PROOF
  <1>1. EmailInit => EmailTypeOK
    BY InitEmailInv DEF EmailInv
  <1> QED
    BY <1>1, NextEmailTypeOK, PTL DEF EmailSpec

\* A record says SENT or SEP_ACTIVATED only after a mail that was taken, or that had
\* nobody to go to, or was switched off, in every interleaving of mails, retries,
\* activations and removals and wherever they stop.
THEOREM EmailNoFalseSent == EmailSpec => []NoFalseSent
PROOF
  <1>1. EmailInv => NoFalseSent
    BY DEF EmailInv
  <1> QED
    BY InitEmailInv, NextEmailInv, <1>1, PTL DEF EmailSpec

-----------------------------------------------------------------------------
(***************************************************************************)
(* When nobody starts on a record somebody is at work on, only a lost      *)
(* answer of the mail server has a record mailed again, and its status     *)
(* moves along the transition table, although no write consults either:    *)
(* what a request read when it began still holds when it writes.           *)
(***************************************************************************)

\* No two requests are about one record.
AtWorkAlone ==
  \A r, q \in EmailRequests :
    /\ emailReq[r] # NoRequest /\ emailReq[q] # NoRequest
    /\ emailReq[r].record = emailReq[q].record
    => r = q

\* Not mailed, as far as the answers of the mail server tell.
Unmailed(rec) == mails[rec] = 0 \/ rec \in lost

\* What a request knows of its record, unless that has been deleted.
RequestFits(r) ==
  LET rec == emailReq[r].record
  IN  /\ emailReq[r].at \in {"prepare", "mail", "unaddressed", "failed", "sent"} =>
           status[rec] \in {"DRAFT", "SEND_FAILED", "DELETED"}
      /\ emailReq[r].at \in {"prepare", "mail", "unaddressed", "failed"} => Unmailed(rec)
      /\ emailReq[r].at = "activate" => status[rec] \in {"SENT", "DELETED"}

\* A record nobody is at work on and that may still be mailed has not been.
RowFits(rec) ==
  /\ mails[rec] < 2 \/ rec \in lost
  /\ status[rec] = "NONE" => Unattended(rec)
  /\ status[rec] \in {"NONE", "SEND_FAILED"} /\ Unattended(rec) => Unmailed(rec)

CalmInv ==
  /\ EmailTypeOK
  /\ AtWorkAlone
  /\ \A r \in EmailRequests : RequestFits(r)
  /\ \A rec \in RecordIds : RowFits(rec)

-----------------------------------------------------------------------------
\* Before the first record.
LEMMA InitCalmInv == EmailInit => CalmInv
PROOF
  <1> SUFFICES ASSUME EmailInit PROVE CalmInv
    OBVIOUS
  <1>1. EmailTypeOK
    BY InitEmailInv DEF EmailInv
  <1>2. AtWorkAlone /\ \A r \in EmailRequests : RequestFits(r)
    BY DEF EmailInit, AtWorkAlone, RequestFits, NoRequest, Unmailed
  <1>3. \A rec \in RecordIds : RowFits(rec)
    <2> SUFFICES ASSUME NEW rec \in RecordIds PROVE RowFits(rec)
      OBVIOUS
    <2>1. mails[rec] = 0
      BY DEF EmailInit
    <2>2. Unattended(rec)
      BY DEF EmailInit, Unattended
    <2> QED
      BY <2>1, <2>2 DEF RowFits, Unmailed
  <1> QED
    BY <1>1, <1>2, <1>3 DEF CalmInv

\* A step that touches one request and its record: what the others know of theirs
\* stays true.
LEMMA OneRecordStep ==
  ASSUME CalmInv, EmailTypeOK', NEW r \in EmailRequests, NEW rec \in RecordIds,
         \A q \in EmailRequests \ {r} : emailReq'[q] = emailReq[q],
         \A q \in EmailRequests \ {r} : emailReq[q] # NoRequest => emailReq[q].record # rec,
         emailReq[r] # NoRequest => emailReq[r].record = rec,
         emailReq'[r] # NoRequest => emailReq'[r].record = rec,
         \A c \in RecordIds \ {rec} : status'[c] = status[c] /\ mails'[c] = mails[c],
         lost \subseteq lost',
         RequestFits(r)', RowFits(rec)'
  PROVE  CalmInv'
PROOF
  <1>1. AtWorkAlone'
    BY DEF CalmInv, AtWorkAlone
  <1>2. ASSUME NEW q \in EmailRequests \ {r}
        PROVE  RequestFits(q)'
    <2>1. CASE emailReq[q] = NoRequest
      BY <2>1 DEF RequestFits, NoRequest
    <2>2. CASE emailReq[q] # NoRequest
      <3>1. emailReq[q].record \in RecordIds \ {rec}
        BY <2>2 DEF CalmInv, EmailTypeOK, EmailRequest, NoRequest
      <3>2. RequestFits(q)
        BY DEF CalmInv
      <3> QED
        BY <3>1, <3>2 DEF RequestFits, Unmailed
    <2> QED
      BY <2>1, <2>2
  <1>3. ASSUME NEW c \in RecordIds \ {rec}
        PROVE  RowFits(c)'
    <2>1. Unattended(c)' <=> Unattended(c)
      BY DEF Unattended
    <2> QED
      BY <2>1 DEF CalmInv, RowFits, Unmailed
  <1> QED
    BY <1>1, <1>2, <1>3 DEF CalmInv

\* Every step keeps the invariant and moves the status along the table.
LEMMA NextCalmInv ==
  CalmInv /\ [CalmNext]_emailVars =>
    /\ CalmInv'
    /\ \A rec \in RecordIds : \/ status'[rec] \in {status[rec], "DELETED"}
                              \/ <<status[rec], status'[rec]>> \in Transitions
PROOF
  <1> DEFINE Legal == \A c \in RecordIds : \/ status'[c] \in {status[c], "DELETED"}
                                           \/ <<status[c], status'[c]>> \in Transitions
  <1> SUFFICES ASSUME CalmInv, [CalmNext]_emailVars PROVE CalmInv' /\ Legal
    OBVIOUS
  <1>1. EmailTypeOK'
    <2>1. [EmailNext]_emailVars
      BY DEF CalmNext, EmailNext
    <2> QED
      BY <2>1, NextEmailTypeOK DEF CalmInv
  <1>2. ASSUME NEW r \in EmailRequests, NEW rec \in RecordIds, Unattended(rec),
               BeginRequest(r, rec)
        PROVE  CalmInv' /\ Legal
    <2>1. /\ \A q \in EmailRequests \ {r} : emailReq'[q] = emailReq[q]
          /\ emailReq[r] = NoRequest
          /\ mails' = mails /\ lost' = lost
      BY <1>2 DEF BeginRequest, CreateRecord, RetrySend, ReadActivate, Begin, mailVars, CalmInv,
                  EmailTypeOK, EmailRequest, NoRequest
    <2>2. \/ /\ status[rec] = "NONE" /\ status' = [status EXCEPT ![rec] = "DRAFT"]
             /\ emailReq'[r] = [at |-> "prepare", record |-> rec]
          \/ /\ status[rec] = "SEND_FAILED" /\ status' = status
             /\ emailReq'[r] = [at |-> "prepare", record |-> rec]
          \/ /\ status[rec] = "SENT" /\ status' = status
             /\ emailReq'[r] = [at |-> "activate", record |-> rec]
      BY <1>2 DEF BeginRequest, CreateRecord, RetrySend, ReadActivate, Begin, CalmInv,
                  EmailTypeOK
    <2>3. RowFits(rec) /\ emailReq'[r] # NoRequest
      BY <2>2 DEF CalmInv, NoRequest
    <2>4. RequestFits(r)'
      BY <1>2, <2>1, <2>2, <2>3 DEF RequestFits, RowFits, Unmailed, CalmInv, EmailTypeOK
    <2>5. ~Unattended(rec)' /\ status'[rec] # "NONE"
      BY <2>2, <2>3 DEF Unattended, CalmInv, EmailTypeOK
    <2>6. RowFits(rec)'
      BY <2>1, <2>3, <2>5 DEF RowFits
    <2>7. Legal
      BY <2>2 DEF Transitions, CalmInv, EmailTypeOK
    <2>8. \A c \in RecordIds \ {rec} : status'[c] = status[c] /\ mails'[c] = mails[c]
      BY <2>1, <2>2 DEF CalmInv, EmailTypeOK
    <2>9. /\ \A q \in EmailRequests \ {r} : emailReq[q] # NoRequest => emailReq[q].record # rec
          /\ emailReq'[r].record = rec
      BY <1>2, <2>2 DEF Unattended
    <2> QED
      BY <1>1, <2>1, <2>4, <2>6, <2>7, <2>8, <2>9, OneRecordStep
  \* A request at work on its record, which is all its own.
  <1>3. ASSUME NEW r \in EmailRequests, SendStep(r)
        PROVE  CalmInv' /\ Legal
    <2>1. emailReq[r].at # "idle" /\ emailReq[r] # NoRequest
      BY <1>3 DEF SendStep, Prepare, MailAccepted, MailRefused, MailAnswerLost, MailSkipped,
                  WriteStatus, Outcome, NoRequest
    <2>2. PICK rec \in RecordIds : rec = emailReq[r].record
      BY <2>1 DEF CalmInv, EmailTypeOK, EmailRequest
    <2>3. /\ \A q \in EmailRequests \ {r} : emailReq'[q] = emailReq[q]
          /\ emailReq'[r] # NoRequest => emailReq'[r].record = rec
          /\ \A c \in RecordIds \ {rec} : status'[c] = status[c] /\ mails'[c] = mails[c]
          /\ lost \subseteq lost'
      BY <1>3, <2>2 DEF SendStep, Prepare, MailAccepted, MailRefused, MailAnswerLost,
                        MailSkipped, WriteStatus, Mailed, Proceed, mailVars, CalmInv,
                        EmailTypeOK
    <2>4. \A q \in EmailRequests \ {r} : emailReq[q] # NoRequest => emailReq[q].record # rec
      BY <2>1, <2>2 DEF CalmInv, AtWorkAlone
    <2>5. RequestFits(r) /\ RowFits(rec) /\ ~Unattended(rec)
      BY <2>1, <2>2 DEF CalmInv, Unattended
    <2>6. ASSUME RequestFits(r)', RowFits(rec)'
          PROVE  CalmInv'
      BY <1>1, <2>1, <2>2, <2>3, <2>4, <2>6, OneRecordStep
    <2>7. CASE \/ Prepare(r)
               \/ MailRefused(r) \/ MailAccepted(r) \/ MailAnswerLost(r) \/ MailSkipped(r)
      <3>1. /\ status' = status
            /\ emailReq'[r].at \in {"mail", "unaddressed", "failed", "sent"}
            /\ emailReq'[r].record = rec
        BY <2>2, <2>7 DEF Prepare, MailAccepted, MailRefused, MailAnswerLost, MailSkipped,
                          Proceed, CalmInv, EmailTypeOK
      <3>2. \/ mails' = mails /\ emailReq'[r].at # "sent"
            \/ mails' = mails /\ emailReq[r].at = "mail"
            \/ mails'[rec] = 1 /\ emailReq'[r].at = "sent" /\ emailReq[r].at = "mail"
            \/ rec \in lost'
        BY <2>2, <2>5, <2>7 DEF Prepare, MailAccepted, MailRefused, MailAnswerLost, MailSkipped,
                                Proceed, Mailed, mailVars, CalmInv, EmailTypeOK, RequestFits,
                                Unmailed
      <3>3. /\ Unmailed(rec) /\ status[rec] \in {"DRAFT", "SEND_FAILED", "DELETED"}
        BY <2>2, <2>5, <2>7 DEF Prepare, MailAccepted, MailRefused, MailAnswerLost, MailSkipped,
                                RequestFits
      <3>4. RequestFits(r)'
        BY <2>3, <3>1, <3>2, <3>3 DEF RequestFits, Unmailed
      <3>5. ~Unattended(rec)'
        BY <3>1 DEF Unattended, NoRequest
      <3>6. RowFits(rec)'
        BY <2>3, <3>1, <3>2, <3>3, <3>5 DEF RowFits, Unmailed
      <3> QED
        BY <2>6, <3>1, <3>4, <3>6
    <2>8. CASE WriteStatus(r)
      <3>1. /\ emailReq'[r] = NoRequest /\ mails' = mails /\ lost' = lost
            /\ emailReq[r].at \in {"unaddressed", "sent", "failed", "activate"}
        BY <2>8 DEF WriteStatus, Outcome, CalmInv, EmailTypeOK
      <3>2. status'[rec] = IF status[rec] = "DELETED" THEN "DELETED"
                           ELSE Outcome[emailReq[r].at]
        BY <2>2, <2>8 DEF WriteStatus, CalmInv, EmailTypeOK
      <3>3. RequestFits(r)'
        BY <3>1 DEF RequestFits, NoRequest
      <3>4. status'[rec] = "SEND_FAILED" => Unmailed(rec)
        BY <2>2, <2>5, <3>1, <3>2 DEF Outcome, RequestFits
      <3>5. status'[rec] # "NONE"
        BY <3>1, <3>2 DEF Outcome
      <3>6. RowFits(rec)'
        BY <2>5, <3>1, <3>4, <3>5 DEF RowFits, Unmailed
      <3>7. \/ status'[rec] \in {status[rec], "DELETED"}
            \/ <<status[rec], status'[rec]>> \in Transitions
        BY <2>2, <2>5, <3>1, <3>2 DEF Outcome, RequestFits, Transitions
      <3>8. Legal
        BY <2>3, <3>7
      <3> QED
        BY <2>6, <3>3, <3>6, <3>8
    <2> QED
      BY <1>3, <2>7, <2>8 DEF SendStep
  \* A deletion is welcome at any time.
  <1>4. ASSUME NEW rec \in RecordIds, DeleteRecord(rec)
        PROVE  CalmInv' /\ Legal
    <2>1. /\ emailReq' = emailReq /\ mails' = mails /\ lost' = lost
          /\ status' = [status EXCEPT ![rec] = "DELETED"]
      BY <1>4 DEF DeleteRecord, mailVars
    <2>2. AtWorkAlone'
      BY <2>1 DEF CalmInv, AtWorkAlone
    <2>3. ASSUME NEW r \in EmailRequests
          PROVE  RequestFits(r)'
      <3>1. RequestFits(r)
        BY DEF CalmInv
      <3> QED
        BY <2>1, <3>1 DEF CalmInv, EmailTypeOK, EmailRequest, RequestFits, Unmailed
    <2>4. \A c \in RecordIds : RowFits(c)'
      BY <2>1 DEF CalmInv, EmailTypeOK, RowFits, Unattended, Unmailed
    <2>5. Legal
      BY <2>1 DEF CalmInv, EmailTypeOK
    <2> QED
      BY <1>1, <2>2, <2>3, <2>4, <2>5 DEF CalmInv
  <1>5. ASSUME SwitchMail \/ UNCHANGED emailVars
        PROVE  CalmInv' /\ Legal
    <2>1. UNCHANGED <<status, mails, lost, emailReq>>
      BY <1>5 DEF SwitchMail, emailVars
    <2> QED
      BY <1>1, <2>1 DEF CalmInv, AtWorkAlone, RequestFits, RowFits, Unattended, Unmailed
  <1> QED
    BY <1>2, <1>3, <1>4, <1>5 DEF CalmNext

\* When nobody starts on a record somebody is at work on and nothing but the mail
\* server fails, the recipients get a record at most once, unless the server took the
\* mail and its answer was lost: then retrySendEmail mails the record again.
THEOREM CalmMailedOnce == CalmEmailSafety => []MailedOnce
PROOF
  <1>1. CalmInv => MailedOnce
    BY DEF CalmInv, RowFits, MailedOnce
  <1>2. CalmInv /\ [CalmNext]_emailVars => CalmInv'
    BY NextCalmInv
  <1> QED
    BY InitCalmInv, <1>1, <1>2, PTL DEF CalmEmailSafety

\* And the status of a record moves only along the table of StatusTransitionGuard.
THEOREM CalmLegalTransitions == CalmEmailSafety => LegalTransitions
PROOF
  <1>1. CalmInv /\ [CalmNext]_emailVars => CalmInv'
    BY NextCalmInv
  <1>2. CalmInv /\ [CalmNext]_emailVars =>
          [\A rec \in RecordIds :
             \/ status'[rec] \in {status[rec], "DELETED"}
             \/ <<status[rec], status'[rec]>> \in Transitions]_emailVars
    BY NextCalmInv
  <1> QED
    BY InitCalmInv, <1>1, <1>2, PTL DEF CalmEmailSafety, LegalTransitions
=============================================================================
