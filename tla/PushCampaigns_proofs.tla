------------------------- MODULE PushCampaigns_proofs -------------------------
(***************************************************************************)
(* Nobody gets a campaign twice on one device, for any number of           *)
(* campaigns, devices, senders and polls, wherever a send stops: a         *)
(* campaign leaves DRAFT before its first message, and only a DRAFT is     *)
(* sent.  Two requests for one campaign at once are left out               *)
(* (CampaignsApart); the code does not rule them out.                      *)
(***************************************************************************)
EXTENDS PushCampaigns, FiniteSetTheorems, SequenceTheorems, TLAPS

SendFields == {"at", "campaign", "notify", "bad", "tokens", "messages", "tickets",
               "next", "sent", "failed"}

\* Rows and requests have their columns, whatever is in them.
CampaignShape ==
  /\ DOMAIN campaign = Campaigns
  /\ \A c \in Campaigns : DOMAIN campaign[c] = {"status", "audience"}
  /\ DOMAIN send = Senders
  /\ \A r \in Senders : DOMAIN send[r] = SendFields
  /\ DOMAIN expo = Campaigns \X Tokens \X Senders

BeforeMark == {"settings", "off", "mark"}

Unsent(c) == campaign[c].status \in {"NONE", "DRAFT"}

\* No message of the campaign has been sent by any request but r.
OnlySentBy(c, r) == \A t \in Tokens, q \in Senders : q # r => ~Pushed(c, t, q)

\* A request that has not yet marked its campaign finds it unsent; one that has is
\* the only one to have sent of it.
SenderKnows(r) ==
  LET c == send[r].campaign IN
  send[r].at # "idle" =>
    /\ c \in Campaigns
    /\ send[r].at \in BeforeMark => campaign[c].status = "DRAFT"
    /\ send[r].at \notin BeforeMark => ~Unsent(c) /\ OnlySentBy(c, r)

\* What has not been sent has no messages.
UnsentIsSilent ==
  \A c \in Campaigns : Unsent(c) => \A t \in Tokens, q \in Senders : ~Pushed(c, t, q)

PushInv ==
  /\ CampaignShape
  /\ CampaignsApart
  /\ \A r \in Senders : SenderKnows(r)
  /\ UnsentIsSilent
  /\ PushedOnce

-----------------------------------------------------------------------------
\* Before the first campaign.
LEMMA InitPushInv == CampaignInit => PushInv
PROOF
  <1> SUFFICES ASSUME CampaignInit PROVE PushInv
    OBVIOUS
  <1>1. /\ campaign = [c \in Campaigns |-> [status |-> "NONE", audience |-> {}]]
        /\ expo = [x \in Campaigns \X Tokens \X Senders |-> "none"]
        /\ send = [r \in Senders |-> IdleSend]
    BY DEF CampaignInit
  <1>2. \A r \in Senders : DOMAIN send[r] = SendFields /\ send[r].at = "idle"
    BY <1>1 DEF IdleSend, SendFields
  <1>3. CampaignShape
    BY <1>1, <1>2 DEF CampaignShape
  <1>4. \A c \in Campaigns, t \in Tokens, q \in Senders : ~Pushed(c, t, q)
    BY <1>1 DEF Pushed
  <1> QED
    BY <1>2, <1>3, <1>4
       DEF PushInv, CampaignsApart, SenderKnows, UnsentIsSilent, PushedOnce, Pushed

\* What a step of a request does to the requests, the campaigns and the messages.
RequestStep(r) ==
  LET c == send[r].campaign IN
  /\ send[r].at # "idle"
  /\ DOMAIN send' = Senders
  /\ \A q \in Senders \ {r} : send'[q] = send[q]
  /\ DOMAIN send'[r] = SendFields
  /\ send'[r].at # "idle" => send'[r].campaign = c
  /\ send'[r].at \in BeforeMark => send[r].at = "settings"
  /\ \/ /\ UNCHANGED campaign
        /\ send'[r].at \notin BeforeMark \union {"idle"} => send[r].at \notin BeforeMark
     \/ \E status \in CampaignStatus \ {"NONE", "DRAFT"} :
          /\ CampaignStatusIs(c, status)
          /\ send'[r].at \notin BeforeMark
  /\ \/ UNCHANGED expo
     \/ /\ send[r].at \notin BeforeMark
        /\ DOMAIN expo' = DOMAIN expo
        /\ \A x \in DOMAIN expo : x[1] # c \/ x[3] # r => expo'[x] = expo[x]

\* Going on to a step after the mark, ending, and the one write of the status.
LEMMA SendStepsAre ==
  ASSUME CampaignShape, NEW r \in Senders,
         SendStep(r) \/ AnswerToChunkLost(r) \/ SendStops(r)
  PROVE  RequestStep(r)
PROOF
  <1> USE DEF CampaignShape, SendFields
  <1>1. ASSUME NEW at, SendTo(r, at)
        PROVE  /\ DOMAIN send' = Senders
               /\ \A q \in Senders \ {r} : send'[q] = send[q]
               /\ DOMAIN send'[r] = SendFields
               /\ send'[r].at = at /\ send'[r].campaign = send[r].campaign
    BY <1>1 DEF SendTo
  <1>2. ASSUME SendDone(r)
        PROVE  /\ DOMAIN send' = Senders
               /\ \A q \in Senders \ {r} : send'[q] = send[q]
               /\ DOMAIN send'[r] = SendFields
               /\ send'[r].at = "idle"
    BY <1>2 DEF SendDone, IdleSend
  <1> USE DEF RequestStep, BeforeMark
  <1>3. CASE ReadSettings(r)
    BY <1>1, <1>3 DEF ReadSettings, OnlySend
  <1>4. CASE WriteFailed(r)
    BY <1>2, <1>4 DEF WriteFailed, OnlyCampaign, CampaignStatus
  <1>5. CASE MarkSending(r)
    BY <1>1, <1>5 DEF MarkSending, OnlyCampaign, CampaignStatus
  <1>6. CASE ReadRecipients(r)
    BY <1>6 DEF ReadRecipients, OnlySend
  <1>7. CASE ReadTokens(r)
    BY <1>7 DEF ReadTokens, OnlySend
  <1>8. ASSUME NEW u \in People, Notify(r, u)
        PROVE  RequestStep(r)
    BY <1>8 DEF Notify
  <1>9. CASE CreateDeliveries(r)
    BY <1>1, <1>9 DEF CreateDeliveries, OnlyDelivery
  <1>10. CASE MarkMalformed(r)
    BY <1>1, <1>10 DEF MarkMalformed, OnlyToken
  <1>11. CASE MarkMalformedRow(r)
    BY <1>11 DEF MarkMalformedRow, OnlyDelivery
  <1>12. ASSUME NEW chunk, NEW made, ReadyToSend(send[r]),
                expo' = Taken(send[r], r, chunk, made)
         PROVE  /\ send[r].at \notin BeforeMark \union {"idle"}
                /\ DOMAIN expo' = DOMAIN expo
                /\ \A x \in DOMAIN expo : x[1] # send[r].campaign \/ x[3] # r => expo'[x] = expo[x]
    BY <1>12 DEF Taken, ReadyToSend
  <1>13. CASE SendChunk(r)
    <2>1. PICK made \in [DOMAIN Chunk(send[r]) -> Tickets] :
            /\ expo' = Taken(send[r], r, Chunk(send[r]), made)
            /\ send' = [send EXCEPT ![r].at = "send", ![r].tickets = send[r].tickets \o made]
      BY <1>13 DEF SendChunk
    <2>2. ReadyToSend(send[r]) /\ UNCHANGED campaign
      BY <1>13 DEF SendChunk
    <2>3. /\ send[r].at \notin BeforeMark \union {"idle"}
          /\ DOMAIN expo' = DOMAIN expo
          /\ \A x \in DOMAIN expo : x[1] # send[r].campaign \/ x[3] # r => expo'[x] = expo[x]
      BY <1>12, <2>1, <2>2
    <2>4. /\ DOMAIN send' = Senders
          /\ \A q \in Senders \ {r} : send'[q] = send[q]
          /\ DOMAIN send'[r] = SendFields
          /\ send'[r].at = "send" /\ send'[r].campaign = send[r].campaign
      BY <2>1
    <2> QED
      BY <2>2, <2>3, <2>4
  <1>14. CASE AnswerToChunkLost(r)
    <2>1. PICK made \in [DOMAIN Chunk(send[r]) -> Tickets] :
            expo' = Taken(send[r], r, Chunk(send[r]), made)
      BY <1>14 DEF AnswerToChunkLost
    <2>2. ReadyToSend(send[r]) /\ UNCHANGED campaign /\ SendDone(r)
      BY <1>14 DEF AnswerToChunkLost
    <2>3. /\ send[r].at \notin BeforeMark \union {"idle"}
          /\ DOMAIN expo' = DOMAIN expo
          /\ \A x \in DOMAIN expo : x[1] # send[r].campaign \/ x[3] # r => expo'[x] = expo[x]
      BY <1>12, <2>1, <2>2
    <2> QED
      BY <1>2, <2>2, <2>3
  <1>15. CASE AllSent(r)
    BY <1>1, <1>15 DEF AllSent, OnlySend, ReadyToSend
  <1>16. CASE WriteTicket(r)
    BY <1>16 DEF WriteTicket, OnlyDelivery
  <1>17. CASE InvalidateUnreachable(r)
    BY <1>1, <1>17 DEF InvalidateUnreachable, OnlyToken
  <1>18. CASE AllWritten(r)
    BY <1>1, <1>18 DEF AllWritten, OnlySend
  <1>19. CASE CountSent(r) \/ CountFailed(r)
    BY <1>19 DEF CountSent, CountFailed, OnlySend
  <1>20. CASE WriteFinalStatus(r)
    <2>1. FinalStatus(send[r].sent, send[r].failed) \in CampaignStatus \ {"NONE", "DRAFT"}
      BY DEF FinalStatus, CampaignStatus
    <2> QED
      BY <1>2, <1>20, <2>1 DEF WriteFinalStatus, OnlyCampaign
  <1>21. CASE SendStops(r)
    BY <1>2, <1>21 DEF SendStops, OnlySend
  <1> QED
    BY <1>3, <1>4, <1>5, <1>6, <1>7, <1>8, <1>9, <1>10, <1>11, <1>13, <1>14, <1>15, <1>16,
       <1>17, <1>18, <1>19, <1>20, <1>21 DEF SendStep

\* A step of a request keeps the invariant: the others are about other campaigns.
LEMMA RequestStepPushInv ==
  ASSUME PushInv, NEW r \in Senders, RequestStep(r), CampaignsApart'
  PROVE  PushInv'
PROOF
  <1>0. PICK c \in Campaigns : c = send[r].campaign
    BY DEF PushInv, SenderKnows, RequestStep
  <1>1. c \in Campaigns /\ SenderKnows(r) /\ CampaignShape
    BY DEF PushInv
  <1> USE <1>0
  <1>2. CampaignShape'
    BY <1>1 DEF CampaignShape, RequestStep, CampaignStatusIs
  <1>3. \A d \in Campaigns \ {c} : campaign'[d] = campaign[d]
    BY <1>1 DEF CampaignShape, RequestStep, CampaignStatusIs
  <1>4. campaign'[c].status = campaign[c].status \/ ~Unsent(c)'
    BY <1>1 DEF CampaignShape, RequestStep, CampaignStatusIs, Unsent
  <1>5. \A d \in Campaigns, t \in Tokens, q \in Senders :
          d # c \/ q # r => (Pushed(d, t, q)' <=> Pushed(d, t, q))
    <2>1. ASSUME NEW d \in Campaigns, NEW t \in Tokens, NEW q \in Senders, d # c \/ q # r
          PROVE  expo'[<<d, t, q>>] = expo[<<d, t, q>>]
      BY <1>1, <2>1 DEF CampaignShape, RequestStep
    <2> QED
      BY <2>1 DEF Pushed
  <1>6. \A t \in Tokens, q \in Senders :
          send[r].at \in BeforeMark => ~Pushed(c, t, q) /\ ~Pushed(c, t, q)'
    <2>1. send[r].at \in BeforeMark => UNCHANGED expo /\ Unsent(c)
      BY <1>1 DEF RequestStep, SenderKnows, Unsent
    <2> QED
      BY <1>1, <2>1 DEF PushInv, UnsentIsSilent, Pushed
  <1>7. \A t \in Tokens, q \in Senders : q # r => ~Pushed(c, t, q)'
    <2>1. send[r].at \notin BeforeMark => \A t \in Tokens, q \in Senders : q # r => ~Pushed(c, t, q)
      BY <1>1 DEF RequestStep, SenderKnows, OnlySentBy
    <2> QED
      BY <1>1, <1>5, <1>6, <2>1
  <1>8. UnsentIsSilent'
    <2> SUFFICES ASSUME NEW d \in Campaigns, Unsent(d)',
                        NEW t \in Tokens, NEW q \in Senders
                 PROVE  ~Pushed(d, t, q)'
      BY DEF UnsentIsSilent
    <2>1. CASE d # c
      BY <1>3, <1>5, <2>1 DEF PushInv, UnsentIsSilent, Unsent
    <2>2. CASE d = c
      <3>1. Unsent(c)
        BY <1>4, <2>2 DEF Unsent
      <3>2. send[r].at \in BeforeMark
        BY <1>1, <3>1 DEF RequestStep, SenderKnows
      <3> QED
        BY <1>6, <2>2, <3>2
    <2> QED
      BY <2>1, <2>2
  <1>9. PushedOnce'
    <2> SUFFICES ASSUME NEW d \in Campaigns, NEW t \in Tokens,
                        NEW p \in Senders, NEW q \in Senders,
                        Pushed(d, t, p)', Pushed(d, t, q)'
                 PROVE  p = q
      BY DEF PushedOnce
    <2>1. CASE d # c
      BY <1>5, <2>1 DEF PushInv, PushedOnce
    <2>2. CASE d = c
      BY <1>7, <2>2
    <2> QED
      BY <2>1, <2>2
  <1>10. ASSUME NEW q \in Senders, q # r
         PROVE  SenderKnows(q)'
    <2>1. send'[q] = send[q] /\ SenderKnows(q)
      BY <1>10 DEF RequestStep, PushInv
    <2>2. send[q].at # "idle" => send[q].campaign # c
      BY <1>10 DEF PushInv, CampaignsApart
    <2>3. send[q].at # "idle" /\ send[q].at \notin BeforeMark => OnlySentBy(send[q].campaign, q)
      BY <2>1 DEF SenderKnows
    <2> QED
      BY <1>3, <1>5, <2>1, <2>2, <2>3 DEF SenderKnows, OnlySentBy, Unsent
  <1>11. SenderKnows(r)'
    <2> SUFFICES ASSUME send'[r].at # "idle"
                 PROVE  SenderKnows(r)'
      BY DEF SenderKnows
    <2>1. send'[r].campaign = c
      BY DEF RequestStep
    <2>2. send'[r].at \in BeforeMark => campaign'[c].status = "DRAFT"
      BY <1>1 DEF RequestStep, SenderKnows, BeforeMark
    <2>3. send'[r].at \notin BeforeMark => campaign'[c].status \notin {"NONE", "DRAFT"}
      BY <1>1 DEF RequestStep, SenderKnows, Unsent, CampaignShape, CampaignStatusIs
    <2> QED
      BY <1>1, <1>7, <2>1, <2>2, <2>3 DEF SenderKnows, OnlySentBy, Unsent
  <1> QED
    BY <1>2, <1>8, <1>9, <1>10, <1>11 DEF PushInv

\* Every step of requests for different campaigns keeps the invariant.
LEMMA NextPushInv ==
  PushInv /\ [CampaignNext /\ CampaignsApart']_campaignVars => PushInv'
PROOF
  <1> SUFFICES ASSUME PushInv, [CampaignNext /\ CampaignsApart']_campaignVars
               PROVE  PushInv'
    OBVIOUS
  <1>1. CampaignShape
    BY DEF PushInv
  <1>2. CASE UNCHANGED <<campaign, expo, send>>
    BY <1>2 DEF PushInv, CampaignShape, CampaignsApart, SenderKnows, OnlySentBy,
                UnsentIsSilent, Unsent, PushedOnce, Pushed
  <1>3. ASSUME NEW c \in Campaigns, NEW audience \in Audiences, CreateDraft(c, audience)
        PROVE  PushInv'
    <2>1. /\ campaign' = [campaign EXCEPT ![c] = [status |-> "DRAFT", audience |-> audience]]
          /\ campaign[c].status = "NONE" /\ UNCHANGED <<expo, send>>
      BY <1>3 DEF CreateDraft
    <2>2. CampaignShape' /\ \A d \in Campaigns : Unsent(d)' <=> Unsent(d)
      BY <1>1, <2>1 DEF CampaignShape, Unsent
    <2>3. ASSUME NEW r \in Senders
          PROVE  SenderKnows(r)'
      <3>1. SenderKnows(r) /\ send'[r] = send[r]
        BY <2>1 DEF PushInv
      <3>2. send[r].at # "idle" => send[r].campaign # c
        BY <2>1, <3>1 DEF SenderKnows, Unsent
      <3>3. send[r].at # "idle" => campaign'[send[r].campaign] = campaign[send[r].campaign]
        BY <1>1, <2>1, <3>1, <3>2 DEF SenderKnows, CampaignShape
      <3> QED
        BY <2>1, <3>1, <3>3 DEF SenderKnows, OnlySentBy, Unsent, Pushed
    <2> QED
      BY <2>1, <2>2, <2>3
         DEF PushInv, CampaignsApart, UnsentIsSilent, PushedOnce, Pushed
  <1>4. ASSUME NEW r \in Senders, NEW c \in Campaigns, ReadCampaign(r, c), CampaignsApart'
        PROVE  PushInv'
    <2> DEFINE new == [IdleSend EXCEPT !.at = "settings", !.campaign = c]
    <2>1. /\ send' = [send EXCEPT ![r] = new]
          /\ campaign[c].status = "DRAFT" /\ UNCHANGED <<campaign, expo>>
      BY <1>4 DEF ReadCampaign, Sendable, OnlySend
    <2>2. DOMAIN new = SendFields /\ new.at = "settings" /\ new.campaign = c
      BY DEF IdleSend, SendFields
    <2> HIDE DEF new
    <2>3. CampaignShape'
      BY <1>1, <2>1, <2>2 DEF CampaignShape
    <2>4. ASSUME NEW q \in Senders
          PROVE  SenderKnows(q)'
      <3>1. SenderKnows(q)
        BY DEF PushInv
      <3>2. CASE q = r
        BY <1>1, <2>1, <2>2, <3>2 DEF CampaignShape, SenderKnows, BeforeMark
      <3>3. CASE q # r
        <4>1. send'[q] = send[q]
          BY <1>1, <2>1, <3>3 DEF CampaignShape
        <4> QED
          BY <2>1, <3>1, <4>1 DEF SenderKnows, OnlySentBy, Unsent, Pushed
      <3> QED
        BY <3>2, <3>3
    <2> QED
      BY <1>4, <2>1, <2>3, <2>4 DEF PushInv, UnsentIsSilent, Unsent, PushedOnce, Pushed
  <1>5. ASSUME NEW r \in Senders, SendStep(r) \/ AnswerToChunkLost(r) \/ SendStops(r),
               CampaignsApart'
        PROVE  PushInv'
    BY <1>1, <1>5, SendStepsAre, RequestStepPushInv
  <1>6. ASSUME NEW x \in Campaigns \X Tokens \X Senders, NEW receipt \in Receipts,
               MakeReceipt(x, receipt)
        PROVE  PushInv'
    <2>1. /\ expo' = [expo EXCEPT ![x] = receipt] /\ expo[x] # "none" /\ receipt # "none"
          /\ UNCHANGED <<campaign, send>>
      BY <1>6 DEF MakeReceipt, Receipts
    <2>2. DOMAIN expo' = DOMAIN expo
      BY <2>1
    <2>3. \A y \in Campaigns \X Tokens \X Senders : expo'[y] # "none" <=> expo[y] # "none"
      BY <1>1, <2>1 DEF CampaignShape
    <2>4. \A c \in Campaigns, t \in Tokens, r \in Senders : Pushed(c, t, r)' <=> Pushed(c, t, r)
      BY <2>3 DEF Pushed
    <2>5. CampaignShape'
      BY <2>1, <2>2 DEF PushInv, CampaignShape
    <2>6. ASSUME NEW r \in Senders
          PROVE  SenderKnows(r)'
      BY <2>1, <2>4 DEF PushInv, SenderKnows, OnlySentBy, Unsent
    <2> QED
      BY <2>1, <2>4, <2>5, <2>6
         DEF PushInv, CampaignsApart, UnsentIsSilent, Unsent, PushedOnce
  <1>7. ASSUME NEW p \in Polls, ReadWaiting(p) \/ PollStep(p) \/ PollFails(p)
        PROVE  UNCHANGED <<campaign, expo, send>>
    BY <1>7 DEF ReadWaiting, PollStep, PollFails, FetchReceipts, WriteReceipt,
                InvalidateGone, PollDone, OnlyPoll
  <1>8. ASSUME NEW ch \in Switched, SwitchChannel(ch)
        PROVE  UNCHANGED <<campaign, expo, send>>
    BY <1>8 DEF SwitchChannel
  <1>9. CASE UNCHANGED campaignVars
    BY <1>2, <1>9 DEF campaignVars
  <1> QED
    BY <1>2, <1>3, <1>4, <1>5, <1>6, <1>7, <1>8, <1>9 DEF CampaignNext

\* 'Campaign already sent' (push-campaigns.service.ts sendCampaign): nobody gets a
\* campaign twice on one device, wherever a send stops and whoever tries again.
THEOREM CampaignPushedOnce == ApartCampaignSpec => []PushedOnce
PROOF
  <1>1. PushInv => PushedOnce
    BY DEF PushInv
  <1> QED
    BY <1>1, InitPushInv, NextPushInv, PTL DEF ApartCampaignSpec

-----------------------------------------------------------------------------
(***************************************************************************)
(* What deliveries, counts and tokens say.  A request at work on a         *)
(* campaign knows how far it has come: which rows are still QUEUED, which  *)
(* tickets it has received and which of them it has written.  A row knows  *)
(* by its ticket whose receipts it may believe.                            *)
(***************************************************************************)

BeforeRows == BeforeMark \union {"recipients", "none", "tokens", "notify", "rows"}
BeforeTickets == BeforeRows \union {"malformed", "malformedRow", "send"}

Distinct(s) == \A i, k \in DOMAIN s : s[i] = s[k] => i = k

\* The messages are for some of the tokens, one each, and the others are malformed.
Addressed(q) ==
  /\ Distinct(q.messages) /\ \A i \in DOMAIN q.messages : q.messages[i] \in WellFormed \cap q.tokens
  /\ Distinct(q.bad) /\ \A i \in DOMAIN q.bad : q.bad[i] \in q.tokens \ WellFormed

\* How far a request has come.
Progress(q) ==
  /\ q.campaign \in Campaigns
  /\ q.at = "malformedRow" => q.bad # <<>>
  /\ q.next <= Len(q.tickets) /\ Len(q.tickets) <= Len(q.messages)
  /\ q.at \in BeforeRows \union {"malformed", "malformedRow"} => q.tickets = <<>>
  /\ q.at \in BeforeTickets => q.next = 0
  /\ q.at = "invalidate" => q.next > 0 /\ q.tickets[q.next] = "gone"
  /\ q.at = "count" => q.next = Len(q.tickets)
  /\ q.at # "count" => q.sent = Nobody /\ q.failed = Nobody

\* What it knows of the rows of its campaign.
RowsAre(q) ==
  LET status(t) == delivery[<<q.campaign, t>>].status IN
  /\ q.at \in BeforeRows => \A t \in Tokens : status(t) = "NONE"
  /\ q.at \notin BeforeRows =>
       /\ \A i \in DOMAIN q.bad : status(q.bad[i]) = "QUEUED"
       /\ \A i \in DOMAIN q.messages : i > q.next => status(q.messages[i]) = "QUEUED"
  /\ \A i \in 1 .. q.next :
       q.tickets[i] # "accepted" =>
         /\ status(q.messages[i]) = "FAILED"
         /\ delivery[<<q.campaign, q.messages[i]>>].ticket = Nobody

Refused == {"refused", "gone"}
Failures == Refused \union {"failed", "unregistered"}
Accepted == {"accepted"} \union Receipts

\* What it knows of its messages.
MessagesAre(q, r) ==
  /\ \A i \in DOMAIN q.tickets :
       LET fate == expo[<<q.campaign, q.messages[i], r>>] IN
       IF q.tickets[i] = "accepted" THEN fate \in Accepted ELSE fate = q.tickets[i]
  /\ \A t \in Tokens : Pushed(q.campaign, t, r) => \E i \in DOMAIN q.tickets : q.messages[i] = t

SomeFate(c, fates) == \E t \in Tokens, r \in Senders : expo[<<c, t, r>>] \in fates

\* What it knows by its counts.
CountsAre(q) ==
  /\ q.sent # Nobody /\ q.sent > 0 => SomeFate(q.campaign, Accepted)
  /\ q.failed # Nobody /\ q.failed > 0 => SomeFate(q.campaign, Failures)
  /\ q.failed # Nobody /\ ~(q.failed > 0) => ~SomeFate(q.campaign, Refused)

AtWork(r) ==
  LET q == send[r] IN
  /\ Addressed(q)
  /\ q.at # "idle" =>
       /\ Progress(q)
       /\ q.at \notin BeforeMark => campaign[q.campaign].status = "SENDING"
       /\ RowsAre(q)
       /\ MessagesAre(q, r)
       /\ CountsAre(q)

\* A delivery says what happened to the message its ticket is of.
RowIsTrue(c, t) ==
  LET d == delivery[<<c, t>>]
      fate == expo[<<c, t, d.ticket>>]
  IN
  /\ d.status \in {"NONE", "QUEUED", "INVALID_TOKEN"} => d.ticket = Nobody
  /\ d.status = "SENT" => d.ticket \in Senders /\ fate \in Accepted
  /\ d.status = "DELIVERED" => d.ticket \in Senders /\ fate = "delivered"
  /\ d.status = "FAILED" =>
       IF d.ticket = Nobody THEN \E r \in Senders : expo[<<c, t, r>>] \in Refused
       ELSE d.ticket \in Senders /\ fate \in {"failed", "unregistered"}
  /\ d.status = "INVALID_TOKEN" => t \notin WellFormed /\ Senders # {}

\* What a poll has read is of the row's ticket, and a receipt is the last word on it.
PollIsTrue(p) ==
  /\ \A x \in poll[p].found :
       /\ delivery[<<x.campaign, x.token>>].ticket = x.ticket
       /\ poll[p].at = "write" => x.fate \in Receipts /\ FateOf(x) = x.fate
  /\ \A t \in poll[p].gone : \E c \in Campaigns, r \in Senders : expo[<<c, t, r>>] = "unregistered"

\* The final status of a campaign says what its messages met with.
StatusIsTrue(c) ==
  /\ campaign[c].status = "SENT" => ~SomeFate(c, Refused)
  /\ campaign[c].status = "PARTIAL" => SomeFate(c, Failures) /\ SomeFate(c, Accepted)
  /\ campaign[c].status = "FAILED" =>
       SomeFate(c, Failures) \/ \A t \in Tokens : delivery[<<c, t>>].status = "NONE"
  /\ Unsent(c) => \A t \in Tokens : delivery[<<c, t>>].status = "NONE"

\* Only what is well-formed is sent to, and whoever signs out is still the user.
TokensAreTrue ==
  /\ \A x \in Campaigns \X Tokens \X Senders : expo[x] # "none" => x[2] \in WellFormed
  /\ \A l \in leaving \ overtaken : token[l[1]].user = l[2]

CampaignInv ==
  /\ CampaignTypeOK
  /\ PushInv
  /\ \A r \in Senders : AtWork(r)
  /\ \A c \in Campaigns, t \in Tokens : RowIsTrue(c, t)
  /\ \A p \in Polls : PollIsTrue(p)
  /\ \A c \in Campaigns : StatusIsTrue(c)
  /\ TokensAreTrue

\* A message's fate is not changed but by its receipt; or it has none yet.
FateKept(x) == expo'[x] = expo[x] \/ (expo[x] = "accepted" /\ expo'[x] \in Receipts)
FateGrows(x) == FateKept(x) \/ (expo[x] = "none" /\ expo'[x] \in Tickets)

\* A row is changed only if it has a ticket, that is, by a poll; its ticket stays.
RowKept(d) ==
  \/ delivery'[d] = delivery[d]
  \/ /\ delivery[d].ticket # Nobody /\ delivery[d].status \notin {"NONE", "QUEUED"}
     /\ delivery'[d].ticket = delivery[d].ticket /\ delivery'[d].status # "NONE"

\* How the status of a delivery may move.
RowMoves(d) ==
  LET old == delivery[d].status
      new == delivery'[d].status
  IN  old # new => \/ old = "NONE" /\ new = "QUEUED"
                   \/ old = "QUEUED" /\ new \in {"SENT", "FAILED", "INVALID_TOKEN"}
                   \/ old = "SENT" /\ new \in {"DELIVERED", "FAILED"}

-----------------------------------------------------------------------------
(* What is kept when others are at work. *)

LEMMA FatesKept ==
  ASSUME NEW c \in Campaigns, \A t \in Tokens, r \in Senders : FateKept(<<c, t, r>>)
  PROVE  /\ SomeFate(c, Accepted)' <=> SomeFate(c, Accepted)
         /\ SomeFate(c, Failures) => SomeFate(c, Failures)'
         /\ SomeFate(c, Refused)' <=> SomeFate(c, Refused)
PROOF
  <1>1. \A t \in Tokens, r \in Senders :
          /\ expo'[<<c, t, r>>] \in Accepted <=> expo[<<c, t, r>>] \in Accepted
          /\ expo[<<c, t, r>>] \in Failures => expo'[<<c, t, r>>] \in Failures
          /\ expo'[<<c, t, r>>] \in Refused <=> expo[<<c, t, r>>] \in Refused
    BY DEF FateKept, Accepted, Failures, Refused, Receipts
  <1> QED
    BY <1>1 DEF SomeFate

\* A request whose campaign nobody else sends.
LEMMA AtWorkKept ==
  ASSUME CampaignTypeOK, NEW r \in Senders, AtWork(r), send'[r] = send[r],
         NEW c \in Campaigns, send[r].at # "idle" => send[r].campaign = c,
         send[r].at # "idle" => campaign'[c].status = campaign[c].status,
         \A t \in Tokens : RowKept(<<c, t>>),
         \A t \in Tokens, q \in Senders : FateKept(<<c, t, q>>)
  PROVE  AtWork(r)'
PROOF
  <1> DEFINE q == send[r]
  <1>0. q \in SendRequest
    BY DEF CampaignTypeOK
  <1>1. CASE q.at = "idle"
    BY <1>1 DEF AtWork, Addressed
  <1>2. CASE q.at # "idle"
    <2>1. /\ Addressed(q) /\ Progress(q) /\ RowsAre(q) /\ MessagesAre(q, r) /\ CountsAre(q)
          /\ q.at \notin BeforeMark => campaign[q.campaign].status = "SENDING"
          /\ q.campaign = c
      BY <1>2 DEF AtWork
    <2>2. /\ \A i \in DOMAIN q.bad : q.bad[i] \in Tokens
          /\ \A i \in DOMAIN q.messages : q.messages[i] \in Tokens
      BY <1>0, <2>1 DEF SendRequest, Addressed
    <2>3. RowsAre(q)'
      <3>1. \A t \in Tokens :
              /\ delivery[<<c, t>>].status \in {"NONE", "QUEUED"} =>
                   delivery'[<<c, t>>].status = delivery[<<c, t>>].status
              /\ delivery[<<c, t>>].ticket = Nobody => delivery'[<<c, t>>] = delivery[<<c, t>>]
        BY DEF RowKept
      <3>2. \A i \in 1 .. q.next : i \in DOMAIN q.messages
        BY <1>0, <2>1 DEF SendRequest, Progress
      <3> QED
        BY <2>1, <2>2, <3>1, <3>2 DEF RowsAre
    <2>4. MessagesAre(q, r)'
      <3>1. \A i \in DOMAIN q.tickets : i \in DOMAIN q.messages /\ q.tickets[i] \in Tickets
        BY <1>0, <2>1 DEF SendRequest, Progress
      <3>2. ASSUME NEW i \in DOMAIN q.tickets
            PROVE  LET fate == expo'[<<c, q.messages[i], r>>] IN
                   IF q.tickets[i] = "accepted" THEN fate \in Accepted ELSE fate = q.tickets[i]
        <4>1. FateKept(<<c, q.messages[i], r>>)
          BY <2>2, <3>1
        <4> QED
          BY <2>1, <3>1, <4>1 DEF MessagesAre, FateKept, Accepted, Receipts, Tickets
      <3>3. \A t \in Tokens : Pushed(c, t, r)' => Pushed(c, t, r)
        BY DEF Pushed, FateKept
      <3> QED
        BY <2>1, <3>2, <3>3 DEF MessagesAre
    <2>5. CountsAre(q)'
      BY <2>1, FatesKept DEF CountsAre
    <2> HIDE DEF q
    <2> QED
      BY <2>1, <2>3, <2>4, <2>5 DEF AtWork, q, Progress, Addressed
  <1> QED
    BY <1>1, <1>2

LEMMA RowStaysTrue ==
  ASSUME NEW c \in Campaigns, NEW t \in Tokens, RowIsTrue(c, t),
         delivery'[<<c, t>>] = delivery[<<c, t>>],
         \A r \in Senders : FateGrows(<<c, t, r>>)
  PROVE  RowIsTrue(c, t)'
PROOF
  <1>1. \A r \in Senders :
          /\ expo[<<c, t, r>>] \in Accepted => expo'[<<c, t, r>>] \in Accepted
          /\ expo[<<c, t, r>>] \in Refused \union Receipts => expo'[<<c, t, r>>] = expo[<<c, t, r>>]
    BY DEF FateGrows, FateKept, Accepted, Refused, Receipts
  <1> QED
    BY <1>1 DEF RowIsTrue, Refused, Receipts

LEMMA PollStaysTrue ==
  ASSUME CampaignTypeOK, NEW p \in Polls, PollIsTrue(p), poll'[p] = poll[p],
         \A d \in Campaigns \X Tokens :
           delivery[d].ticket # Nobody => delivery'[d].ticket = delivery[d].ticket,
         \A x \in Campaigns \X Tokens \X Senders : FateGrows(x)
  PROVE  PollIsTrue(p)'
PROOF
  <1> USE TokenAssumption, CampaignAssumption
  <1>1. poll[p] \in Poll
    BY DEF CampaignTypeOK
  <1>2. \A x \in Campaigns \X Tokens \X Senders : expo[x] \in Receipts => expo'[x] = expo[x]
    BY DEF FateGrows, FateKept, Receipts
  <1>3. ASSUME NEW x \in poll[p].found
        PROVE  /\ delivery'[<<x.campaign, x.token>>].ticket = x.ticket
               /\ poll[p].at = "write" => x.fate \in Receipts /\ FateOf(x)' = x.fate
    <2>1. x.campaign \in Campaigns /\ x.token \in Tokens /\ x.ticket \in Senders /\ x.ticket # Nobody
      BY <1>1 DEF Poll, PollItem
    <2>2. delivery[<<x.campaign, x.token>>].ticket = x.ticket
      BY DEF PollIsTrue
    <2> QED
      BY <1>2, <2>1, <2>2 DEF PollIsTrue, FateOf
  <1>4. \A t \in poll[p].gone : \E c \in Campaigns, r \in Senders : expo'[<<c, t, r>>] = "unregistered"
    <2>1. poll[p].gone \subseteq Tokens
      BY <1>1 DEF Poll
    <2> QED
      BY <1>2, <2>1 DEF PollIsTrue, Receipts
  <1> QED
    BY <1>3, <1>4 DEF PollIsTrue

LEMMA StatusStaysTrue ==
  ASSUME NEW c \in Campaigns, StatusIsTrue(c), campaign'[c].status = campaign[c].status,
         \A t \in Tokens : RowKept(<<c, t>>),
         \A t \in Tokens, r \in Senders : FateKept(<<c, t, r>>)
  PROVE  StatusIsTrue(c)'
PROOF
  <1>1. (\A t \in Tokens : delivery[<<c, t>>].status = "NONE") =>
          \A t \in Tokens : delivery'[<<c, t>>].status = "NONE"
    BY DEF RowKept
  <1> QED
    BY <1>1, FatesKept DEF StatusIsTrue, Unsent

\* Requests at work on different campaigns.
LEMMA OthersElsewhere ==
  ASSUME CampaignInv, NEW r \in Senders, NEW q \in Senders, q # r,
         send[r].at # "idle", send[q].at # "idle"
  PROVE  send[q].campaign # send[r].campaign
PROOF
  BY DEF CampaignInv, PushInv, CampaignsApart

\* A step of a request changes what is about its campaign only.
LEMMA SenderKeeps ==
  ASSUME CampaignInv, CampaignTypeOK', PushInv', TokensAreTrue',
         NEW r \in Senders, NEW c \in Campaigns,
         send[r].at # "idle", send[r].campaign = c, UNCHANGED poll,
         \A q \in Senders \ {r} : send'[q] = send[q],
         \A e \in Campaigns \ {c} : campaign'[e] = campaign[e],
         \A e \in Campaigns \ {c}, t \in Tokens : delivery'[<<e, t>>] = delivery[<<e, t>>],
         \A e \in Campaigns \ {c}, t \in Tokens, q \in Senders :
           expo'[<<e, t, q>>] = expo[<<e, t, q>>],
         \A t \in Tokens, q \in Senders : FateGrows(<<c, t, q>>),
         \A t \in Tokens : delivery[<<c, t>>].ticket # Nobody =>
                             delivery'[<<c, t>>].ticket = delivery[<<c, t>>].ticket,
         AtWork(r)', \A t \in Tokens : RowIsTrue(c, t)', StatusIsTrue(c)'
  PROVE  CampaignInv'
PROOF
  <1>1. /\ CampaignTypeOK
        /\ \A q \in Senders : AtWork(q)
        /\ \A e \in Campaigns, t \in Tokens : RowIsTrue(e, t)
        /\ \A p \in Polls : PollIsTrue(p)
        /\ \A e \in Campaigns : StatusIsTrue(e)
    BY DEF CampaignInv
  <1>2. ASSUME NEW e \in Campaigns \ {c}, NEW t \in Tokens
        PROVE  RowKept(<<e, t>>) /\ \A q \in Senders : FateKept(<<e, t, q>>)
    BY DEF RowKept, FateKept
  <1>3. ASSUME NEW q \in Senders \ {r}
        PROVE  AtWork(q)'
    <2>1. CASE send[q].at = "idle"
      <3>1. send'[q] = send[q] /\ AtWork(q)
        BY <1>1
      <3> QED
        BY <2>1, <3>1 DEF AtWork, Addressed
    <2>2. CASE send[q].at # "idle"
      <3>1. send[q].campaign \in Campaigns \ {c}
        BY <1>1, <2>2, OthersElsewhere DEF AtWork, Progress
      <3> QED
        BY <1>1, <1>2, <3>1, AtWorkKept
    <2> QED
      BY <2>1, <2>2
  <1>4. \A x \in Campaigns \X Tokens \X Senders : FateGrows(x)
    <2> SUFFICES ASSUME NEW e \in Campaigns, NEW t \in Tokens, NEW q \in Senders
                 PROVE  FateGrows(<<e, t, q>>)
      OBVIOUS
    <2>1. CASE e = c
      BY <2>1
    <2>2. CASE e # c
      BY <1>2, <2>2 DEF FateGrows
    <2> QED
      BY <2>1, <2>2
  <1>5. \A e \in Campaigns \ {c}, t \in Tokens : RowIsTrue(e, t)'
    BY <1>1, <1>4, RowStaysTrue
  <1>6. \A d \in Campaigns \X Tokens :
          delivery[d].ticket # Nobody => delivery'[d].ticket = delivery[d].ticket
    <2> SUFFICES ASSUME NEW e \in Campaigns, NEW t \in Tokens, delivery[<<e, t>>].ticket # Nobody
                 PROVE  delivery'[<<e, t>>].ticket = delivery[<<e, t>>].ticket
      OBVIOUS
    <2> QED
      OBVIOUS
  <1>7. \A p \in Polls : PollIsTrue(p)'
    BY <1>1, <1>4, <1>6, PollStaysTrue
  <1>8. \A e \in Campaigns \ {c} : StatusIsTrue(e)'
    BY <1>1, <1>2, StatusStaysTrue
  <1> QED
    BY <1>3, <1>5, <1>7, <1>8 DEF CampaignInv

\* A step that changes nothing but the request itself, and perhaps a token.
LEMMA OwnStepKeeps ==
  ASSUME CampaignInv, CampaignTypeOK', PushInv', TokensAreTrue',
         NEW r \in Senders, send[r].at # "idle",
         \A q \in Senders \ {r} : send'[q] = send[q],
         UNCHANGED <<campaign, delivery, expo, poll>>, AtWork(r)'
  PROVE  CampaignInv'
PROOF
  <1>1. PICK c \in Campaigns : send[r].campaign = c
    BY DEF CampaignInv, AtWork, Progress
  <1>2. \A t \in Tokens, q \in Senders : FateGrows(<<c, t, q>>)
    BY DEF FateGrows, FateKept
  <1>3. \A t \in Tokens : RowIsTrue(c, t)'
    BY <1>2, RowStaysTrue DEF CampaignInv
  <1>4. StatusIsTrue(c)'
    BY StatusStaysTrue DEF CampaignInv, RowKept, FateKept
  <1> QED
    BY <1>1, <1>2, <1>3, <1>4, SenderKeeps

-----------------------------------------------------------------------------
(* Types. *)

LEMMA SendToType ==
  ASSUME send \in [Senders -> SendRequest], NEW r \in Senders,
         NEW at \in {"idle", "settings", "off", "mark", "recipients", "none", "tokens",
                     "notify", "rows", "malformed", "malformedRow", "send", "tickets",
                     "invalidate", "count"},
         SendTo(r, at)
  PROVE  /\ send' \in [Senders -> SendRequest]
         /\ \A q \in Senders \ {r} : send'[q] = send[q]
         /\ send'[r] = [send[r] EXCEPT !.at = at]
PROOF
  <1> DEFINE new == [send[r] EXCEPT !.at = at]
  <1>1. new \in SendRequest
    BY DEF SendRequest
  <1>2. send' = [send EXCEPT ![r] = new]
    BY DEF SendTo
  <1> HIDE DEF new
  <1>3. send'[r] = new /\ send' \in [Senders -> SendRequest]
    BY <1>1, <1>2
  <1> QED
    BY <1>2, <1>3 DEF new

LEMMA IdleSendType == IdleSend \in SendRequest
PROOF
  BY DEF IdleSend, SendRequest

LEMMA SendDoneType ==
  ASSUME send \in [Senders -> SendRequest], NEW r \in Senders, SendDone(r)
  PROVE  /\ send' \in [Senders -> SendRequest]
         /\ \A q \in Senders \ {r} : send'[q] = send[q]
         /\ send'[r] = IdleSend
         /\ AtWork(r)'
PROOF
  <1>1. send' = [send EXCEPT ![r] = IdleSend]
    BY DEF SendDone
  <1>2. send'[r] = IdleSend
    BY <1>1
  <1>3. /\ IdleSend.at = "idle" /\ IdleSend.messages = <<>> /\ IdleSend.bad = <<>>
    BY DEF IdleSend
  <1>4. AtWork(r)'
    BY <1>2, <1>3 DEF AtWork, Addressed, Distinct
  <1> QED
    BY <1>1, <1>4, IdleSendType

\* A finite set of numbers has a greatest element.
LEMMA FiniteMax ==
  ASSUME NEW S \in SUBSET Nat, IsFiniteSet(S), S # {}
  PROVE  Max(S) \in Nat
PROOF
  <1> DEFINE Greatest(T) == \E x \in T : \A y \in T : y <= x
             Bad == {T \in FiniteSubsetsOf(S) : T # {} /\ ~Greatest(T)}
  <1>1. Bad = {}
    <2> SUFFICES ASSUME Bad # {} PROVE FALSE
      OBVIOUS
    <2>1. PICK T \in Bad : \A U \in Bad : ~(<<U, T>> \in StrictSubsetOrdering(S))
      <3>1. Bad \subseteq FiniteSubsetsOf(S)
        OBVIOUS
      <3> HIDE DEF Bad
      <3> QED
        BY <3>1, FS_StrictSubsetOrderingWellFounded, WFMin
    <2>2. T \in SUBSET S /\ IsFiniteSet(T) /\ T # {} /\ ~Greatest(T)
      BY DEF FiniteSubsetsOf
    <2>3. PICK x \in T : TRUE
      BY <2>2
    <2> DEFINE U == T \ {x}
    <2>4. U # {}
      BY <2>2, <2>3
    <2>5. Greatest(U)
      <3>1. <<U, T>> \in StrictSubsetOrdering(S)
        BY <2>2, <2>3 DEF StrictSubsetOrdering
      <3>2. IsFiniteSet(U)
        BY <2>2, FS_Subset
      <3>3. U \in FiniteSubsetsOf(S)
        BY <2>2, <3>2 DEF FiniteSubsetsOf
      <3> QED
        BY <2>1, <2>4, <3>1, <3>3
    <2>6. PICK y \in U : \A z \in U : z <= y
      BY <2>5
    <2>7. x \in Nat /\ y \in Nat /\ \A z \in T : z \in Nat
      BY <2>2, <2>6
    <2>8. CASE x <= y
      BY <2>2, <2>6, <2>7, <2>8
    <2>9. CASE ~(x <= y)
      BY <2>2, <2>6, <2>7, <2>9
    <2> QED
      BY <2>8, <2>9
  <1>2. Greatest(S)
    BY <1>1 DEF FiniteSubsetsOf
  <1> QED
    BY <1>2 DEF Max

LEMMA InsertNumberType ==
  ASSUME CampaignTypeOK, NEW c \in Campaigns, NEW t \in Tokens
  PROVE  InsertNumber \in Nat
PROOF
  <1> DEFINE D == Campaigns \X Tokens
             since == [d \in D |-> delivery[d].since]
             S == {delivery[d].since : d \in DOMAIN delivery}
  <1>1. DOMAIN delivery = D /\ \A d \in D : delivery[d].since \in Nat
    BY DEF CampaignTypeOK, Delivery
  <1>2. IsFiniteSet(D)
    BY TokenAssumption, CampaignAssumption, FS_Product
  <1>3. since \in Surjection(D, S)
    BY <1>1 DEF Surjection
  <1>4. IsFiniteSet(S)
    BY <1>2, <1>3, FS_Surjection DEF ExistsSurjection
  <1>5. S \in SUBSET Nat /\ S # {}
    <2>1. <<c, t>> \in D
      OBVIOUS
    <2> QED
      BY <1>1, <2>1
  <1>6. Max(S) \in Nat
    <2> HIDE DEF S
    <2> QED
      BY <1>4, <1>5, FiniteMax
  <1> QED
    BY <1>6 DEF InsertNumber

-----------------------------------------------------------------------------
(* The steps of sendCampaign that write no row of campaigns and deliveries. *)

\* A request that only goes on to its next step.
LEMMA GoesOn ==
  ASSUME CampaignTypeOK, NEW r \in Senders, AtWork(r), send[r].at \notin {"idle", "count"},
         NEW at, send'[r] = [send[r] EXCEPT !.at = at], at # "idle",
         UNCHANGED <<campaign, delivery, expo>>,
         send[r].at \in BeforeMark => at \in BeforeMark,
         at \in BeforeRows <=> send[r].at \in BeforeRows,
         at \in BeforeTickets => send[r].at \in BeforeTickets,
         at \in {"malformed", "malformedRow"} =>
           send[r].at \in BeforeRows \union {"malformed", "malformedRow"},
         at = "malformedRow" => send[r].bad # <<>>,
         at = "invalidate" => send[r].next > 0 /\ send[r].tickets[send[r].next] = "gone",
         at = "count" => send[r].next = Len(send[r].tickets)
  PROVE  AtWork(r)'
PROOF
  <1> DEFINE q == send[r]
  <1>1. /\ Addressed(q) /\ Progress(q) /\ RowsAre(q) /\ MessagesAre(q, r) /\ CountsAre(q)
        /\ q.at \notin BeforeMark => campaign[q.campaign].status = "SENDING"
    BY DEF AtWork
  <1>2. /\ q'.at = at /\ q'.campaign = q.campaign /\ q'.bad = q.bad /\ q'.tokens = q.tokens
        /\ q'.messages = q.messages /\ q'.tickets = q.tickets /\ q'.next = q.next
        /\ q'.sent = q.sent /\ q'.failed = q.failed
    BY DEF CampaignTypeOK, SendRequest
  <1>0. /\ q.at \notin {"idle", "count"} /\ at # "idle"
        /\ q.at \in BeforeMark => at \in BeforeMark
        /\ at \in BeforeRows <=> q.at \in BeforeRows
        /\ at \in BeforeTickets => q.at \in BeforeTickets
        /\ at \in {"malformed", "malformedRow"} =>
             q.at \in BeforeRows \union {"malformed", "malformedRow"}
        /\ at = "malformedRow" => q.bad # <<>>
        /\ at = "invalidate" => q.next > 0 /\ q.tickets[q.next] = "gone"
        /\ at = "count" => q.next = Len(q.tickets)
    OBVIOUS
  <1> HIDE DEF q
  <1>3. Addressed(q)'
    BY <1>1, <1>2 DEF Addressed, Distinct
  <1>4. Progress(q)'
    BY <1>0, <1>1, <1>2 DEF Progress
  <1>5. RowsAre(q)'
    BY <1>0, <1>1, <1>2 DEF RowsAre
  <1>6. MessagesAre(q, r)'
    BY <1>1, <1>2 DEF MessagesAre, Pushed
  <1>7. CountsAre(q)'
    BY <1>1, <1>2 DEF CountsAre, SomeFate
  <1>8. q'.at \notin BeforeMark => campaign'[q'.campaign].status = "SENDING"
    BY <1>0, <1>1, <1>2
  <1> QED
    BY <1>3, <1>4, <1>5, <1>6, <1>7, <1>8 DEF AtWork, q

\* What an invariant of the requests gives about the one that moves.
LEMMA RequestAtWork ==
  ASSUME CampaignInv, NEW r \in Senders, send[r].at # "idle"
  PROVE  /\ CampaignTypeOK /\ send[r] \in SendRequest /\ send[r].campaign \in Campaigns
         /\ AtWork(r) /\ Addressed(send[r]) /\ Progress(send[r]) /\ RowsAre(send[r])
         /\ MessagesAre(send[r], r) /\ CountsAre(send[r])
         /\ send[r].at \notin BeforeMark => campaign[send[r].campaign].status = "SENDING"
PROOF
  BY DEF CampaignInv, CampaignTypeOK, AtWork, Progress

LEMMA ReadSettingsKeeps ==
  ASSUME CampaignInv, PushInv', NEW r \in Senders, ReadSettings(r)
  PROVE  CampaignInv'
PROOF
  <1>1. /\ send[r].at = "settings" /\ OnlySend
        /\ SendTo(r, "mark") \/ SendTo(r, "off")
    BY DEF ReadSettings
  <1>2. CampaignTypeOK /\ AtWork(r) /\ TokensAreTrue
    BY <1>1 DEF CampaignInv
  <1>3. /\ send' \in [Senders -> SendRequest]
        /\ \A q \in Senders \ {r} : send'[q] = send[q]
        /\ \/ send'[r] = [send[r] EXCEPT !.at = "mark"]
           \/ send'[r] = [send[r] EXCEPT !.at = "off"]
    BY <1>1, <1>2, SendToType DEF CampaignTypeOK
  <1>4. CampaignTypeOK' /\ TokensAreTrue'
    BY <1>1, <1>2, <1>3 DEF CampaignTypeOK, TokenTypeOK, TokensAreTrue, OnlySend, tokenVars
  <1>5. AtWork(r)'
    BY <1>1, <1>2, <1>3, GoesOn DEF OnlySend, BeforeMark, BeforeRows, BeforeTickets
  <1> QED
    BY <1>1, <1>3, <1>4, <1>5, OwnStepKeeps DEF OnlySend

LEMMA SendStopsKeeps ==
  ASSUME CampaignInv, PushInv', NEW r \in Senders, SendStops(r)
  PROVE  CampaignInv'
PROOF
  <1>1. send[r].at # "idle" /\ SendDone(r) /\ OnlySend
    BY DEF SendStops
  <1>2. CampaignTypeOK /\ TokensAreTrue
    BY DEF CampaignInv
  <1>3. /\ send' \in [Senders -> SendRequest]
        /\ \A q \in Senders \ {r} : send'[q] = send[q]
        /\ AtWork(r)'
    BY <1>1, <1>2, SendDoneType DEF CampaignTypeOK
  <1>4. CampaignTypeOK' /\ TokensAreTrue'
    BY <1>1, <1>2, <1>3 DEF CampaignTypeOK, TokenTypeOK, TokensAreTrue, OnlySend, tokenVars
  <1> QED
    BY <1>1, <1>3, <1>4, OwnStepKeeps DEF OnlySend

LEMMA GoOnKeeps ==
  ASSUME CampaignInv, PushInv', NEW r \in Senders, AllSent(r) \/ AllWritten(r)
  PROVE  CampaignInv'
PROOF
  <1>1. PICK at \in {"tickets", "count"} :
          /\ SendTo(r, at) /\ OnlySend
          /\ send[r].at \in {"malformed", "send", "tickets"}
          /\ at = "count" => send[r].at = "tickets" /\ send[r].next = Len(send[r].tickets)
    BY DEF AllSent, AllWritten, ReadyToSend
  <1>2. CampaignTypeOK /\ AtWork(r) /\ TokensAreTrue
    BY <1>1 DEF CampaignInv
  <1>3. /\ send' \in [Senders -> SendRequest]
        /\ \A q \in Senders \ {r} : send'[q] = send[q]
        /\ send'[r] = [send[r] EXCEPT !.at = at]
    BY <1>1, <1>2, SendToType DEF CampaignTypeOK
  <1>4. CampaignTypeOK' /\ TokensAreTrue'
    BY <1>1, <1>2, <1>3 DEF CampaignTypeOK, TokenTypeOK, TokensAreTrue, OnlySend, tokenVars
  <1>5. AtWork(r)'
    BY <1>1, <1>2, <1>3, GoesOn DEF OnlySend, BeforeMark, BeforeRows, BeforeTickets
  <1> QED
    BY <1>1, <1>3, <1>4, <1>5, OwnStepKeeps DEF OnlySend

\* A token taken out of use: a malformed one, or one the push service does not know.
LEMMA InvalidType ==
  ASSUME TokenTypeOK, NEW t \in Tokens, token' = Invalid(t), UNCHANGED signOuts
  PROVE  TokenTypeOK' /\ \A s \in Tokens : token'[s].user = token[s].user
PROOF
  <1>1. token'[t] = [token[t] EXCEPT !.valid = FALSE]
    BY DEF TokenTypeOK, Invalid, signOuts
  <1>2. token'[t] \in TokenRow /\ token'[t].user = token[t].user
    BY <1>1 DEF TokenTypeOK, TokenRow
  <1> QED
    BY <1>2 DEF TokenTypeOK, Invalid, signOuts

LEMMA TokenStepKeeps ==
  ASSUME CampaignInv, PushInv', NEW r \in Senders, MarkMalformed(r) \/ InvalidateUnreachable(r)
  PROVE  CampaignInv'
PROOF
  <1>1. PICK at, t :
          /\ at \in {"tickets", "malformedRow"} /\ SendTo(r, at) /\ OnlyToken /\ token' = Invalid(t)
          /\ \/ /\ at = "malformedRow" /\ t = Head(send[r].bad)
                /\ send[r].at = "malformed" /\ send[r].bad # <<>>
             \/ /\ at = "tickets" /\ t = send[r].messages[send[r].next]
                /\ send[r].at = "invalidate"
    BY DEF MarkMalformed, InvalidateUnreachable, MessageOf
  <1>2. /\ CampaignTypeOK /\ send[r] \in SendRequest /\ AtWork(r) /\ TokensAreTrue
        /\ Addressed(send[r]) /\ Progress(send[r])
    BY <1>1, RequestAtWork DEF CampaignInv
  <1>3. t \in Tokens
    BY <1>1, <1>2 DEF SendRequest, Progress
  <1>4. /\ send' \in [Senders -> SendRequest]
        /\ \A q \in Senders \ {r} : send'[q] = send[q]
        /\ send'[r] = [send[r] EXCEPT !.at = at]
    BY <1>1, <1>2, SendToType DEF CampaignTypeOK
  <1>5. TokenTypeOK' /\ \A s \in Tokens : token'[s].user = token[s].user
    BY <1>1, <1>2, <1>3, InvalidType DEF CampaignTypeOK, OnlyToken
  <1>6. CampaignTypeOK'
    BY <1>1, <1>2, <1>4, <1>5 DEF CampaignTypeOK, OnlyToken
  <1>7. TokensAreTrue'
    BY <1>1, <1>2, <1>5 DEF TokensAreTrue, OnlyToken, CampaignTypeOK, TokenTypeOK, signOuts
  <1>8. AtWork(r)'
    BY <1>1, <1>2, <1>4, GoesOn DEF OnlyToken, BeforeMark, BeforeRows, BeforeTickets
  <1> QED
    BY <1>1, <1>4, <1>6, <1>7, <1>8, OwnStepKeeps DEF OnlyToken
\* A request that has written no row yet, and goes on or prepares its messages.
LEMMA PreparesKeeps ==
  ASSUME CampaignInv, PushInv', NEW r \in Senders, send[r].at \in BeforeRows,
         NEW new \in SendRequest, send' = [send EXCEPT ![r] = new],
         new.at \in (BeforeRows \ BeforeMark), send[r].at \notin BeforeMark,
         new.campaign = send[r].campaign, new.tickets = send[r].tickets,
         new.next = send[r].next, new.sent = send[r].sent, new.failed = send[r].failed,
         Addressed(new), UNCHANGED <<tokenVars, channel, campaign, delivery, expo, poll>>,
         inbox' \subseteq Campaigns \X People
  PROVE  CampaignInv'
PROOF
  <1> DEFINE q == send[r]
  <1>1. CampaignTypeOK /\ q \in SendRequest /\ Progress(q) /\ RowsAre(q) /\ MessagesAre(q, r)
        /\ campaign[q.campaign].status = "SENDING" /\ CountsAre(q) /\ TokensAreTrue
    BY RequestAtWork DEF CampaignInv, BeforeRows, BeforeMark
  <1>2. /\ send' \in [Senders -> SendRequest]
        /\ \A p \in Senders \ {r} : send'[p] = send[p]
        /\ q' = new
    BY <1>1 DEF CampaignTypeOK
  <1>3. CampaignTypeOK' /\ TokensAreTrue'
    BY <1>1, <1>2 DEF CampaignTypeOK, TokenTypeOK, TokensAreTrue, tokenVars
  <1>4. q.tickets = <<>> /\ q.next = 0
    BY <1>1 DEF Progress, BeforeTickets
  <1>5. /\ q.at \in BeforeRows /\ q.at # "count"
        /\ q'.at \in BeforeRows \ BeforeMark
        /\ q'.at \notin {"idle", "count", "malformedRow", "invalidate"}
        /\ q'.campaign = q.campaign /\ q'.tickets = q.tickets /\ q'.next = q.next
        /\ q'.sent = q.sent /\ q'.failed = q.failed
        /\ Addressed(q')
    BY <1>2 DEF BeforeRows, BeforeMark
  <1>6. q' \in SendRequest
    BY <1>2
  <1> HIDE DEF q
  <1>7. Progress(q)'
    <2>1. q'.messages \in Seq(Tokens)
      BY <1>6 DEF SendRequest
    <2> QED
      BY <1>1, <1>4, <1>5, <2>1 DEF Progress
  <1>8. RowsAre(q)'
    BY <1>1, <1>4, <1>5 DEF RowsAre
  <1>9. MessagesAre(q, r)'
    BY <1>1, <1>4, <1>5 DEF MessagesAre, Pushed
  <1>10. CountsAre(q)'
    BY <1>1, <1>5 DEF CountsAre, SomeFate
  <1>11. Addressed(q)'
    BY <1>5 DEF Addressed, Distinct
  <1>12. AtWork(r)'
    BY <1>1, <1>5, <1>7, <1>8, <1>9, <1>10, <1>11 DEF AtWork, q
  <1> QED
    BY <1>2, <1>3, <1>12, OwnStepKeeps DEF BeforeRows, BeforeMark

LEMMA ReadRecipientsKeeps ==
  ASSUME CampaignInv, PushInv', NEW r \in Senders, ReadRecipients(r)
  PROVE  CampaignInv'
PROOF
  <1> DEFINE c == send[r].campaign
             audience == campaign[c].audience
             new == [send[r] EXCEPT !.at = IF audience = {} THEN "none" ELSE "tokens",
                                    !.notify = audience]
  <1>1. send[r].at = "recipients" /\ OnlySend /\ send' = [send EXCEPT ![r] = new]
    BY DEF ReadRecipients
  <1>2. CampaignTypeOK /\ send[r] \in SendRequest /\ c \in Campaigns /\ Addressed(send[r])
    BY <1>1, RequestAtWork
  <1>3. audience \subseteq People
    BY <1>2 DEF CampaignTypeOK, Campaign
  <1>4. /\ new \in SendRequest /\ new.at \in {"none", "tokens"}
        /\ new.campaign = send[r].campaign /\ new.tickets = send[r].tickets
        /\ new.next = send[r].next /\ new.sent = send[r].sent /\ new.failed = send[r].failed
        /\ new.messages = send[r].messages /\ new.bad = send[r].bad
        /\ new.tokens = send[r].tokens
    BY <1>2, <1>3 DEF SendRequest
  <1> HIDE DEF new
  <1>5. Addressed(new)
    BY <1>2, <1>4 DEF Addressed
  <1>6. inbox' \subseteq Campaigns \X People
    BY <1>1, <1>2 DEF OnlySend, CampaignTypeOK
  <1> QED
    BY <1>1, <1>4, <1>5, <1>6, PreparesKeeps DEF OnlySend, BeforeRows, BeforeMark

\* The sequences of a set of tokens.
LEMMA SeqsOfTokens ==
  ASSUME NEW S \in SUBSET Tokens, NEW s \in SetToSeqs(S)
  PROVE  s \in Seq(Tokens) /\ Distinct(s) /\ \A i \in DOMAIN s : s[i] \in S
PROOF
  <1>1. IsFiniteSet(S)
    BY TokenAssumption, FS_Subset
  <1>2. Cardinality(S) \in Nat
    BY <1>1, FS_CardinalityType
  <1>3. s \in [1 .. Cardinality(S) -> S] /\ \A i, k \in DOMAIN s : i # k => s[i] # s[k]
    BY DEF SetToSeqs
  <1> QED
    BY <1>2, <1>3 DEF Distinct

LEMMA ReadTokensKeeps ==
  ASSUME CampaignInv, PushInv', NEW r \in Senders, ReadTokens(r)
  PROVE  CampaignInv'
PROOF
  <1> DEFINE found == FoundTokens(send[r].notify)
  <1>1. PICK messages \in MessagesFor(found), bad \in MalformedOf(found) :
          send' = [send EXCEPT ![r].at = "notify", ![r].tokens = found,
                               ![r].messages = messages, ![r].bad = bad]
    BY DEF ReadTokens
  <1> DEFINE new == [send[r] EXCEPT !.at = "notify", !.tokens = found,
                                    !.messages = messages, !.bad = bad]
  <1>2. send[r].at = "tokens" /\ OnlySend /\ send' = [send EXCEPT ![r] = new]
    BY <1>1 DEF ReadTokens
  <1>3. CampaignTypeOK /\ send[r] \in SendRequest
    BY <1>2, RequestAtWork
  <1>4. found \subseteq Tokens
    BY DEF FoundTokens
  <1> HIDE DEF found
  <1>5. /\ messages \in Seq(Tokens) /\ Distinct(messages)
        /\ \A i \in DOMAIN messages : messages[i] \in WellFormed \cap found
    <2>1. messages \in SetToSeqs(found \cap WellFormed) /\ found \cap WellFormed \subseteq Tokens
      BY <1>4 DEF MessagesFor
    <2> QED
      BY <2>1, SeqsOfTokens
  <1>6. /\ bad \in Seq(Tokens) /\ Distinct(bad)
        /\ \A i \in DOMAIN bad : bad[i] \in found \ WellFormed
    <2>1. bad \in SetToSeqs(found \ WellFormed) /\ found \ WellFormed \subseteq Tokens
      BY <1>4 DEF MalformedOf
    <2> QED
      BY <2>1, SeqsOfTokens
  <1>7. /\ new \in SendRequest /\ new.at = "notify"
        /\ new.campaign = send[r].campaign /\ new.tickets = send[r].tickets
        /\ new.next = send[r].next /\ new.sent = send[r].sent /\ new.failed = send[r].failed
        /\ new.messages = messages /\ new.bad = bad /\ new.tokens = found
    BY <1>3, <1>4, <1>5, <1>6 DEF SendRequest
  <1> HIDE DEF new
  <1>8. Addressed(new)
    BY <1>5, <1>6, <1>7 DEF Addressed
  <1>9. inbox' \subseteq Campaigns \X People
    BY <1>2, <1>3 DEF OnlySend, CampaignTypeOK
  <1> QED
    BY <1>2, <1>7, <1>8, <1>9, PreparesKeeps DEF OnlySend, BeforeRows, BeforeMark

LEMMA NotifyKeeps ==
  ASSUME CampaignInv, PushInv', NEW r \in Senders, NEW u \in People, Notify(r, u)
  PROVE  CampaignInv'
PROOF
  <1> DEFINE q == send[r]
             new == [q EXCEPT !.notify = q.notify \ {u},
                              !.at = IF q.notify = {u} THEN "rows" ELSE "notify"]
  <1>1. /\ q.at = "notify" /\ send' = [send EXCEPT ![r] = new]
        /\ UNCHANGED <<tokenVars, channel, campaign, delivery, expo, poll>>
        /\ inbox' \subseteq inbox \union {<<q.campaign, u>>}
    BY DEF Notify
  <1>2. CampaignTypeOK /\ q \in SendRequest /\ q.campaign \in Campaigns /\ Addressed(q)
    BY <1>1, RequestAtWork
  <1>3. /\ new \in SendRequest /\ new.at \in {"rows", "notify"}
        /\ new.campaign = q.campaign /\ new.tickets = q.tickets
        /\ new.next = q.next /\ new.sent = q.sent /\ new.failed = q.failed
        /\ new.messages = q.messages /\ new.bad = q.bad /\ new.tokens = q.tokens
    BY <1>2 DEF SendRequest
  <1> HIDE DEF new
  <1>4. Addressed(new)
    BY <1>2, <1>3 DEF Addressed
  <1>5. inbox' \subseteq Campaigns \X People
    BY <1>1, <1>2 DEF CampaignTypeOK
  <1> QED
    BY <1>1, <1>3, <1>4, <1>5, PreparesKeeps DEF BeforeRows, BeforeMark

\* A count of deliveries is a number, and there is one to count unless it is 0.
LEMMA CountType ==
  ASSUME NEW c \in Campaigns, NEW status
  PROVE  /\ Count(c, status) \in Nat
         /\ Count(c, status) > 0 <=> \E t \in Tokens : delivery[<<c, t>>].status = status
PROOF
  <1> DEFINE S == {t \in Tokens : delivery[<<c, t>>].status = status}
  <1>1. IsFiniteSet(S)
    BY TokenAssumption, FS_Subset
  <1>2. Cardinality(S) \in Nat /\ (Cardinality(S) = 0 <=> S = {})
    BY <1>1, FS_CardinalityType, FS_EmptySet
  <1>3. Count(c, status) = Cardinality(S)
    BY DEF Count
  <1>4. S # {} <=> \E t \in Tokens : delivery[<<c, t>>].status = status
    OBVIOUS
  <1> HIDE DEF S
  <1> QED
    BY <1>2, <1>3, <1>4
\* A count is taken while the rows say what the push service said.
LEMMA CountsKeep ==
  ASSUME CampaignInv, PushInv', NEW r \in Senders, CountSent(r) \/ CountFailed(r)
  PROVE  CampaignInv'
PROOF
  <1> DEFINE q == send[r]
             c == q.campaign
             sent == Count(c, "SENT")
             failed == Count(c, "FAILED")
  <1> USE TokenAssumption, CampaignAssumption
  <1>1. /\ q.at = "count" /\ OnlySend
        /\ \/ send' = [send EXCEPT ![r] = [q EXCEPT !.sent = sent]]
           \/ send' = [send EXCEPT ![r] = [q EXCEPT !.failed = failed]]
    BY DEF CountSent, CountFailed
  <1>2. /\ CampaignTypeOK /\ q \in SendRequest /\ c \in Campaigns /\ TokensAreTrue
        /\ Addressed(q) /\ Progress(q) /\ RowsAre(q) /\ MessagesAre(q, r) /\ CountsAre(q)
        /\ campaign[c].status = "SENDING"
    BY <1>1, RequestAtWork DEF CampaignInv, BeforeMark
  <1>3. sent \in Nat /\ failed \in Nat
    BY <1>2, CountType
  <1>4. /\ [q EXCEPT !.sent = sent] \in SendRequest
        /\ [q EXCEPT !.failed = failed] \in SendRequest
    BY <1>2, <1>3 DEF SendRequest
  <1>5. /\ send' \in [Senders -> SendRequest]
        /\ \A p \in Senders \ {r} : send'[p] = send[p]
        /\ \/ q' = [q EXCEPT !.sent = sent]
           \/ q' = [q EXCEPT !.failed = failed]
    BY <1>1, <1>2, <1>4 DEF CampaignTypeOK
  <1>6. /\ q'.at = "count" /\ q'.campaign = c /\ q'.bad = q.bad /\ q'.tokens = q.tokens
        /\ q'.messages = q.messages /\ q'.tickets = q.tickets /\ q'.next = q.next
        /\ \/ q'.sent = sent /\ q'.failed = q.failed
           \/ q'.failed = failed /\ q'.sent = q.sent
    BY <1>1, <1>2, <1>5 DEF SendRequest
  <1>7. CampaignTypeOK' /\ TokensAreTrue'
    BY <1>1, <1>2, <1>5 DEF CampaignTypeOK, TokenTypeOK, TokensAreTrue, OnlySend, tokenVars
  <1>8. \A t \in Tokens : RowIsTrue(c, t)
    BY <1>2 DEF CampaignInv
  <1>9. sent > 0 => SomeFate(c, Accepted)
    <2>1. ASSUME NEW t \in Tokens, delivery[<<c, t>>].status = "SENT"
          PROVE  \E s \in Senders : expo[<<c, t, s>>] \in Accepted
      BY <1>8, <2>1 DEF RowIsTrue
    <2> QED
      BY <1>2, <2>1, CountType DEF SomeFate
  <1>10. failed > 0 => SomeFate(c, Failures)
    <2>1. ASSUME NEW t \in Tokens, delivery[<<c, t>>].status = "FAILED"
          PROVE  \E s \in Senders : expo[<<c, t, s>>] \in Failures
      BY <1>8, <2>1 DEF RowIsTrue, Failures
    <2> QED
      BY <1>2, <2>1, CountType DEF SomeFate
  <1>11. ~(failed > 0) => ~SomeFate(c, Refused)
    <2> SUFFICES ASSUME NEW t \in Tokens, NEW s \in Senders, expo[<<c, t, s>>] \in Refused
                 PROVE  delivery[<<c, t>>].status = "FAILED"
      BY <1>2, CountType DEF SomeFate
    <2>1. Pushed(c, t, s)
      BY DEF Pushed, Refused
    <2>2. s = r
      BY <1>1, <1>2, <2>1 DEF CampaignInv, PushInv, SenderKnows, OnlySentBy, BeforeMark
    <2>3. PICK i \in DOMAIN q.tickets : q.messages[i] = t
      BY <1>2, <2>1, <2>2 DEF MessagesAre
    <2>4. q.tickets[i] # "accepted"
      BY <1>2, <2>2, <2>3 DEF MessagesAre, Accepted, Receipts, Refused
    <2>5. i \in 1 .. q.next
      BY <1>1, <1>2, <2>3 DEF Progress, SendRequest
    <2> QED
      BY <1>2, <2>3, <2>4, <2>5 DEF RowsAre
  <1> HIDE DEF q, sent, failed, c
  <1>12. CountsAre(q)'
    <2>1. c = q.campaign
      BY DEF c
    <2> QED
      BY <1>1, <1>2, <1>6, <1>9, <1>10, <1>11, <2>1 DEF CountsAre, SomeFate, OnlySend
  <1>13. Addressed(q)' /\ Progress(q)'
    BY <1>1, <1>2, <1>6 DEF Addressed, Progress, Distinct, BeforeRows, BeforeTickets, BeforeMark, c
  <1>14. RowsAre(q)' /\ MessagesAre(q, r)'
    BY <1>1, <1>2, <1>6 DEF RowsAre, MessagesAre, Pushed, OnlySend, c
  <1>15. AtWork(r)'
    BY <1>1, <1>2, <1>6, <1>12, <1>13, <1>14 DEF AtWork, q, OnlySend, c
  <1> QED
    BY <1>1, <1>5, <1>7, <1>15, OwnStepKeeps DEF OnlySend, q
-----------------------------------------------------------------------------
(* The steps of sendCampaign that write the status. *)

LEMMA StatusType ==
  ASSUME campaign \in [Campaigns -> Campaign], NEW c \in Campaigns,
         NEW status \in CampaignStatus, CampaignStatusIs(c, status)
  PROVE  /\ campaign' \in [Campaigns -> Campaign]
         /\ campaign'[c].status = status
         /\ \A e \in Campaigns \ {c} : campaign'[e] = campaign[e]
PROOF
  <1> DEFINE new == [campaign[c] EXCEPT !.status = status]
  <1>1. new \in Campaign /\ new.status = status
    BY DEF Campaign
  <1>2. campaign' = [campaign EXCEPT ![c] = new]
    BY DEF CampaignStatusIs
  <1> HIDE DEF new
  <1> QED
    BY <1>1, <1>2

\* A step that writes the status and nothing else; the request goes on, or is done.
LEMMA StatusStepKeeps ==
  ASSUME CampaignInv, PushInv', NEW r \in Senders, send[r].at # "idle",
         NEW c \in Campaigns, send[r].campaign = c,
         NEW status \in CampaignStatus, CampaignStatusIs(c, status),
         send' \in [Senders -> SendRequest], \A q \in Senders \ {r} : send'[q] = send[q],
         OnlyCampaign, AtWork(r)', StatusIsTrue(c)'
  PROVE  CampaignInv'
PROOF
  <1>2. CampaignTypeOK /\ TokensAreTrue
    BY DEF CampaignInv
  <1>3. /\ campaign' \in [Campaigns -> Campaign]
        /\ \A e \in Campaigns \ {c} : campaign'[e] = campaign[e]
    BY <1>2, StatusType DEF CampaignTypeOK
  <1>4. CampaignTypeOK' /\ TokensAreTrue'
    BY <1>2, <1>3 DEF CampaignTypeOK, TokenTypeOK, TokensAreTrue, OnlyCampaign, tokenVars
  <1>5. \A t \in Tokens, q \in Senders : FateGrows(<<c, t, q>>)
    BY DEF FateGrows, FateKept, OnlyCampaign
  <1>6. \A t \in Tokens : RowIsTrue(c, t)'
    BY <1>5, RowStaysTrue DEF CampaignInv, OnlyCampaign
  <1> QED
    BY <1>3, <1>4, <1>5, <1>6, SenderKeeps DEF OnlyCampaign

LEMMA WriteFailedKeeps ==
  ASSUME CampaignInv, PushInv', NEW r \in Senders, WriteFailed(r)
  PROVE  CampaignInv'
PROOF
  <1>1. /\ send[r].at \in {"off", "none"} /\ SendDone(r) /\ OnlyCampaign
        /\ CampaignStatusIs(send[r].campaign, "FAILED")
    BY DEF WriteFailed
  <1>2. PICK c \in Campaigns : c = send[r].campaign
    BY <1>1, RequestAtWork
  <1>3. CampaignTypeOK /\ RowsAre(send[r])
    BY <1>1, RequestAtWork
  <1>4. "FAILED" \in CampaignStatus
    BY DEF CampaignStatus
  <1>5. campaign'[c].status = "FAILED"
    BY <1>1, <1>2, <1>3, <1>4, StatusType DEF CampaignTypeOK
  <1>6. \A t \in Tokens : delivery[<<c, t>>].status = "NONE"
    BY <1>1, <1>2, <1>3 DEF RowsAre, BeforeRows, BeforeMark
  <1>7. StatusIsTrue(c)'
    BY <1>1, <1>5, <1>6 DEF StatusIsTrue, Unsent, OnlyCampaign
  <1> QED
    BY <1>1, <1>2, <1>3, <1>4, <1>7, SendDoneType, StatusStepKeeps DEF CampaignTypeOK

LEMMA MarkSendingKeeps ==
  ASSUME CampaignInv, PushInv', NEW r \in Senders, MarkSending(r)
  PROVE  CampaignInv'
PROOF
  <1> DEFINE q == send[r]
  <1>0. PICK c \in Campaigns : c = q.campaign
    BY RequestAtWork DEF MarkSending
  <1>1. /\ q.at = "mark" /\ SendTo(r, "recipients") /\ OnlyCampaign
        /\ CampaignStatusIs(c, "SENDING")
    BY <1>0 DEF MarkSending
  <1>2. /\ CampaignTypeOK /\ q \in SendRequest
        /\ Addressed(q) /\ Progress(q) /\ RowsAre(q) /\ MessagesAre(q, r) /\ CountsAre(q)
    BY <1>1, RequestAtWork
  <1>3. "SENDING" \in CampaignStatus
    BY DEF CampaignStatus
  <1>4. campaign'[c].status = "SENDING"
    BY <1>1, <1>2, <1>3, StatusType DEF CampaignTypeOK
  <1>5. StatusIsTrue(c)'
    BY <1>4 DEF StatusIsTrue, Unsent
  <1>6. /\ send' \in [Senders -> SendRequest]
        /\ \A p \in Senders \ {r} : send'[p] = send[p]
        /\ q' = [q EXCEPT !.at = "recipients"]
    BY <1>1, <1>2, SendToType DEF CampaignTypeOK
  <1>7. /\ q'.at = "recipients" /\ q'.campaign = q.campaign /\ q'.bad = q.bad /\ q'.tokens = q.tokens
        /\ q'.messages = q.messages /\ q'.tickets = q.tickets /\ q'.next = q.next
        /\ q'.sent = q.sent /\ q'.failed = q.failed
    BY <1>2, <1>6 DEF SendRequest
  <1>8. AtWork(r)'
    <2> HIDE DEF q
    <2>2. Addressed(q)' /\ Progress(q)'
      BY <1>1, <1>2, <1>7, <1>0
         DEF Addressed, Progress, Distinct, BeforeRows, BeforeTickets, BeforeMark
    <2>3. RowsAre(q)' /\ MessagesAre(q, r)'
      BY <1>1, <1>2, <1>7, <1>0 DEF RowsAre, MessagesAre, Pushed, OnlyCampaign, BeforeRows, BeforeMark
    <2>4. CountsAre(q)'
      BY <1>1, <1>2, <1>7, <1>0 DEF CountsAre, SomeFate, OnlyCampaign
    <2> QED
      BY <1>0, <1>4, <1>7, <2>2, <2>3, <2>4 DEF AtWork, q
  <1> QED
    BY <1>0, <1>1, <1>3, <1>5, <1>6, <1>8, StatusStepKeeps

\* The counts say what is true of the messages, and no receipt changes that.
LEMMA WriteFinalStatusKeeps ==
  ASSUME CampaignInv, PushInv', NEW r \in Senders, WriteFinalStatus(r)
  PROVE  CampaignInv'
PROOF
  <1> DEFINE q == send[r]
             status == FinalStatus(q.sent, q.failed)
  <1>1. /\ q.at = "count" /\ SendDone(r) /\ OnlyCampaign
        /\ q.sent # Nobody /\ q.failed # Nobody
        /\ CampaignStatusIs(q.campaign, status)
    BY DEF WriteFinalStatus
  <1>2. PICK c \in Campaigns : c = q.campaign
    BY <1>1, RequestAtWork
  <1>3. CampaignTypeOK /\ CountsAre(q)
    BY <1>1, RequestAtWork
  <1>4. status \in CampaignStatus
    BY DEF FinalStatus, CampaignStatus
  <1>5. campaign'[c].status = status
    <2> HIDE DEF status
    <2> QED
      BY <1>1, <1>2, <1>3, <1>4, StatusType DEF CampaignTypeOK
  <1>6. \A fates : SomeFate(c, fates)' <=> SomeFate(c, fates)
    BY <1>1 DEF SomeFate, OnlyCampaign
  <1>7. /\ status = "SENT" => ~SomeFate(c, Refused)
        /\ status = "PARTIAL" => SomeFate(c, Failures) /\ SomeFate(c, Accepted)
        /\ status = "FAILED" => SomeFate(c, Failures)
        /\ status \in {"SENT", "PARTIAL", "FAILED"}
    BY <1>1, <1>2, <1>3 DEF FinalStatus, CountsAre
  <1>8. StatusIsTrue(c)'
    <2> HIDE DEF status
    <2> QED
      BY <1>1, <1>5, <1>7 DEF StatusIsTrue, SomeFate, OnlyCampaign, Unsent
  <1> HIDE DEF status
  <1> QED
    BY <1>1, <1>2, <1>3, <1>4, <1>8, SendDoneType, StatusStepKeeps DEF CampaignTypeOK

-----------------------------------------------------------------------------
(* Steps of nobody's request, and the first one of a request. *)

LEMMA CreateDraftKeeps ==
  ASSUME CampaignInv, PushInv', NEW c \in Campaigns, NEW audience \in Audiences,
         CreateDraft(c, audience)
  PROVE  CampaignInv'
PROOF
  <1> DEFINE new == [status |-> "DRAFT", audience |-> audience]
  <1>1. /\ campaign[c].status = "NONE" /\ campaign' = [campaign EXCEPT ![c] = new]
        /\ UNCHANGED <<tokenVars, channel, inbox, delivery, expo, send, poll>>
    BY DEF CreateDraft
  <1>2. CampaignTypeOK /\ TokensAreTrue /\ StatusIsTrue(c)
    BY DEF CampaignInv
  <1>3. new \in Campaign
    BY CampaignAssumption DEF Campaign, CampaignStatus
  <1>4. new.status = "DRAFT"
    OBVIOUS
  <1> HIDE DEF new
  <1>5. CampaignTypeOK' /\ TokensAreTrue'
    BY <1>1, <1>2, <1>3 DEF CampaignTypeOK, TokenTypeOK, TokensAreTrue, tokenVars
  <1>6. campaign'[c].status = "DRAFT" /\ \A e \in Campaigns \ {c} : campaign'[e] = campaign[e]
    BY <1>1, <1>2, <1>4 DEF CampaignTypeOK
  <1>7. /\ \A d : RowKept(d)
        /\ \A x : FateKept(x)
        /\ \A x : FateGrows(x)
    BY <1>1 DEF RowKept, FateKept, FateGrows
  <1>8. ASSUME NEW r \in Senders
        PROVE  AtWork(r)'
    <2>1. AtWork(r) /\ SenderKnows(r)
      BY DEF CampaignInv, PushInv
    <2>2. CASE send[r].at = "idle"
      BY <1>1, <2>1, <2>2 DEF AtWork, Addressed
    <2>3. CASE send[r].at # "idle"
      <3>1. send[r].campaign \in Campaigns /\ send[r].campaign # c
        BY <1>1, <2>1, <2>3 DEF SenderKnows, Unsent
      <3> QED
        BY <1>1, <1>2, <1>6, <1>7, <2>1, <3>1, AtWorkKept
    <2> QED
      BY <2>2, <2>3
  <1>9. \A e \in Campaigns, t \in Tokens : RowIsTrue(e, t)'
    BY <1>1, <1>7, RowStaysTrue DEF CampaignInv
  <1>10. \A p \in Polls : PollIsTrue(p)'
    BY <1>1, <1>2, <1>7, PollStaysTrue DEF CampaignInv
  <1>11. \A e \in Campaigns \ {c} : StatusIsTrue(e)'
    BY <1>6, <1>7, StatusStaysTrue DEF CampaignInv
  <1>12. StatusIsTrue(c)'
    BY <1>1, <1>2, <1>6 DEF StatusIsTrue, Unsent
  <1> QED
    BY <1>5, <1>8, <1>9, <1>10, <1>11, <1>12 DEF CampaignInv

LEMMA ReadCampaignKeeps ==
  ASSUME CampaignInv, PushInv', NEW r \in Senders, NEW c \in Campaigns, ReadCampaign(r, c)
  PROVE  CampaignInv'
PROOF
  <1> DEFINE new == [IdleSend EXCEPT !.at = "settings", !.campaign = c]
  <1>1. /\ send[r].at = "idle" /\ campaign[c].status = "DRAFT" /\ OnlySend
        /\ send' = [send EXCEPT ![r] = new]
    BY DEF ReadCampaign, Sendable
  <1>0. /\ IdleSend \in SendRequest /\ IdleSend.messages = <<>> /\ IdleSend.bad = <<>>
        /\ IdleSend.tickets = <<>> /\ IdleSend.next = 0
        /\ IdleSend.sent = Nobody /\ IdleSend.failed = Nobody
    BY IdleSendType DEF IdleSend
  <1>2. CampaignTypeOK /\ TokensAreTrue /\ StatusIsTrue(c) /\ UnsentIsSilent
    BY DEF CampaignInv, PushInv
  <1>3. /\ new \in SendRequest /\ new.at = "settings" /\ new.campaign = c
        /\ new.messages = <<>> /\ new.bad = <<>> /\ new.tickets = <<>> /\ new.next = 0
        /\ new.sent = Nobody /\ new.failed = Nobody
    BY <1>0 DEF SendRequest
  <1> HIDE DEF new
  <1>4. send'[r] = new /\ \A q \in Senders \ {r} : send'[q] = send[q]
    BY <1>1, <1>2, <1>3 DEF CampaignTypeOK
  <1>5. CampaignTypeOK' /\ TokensAreTrue'
    BY <1>1, <1>2, <1>3 DEF CampaignTypeOK, TokenTypeOK, TokensAreTrue, OnlySend, tokenVars
  <1>6. AtWork(r)'
    <2>1. \A t \in Tokens : delivery[<<c, t>>].status = "NONE" /\ ~Pushed(c, t, r)
      BY <1>1, <1>2 DEF StatusIsTrue, UnsentIsSilent, Unsent
    <2>2. Addressed(new) /\ Progress(new)
      BY <1>3 DEF Addressed, Progress, Distinct, BeforeRows, BeforeTickets, BeforeMark
    <2>3. RowsAre(new)
      BY <1>3, <2>1 DEF RowsAre, BeforeRows, BeforeMark
    <2>6. MessagesAre(new, r) /\ CountsAre(new)
      <3>1. DOMAIN new.tickets = {}
        BY <1>3
      <3>2. MessagesAre(new, r)
        BY <1>3, <2>1, <3>1 DEF MessagesAre
      <3> QED
        BY <1>3, <3>2 DEF CountsAre
    <2> DEFINE q == send[r]
    <2>4. q' = new
      BY <1>4
    <2> HIDE DEF q
    <2>5. Addressed(q)' /\ Progress(q)'
      BY <2>2, <2>4 DEF Addressed, Progress, Distinct
    <2>7. RowsAre(q)' /\ CountsAre(q)'
      BY <1>1, <2>3, <2>4, <2>6 DEF RowsAre, CountsAre, SomeFate, OnlySend
    <2>8. MessagesAre(q, r)'
      BY <1>1, <2>4, <2>6 DEF MessagesAre, Pushed, OnlySend
    <2> QED
      BY <1>3, <2>4, <2>5, <2>7, <2>8 DEF AtWork, q, BeforeMark
  <1>7. /\ \A d : RowKept(d)
        /\ \A x : FateKept(x)
        /\ \A x : FateGrows(x)
    BY <1>1 DEF RowKept, FateKept, FateGrows, OnlySend
  <1>8. ASSUME NEW q \in Senders \ {r}
        PROVE  AtWork(q)'
    <2>1. AtWork(q) /\ send'[q] = send[q]
      BY <1>4 DEF CampaignInv
    <2>2. CASE send[q].at = "idle"
      BY <2>1, <2>2 DEF AtWork, Addressed
    <2>3. CASE send[q].at # "idle"
      <3>1. send[q].campaign \in Campaigns
        BY <2>1, <2>3 DEF AtWork, Progress
      <3> QED
        BY <1>1, <1>2, <1>7, <2>1, <3>1, AtWorkKept DEF OnlySend
    <2> QED
      BY <2>2, <2>3
  <1>9. \A e \in Campaigns, t \in Tokens : RowIsTrue(e, t)'
    BY <1>1, <1>7, RowStaysTrue DEF CampaignInv, OnlySend
  <1>10. \A p \in Polls : PollIsTrue(p)'
    BY <1>1, <1>2, <1>7, PollStaysTrue DEF CampaignInv, OnlySend
  <1>11. \A e \in Campaigns : StatusIsTrue(e)'
    BY <1>1, <1>7, StatusStaysTrue DEF CampaignInv, OnlySend
  <1> QED
    BY <1>5, <1>6, <1>8, <1>9, <1>10, <1>11 DEF CampaignInv
-----------------------------------------------------------------------------
(* The steps of sendCampaign that write rows of deliveries. *)

\* While a campaign is SENDING, its status promises nothing yet.
LEMMA SendingPromisesNothing ==
  ASSUME NEW c \in Campaigns, campaign'[c].status = "SENDING"
  PROVE  StatusIsTrue(c)'
PROOF
  BY DEF StatusIsTrue, Unsent

LEMMA RowStepKeeps ==
  ASSUME CampaignInv, PushInv', NEW r \in Senders, NEW c \in Campaigns,
         send[r].at # "idle", send[r].campaign = c, campaign[c].status = "SENDING",
         OnlyDelivery, delivery' \in [Campaigns \X Tokens -> Delivery],
         \A e \in Campaigns \ {c}, t \in Tokens : delivery'[<<e, t>>] = delivery[<<e, t>>],
         \A t \in Tokens : delivery[<<c, t>>].ticket # Nobody =>
                             delivery'[<<c, t>>].ticket = delivery[<<c, t>>].ticket,
         send' \in [Senders -> SendRequest], \A q \in Senders \ {r} : send'[q] = send[q],
         AtWork(r)', \A t \in Tokens : RowIsTrue(c, t)'
  PROVE  CampaignInv'
PROOF
  <1>1. CampaignTypeOK /\ TokensAreTrue
    BY DEF CampaignInv
  <1>2. CampaignTypeOK' /\ TokensAreTrue'
    BY <1>1 DEF CampaignTypeOK, TokenTypeOK, TokensAreTrue, OnlyDelivery, tokenVars
  <1>3. \A t \in Tokens, q \in Senders : FateGrows(<<c, t, q>>)
    BY DEF FateGrows, FateKept, OnlyDelivery
  <1>4. StatusIsTrue(c)'
    BY SendingPromisesNothing DEF OnlyDelivery
  <1> QED
    BY <1>2, <1>3, <1>4, SenderKeeps DEF OnlyDelivery

LEMMA CreateDeliveriesKeeps ==
  ASSUME CampaignInv, PushInv', NEW r \in Senders, CreateDeliveries(r)
  PROVE  CampaignInv' /\ \A d \in Campaigns \X Tokens : RowMoves(d)
PROOF
  <1> DEFINE q == send[r]
             row == [status |-> "QUEUED", ticket |-> Nobody, since |-> InsertNumber]
  <1>1. PICK c \in Campaigns : c = q.campaign
    BY RequestAtWork DEF CreateDeliveries
  <1>2. /\ q.at = "rows" /\ SendTo(r, "malformed") /\ OnlyDelivery
        /\ delivery' = [d \in Campaigns \X Tokens |->
                          IF d[1] = c /\ d[2] \in q.tokens /\ delivery[d].status = "NONE"
                          THEN row ELSE delivery[d]]
    BY <1>1 DEF CreateDeliveries
  <1>3. /\ CampaignTypeOK /\ q \in SendRequest
        /\ Addressed(q) /\ Progress(q) /\ RowsAre(q) /\ MessagesAre(q, r) /\ CountsAre(q)
        /\ campaign[c].status = "SENDING"
    BY <1>1, <1>2, RequestAtWork DEF BeforeMark
  <1>4. \A t \in Tokens : delivery[<<c, t>>].status = "NONE" /\ RowIsTrue(c, t)
    BY <1>1, <1>2, <1>3 DEF RowsAre, BeforeRows, CampaignInv
  <1>5. \A t \in Tokens : delivery[<<c, t>>].ticket = Nobody
    BY <1>4 DEF RowIsTrue
  <1>6. \A t \in Tokens : row \in Delivery
    BY <1>3, InsertNumberType DEF Delivery, DeliveryStatus
  <1>7. row.status = "QUEUED" /\ row.ticket = Nobody
    OBVIOUS
  <1> HIDE DEF row
  <1>8. /\ delivery' \in [Campaigns \X Tokens -> Delivery]
        /\ \A e \in Campaigns \ {c}, t \in Tokens : delivery'[<<e, t>>] = delivery[<<e, t>>]
        /\ \A t \in Tokens : delivery'[<<c, t>>] = IF t \in q.tokens THEN row ELSE delivery[<<c, t>>]
    BY <1>2, <1>3, <1>4, <1>6 DEF CampaignTypeOK
  <1>9. \A t \in Tokens : RowIsTrue(c, t)'
    BY <1>4, <1>5, <1>7, <1>8 DEF RowIsTrue
  <1>10. /\ send' \in [Senders -> SendRequest]
         /\ \A p \in Senders \ {r} : send'[p] = send[p]
         /\ q' = [q EXCEPT !.at = "malformed"]
    BY <1>2, <1>3, SendToType DEF CampaignTypeOK
  <1>11. /\ q'.at = "malformed" /\ q'.campaign = c /\ q'.bad = q.bad /\ q'.tokens = q.tokens
         /\ q'.messages = q.messages /\ q'.tickets = q.tickets /\ q'.next = q.next
         /\ q'.sent = q.sent /\ q'.failed = q.failed
    BY <1>1, <1>3, <1>10 DEF SendRequest
  <1>12. /\ q.tokens \subseteq Tokens /\ q.next = 0
         /\ \A i \in DOMAIN q.bad : q.bad[i] \in q.tokens
         /\ \A i \in DOMAIN q.messages : q.messages[i] \in q.tokens
    BY <1>2, <1>3 DEF SendRequest, Addressed, Progress, BeforeTickets, BeforeRows
  <1> HIDE DEF q
  <1>13. Addressed(q)' /\ Progress(q)'
    BY <1>2, <1>3, <1>11 DEF Addressed, Progress, Distinct, BeforeRows, BeforeTickets, BeforeMark
  <1>14. RowsAre(q)'
    BY <1>7, <1>8, <1>11, <1>12 DEF RowsAre, BeforeRows, BeforeMark
  <1>15. MessagesAre(q, r)' /\ CountsAre(q)'
    BY <1>1, <1>2, <1>3, <1>11 DEF MessagesAre, CountsAre, SomeFate, Pushed, OnlyDelivery
  <1>16. AtWork(r)'
    BY <1>2, <1>3, <1>11, <1>13, <1>14, <1>15 DEF AtWork, q, OnlyDelivery
  <1>17. CampaignInv'
    BY <1>1, <1>2, <1>3, <1>5, <1>8, <1>9, <1>10, <1>16, RowStepKeeps DEF q
  <1>18. \A e \in Campaigns, t \in Tokens : RowMoves(<<e, t>>)
    BY <1>4, <1>7, <1>8 DEF RowMoves
  <1> QED
    BY <1>17, <1>18

\* One row of the request's campaign is written.
LEMMA OneRow ==
  ASSUME delivery \in [Campaigns \X Tokens -> Delivery], NEW c \in Campaigns, NEW t \in Tokens,
         NEW row \in Delivery, delivery' = [delivery EXCEPT ![<<c, t>>] = row]
  PROVE  /\ delivery' \in [Campaigns \X Tokens -> Delivery]
         /\ \A e \in Campaigns \ {c}, s \in Tokens : delivery'[<<e, s>>] = delivery[<<e, s>>]
         /\ \A s \in Tokens \ {t} : delivery'[<<c, s>>] = delivery[<<c, s>>]
         /\ delivery'[<<c, t>>] = row
PROOF
  OBVIOUS

\* What is left of a sequence without repetition.
LEMMA RestOf ==
  ASSUME NEW S, NEW s \in Seq(S), s # <<>>, Distinct(s)
  PROVE  /\ Tail(s) \in Seq(S) /\ Distinct(Tail(s))
         /\ \A i \in DOMAIN Tail(s) :
              i + 1 \in DOMAIN s /\ Tail(s)[i] = s[i + 1] /\ Tail(s)[i] # Head(s)
PROOF
  <1>1. /\ Tail(s) \in Seq(S) /\ Len(Tail(s)) = Len(s) - 1 /\ Len(s) \in Nat \ {0}
        /\ \A i \in 1 .. Len(Tail(s)) : Tail(s)[i] = s[i + 1]
    BY HeadTailProperties
  <1> DEFINE rest == Tail(s)
  <1>2. DOMAIN rest = 1 .. Len(s) - 1 /\ DOMAIN s = 1 .. Len(s) /\ Head(s) = s[1]
    BY <1>1
  <1>3. \A i \in DOMAIN rest : i + 1 \in DOMAIN s /\ rest[i] = s[i + 1] /\ i + 1 # 1
    BY <1>1, <1>2
  <1>4. 1 \in DOMAIN s
    BY <1>1, <1>2
  <1>5. \A i \in DOMAIN rest : rest[i] # Head(s)
    BY <1>2, <1>3, <1>4 DEF Distinct
  <1>6. Distinct(rest)
    <2> SUFFICES ASSUME NEW i \in DOMAIN rest, NEW k \in DOMAIN rest, rest[i] = rest[k]
                 PROVE  i = k
      BY DEF Distinct
    <2>1. i + 1 = k + 1
      BY <1>3 DEF Distinct
    <2>2. i \in Int /\ k \in Int
      BY <1>1, <1>2
    <2> QED
      BY <2>1, <2>2
  <1> QED
    BY <1>1, <1>3, <1>5, <1>6

LEMMA MarkMalformedRowKeeps ==
  ASSUME CampaignInv, PushInv', NEW r \in Senders, MarkMalformedRow(r)
  PROVE  CampaignInv' /\ \A d \in Campaigns \X Tokens : RowMoves(d)
PROOF
  <1> DEFINE q == send[r]
             new == [q EXCEPT !.at = "malformed", !.bad = Tail(q.bad)]
  <1>1. PICK c \in Campaigns : c = q.campaign
    BY RequestAtWork DEF MarkMalformedRow
  <1>0. PICK t \in Tokens : t = Head(q.bad)
    <2>1. q \in SendRequest /\ q.bad # <<>>
      BY RequestAtWork DEF MarkMalformedRow, Progress
    <2> QED
      BY <2>1 DEF SendRequest
  <1> DEFINE row == [delivery[<<c, t>>] EXCEPT !.status = "INVALID_TOKEN"]
  <1>2. /\ q.at = "malformedRow" /\ OnlyDelivery
        /\ delivery' = [delivery EXCEPT ![<<c, t>>] = row]
        /\ send' = [send EXCEPT ![r] = new]
    BY <1>0, <1>1 DEF MarkMalformedRow
  <1>3. /\ CampaignTypeOK /\ q \in SendRequest
        /\ Addressed(q) /\ Progress(q) /\ RowsAre(q) /\ MessagesAre(q, r) /\ CountsAre(q)
        /\ campaign[c].status = "SENDING"
    BY <1>1, <1>2, RequestAtWork DEF BeforeMark
  <1>4. /\ q.bad \in Seq(Tokens) /\ q.messages \in Seq(Tokens) /\ q.bad # <<>> /\ q.next = 0
        /\ Distinct(q.bad) /\ q.tickets = <<>> /\ q.tickets \in Seq(Tickets)
        /\ \A i \in DOMAIN q.bad : q.bad[i] \notin WellFormed
        /\ \A i \in DOMAIN q.messages : q.messages[i] \in WellFormed
    BY <1>2, <1>3 DEF SendRequest, Addressed, Progress, BeforeTickets
  <1>5. /\ t \in Tokens /\ t = q.bad[1] /\ t \notin WellFormed /\ 1 \in DOMAIN q.bad
    BY <1>0, <1>4
  <1>18. PICK rest \in Seq(Tokens) :
           /\ rest = Tail(q.bad) /\ Distinct(rest)
           /\ \A i \in DOMAIN rest : i + 1 \in DOMAIN q.bad /\ rest[i] = q.bad[i + 1] /\ rest[i] # t
    <2> DEFINE rest == Tail(q.bad)
    <2>1. /\ rest \in Seq(Tokens) /\ Distinct(rest)
          /\ \A i \in DOMAIN rest : i + 1 \in DOMAIN q.bad /\ rest[i] = q.bad[i + 1] /\ rest[i] # t
      <3> HIDE DEF q
      <3> QED
        BY <1>0, <1>4, RestOf
    <2> HIDE DEF rest
    <2> QED
      BY <2>1 DEF rest
  <1>17. /\ \A i \in DOMAIN q.bad : q.bad[i] \in Tokens /\ delivery[<<c, q.bad[i]>>].status = "QUEUED"
         /\ \A i \in DOMAIN q.messages : /\ q.messages[i] \in Tokens /\ q.messages[i] # t
                                         /\ delivery[<<c, q.messages[i]>>].status = "QUEUED"
    <2>1. /\ \A i \in DOMAIN q.bad : delivery[<<c, q.bad[i]>>].status = "QUEUED"
          /\ \A i \in DOMAIN q.messages :
               i > q.next => delivery[<<c, q.messages[i]>>].status = "QUEUED"
      BY <1>1, <1>2, <1>3 DEF RowsAre, BeforeRows, BeforeMark
    <2>2. \A i \in DOMAIN q.messages : i > q.next
      BY <1>4
    <2>3. /\ \A i \in DOMAIN q.bad : q.bad[i] \in Tokens
          /\ \A i \in DOMAIN q.messages : q.messages[i] \in Tokens /\ q.messages[i] # t
      BY <1>4, <1>5
    <2> QED
      BY <2>1, <2>2, <2>3
  <1>6. delivery[<<c, t>>].status = "QUEUED" /\ delivery[<<c, t>>].ticket = Nobody
    <2>1. delivery[<<c, t>>].status = "QUEUED"
      BY <1>5, <1>17
    <2>2. RowIsTrue(c, t)
      BY <1>5 DEF CampaignInv
    <2> QED
      BY <2>1, <2>2 DEF RowIsTrue
  <1>7. row \in Delivery /\ row.status = "INVALID_TOKEN" /\ row.ticket = Nobody
    BY <1>3, <1>5, <1>6 DEF CampaignTypeOK, Delivery, DeliveryStatus
  <1> HIDE DEF row
  <1>8. /\ delivery' \in [Campaigns \X Tokens -> Delivery]
        /\ \A e \in Campaigns \ {c}, s \in Tokens : delivery'[<<e, s>>] = delivery[<<e, s>>]
        /\ \A s \in Tokens \ {t} : delivery'[<<c, s>>] = delivery[<<c, s>>]
        /\ delivery'[<<c, t>>] = row
    BY <1>2, <1>3, <1>5, <1>7, OneRow DEF CampaignTypeOK
  <1>9. \A s \in Tokens : RowIsTrue(c, s)'
    <2>1. ASSUME NEW s \in Tokens, s # t
          PROVE  RowIsTrue(c, s)'
      BY <1>2, <1>8, <2>1, RowStaysTrue DEF CampaignInv, FateGrows, FateKept, OnlyDelivery
    <2>2. RowIsTrue(c, t)'
      BY <1>5, <1>7, <1>8 DEF RowIsTrue
    <2> QED
      BY <2>1, <2>2
  <1>10. /\ new \in SendRequest /\ new.at = "malformed" /\ new.campaign = c
         /\ new.bad = rest /\ new.tokens = q.tokens
         /\ new.messages = q.messages /\ new.tickets = q.tickets /\ new.next = q.next
         /\ new.sent = q.sent /\ new.failed = q.failed
    BY <1>1, <1>3, <1>18 DEF SendRequest
  <1> HIDE DEF new
  <1>11. /\ send' \in [Senders -> SendRequest]
         /\ \A p \in Senders \ {r} : send'[p] = send[p]
         /\ q' = new
    BY <1>2, <1>3, <1>10 DEF CampaignTypeOK
  <1> HIDE DEF q
  <1>12. Addressed(q)'
    <2>1. \A i \in DOMAIN rest : rest[i] \in q.tokens \ WellFormed
      BY <1>3, <1>18 DEF Addressed
    <2>2. q.bad' = rest /\ q.messages' = q.messages /\ q.tokens' = q.tokens
      BY <1>10, <1>11
    <2>3. Distinct(q.bad)'
      BY <1>18, <2>2 DEF Distinct
    <2>4. Distinct(q.messages)'
      BY <1>3, <2>2 DEF Addressed, Distinct
    <2> QED
      BY <1>3, <2>1, <2>2, <2>3, <2>4 DEF Addressed
  <1>13. Progress(q)'
    BY <1>2, <1>3, <1>10, <1>11 DEF Progress, BeforeRows, BeforeTickets, BeforeMark
  <1>14. RowsAre(q)'
    <2>1. \A i \in DOMAIN q.messages : delivery'[<<c, q.messages[i]>>].status = "QUEUED"
      BY <1>8, <1>17
    <2>2. \A i \in DOMAIN rest : delivery'[<<c, rest[i]>>].status = "QUEUED"
      <3>1. \A i \in DOMAIN rest :
              rest[i] \in Tokens \ {t} /\ delivery[<<c, rest[i]>>].status = "QUEUED"
        BY <1>17, <1>18
      <3> QED
        BY <1>8, <3>1
    <2>3. /\ q.bad' = rest /\ q.messages' = q.messages /\ q.next' = 0 /\ q.campaign' = c
          /\ q.at' = "malformed"
      BY <1>4, <1>10, <1>11
    <2>4. (1 .. q.next)' = {}
      BY <2>3
    <2>5. q.at' \notin BeforeRows
      BY <2>3 DEF BeforeRows, BeforeMark
    <2> QED
      BY <2>1, <2>2, <2>3, <2>4, <2>5 DEF RowsAre
  <1>15. MessagesAre(q, r)' /\ CountsAre(q)'
    <2>1. MessagesAre(q, r)'
      BY <1>1, <1>2, <1>3, <1>10, <1>11 DEF MessagesAre, Pushed, OnlyDelivery
    <2>2. CountsAre(q)'
      BY <1>1, <1>2, <1>3, <1>10, <1>11 DEF CountsAre, SomeFate, OnlyDelivery
    <2> QED
      BY <2>1, <2>2
  <1>16. AtWork(r)'
    BY <1>2, <1>3, <1>10, <1>11, <1>12, <1>13, <1>14, <1>15 DEF AtWork, q, OnlyDelivery
  <1>19. \A s \in Tokens : delivery[<<c, s>>].ticket # Nobody =>
                             delivery'[<<c, s>>].ticket = delivery[<<c, s>>].ticket
    BY <1>6, <1>8
  <1>20. CampaignInv'
    BY <1>1, <1>2, <1>3, <1>8, <1>9, <1>11, <1>16, <1>19, RowStepKeeps DEF q
  <1>21. \A e \in Campaigns, s \in Tokens : RowMoves(<<e, s>>)
    BY <1>6, <1>7, <1>8 DEF RowMoves
  <1> QED
    BY <1>20, <1>21

\* Ticket i is of message i, whatever chunk it came with.
LEMMA WriteTicketKeeps ==
  ASSUME CampaignInv, PushInv', NEW r \in Senders, WriteTicket(r)
  PROVE  CampaignInv' /\ \A d \in Campaigns \X Tokens : RowMoves(d)
PROOF
  <1> DEFINE q == send[r]
  <1>1. PICK c \in Campaigns : c = q.campaign
    BY RequestAtWork DEF WriteTicket
  <1>13. PICK i \in Nat, t \in Tokens : i = q.next + 1 /\ t = q.messages[i]
    <2>1. q \in SendRequest /\ Progress(q) /\ q.next + 1 \in DOMAIN q.tickets
      BY RequestAtWork DEF WriteTicket
    <2> QED
      BY <2>1 DEF SendRequest, Progress
  <1>20. PICK at : at = IF q.tickets[i] = "gone" THEN "invalidate" ELSE "tickets"
    OBVIOUS
  <1> DEFINE new == [q EXCEPT !.next = i, !.at = at]
  <1> DEFINE old == delivery[<<c, t>>]
             row == IF q.tickets[i] = "accepted"
                    THEN [old EXCEPT !.status = "SENT", !.ticket = r]
                    ELSE [old EXCEPT !.status = "FAILED"]
  <1>2. /\ q.at = "tickets" /\ OnlyDelivery /\ i \in DOMAIN q.tickets
        /\ delivery' = [delivery EXCEPT ![<<c, t>>] = row]
        /\ send' = [send EXCEPT ![r] = new]
    BY <1>1, <1>13, <1>20 DEF WriteTicket, MessageOf
  <1>3. /\ CampaignTypeOK /\ q \in SendRequest
        /\ Addressed(q) /\ Progress(q) /\ RowsAre(q) /\ MessagesAre(q, r) /\ CountsAre(q)
        /\ campaign[c].status = "SENDING"
    BY <1>1, <1>2, RequestAtWork DEF BeforeMark
  <1>4. /\ q.messages \in Seq(Tokens) /\ q.tickets \in Seq(Tickets) /\ q.next \in Nat
        /\ Len(q.tickets) <= Len(q.messages) /\ Distinct(q.messages)
        /\ \A k \in DOMAIN q.bad : q.bad[k] \notin WellFormed
        /\ \A k \in DOMAIN q.messages : q.messages[k] \in WellFormed
        /\ q.bad \in Seq(Tokens)
    BY <1>2, <1>3 DEF SendRequest, Addressed, Progress
  <1>5. /\ i \in DOMAIN q.messages /\ t \in Tokens /\ t \in WellFormed /\ i \in Nat
        /\ q.tickets[i] \in Tickets
    BY <1>2, <1>4, <1>13
  <1>21. /\ \A k \in DOMAIN q.bad : /\ q.bad[k] \in Tokens /\ q.bad[k] # t
                                   /\ delivery[<<c, q.bad[k]>>].status = "QUEUED"
         /\ \A k \in DOMAIN q.messages : k > q.next => delivery[<<c, q.messages[k]>>].status = "QUEUED"
         /\ \A k \in DOMAIN q.messages : q.messages[k] \in Tokens
    <2>1. /\ \A k \in DOMAIN q.bad : delivery[<<c, q.bad[k]>>].status = "QUEUED"
          /\ \A k \in DOMAIN q.messages :
               k > q.next => delivery[<<c, q.messages[k]>>].status = "QUEUED"
      BY <1>1, <1>2, <1>3 DEF RowsAre, BeforeRows, BeforeMark
    <2>2. /\ \A k \in DOMAIN q.bad : q.bad[k] \in Tokens /\ q.bad[k] # t
          /\ \A k \in DOMAIN q.messages : q.messages[k] \in Tokens
      BY <1>4, <1>5
    <2> QED
      BY <2>1, <2>2
  <1>6. old.status = "QUEUED" /\ old.ticket = Nobody /\ old \in Delivery
    <2>1. old.status = "QUEUED"
      <3>1. i > q.next /\ i \in DOMAIN q.messages /\ q.messages[i] = t
        BY <1>4, <1>5, <1>13
      <3> QED
        BY <1>21, <3>1
    <2>2. RowIsTrue(c, t)
      BY <1>5 DEF CampaignInv
    <2> QED
      BY <1>3, <1>5, <2>1, <2>2 DEF RowIsTrue, CampaignTypeOK
  <1>7. /\ row \in Delivery
        /\ IF q.tickets[i] = "accepted" THEN row.status = "SENT" /\ row.ticket = r
                                        ELSE row.status = "FAILED" /\ row.ticket = Nobody
    BY <1>6 DEF Delivery, DeliveryStatus
  <1> HIDE DEF row, old
  <1>8. /\ delivery' \in [Campaigns \X Tokens -> Delivery]
        /\ \A e \in Campaigns \ {c}, s \in Tokens : delivery'[<<e, s>>] = delivery[<<e, s>>]
        /\ \A s \in Tokens \ {t} : delivery'[<<c, s>>] = delivery[<<c, s>>]
        /\ delivery'[<<c, t>>] = row
    BY <1>2, <1>3, <1>5, <1>7, OneRow DEF CampaignTypeOK
  <1>9. \A s \in Tokens : RowIsTrue(c, s)'
    <2>1. ASSUME NEW s \in Tokens, s # t
          PROVE  RowIsTrue(c, s)'
      BY <1>2, <1>8, <2>1, RowStaysTrue DEF CampaignInv, FateGrows, FateKept, OnlyDelivery
    <2>2. LET fate == expo[<<c, t, r>>] IN
          IF q.tickets[i] = "accepted" THEN fate \in Accepted ELSE fate \in Refused
      BY <1>1, <1>2, <1>3, <1>5, <1>13 DEF MessagesAre, Tickets, Refused
    <2>3. RowIsTrue(c, t)'
      BY <1>2, <1>7, <1>8, <2>2 DEF RowIsTrue, OnlyDelivery
    <2> QED
      BY <2>1, <2>3
  <1>10. /\ new \in SendRequest /\ new.at = at /\ new.next = i /\ new.campaign = c
         /\ new.bad = q.bad /\ new.tokens = q.tokens
         /\ new.messages = q.messages /\ new.tickets = q.tickets
         /\ new.sent = q.sent /\ new.failed = q.failed
    BY <1>1, <1>3, <1>5, <1>20 DEF SendRequest
  <1> HIDE DEF new
  <1>11. /\ send' \in [Senders -> SendRequest]
         /\ \A p \in Senders \ {r} : send'[p] = send[p]
         /\ q' = new
    BY <1>2, <1>3, <1>10 DEF CampaignTypeOK
  <1>12. at \in {"tickets", "invalidate"} /\ (at = "invalidate" => q.tickets[i] = "gone")
    BY <1>20
  <1> HIDE DEF q
  <1>14. Addressed(q)'
    BY <1>3, <1>10, <1>11 DEF Addressed, Distinct
  <1>15. Progress(q)'
    BY <1>2, <1>3, <1>4, <1>5, <1>10, <1>11, <1>12, <1>13
       DEF Progress, BeforeRows, BeforeTickets, BeforeMark
  <1>16. RowsAre(q)'
    <2>1. \A k \in DOMAIN q.messages : k > i => delivery'[<<c, q.messages[k]>>].status = "QUEUED"
      <3>1. \A k \in DOMAIN q.messages : k > i => k > q.next /\ q.messages[k] # t
        BY <1>4, <1>5, <1>13 DEF Distinct
      <3> QED
        BY <1>8, <1>21, <3>1
    <2>2. \A k \in DOMAIN q.bad : delivery'[<<c, q.bad[k]>>].status = "QUEUED"
      BY <1>8, <1>21
    <2>3. \A k \in 1 .. i : q.tickets[k] # "accepted" =>
            /\ delivery'[<<c, q.messages[k]>>].status = "FAILED"
            /\ delivery'[<<c, q.messages[k]>>].ticket = Nobody
      <3>1. \A k \in 1 .. i : k = i \/ (k \in 1 .. q.next /\ k \in DOMAIN q.messages /\ q.messages[k] # t)
        BY <1>4, <1>5, <1>13 DEF Distinct
      <3>2. \A k \in 1 .. q.next : q.tickets[k] # "accepted" =>
              /\ delivery[<<c, q.messages[k]>>].status = "FAILED"
              /\ delivery[<<c, q.messages[k]>>].ticket = Nobody
        BY <1>1, <1>3 DEF RowsAre
      <3> QED
        BY <1>7, <1>8, <1>13, <1>21, <3>1, <3>2
    <2> QED
      BY <1>10, <1>11, <1>12, <2>1, <2>2, <2>3 DEF RowsAre, BeforeRows, BeforeMark
  <1>17. MessagesAre(q, r)' /\ CountsAre(q)'
    <2>1. MessagesAre(q, r)'
      BY <1>1, <1>2, <1>3, <1>10, <1>11 DEF MessagesAre, Pushed, OnlyDelivery
    <2>2. CountsAre(q)'
      BY <1>1, <1>2, <1>3, <1>10, <1>11 DEF CountsAre, SomeFate, OnlyDelivery
    <2> QED
      BY <2>1, <2>2
  <1>18. AtWork(r)'
    BY <1>2, <1>3, <1>10, <1>11, <1>12, <1>14, <1>15, <1>16, <1>17 DEF AtWork, q, OnlyDelivery
  <1>19. \A s \in Tokens : delivery[<<c, s>>].ticket # Nobody =>
                             delivery'[<<c, s>>].ticket = delivery[<<c, s>>].ticket
    BY <1>6, <1>8 DEF old
  <1>22. CampaignInv'
    BY <1>1, <1>2, <1>3, <1>8, <1>9, <1>11, <1>18, <1>19, RowStepKeeps DEF q
  <1>23. \A e \in Campaigns, s \in Tokens : RowMoves(<<e, s>>)
    BY <1>6, <1>7, <1>8 DEF RowMoves, old
  <1> QED
    BY <1>22, <1>23
-----------------------------------------------------------------------------
(* The steps of sendCampaign that call the push service. *)

LEMMA MinOfTwo ==
  ASSUME NEW a \in Int, NEW b \in Int
  PROVE  Min({a, b}) \in {a, b} /\ Min({a, b}) <= a /\ Min({a, b}) <= b
PROOF
  <1>1. \E x \in {a, b} : \A y \in {a, b} : x <= y
    OBVIOUS
  <1> QED
    BY <1>1 DEF Min

\* A chunk is the messages that come after those with a ticket.
LEMMA ChunkIs ==
  ASSUME NEW q \in SendRequest, Len(q.tickets) <= Len(q.messages)
  PROVE  /\ Chunk(q) \in Seq(Tokens)
         /\ Len(q.tickets) + Len(Chunk(q)) <= Len(q.messages)
         /\ \A i \in DOMAIN Chunk(q) :
              /\ Len(q.tickets) + i \in DOMAIN q.messages
              /\ Chunk(q)[i] = q.messages[Len(q.tickets) + i]
PROOF
  <1>1. PICK m \in Nat, s \in Seq(Tokens) : m = Len(q.tickets) /\ s = q.messages
    BY DEF SendRequest
  <1>2. m <= Len(s) /\ Len(s) \in Nat /\ ChunkSize \in Nat
    BY <1>1, CampaignAssumption
  <1>3. PICK n : n = Min({m + ChunkSize, Len(s)})
    OBVIOUS
  <1>4. n \in Nat /\ m <= n /\ n <= Len(s)
    <2>1. m + ChunkSize \in Nat /\ m <= m + ChunkSize
      BY <1>2
    <2>2. n \in {m + ChunkSize, Len(s)} /\ n <= Len(s)
      <3>1. PICK a \in Int, b \in Int : a = m + ChunkSize /\ b = Len(s)
        BY <1>2, <2>1
      <3>2. Min({a, b}) \in {a, b} /\ Min({a, b}) <= b
        BY MinOfTwo
      <3> QED
        BY <1>3, <3>1, <3>2
    <2> QED
      BY <1>2, <2>1, <2>2
  <1>5. Chunk(q) = SubSeq(s, m + 1, n)
    BY <1>1, <1>3 DEF Chunk
  <1>6. \A i \in m + 1 .. n : s[i] \in Tokens
    BY <1>1, <1>4
  <1>7. /\ Chunk(q) \in Seq(Tokens)
        /\ Len(Chunk(q)) = n - m
        /\ \A i \in 1 .. n - m : Chunk(q)[i] = s[m + i]
    <2>1. m + 1 \in Int /\ n \in Int
      BY <1>4
    <2>2. /\ Chunk(q) \in Seq(Tokens)
          /\ Len(Chunk(q)) = IF m + 1 <= n THEN n - (m + 1) + 1 ELSE 0
          /\ \A i \in 1 .. n - (m + 1) + 1 : Chunk(q)[i] = s[m + 1 + i - 1]
      BY <1>5, <1>6, <2>1, SubSeqProperties
    <2>3. n - (m + 1) + 1 = n - m /\ \A i \in Int : m + 1 + i - 1 = m + i
      BY <1>4
    <2>4. Len(Chunk(q)) = n - m
      BY <1>4, <2>2, <2>3
    <2>5. \A i \in 1 .. n - m : i \in Int
      BY <1>4
    <2> QED
      BY <2>2, <2>3, <2>4, <2>5
  <1>8. DOMAIN Chunk(q) = 1 .. n - m
    BY <1>4, <1>7
  <1>9. \A i \in 1 .. n - m : m + i \in DOMAIN s
    BY <1>1, <1>4
  <1> QED
    BY <1>1, <1>4, <1>7, <1>8, <1>9

\* The push service makes something of the messages of a chunk, and of no other.
OnlyTaken(c, r, chunk, made) ==
  /\ expo' \in [Campaigns \X Tokens \X Senders -> Fate]
  /\ \A i \in DOMAIN chunk : expo'[<<c, chunk[i], r>>] = made[i]
  /\ \A e \in Campaigns, t \in Tokens, p \in Senders :
       e # c \/ p # r \/ (\A i \in DOMAIN chunk : chunk[i] # t) =>
         expo'[<<e, t, p>>] = expo[<<e, t, p>>]

LEMMA TakenIs ==
  ASSUME expo \in [Campaigns \X Tokens \X Senders -> Fate], NEW r \in Senders,
         NEW c \in Campaigns, NEW q, q.campaign = c,
         NEW chunk \in Seq(Tokens), Distinct(chunk),
         NEW made \in [DOMAIN chunk -> Tickets], expo' = Taken(q, r, chunk, made)
  PROVE  OnlyTaken(c, r, chunk, made)
PROOF
  <1> DEFINE all == Campaigns \X Tokens \X Senders
             of(x) == CHOOSE i \in DOMAIN chunk : chunk[i] = x[2]
             hit(x) == x[1] = c /\ x[3] = r /\ x[2] \in Range(chunk)
  <1>1. \A x, i : i \in DOMAIN chunk /\ chunk[i] = x[2] => of(x) = i
    BY DEF Distinct
  <1>2. expo' = [x \in all |-> IF hit(x) THEN made[of(x)] ELSE expo[x]]
    BY DEF Taken
  <1>3. \A x : x[2] \in Range(chunk) <=> \E i \in DOMAIN chunk : chunk[i] = x[2]
    BY DEF Range
  <1> HIDE DEF of
  <1>4. \A x \in all : expo'[x] = IF hit(x) THEN made[of(x)] ELSE expo[x]
    BY <1>2
  <1>5. \A x \in all, i \in DOMAIN chunk :
          x[1] = c /\ x[3] = r /\ chunk[i] = x[2] => expo'[x] = made[i]
    BY <1>1, <1>3, <1>4
  <1>6. \A x \in all :
          x[1] # c \/ x[3] # r \/ (\A i \in DOMAIN chunk : chunk[i] # x[2]) => expo'[x] = expo[x]
    BY <1>3, <1>4
  <1>7. \A x \in all : expo'[x] \in Fate
    BY <1>3, <1>5, <1>6 DEF Fate
  <1>8. expo' \in [all -> Fate]
    BY <1>2, <1>7
  <1>9. \A i \in DOMAIN chunk : <<c, chunk[i], r>> \in all
    OBVIOUS
  <1>10. \A i \in DOMAIN chunk : expo'[<<c, chunk[i], r>>] = made[i]
    BY <1>5, <1>9
  <1>11. ASSUME NEW e \in Campaigns, NEW t \in Tokens, NEW p \in Senders,
                e # c \/ p # r \/ (\A i \in DOMAIN chunk : chunk[i] # t)
         PROVE  expo'[<<e, t, p>>] = expo[<<e, t, p>>]
    BY <1>6, <1>11
  <1> QED
    BY <1>8, <1>10, <1>11 DEF OnlyTaken

\* The messages of a chunk are new, and for well-formed tokens.
LEMMA ChunkTaken ==
  ASSUME CampaignInv, NEW r \in Senders, ReadyToSend(send[r]),
         NEW c \in Campaigns, c = send[r].campaign, NEW chunk, chunk = Chunk(send[r]),
         NEW made \in [DOMAIN chunk -> Tickets], expo' = Taken(send[r], r, chunk, made)
  PROVE  /\ chunk \in Seq(Tokens) /\ OnlyTaken(c, r, chunk, made)
         /\ \A t \in Tokens, p \in Senders : FateGrows(<<c, t, p>>)
         /\ \A x \in Campaigns \X Tokens \X Senders : expo'[x] # "none" => x[2] \in WellFormed
PROOF
  <1> DEFINE q == send[r]
  <1>1. /\ CampaignTypeOK /\ q \in SendRequest /\ Addressed(q) /\ Progress(q) /\ MessagesAre(q, r)
    BY RequestAtWork DEF ReadyToSend
  <1>2. PICK m \in Nat : m = Len(q.tickets)
    BY <1>1 DEF SendRequest
  <1>3. /\ chunk \in Seq(Tokens)
        /\ \A i \in DOMAIN chunk : m + i \in DOMAIN q.messages /\ chunk[i] = q.messages[m + i]
        /\ m <= Len(q.messages)
    BY <1>1, <1>2, ChunkIs DEF Progress
  <1>4. \A i \in DOMAIN chunk : i \in Nat \ {0} /\ m + i > m
    BY <1>3
  <1>5. Distinct(chunk)
    <2> SUFFICES ASSUME NEW i \in DOMAIN chunk, NEW k \in DOMAIN chunk, chunk[i] = chunk[k]
                 PROVE  i = k
      BY DEF Distinct
    <2>1. m + i = m + k
      BY <1>1, <1>3 DEF Addressed, Distinct
    <2> QED
      BY <1>4, <2>1
  <1>6. /\ expo' \in [Campaigns \X Tokens \X Senders -> Fate]
        /\ \A i \in DOMAIN chunk : expo'[<<c, chunk[i], r>>] = made[i]
        /\ \A e \in Campaigns, t \in Tokens, p \in Senders :
             e # c \/ p # r \/ (\A i \in DOMAIN chunk : chunk[i] # t) =>
               expo'[<<e, t, p>>] = expo[<<e, t, p>>]
    <2> HIDE DEF q
    <2>1. q.campaign = c /\ expo' = Taken(q, r, chunk, made)
      BY DEF q
    <2>2. OnlyTaken(c, r, chunk, made)
      BY <1>1, <1>3, <1>5, <2>1, TakenIs DEF CampaignTypeOK
    <2> QED
      BY <2>2 DEF OnlyTaken
  <1>7. \A i \in DOMAIN chunk : expo[<<c, chunk[i], r>>] = "none" /\ chunk[i] \in Tokens
    <2> SUFFICES ASSUME NEW i \in DOMAIN chunk, expo[<<c, chunk[i], r>>] # "none"
                 PROVE  FALSE
      BY <1>3
    <2>1. chunk[i] \in Tokens
      BY <1>3
    <2>2. PICK k \in DOMAIN q.tickets : q.messages[k] = chunk[i]
      BY <1>1, <2>1 DEF MessagesAre, Pushed
    <2>3. k \in 1 .. m /\ k \in DOMAIN q.messages
      BY <1>1, <1>2, <1>3 DEF SendRequest
    <2>4. k = m + i
      BY <1>1, <1>3, <2>2, <2>3 DEF Addressed, Distinct
    <2> QED
      BY <1>4, <2>3, <2>4
  <1>8. \A t \in Tokens, p \in Senders : FateGrows(<<c, t, p>>)
    <2> SUFFICES ASSUME NEW t \in Tokens, NEW p \in Senders
                 PROVE  FateGrows(<<c, t, p>>)
      OBVIOUS
    <2>1. CASE p # r \/ \A i \in DOMAIN chunk : chunk[i] # t
      BY <1>6, <2>1 DEF FateGrows, FateKept
    <2>2. CASE p = r /\ \E i \in DOMAIN chunk : chunk[i] = t
      BY <1>6, <1>7, <2>2 DEF FateGrows
    <2> QED
      BY <2>1, <2>2
  <1>9. \A i \in DOMAIN chunk : chunk[i] \in WellFormed
    BY <1>1, <1>3 DEF Addressed
  <1>10. ASSUME NEW e \in Campaigns, NEW t \in Tokens, NEW p \in Senders,
                expo'[<<e, t, p>>] # "none"
         PROVE  t \in WellFormed
    <2>1. expo[<<e, t, p>>] # "none" => t \in WellFormed
      BY DEF CampaignInv, TokensAreTrue
    <2> QED
      BY <1>6, <1>9, <1>10, <2>1
  <1>11. OnlyTaken(c, r, chunk, made)
    BY <1>6 DEF OnlyTaken
  <1> QED
    BY <1>3, <1>8, <1>10, <1>11

\* What a step that calls the push service leaves.
LEMMA SendingStepKeeps ==
  ASSUME CampaignInv, PushInv', NEW r \in Senders, NEW c \in Campaigns,
         send[r].at # "idle", send[r].campaign = c, campaign[c].status = "SENDING",
         UNCHANGED <<tokenVars, channel, campaign, inbox, delivery, poll>>,
         expo' \in [Campaigns \X Tokens \X Senders -> Fate],
         \A e \in Campaigns \ {c}, t \in Tokens, q \in Senders :
           expo'[<<e, t, q>>] = expo[<<e, t, q>>],
         \A t \in Tokens, q \in Senders : FateGrows(<<c, t, q>>),
         \A x \in Campaigns \X Tokens \X Senders : expo'[x] # "none" => x[2] \in WellFormed,
         send' \in [Senders -> SendRequest], \A q \in Senders \ {r} : send'[q] = send[q],
         AtWork(r)'
  PROVE  CampaignInv'
PROOF
  <1>1. CampaignTypeOK /\ TokensAreTrue
    BY DEF CampaignInv
  <1>2. CampaignTypeOK' /\ TokensAreTrue'
    BY <1>1 DEF CampaignTypeOK, TokenTypeOK, TokensAreTrue, tokenVars
  <1>3. \A t \in Tokens : RowIsTrue(c, t)'
    BY RowStaysTrue DEF CampaignInv
  <1>4. StatusIsTrue(c)'
    BY SendingPromisesNothing
  <1> QED
    BY <1>2, <1>3, <1>4, SenderKeeps

LEMMA SendChunkKeeps ==
  ASSUME CampaignInv, PushInv', NEW r \in Senders, SendChunk(r)
  PROVE  CampaignInv'
PROOF
  <1> DEFINE q == send[r]
  <1>0. PICK c, chunk : c \in Campaigns /\ c = q.campaign /\ chunk = Chunk(q)
    BY RequestAtWork DEF SendChunk, ReadyToSend
  <1> c \in Campaigns
    BY <1>0
  <1>1. PICK made \in [DOMAIN chunk -> Tickets] :
          /\ expo' = Taken(q, r, chunk, made)
          /\ send' = [send EXCEPT ![r].at = "send", ![r].tickets = q.tickets \o made]
    BY <1>0 DEF SendChunk
  <1>2. ReadyToSend(q) /\ UNCHANGED <<tokenVars, channel, campaign, inbox, delivery, poll>>
    BY DEF SendChunk
  <1>3. /\ CampaignTypeOK /\ q \in SendRequest
        /\ Addressed(q) /\ Progress(q) /\ RowsAre(q) /\ MessagesAre(q, r) /\ CountsAre(q)
        /\ campaign[c].status = "SENDING" /\ q.at \in {"malformed", "send"} /\ q.bad = <<>>
    BY <1>0, <1>2, RequestAtWork DEF ReadyToSend, BeforeMark
  <1>4. /\ chunk \in Seq(Tokens)
        /\ expo' \in [Campaigns \X Tokens \X Senders -> Fate]
        /\ \A i \in DOMAIN chunk : expo'[<<c, chunk[i], r>>] = made[i]
        /\ \A e \in Campaigns, t \in Tokens, p \in Senders :
             e # c \/ p # r \/ (\A i \in DOMAIN chunk : chunk[i] # t) =>
               expo'[<<e, t, p>>] = expo[<<e, t, p>>]
        /\ \A t \in Tokens, p \in Senders : FateGrows(<<c, t, p>>)
        /\ \A x \in Campaigns \X Tokens \X Senders : expo'[x] # "none" => x[2] \in WellFormed
    <2>1. /\ chunk \in Seq(Tokens) /\ OnlyTaken(c, r, chunk, made)
          /\ \A t \in Tokens, p \in Senders : FateGrows(<<c, t, p>>)
          /\ \A x \in Campaigns \X Tokens \X Senders : expo'[x] # "none" => x[2] \in WellFormed
      BY <1>0, <1>1, <1>2, ChunkTaken
    <2> QED
      BY <2>1 DEF OnlyTaken
  <1>5. PICK m \in Nat : m = Len(q.tickets)
    BY <1>3 DEF SendRequest
  <1>6. /\ m + Len(chunk) <= Len(q.messages)
        /\ \A i \in DOMAIN chunk : m + i \in DOMAIN q.messages /\ chunk[i] = q.messages[m + i]
    BY <1>0, <1>3, <1>5, ChunkIs DEF Progress
  <1>7. made \in Seq(Tickets) /\ Len(made) = Len(chunk) /\ DOMAIN made = DOMAIN chunk
    BY <1>4
  <1>8. PICK tickets \in Seq(Tickets) :
          /\ tickets = q.tickets \o made /\ Len(tickets) = m + Len(chunk)
          /\ \A i \in 1 .. m : i \in DOMAIN q.tickets /\ tickets[i] = q.tickets[i]
          /\ \A i \in DOMAIN chunk : tickets[m + i] = made[i]
          /\ \A i \in DOMAIN tickets : i \in 1 .. m \/ \E k \in DOMAIN chunk : i = m + k
    <2>1. q.tickets \in Seq(Tickets)
      BY <1>3 DEF SendRequest
    <2> DEFINE tickets == q.tickets \o made
    <2>2. /\ tickets \in Seq(Tickets) /\ Len(tickets) = m + Len(chunk)
          /\ \A i \in 1 .. m + Len(chunk) :
               tickets[i] = IF i <= m THEN q.tickets[i] ELSE made[i - m]
      <3> HIDE DEF q
      <3>1. /\ q.tickets \o made \in Seq(Tickets)
            /\ Len(q.tickets \o made) = Len(q.tickets) + Len(made)
            /\ \A i \in 1 .. Len(q.tickets) + Len(made) :
                 (q.tickets \o made)[i] =
                   IF i <= Len(q.tickets) THEN q.tickets[i] ELSE made[i - Len(q.tickets)]
        BY <1>7, <2>1, ConcatProperties
      <3> QED
        BY <1>5, <1>7, <3>1
    <2>3. DOMAIN tickets = 1 .. m + Len(chunk) /\ DOMAIN chunk = 1 .. Len(chunk)
          /\ DOMAIN q.tickets = 1 .. m /\ Len(chunk) \in Nat
      BY <1>4, <1>5, <2>1, <2>2
    <2> HIDE DEF tickets
    <2>4. \A i \in 1 .. m : i \in DOMAIN q.tickets /\ tickets[i] = q.tickets[i]
      BY <2>2, <2>3
    <2>5. \A i \in 1 .. Len(chunk) : m + i \in 1 .. m + Len(chunk) /\ ~(m + i <= m) /\ (m + i) - m = i
      BY <2>3
    <2>6. \A i \in DOMAIN chunk : tickets[m + i] = made[i]
      BY <2>2, <2>3, <2>5
    <2>7. \A i \in DOMAIN tickets : i \in 1 .. m \/ \E k \in DOMAIN chunk : i = m + k
      <3> SUFFICES ASSUME NEW i \in DOMAIN tickets, i \notin 1 .. m
                   PROVE  \E k \in DOMAIN chunk : i = m + k
        OBVIOUS
      <3>1. i - m \in DOMAIN chunk /\ i = m + (i - m)
        BY <2>3
      <3> QED
        BY <3>1
    <2> QED
      BY <2>2, <2>4, <2>6, <2>7 DEF tickets
  <1> DEFINE new == [q EXCEPT !.at = "send", !.tickets = tickets]
  <1>9. send' = [send EXCEPT ![r] = new]
    BY <1>1, <1>8
  <1>10. /\ new \in SendRequest /\ new.at = "send" /\ new.campaign = c /\ new.tickets = tickets
         /\ new.bad = q.bad /\ new.tokens = q.tokens /\ new.messages = q.messages
         /\ new.next = q.next /\ new.sent = q.sent /\ new.failed = q.failed
    BY <1>0, <1>3 DEF SendRequest
  <1> HIDE DEF new
  <1>11. /\ send' \in [Senders -> SendRequest]
         /\ \A p \in Senders \ {r} : send'[p] = send[p]
         /\ q' = new
    BY <1>3, <1>9, <1>10 DEF CampaignTypeOK
  <1>12. q.next = 0 /\ q.messages \in Seq(Tokens) /\ Distinct(q.messages)
    BY <1>3 DEF Progress, BeforeTickets, BeforeRows, Addressed, SendRequest
  <1> HIDE DEF q
  <1>13. Addressed(q)'
    BY <1>3, <1>10, <1>11 DEF Addressed, Distinct
  <1>14. Progress(q)'
    <2>1. q.campaign \in Campaigns /\ q.sent = Nobody /\ q.failed = Nobody
      BY <1>0, <1>3 DEF Progress
    <2>2. Len(tickets) \in Nat
      BY <1>8
    <2> QED
      BY <1>6, <1>8, <1>10, <1>11, <1>12, <2>1, <2>2
         DEF Progress, BeforeRows, BeforeTickets, BeforeMark
  <1>15. RowsAre(q)'
    <2>1. \A i \in DOMAIN q.messages : i > q.next => delivery[<<c, q.messages[i]>>].status = "QUEUED"
      BY <1>0, <1>3 DEF RowsAre, BeforeRows, BeforeMark
    <2>2. /\ q.bad' = q.bad /\ q.messages' = q.messages /\ q.next' = 0 /\ q.campaign' = c
          /\ q.at' = "send" /\ (1 .. q.next)' = {}
      BY <1>10, <1>11, <1>12
    <2>3. q.at' \notin BeforeRows
      BY <2>2 DEF BeforeRows, BeforeMark
    <2> QED
      BY <1>2, <1>3, <1>12, <2>1, <2>2, <2>3 DEF RowsAre
  <1>16. MessagesAre(q, r)'
    <2>1. ASSUME NEW i \in 1 .. m
          PROVE  LET fate == expo'[<<c, q.messages[i], r>>] IN
                 IF tickets[i] = "accepted" THEN fate \in Accepted ELSE fate = tickets[i]
      <3>1. i \in DOMAIN q.tickets /\ tickets[i] = q.tickets[i] /\ q.tickets[i] \in Tickets
        BY <1>3, <1>8 DEF SendRequest
      <3>2. LET fate == expo[<<c, q.messages[i], r>>] IN
            IF tickets[i] = "accepted" THEN fate \in Accepted ELSE fate = tickets[i]
        BY <1>0, <1>3, <3>1 DEF MessagesAre
      <3>3. q.messages[i] \in Tokens
        BY <1>3, <1>5, <1>12, <3>1 DEF Progress
      <3>4. FateGrows(<<c, q.messages[i], r>>)
        BY <1>4, <3>3
      <3> QED
        BY <3>1, <3>2, <3>4 DEF FateGrows, FateKept, Accepted, Receipts, Tickets
    <2>2. ASSUME NEW k \in DOMAIN chunk
          PROVE  LET fate == expo'[<<c, q.messages[m + k], r>>] IN
                 IF tickets[m + k] = "accepted" THEN fate \in Accepted ELSE fate = tickets[m + k]
      BY <1>4, <1>6, <1>8 DEF Accepted
    <2>3. \A i \in DOMAIN tickets :
            LET fate == expo'[<<c, q.messages[i], r>>] IN
            IF tickets[i] = "accepted" THEN fate \in Accepted ELSE fate = tickets[i]
      BY <1>8, <2>1, <2>2
    <2>4. \A t \in Tokens : Pushed(c, t, r)' => \E i \in DOMAIN tickets : q.messages[i] = t
      <3> SUFFICES ASSUME NEW t \in Tokens, expo'[<<c, t, r>>] # "none"
                   PROVE  \E i \in DOMAIN tickets : q.messages[i] = t
        BY DEF Pushed
      <3>1. CASE \E k \in DOMAIN chunk : chunk[k] = t
        <4>1. PICK k \in DOMAIN chunk : chunk[k] = t
          BY <3>1
        <4>2. m + k \in DOMAIN tickets
          BY <1>4, <1>8
        <4> QED
          BY <1>6, <4>1, <4>2
      <3>2. CASE ~\E k \in DOMAIN chunk : chunk[k] = t
        <4>1. PICK i \in DOMAIN q.tickets : q.messages[i] = t
          BY <1>0, <1>3, <1>4, <3>2 DEF MessagesAre, Pushed
        <4>2. i \in DOMAIN tickets
          BY <1>3, <1>4, <1>5, <1>8 DEF SendRequest
        <4> QED
          BY <4>1, <4>2
      <3> QED
        BY <3>1, <3>2
    <2>5. q.messages' = q.messages /\ q.tickets' = tickets /\ q.campaign' = c
      BY <1>10, <1>11
    <2> QED
      BY <2>3, <2>4, <2>5 DEF MessagesAre, Pushed
  <1>17. CountsAre(q)'
    <2>1. q.sent' = Nobody /\ q.failed' = Nobody
      BY <1>3, <1>10, <1>11 DEF Progress
    <2> QED
      BY <2>1 DEF CountsAre
  <1>18. AtWork(r)'
    BY <1>2, <1>3, <1>10, <1>11, <1>13, <1>14, <1>15, <1>16, <1>17 DEF AtWork, q
  <1>19. send[r].at # "idle" /\ send[r].campaign = c
    BY <1>0, <1>3 DEF q
  <1> QED
    BY <1>2, <1>3, <1>4, <1>11, <1>18, <1>19, SendingStepKeeps

LEMMA AnswerToChunkLostKeeps ==
  ASSUME CampaignInv, PushInv', NEW r \in Senders, AnswerToChunkLost(r)
  PROVE  CampaignInv'
PROOF
  <1> DEFINE q == send[r]
  <1>0. PICK c, chunk : c \in Campaigns /\ c = q.campaign /\ chunk = Chunk(q)
    BY RequestAtWork DEF AnswerToChunkLost, ReadyToSend
  <1> c \in Campaigns
    BY <1>0
  <1>1. PICK made \in [DOMAIN chunk -> Tickets] : expo' = Taken(q, r, chunk, made)
    BY <1>0 DEF AnswerToChunkLost
  <1>2. /\ ReadyToSend(q) /\ SendDone(r)
        /\ UNCHANGED <<tokenVars, channel, campaign, inbox, delivery, poll>>
    BY DEF AnswerToChunkLost
  <1>3. /\ CampaignTypeOK /\ campaign[c].status = "SENDING" /\ q.at # "idle"
    BY <1>0, <1>2, RequestAtWork DEF ReadyToSend, BeforeMark
  <1>4. /\ expo' \in [Campaigns \X Tokens \X Senders -> Fate]
        /\ \A e \in Campaigns, t \in Tokens, p \in Senders :
             e # c \/ p # r \/ (\A i \in DOMAIN chunk : chunk[i] # t) =>
               expo'[<<e, t, p>>] = expo[<<e, t, p>>]
        /\ \A t \in Tokens, p \in Senders : FateGrows(<<c, t, p>>)
        /\ \A x \in Campaigns \X Tokens \X Senders : expo'[x] # "none" => x[2] \in WellFormed
    <2>1. /\ chunk \in Seq(Tokens) /\ OnlyTaken(c, r, chunk, made)
          /\ \A t \in Tokens, p \in Senders : FateGrows(<<c, t, p>>)
          /\ \A x \in Campaigns \X Tokens \X Senders : expo'[x] # "none" => x[2] \in WellFormed
      BY <1>0, <1>1, <1>2, ChunkTaken
    <2> QED
      BY <2>1 DEF OnlyTaken
  <1>5. /\ send' \in [Senders -> SendRequest]
        /\ \A p \in Senders \ {r} : send'[p] = send[p]
        /\ AtWork(r)'
    BY <1>2, <1>3, SendDoneType DEF CampaignTypeOK
  <1> QED
    BY <1>0, <1>2, <1>3, <1>4, <1>5, SendingStepKeeps
-----------------------------------------------------------------------------
(* Polls, receipts, settings and sign-outs. *)

\* A step that moves no request and no status.
LEMMA QuietKeeps ==
  ASSUME CampaignInv, PushInv', CampaignTypeOK', TokensAreTrue', UNCHANGED <<campaign, send>>,
         \A c \in Campaigns, t \in Tokens : RowKept(<<c, t>>) /\ RowIsTrue(c, t)',
         \A c \in Campaigns, t \in Tokens, r \in Senders : FateKept(<<c, t, r>>),
         \A p \in Polls : PollIsTrue(p)'
  PROVE  CampaignInv'
PROOF
  <1>1. CampaignTypeOK
    BY DEF CampaignInv
  <1>2. ASSUME NEW r \in Senders
        PROVE  AtWork(r)'
    <2>1. AtWork(r)
      BY DEF CampaignInv
    <2>2. CASE send[r].at = "idle"
      BY <2>1, <2>2 DEF AtWork, Addressed
    <2>3. CASE send[r].at # "idle"
      <3>1. send[r].campaign \in Campaigns
        BY <2>1, <2>3 DEF AtWork, Progress
      <3> QED
        BY <1>1, <2>1, <3>1, AtWorkKept
    <2> QED
      BY <2>2, <2>3
  <1>3. \A c \in Campaigns : StatusIsTrue(c)'
    BY StatusStaysTrue DEF CampaignInv
  <1> QED
    BY <1>2, <1>3 DEF CampaignInv

\* A step that writes no row either.
LEMMA NoRowKeeps ==
  ASSUME CampaignInv, PushInv', CampaignTypeOK', TokensAreTrue',
         UNCHANGED <<campaign, send, delivery>>,
         \A c \in Campaigns, t \in Tokens, r \in Senders : FateKept(<<c, t, r>>),
         NEW P \in SUBSET Polls, \A p \in P : PollIsTrue(p)',
         \A p \in Polls \ P : poll'[p] = poll[p]
  PROVE  CampaignInv'
PROOF
  <1>1. \A x \in Campaigns \X Tokens \X Senders : FateGrows(x)
    BY DEF FateGrows
  <1>2. \A c \in Campaigns, t \in Tokens : RowKept(<<c, t>>) /\ RowIsTrue(c, t)'
    <2> SUFFICES ASSUME NEW c \in Campaigns, NEW t \in Tokens
                 PROVE  RowKept(<<c, t>>) /\ RowIsTrue(c, t)'
      OBVIOUS
    <2>1. RowIsTrue(c, t) /\ RowKept(<<c, t>>)
      BY DEF CampaignInv, RowKept
    <2> QED
      BY <1>1, <2>1, RowStaysTrue
  <1>3. ASSUME NEW p \in Polls \ P
        PROVE  PollIsTrue(p)'
    BY <1>1, <1>3, PollStaysTrue DEF CampaignInv
  <1> QED
    BY <1>2, <1>3, QuietKeeps

\* A poll that ends or fails has nothing left to write.
LEMMA PollEndKeeps ==
  ASSUME CampaignInv, PushInv', NEW p \in Polls, PollDone(p) \/ PollFails(p)
  PROVE  CampaignInv'
PROOF
  <1>1. poll' = [poll EXCEPT ![p] = IdlePoll] /\ OnlyPoll
    BY DEF PollDone, PollFails
  <1>2. CampaignTypeOK /\ TokensAreTrue
    BY DEF CampaignInv
  <1>3. IdlePoll \in Poll /\ IdlePoll.found = {} /\ IdlePoll.gone = {}
    BY DEF IdlePoll, Poll
  <1>4. /\ poll' \in [Polls -> Poll] /\ poll'[p] = IdlePoll
        /\ \A o \in Polls \ {p} : poll'[o] = poll[o]
    BY <1>1, <1>2, <1>3 DEF CampaignTypeOK
  <1>5. CampaignTypeOK' /\ TokensAreTrue'
    BY <1>1, <1>2, <1>4 DEF CampaignTypeOK, TokenTypeOK, TokensAreTrue, OnlyPoll, tokenVars
  <1>6. PollIsTrue(p)'
    BY <1>3, <1>4 DEF PollIsTrue
  <1>7. \A x : FateKept(x)
    BY <1>1 DEF FateKept, OnlyPoll
  <1>8. {p} \in SUBSET Polls /\ \A o \in {p} : PollIsTrue(o)'
    BY <1>6
  <1> QED
    BY <1>1, <1>4, <1>5, <1>7, <1>8, NoRowKeeps DEF OnlyPoll

\* A poll reads deliveries with the tickets they have.
LEMMA ReadWaitingKeeps ==
  ASSUME CampaignInv, PushInv', NEW p \in Polls, ReadWaiting(p)
  PROVE  CampaignInv'
PROOF
  <1>1. PICK D \in Newest : poll' = [poll EXCEPT ![p] = [IdlePoll EXCEPT
                              !.at = "fetch", !.found = {PollItemOf(d) : d \in D}]]
    BY DEF ReadWaiting
  <1> DEFINE found == {PollItemOf(d) : d \in D}
             new == [IdlePoll EXCEPT !.at = "fetch", !.found = found]
  <1>2. CampaignTypeOK /\ TokensAreTrue /\ OnlyPoll
    BY DEF CampaignInv, ReadWaiting
  <1>3. \A d \in D : /\ d \in Campaigns \X Tokens
                     /\ delivery[d].ticket \in Senders
    <2>1. D \subseteq Waiting
      BY DEF Newest
    <2>2. \A d \in Waiting : d \in Campaigns \X Tokens /\ delivery[d].ticket # Nobody
      BY DEF Waiting
    <2> QED
      BY <1>2, <2>1, <2>2 DEF CampaignTypeOK, Delivery
  <1>4. \A d \in D : /\ PollItemOf(d) \in PollItem
                     /\ delivery[<<PollItemOf(d).campaign, PollItemOf(d).token>>].ticket =
                          PollItemOf(d).ticket
    <2> SUFFICES ASSUME NEW d \in D
                 PROVE  /\ PollItemOf(d) \in PollItem
                        /\ delivery[<<PollItemOf(d).campaign, PollItemOf(d).token>>].ticket =
                             PollItemOf(d).ticket
      OBVIOUS
    <2>1. /\ d[1] \in Campaigns /\ d[2] \in Tokens /\ d = <<d[1], d[2]>>
          /\ delivery[d].ticket \in Senders
      BY <1>3
    <2> QED
      BY <2>1 DEF PollItemOf, PollItem, Fate
  <1>5. found \subseteq PollItem /\ \A x \in found : delivery[<<x.campaign, x.token>>].ticket = x.ticket
    BY <1>4
  <1> HIDE DEF found
  <1>6. new.at = "fetch" /\ new.found = found /\ new.gone = {} /\ new \in Poll
    BY <1>5 DEF IdlePoll, Poll
  <1>7. poll' = [poll EXCEPT ![p] = new]
    BY <1>1 DEF found
  <1> HIDE DEF new
  <1>8. /\ poll' \in [Polls -> Poll] /\ poll'[p] = new
        /\ \A o \in Polls \ {p} : poll'[o] = poll[o]
    BY <1>2, <1>6, <1>7 DEF CampaignTypeOK
  <1>9. CampaignTypeOK' /\ TokensAreTrue'
    BY <1>2, <1>8 DEF CampaignTypeOK, TokenTypeOK, TokensAreTrue, OnlyPoll, tokenVars
  <1>10. PollIsTrue(p)'
    BY <1>2, <1>5, <1>6, <1>8 DEF PollIsTrue, OnlyPoll
  <1>11. \A x : FateKept(x)
    BY <1>2 DEF FateKept, OnlyPoll
  <1>12. {p} \in SUBSET Polls /\ \A o \in {p} : PollIsTrue(o)'
    BY <1>10
  <1> QED
    BY <1>2, <1>8, <1>9, <1>11, <1>12, NoRowKeeps DEF OnlyPoll

\* A receipt is the last word on its ticket.
LEMMA FetchReceiptsKeeps ==
  ASSUME CampaignInv, PushInv', NEW p \in Polls, FetchReceipts(p)
  PROVE  CampaignInv'
PROOF
  <1> DEFINE known == {y \in poll[p].found : FateOf(y) \in Receipts}
             found == {[x EXCEPT !.fate = FateOf(x)] : x \in known}
             new == [poll[p] EXCEPT !.at = "write", !.found = found]
  <1>1. OnlyPoll /\ poll' = [poll EXCEPT ![p] = new]
    BY DEF FetchReceipts
  <1>2. CampaignTypeOK /\ TokensAreTrue /\ PollIsTrue(p) /\ poll[p] \in Poll
    BY DEF CampaignInv, CampaignTypeOK
  <1>3. \A x \in known : /\ x \in PollItem /\ FateOf(x) \in Receipts
                         /\ delivery[<<x.campaign, x.token>>].ticket = x.ticket
    BY <1>2 DEF Poll, PollIsTrue
  <1>4. ASSUME NEW x \in known, NEW z, z = [x EXCEPT !.fate = FateOf(x)]
        PROVE  /\ z \in PollItem /\ z.fate \in Receipts /\ FateOf(z) = z.fate
               /\ delivery[<<z.campaign, z.token>>].ticket = z.ticket
    <2>1. x \in PollItem /\ FateOf(x) \in Receipts
          /\ delivery[<<x.campaign, x.token>>].ticket = x.ticket
      BY <1>3
    <2>2. /\ z.campaign = x.campaign /\ z.token = x.token /\ z.ticket = x.ticket
          /\ z.fate = FateOf(x) /\ z \in PollItem
      BY <1>4, <2>1 DEF PollItem, Fate
    <2> QED
      BY <2>1, <2>2 DEF FateOf
  <1>5. \A z \in found : /\ z \in PollItem /\ z.fate \in Receipts /\ FateOf(z) = z.fate
                         /\ delivery[<<z.campaign, z.token>>].ticket = z.ticket
    BY <1>4
  <1> HIDE DEF found
  <1>6. new.at = "write" /\ new.found = found /\ new.gone = poll[p].gone /\ new \in Poll
    BY <1>2, <1>5 DEF Poll
  <1> HIDE DEF new
  <1>7. /\ poll' \in [Polls -> Poll] /\ poll'[p] = new
        /\ \A o \in Polls \ {p} : poll'[o] = poll[o]
    BY <1>1, <1>2, <1>6 DEF CampaignTypeOK
  <1>8. CampaignTypeOK' /\ TokensAreTrue'
    BY <1>1, <1>2, <1>7 DEF CampaignTypeOK, TokenTypeOK, TokensAreTrue, OnlyPoll, tokenVars
  <1>9. PollIsTrue(p)'
    BY <1>1, <1>2, <1>5, <1>6, <1>7 DEF PollIsTrue, FateOf, OnlyPoll
  <1>10. \A x : FateKept(x)
    BY <1>1 DEF FateKept, OnlyPoll
  <1>11. {p} \in SUBSET Polls /\ \A o \in {p} : PollIsTrue(o)'
    BY <1>9
  <1> QED
    BY <1>1, <1>7, <1>8, <1>10, <1>11, NoRowKeeps DEF OnlyPoll

\* A device the push service does not know is taken out of use.
LEMMA InvalidateGoneKeeps ==
  ASSUME CampaignInv, PushInv', NEW p \in Polls, NEW t \in poll[p].gone, InvalidateGone(p, t)
  PROVE  CampaignInv'
PROOF
  <1> DEFINE new == [poll[p] EXCEPT !.gone = {}]
  <1>1. /\ token' = Invalid(t) /\ poll' = [poll EXCEPT ![p] = new]
        /\ UNCHANGED <<signOuts, channel, campaign, inbox, delivery, expo, send>>
    BY DEF InvalidateGone
  <1>2. CampaignTypeOK /\ TokensAreTrue /\ PollIsTrue(p) /\ poll[p] \in Poll /\ t \in Tokens
    BY DEF CampaignInv, CampaignTypeOK, Poll
  <1>3. new \in Poll /\ new.at = poll[p].at /\ new.found = poll[p].found /\ new.gone = {}
    BY <1>2 DEF Poll
  <1> HIDE DEF new
  <1>4. /\ poll' \in [Polls -> Poll] /\ poll'[p] = new
        /\ \A o \in Polls \ {p} : poll'[o] = poll[o]
    BY <1>1, <1>2, <1>3 DEF CampaignTypeOK
  <1>5. TokenTypeOK' /\ \A s \in Tokens : token'[s].user = token[s].user
    BY <1>1, <1>2, InvalidType DEF CampaignTypeOK
  <1>6. CampaignTypeOK'
    BY <1>1, <1>2, <1>4, <1>5 DEF CampaignTypeOK
  <1>7. TokensAreTrue'
    BY <1>1, <1>2, <1>5 DEF TokensAreTrue, CampaignTypeOK, TokenTypeOK, signOuts
  <1>8. PollIsTrue(p)'
    BY <1>1, <1>2, <1>3, <1>4 DEF PollIsTrue, FateOf
  <1>9. \A x : FateKept(x)
    BY <1>1 DEF FateKept
  <1>10. {p} \in SUBSET Polls /\ \A o \in {p} : PollIsTrue(o)'
    BY <1>8
  <1> QED
    BY <1>1, <1>4, <1>6, <1>7, <1>9, <1>10, NoRowKeeps

\* A receipt read some time ago is written to the row whose ticket it is of.
LEMMA WriteReceiptKeeps ==
  ASSUME CampaignInv, PushInv', NEW p \in Polls, NEW x \in poll[p].found, WriteReceipt(p, x)
  PROVE  CampaignInv' /\ \A d \in Campaigns \X Tokens : RowMoves(d)
PROOF
  <1>1. CampaignTypeOK /\ TokensAreTrue /\ PollIsTrue(p) /\ poll[p] \in Poll /\ x \in PollItem
    BY DEF CampaignInv, CampaignTypeOK, Poll
  <1>2. PICK c, t, s, fate :
          /\ c \in Campaigns /\ t \in Tokens /\ s \in Senders
          /\ c = x.campaign /\ t = x.token /\ s = x.ticket /\ fate = x.fate
    BY <1>1 DEF PollItem
  <1> c \in Campaigns /\ t \in Tokens /\ s \in Senders
    BY <1>2
  <1> DEFINE old == delivery[<<c, t>>]
             row == [old EXCEPT !.status = StatusOfReceipt(fate)]
             gone == IF fate = "unregistered" THEN {t} ELSE {}
             new == [poll[p] EXCEPT !.found = poll[p].found \ {x}, !.gone = gone]
  <1>3. /\ poll[p].at = "write" /\ poll[p].gone = {}
        /\ delivery' = [delivery EXCEPT ![<<c, t>>] = row]
        /\ poll' = [poll EXCEPT ![p] = new]
        /\ UNCHANGED <<tokenVars, channel, campaign, inbox, expo, send>>
    BY <1>2 DEF WriteReceipt
  <1>4. old.ticket = s /\ s # Nobody /\ fate \in Receipts /\ expo[<<c, t, s>>] = fate
    BY <1>1, <1>2, <1>3, CampaignAssumption DEF PollIsTrue, FateOf
  <1>5. old \in Delivery /\ RowIsTrue(c, t)
    BY <1>1 DEF CampaignTypeOK, CampaignInv
  <1>6. /\ old.status \notin {"NONE", "QUEUED", "INVALID_TOKEN"}
        /\ old.status = "DELIVERED" => fate = "delivered"
        /\ old.status = "FAILED" => fate # "delivered"
    BY <1>4, <1>5 DEF RowIsTrue
  <1>7. row \in Delivery /\ row.status = StatusOfReceipt(fate) /\ row.ticket = s
    BY <1>4, <1>5 DEF Delivery, DeliveryStatus, StatusOfReceipt
  <1> HIDE DEF row
  <1>8. /\ delivery' \in [Campaigns \X Tokens -> Delivery]
        /\ \A e \in Campaigns \ {c}, u \in Tokens : delivery'[<<e, u>>] = delivery[<<e, u>>]
        /\ \A u \in Tokens \ {t} : delivery'[<<c, u>>] = delivery[<<c, u>>]
        /\ delivery'[<<c, t>>] = row
    BY <1>1, <1>3, <1>7, OneRow DEF CampaignTypeOK
  <1>9. new \in Poll /\ new.at = "write" /\ new.found = poll[p].found \ {x} /\ new.gone = gone
    BY <1>1, <1>3 DEF Poll
  <1> HIDE DEF new
  <1>10. /\ poll' \in [Polls -> Poll] /\ poll'[p] = new
         /\ \A o \in Polls \ {p} : poll'[o] = poll[o]
    BY <1>1, <1>3, <1>9 DEF CampaignTypeOK
  <1>11. CampaignTypeOK' /\ TokensAreTrue'
    BY <1>1, <1>3, <1>8, <1>10 DEF CampaignTypeOK, TokenTypeOK, TokensAreTrue, tokenVars
  <1>12. \A e \in Campaigns, u \in Tokens :
           \/ e = c /\ u = t
           \/ delivery'[<<e, u>>] = delivery[<<e, u>>]
    BY <1>8
  <1>13. RowKept(<<c, t>>)
    BY <1>4, <1>6, <1>7, <1>8 DEF RowKept, StatusOfReceipt
  <1>14. RowIsTrue(c, t)'
    BY <1>3, <1>4, <1>7, <1>8 DEF RowIsTrue, StatusOfReceipt, Receipts
  <1>15. \A y : FateKept(y) /\ FateGrows(y)
    BY <1>3 DEF FateKept, FateGrows
  <1>16. \A e \in Campaigns, u \in Tokens : RowKept(<<e, u>>) /\ RowIsTrue(e, u)'
    <2> SUFFICES ASSUME NEW e \in Campaigns, NEW u \in Tokens,
                        delivery'[<<e, u>>] = delivery[<<e, u>>]
                 PROVE  RowKept(<<e, u>>) /\ RowIsTrue(e, u)'
      BY <1>12, <1>13, <1>14
    <2>1. RowIsTrue(e, u)
      BY DEF CampaignInv
    <2> QED
      BY <1>15, <2>1, RowStaysTrue DEF RowKept
  <1>17. \A d \in Campaigns \X Tokens :
           delivery[d].ticket # Nobody => delivery'[d].ticket = delivery[d].ticket
    BY <1>4, <1>7, <1>12, <1>8
  <1>18. \A o \in Polls \ {p} : PollIsTrue(o)'
    BY <1>1, <1>10, <1>15, <1>17, PollStaysTrue DEF CampaignInv
  <1>19. PollIsTrue(p)'
    <2>1. ASSUME NEW y \in poll[p].found
          PROVE  /\ delivery'[<<y.campaign, y.token>>].ticket = y.ticket
                 /\ y.fate \in Receipts /\ FateOf(y)' = y.fate
      <3>1. /\ y.campaign \in Campaigns /\ y.token \in Tokens /\ y.ticket \in Senders
            /\ delivery[<<y.campaign, y.token>>].ticket = y.ticket
            /\ y.fate \in Receipts /\ FateOf(y) = y.fate
        BY <1>1, <1>3 DEF Poll, PollItem, PollIsTrue
      <3>2. y.ticket # Nobody
        BY <3>1, CampaignAssumption
      <3> QED
        BY <1>3, <1>17, <3>1, <3>2 DEF FateOf
    <2>2. \A u \in gone : expo'[<<c, u, s>>] = "unregistered"
      BY <1>3, <1>4
    <2> QED
      BY <1>9, <1>10, <2>1, <2>2 DEF PollIsTrue
  <1>20. \A d \in Campaigns \X Tokens : RowMoves(d)
    <2> SUFFICES ASSUME NEW e \in Campaigns, NEW u \in Tokens
                 PROVE  RowMoves(<<e, u>>)
      OBVIOUS
    <2>1. old.status \in {"SENT", "DELIVERED", "FAILED"}
      BY <1>5, <1>6 DEF Delivery, DeliveryStatus
    <2>2. RowMoves(<<c, t>>)
      BY <1>6, <1>7, <1>8, <2>1 DEF RowMoves, StatusOfReceipt
    <2> QED
      BY <1>12, <2>2 DEF RowMoves
  <1> QED
    BY <1>3, <1>11, <1>15, <1>16, <1>18, <1>19, <1>20, QuietKeeps

LEMMA MakeReceiptKeeps ==
  ASSUME CampaignInv, PushInv', NEW x \in Campaigns \X Tokens \X Senders,
         NEW receipt \in Receipts, MakeReceipt(x, receipt)
  PROVE  CampaignInv'
PROOF
  <1>1. /\ expo[x] = "accepted" /\ expo' = [expo EXCEPT ![x] = receipt]
        /\ UNCHANGED <<tokenVars, channel, campaign, inbox, delivery, send, poll>>
    BY DEF MakeReceipt
  <1>2. CampaignTypeOK /\ TokensAreTrue
    BY DEF CampaignInv
  <1>3. /\ expo' \in [Campaigns \X Tokens \X Senders -> Fate]
        /\ \A y \in Campaigns \X Tokens \X Senders :
             expo'[y] = IF y = x THEN receipt ELSE expo[y]
    BY <1>1, <1>2 DEF CampaignTypeOK, Fate
  <1>4. CampaignTypeOK' /\ TokensAreTrue'
    BY <1>1, <1>2, <1>3 DEF CampaignTypeOK, TokenTypeOK, TokensAreTrue, tokenVars
  <1>5. \A c \in Campaigns, t \in Tokens, r \in Senders : FateKept(<<c, t, r>>)
    BY <1>1, <1>3 DEF FateKept
  <1>6. {} \in SUBSET Polls
    OBVIOUS
  <1> QED
    BY <1>1, <1>4, <1>5, <1>6, NoRowKeeps

\* Sign-ins and sign-outs: one that is not overtaken is still its user's.
LEMMA TokenNextKeeps ==
  ASSUME CampaignInv, PushInv', TokenNext,
         UNCHANGED <<channel, campaign, inbox, delivery, expo, send, poll>>
  PROVE  CampaignInv'
PROOF
  <1>1. CampaignTypeOK /\ TokensAreTrue
    BY DEF CampaignInv
  <1>2. PICK t \in Tokens, u \in People :
          Register(t, u) \/ ReadInvalidate(t, u) \/ WriteInvalidate(t, u) \/ InvalidateStops(t, u)
    BY TokenAssumption DEF TokenNext
  <1>3. /\ token \in [Tokens -> TokenRow]
        /\ leaving \subseteq Tokens \X People /\ overtaken \subseteq leaving
    BY <1>1 DEF CampaignTypeOK, TokenTypeOK
  <1>4. TokenTypeOK'
    <2>1. CASE Register(t, u)
      <3>1. [user |-> u, valid |-> TRUE] \in TokenRow
        BY DEF TokenRow
      <3> QED
        BY <1>3, <2>1, <3>1 DEF Register, TokenTypeOK
    <2>2. CASE ReadInvalidate(t, u) \/ InvalidateStops(t, u)
      BY <1>3, <2>2 DEF ReadInvalidate, InvalidateStops, LeavingEnds, TokenTypeOK
    <2>3. CASE WriteInvalidate(t, u)
      <3>1. [token[t] EXCEPT !.valid = FALSE] \in TokenRow
        BY <1>3 DEF TokenRow
      <3> QED
        BY <1>3, <2>3, <3>1 DEF WriteInvalidate, LeavingEnds, Invalid, TokenTypeOK
    <2> QED
      BY <1>2, <2>1, <2>2, <2>3
  <1>5. CampaignTypeOK'
    BY <1>1, <1>4 DEF CampaignTypeOK
  <1>6. ASSUME NEW l \in leaving' \ overtaken'
        PROVE  token'[l[1]].user = l[2]
    <2>1. l \in leaving \ overtaken => token[l[1]].user = l[2] /\ l[1] \in Tokens
      BY <1>1, <1>3 DEF TokensAreTrue
    <2>2. CASE Register(t, u)
      <3>1. /\ token' = [token EXCEPT ![t] = [user |-> u, valid |-> TRUE]]
            /\ l \in leaving \ overtaken /\ (l[1] = t => l[2] = u)
        BY <2>2 DEF Register
      <3> QED
        BY <1>3, <2>1, <3>1
    <2>3. CASE ReadInvalidate(t, u)
      <3>1. /\ token[t].user = u /\ token' = token
            /\ l = <<t, u>> \/ l \in leaving \ overtaken
        BY <2>3 DEF ReadInvalidate, MayInvalidate
      <3> QED
        BY <2>1, <3>1
    <2>4. CASE WriteInvalidate(t, u) \/ InvalidateStops(t, u)
      <3>1. l \in leaving \ overtaken /\ (token' = Invalid(t) \/ token' = token)
        BY <2>4 DEF WriteInvalidate, InvalidateStops, LeavingEnds
      <3>2. token' = Invalid(t) => \A s \in Tokens : token'[s].user = token[s].user
        <4>1. [token[t] EXCEPT !.valid = FALSE].user = token[t].user
          BY <1>3 DEF TokenRow
        <4> QED
          BY <1>3, <4>1 DEF Invalid
      <3> QED
        BY <2>1, <3>1, <3>2
    <2> QED
      BY <1>2, <2>2, <2>3, <2>4
  <1>7. TokensAreTrue'
    BY <1>1, <1>6 DEF TokensAreTrue
  <1>8. \A x : FateKept(x)
    BY DEF FateKept
  <1>9. {} \in SUBSET Polls
    OBVIOUS
  <1> QED
    BY <1>5, <1>7, <1>8, <1>9, NoRowKeeps

LEMMA SwitchChannelKeeps ==
  ASSUME CampaignInv, PushInv', NEW ch \in Switched, SwitchChannel(ch)
  PROVE  CampaignInv'
PROOF
  <1>1. /\ channel' = [channel EXCEPT ![ch] = ~channel[ch]]
        /\ UNCHANGED <<tokenVars, campaign, inbox, delivery, expo, send, poll>>
    BY DEF SwitchChannel
  <1>2. CampaignTypeOK /\ TokensAreTrue
    BY DEF CampaignInv
  <1>3. channel' \in [push : BOOLEAN, inApp : BOOLEAN]
    <2>1. ch \in {"push", "inApp"} /\ channel \in [push : BOOLEAN, inApp : BOOLEAN]
      BY <1>2, CampaignAssumption DEF CampaignTypeOK
    <2> QED
      BY <1>1, <2>1
  <1>4. CampaignTypeOK' /\ TokensAreTrue'
    BY <1>1, <1>2, <1>3 DEF CampaignTypeOK, TokenTypeOK, TokensAreTrue, tokenVars
  <1>5. \A x : FateKept(x)
    BY <1>1 DEF FateKept
  <1>6. {} \in SUBSET Polls
    OBVIOUS
  <1> QED
    BY <1>1, <1>4, <1>5, <1>6, NoRowKeeps
-----------------------------------------------------------------------------
(* All of it. *)

LEMMA InitCampaignInv == CampaignInit => CampaignInv
PROOF
  <1> SUFFICES ASSUME CampaignInit PROVE CampaignInv
    OBVIOUS
  <1> USE CampaignAssumption
  <1>1. PICK owner \in [Tokens -> People] :
          token = [t \in Tokens |-> [user |-> owner[t], valid |-> TRUE]]
    BY DEF CampaignInit
  <1>2. /\ leaving = {} /\ overtaken = {} /\ channel = [push |-> TRUE, inApp |-> TRUE]
        /\ campaign = [c \in Campaigns |-> [status |-> "NONE", audience |-> {}]]
        /\ inbox = {}
        /\ delivery = [d \in Campaigns \X Tokens |->
                         [status |-> "NONE", ticket |-> Nobody, since |-> 0]]
        /\ expo = [x \in Campaigns \X Tokens \X Senders |-> "none"]
        /\ send = [r \in Senders |-> IdleSend]
        /\ poll = [p \in Polls |-> IdlePoll]
    BY DEF CampaignInit
  <1>3. TokenTypeOK
    BY <1>1, <1>2 DEF TokenTypeOK, TokenRow
  <1>4. campaign \in [Campaigns -> Campaign]
    BY <1>2 DEF Campaign, CampaignStatus
  <1>5. delivery \in [Campaigns \X Tokens -> Delivery]
    BY <1>2 DEF Delivery, DeliveryStatus
  <1>6. expo \in [Campaigns \X Tokens \X Senders -> Fate]
    BY <1>2 DEF Fate
  <1>7. IdlePoll \in Poll /\ IdlePoll.found = {} /\ IdlePoll.gone = {}
    BY DEF IdlePoll, Poll
  <1>8. CampaignTypeOK
    BY <1>2, <1>3, <1>4, <1>5, <1>6, <1>7, IdleSendType DEF CampaignTypeOK
  <1>9. \A r \in Senders : AtWork(r)
    <2>1. IdleSend.at = "idle" /\ IdleSend.messages = <<>> /\ IdleSend.bad = <<>>
      BY DEF IdleSend
    <2> QED
      BY <1>2, <2>1 DEF AtWork, Addressed, Distinct
  <1>10. \A c \in Campaigns, t \in Tokens : RowIsTrue(c, t)
    BY <1>2 DEF RowIsTrue
  <1>11. \A p \in Polls : PollIsTrue(p)
    BY <1>2, <1>7 DEF PollIsTrue
  <1>12. \A c \in Campaigns : StatusIsTrue(c)
    BY <1>2 DEF StatusIsTrue
  <1>13. TokensAreTrue
    BY <1>2 DEF TokensAreTrue
  <1> QED
    BY <1>8, <1>9, <1>10, <1>11, <1>12, <1>13, InitPushInv DEF CampaignInv

\* Every step keeps the invariant, and moves deliveries forwards only.
LEMMA NextCampaignInv ==
  ASSUME CampaignInv, CampaignNext, CampaignsApart'
  PROVE  CampaignInv' /\ \A d \in Campaigns \X Tokens : RowMoves(d)
PROOF
  <1>0. PushInv'
    BY NextPushInv DEF CampaignInv
  <1>1. UNCHANGED delivery => \A d \in Campaigns \X Tokens : RowMoves(d)
    BY DEF RowMoves
  <1>2. ASSUME NEW c \in Campaigns, NEW audience \in Audiences, CreateDraft(c, audience)
        PROVE  CampaignInv' /\ UNCHANGED delivery
    BY <1>0, <1>2, CreateDraftKeeps DEF CreateDraft
  <1>3. ASSUME NEW ch \in Switched, SwitchChannel(ch)
        PROVE  CampaignInv' /\ UNCHANGED delivery
    BY <1>0, <1>3, SwitchChannelKeeps DEF SwitchChannel
  <1>4. CASE TokenNext /\ UNCHANGED <<channel, campaign, inbox, delivery, expo, send, poll>>
    BY <1>0, <1>1, <1>4, TokenNextKeeps
  <1>5. ASSUME NEW r \in Senders, NEW c \in Campaigns, ReadCampaign(r, c)
        PROVE  CampaignInv' /\ UNCHANGED delivery
    BY <1>0, <1>5, ReadCampaignKeeps DEF ReadCampaign, OnlySend
  <1>6. ASSUME NEW r \in Senders, SendStep(r) \/ AnswerToChunkLost(r) \/ SendStops(r)
        PROVE  CampaignInv' /\ \A d \in Campaigns \X Tokens : RowMoves(d)
    <2>1. CASE ReadSettings(r)
      BY <1>0, <1>1, <2>1, ReadSettingsKeeps DEF ReadSettings, OnlySend
    <2>2. CASE WriteFailed(r)
      BY <1>0, <1>1, <2>2, WriteFailedKeeps DEF WriteFailed, OnlyCampaign
    <2>3. CASE MarkSending(r)
      BY <1>0, <1>1, <2>3, MarkSendingKeeps DEF MarkSending, OnlyCampaign
    <2>4. CASE ReadRecipients(r)
      BY <1>0, <1>1, <2>4, ReadRecipientsKeeps DEF ReadRecipients, OnlySend
    <2>5. CASE ReadTokens(r)
      BY <1>0, <1>1, <2>5, ReadTokensKeeps DEF ReadTokens, OnlySend
    <2>6. ASSUME NEW u \in People, Notify(r, u)
          PROVE  CampaignInv' /\ UNCHANGED delivery
      BY <1>0, <2>6, NotifyKeeps DEF Notify
    <2>7. CASE CreateDeliveries(r)
      BY <1>0, <2>7, CreateDeliveriesKeeps
    <2>8. CASE MarkMalformed(r) \/ InvalidateUnreachable(r)
      BY <1>0, <1>1, <2>8, TokenStepKeeps DEF MarkMalformed, InvalidateUnreachable, OnlyToken
    <2>9. CASE MarkMalformedRow(r)
      BY <1>0, <2>9, MarkMalformedRowKeeps
    <2>10. CASE SendChunk(r)
      BY <1>0, <1>1, <2>10, SendChunkKeeps DEF SendChunk
    <2>11. CASE AllSent(r) \/ AllWritten(r)
      BY <1>0, <1>1, <2>11, GoOnKeeps DEF AllSent, AllWritten, OnlySend
    <2>12. CASE WriteTicket(r)
      BY <1>0, <2>12, WriteTicketKeeps
    <2>13. CASE CountSent(r) \/ CountFailed(r)
      BY <1>0, <1>1, <2>13, CountsKeep DEF CountSent, CountFailed, OnlySend
    <2>14. CASE WriteFinalStatus(r)
      BY <1>0, <1>1, <2>14, WriteFinalStatusKeeps DEF WriteFinalStatus, OnlyCampaign
    <2>15. CASE AnswerToChunkLost(r)
      BY <1>0, <1>1, <2>15, AnswerToChunkLostKeeps DEF AnswerToChunkLost
    <2>16. CASE SendStops(r)
      BY <1>0, <1>1, <2>16, SendStopsKeeps DEF SendStops, OnlySend
    <2> QED
      BY <1>1, <1>6, <2>1, <2>2, <2>3, <2>4, <2>5, <2>6, <2>7, <2>8, <2>9, <2>10, <2>11,
         <2>12, <2>13, <2>14, <2>15, <2>16 DEF SendStep
  <1>7. ASSUME NEW p \in Polls, ReadWaiting(p) \/ PollStep(p) \/ PollFails(p)
        PROVE  CampaignInv' /\ \A d \in Campaigns \X Tokens : RowMoves(d)
    <2>1. CASE ReadWaiting(p)
      BY <1>0, <1>1, <2>1, ReadWaitingKeeps DEF ReadWaiting, OnlyPoll
    <2>2. CASE FetchReceipts(p)
      BY <1>0, <1>1, <2>2, FetchReceiptsKeeps DEF FetchReceipts, OnlyPoll
    <2>3. ASSUME NEW x \in poll[p].found, WriteReceipt(p, x)
          PROVE  CampaignInv' /\ \A d \in Campaigns \X Tokens : RowMoves(d)
      BY <1>0, <2>3, WriteReceiptKeeps
    <2>4. ASSUME NEW t \in poll[p].gone, InvalidateGone(p, t)
          PROVE  CampaignInv' /\ UNCHANGED delivery
      BY <1>0, <2>4, InvalidateGoneKeeps DEF InvalidateGone
    <2>5. CASE PollDone(p) \/ PollFails(p)
      BY <1>0, <1>1, <2>5, PollEndKeeps DEF PollDone, PollFails, OnlyPoll
    <2> QED
      BY <1>1, <1>7, <2>1, <2>2, <2>3, <2>4, <2>5 DEF PollStep
  <1>8. ASSUME NEW x \in Campaigns \X Tokens \X Senders, NEW receipt \in Receipts,
               MakeReceipt(x, receipt)
        PROVE  CampaignInv' /\ UNCHANGED delivery
    BY <1>0, <1>8, MakeReceiptKeeps DEF MakeReceipt
  <1> QED
    BY <1>1, <1>2, <1>3, <1>4, <1>5, <1>6, <1>7, <1>8 DEF CampaignNext

\* A step that changes nothing.
LEMMA StutterCampaignInv ==
  ASSUME CampaignInv, UNCHANGED campaignVars
  PROVE  CampaignInv'
PROOF
  <1>1. PushInv'
    BY NextPushInv DEF CampaignInv
  <1>2. /\ UNCHANGED <<tokenVars, channel, campaign, inbox, delivery, expo, send, poll>>
        /\ UNCHANGED <<token, leaving, overtaken>>
    BY DEF campaignVars, tokenVars
  <1>3. CampaignTypeOK' /\ TokensAreTrue'
    BY <1>2 DEF CampaignInv, CampaignTypeOK, TokenTypeOK, TokensAreTrue
  <1>4. \A x : FateKept(x)
    BY <1>2 DEF FateKept
  <1>5. {} \in SUBSET Polls
    OBVIOUS
  <1> QED
    BY <1>1, <1>2, <1>3, <1>4, <1>5, NoRowKeeps

THEOREM CampaignInvariant == ApartCampaignSpec => []CampaignInv
PROOF
  <1>1. CampaignInv /\ [CampaignNext /\ CampaignsApart']_campaignVars => CampaignInv'
    BY NextCampaignInv, StutterCampaignInv
  <1> QED
    BY <1>1, InitCampaignInv, PTL DEF ApartCampaignSpec

\* Rows, requests, tickets and counts have the types the code gives them.
THEOREM CampaignTypes == ApartCampaignSpec => []CampaignTypeOK
PROOF
  <1>1. CampaignInv => CampaignTypeOK
    BY DEF CampaignInv
  <1> QED
    BY <1>1, CampaignInvariant, PTL

\* What a delivery row says is what the push service said of that device: a row knows
\* by its ticket which message it is of (the update by position in sendCampaign, the
\* receipts pollReceiptsOnce writes).
THEOREM CampaignDeliveriesTrue == ApartCampaignSpec => []NoFalseDelivery
PROOF
  <1>1. ASSUME CampaignInv
        PROVE  NoFalseDelivery
    <2> SUFFICES ASSUME NEW c \in Campaigns, NEW t \in Tokens
                 PROVE  LET fates == {expo[<<c, t, r>>] : r \in Senders}
                            row == delivery[<<c, t>>]
                        IN
                        /\ row.status = "SENT" => fates \cap ({"accepted"} \union Receipts) # {}
                        /\ row.status = "DELIVERED" => "delivered" \in fates
                        /\ row.status = "FAILED" =>
                             fates \cap {"refused", "gone", "failed", "unregistered"} # {}
                        /\ row.status = "INVALID_TOKEN" => fates = {"none"}
      BY DEF NoFalseDelivery
    <2> DEFINE fates == {expo[<<c, t, r>>] : r \in Senders}
               row == delivery[<<c, t>>]
    <2>1. RowIsTrue(c, t) /\ TokensAreTrue
      BY <1>1 DEF CampaignInv
    <2>2. \A f : f \in fates <=> \E r \in Senders : expo[<<c, t, r>>] = f
      OBVIOUS
    <2>3. t \notin WellFormed => \A r \in Senders : expo[<<c, t, r>>] = "none"
      BY <2>1 DEF TokensAreTrue
    <2> HIDE DEF fates
    <2>4. row.status = "SENT" => fates \cap ({"accepted"} \union Receipts) # {}
      BY <2>1, <2>2 DEF RowIsTrue, Accepted
    <2>5. row.status = "DELIVERED" => "delivered" \in fates
      BY <2>1, <2>2 DEF RowIsTrue
    <2>6. row.status = "FAILED" => fates \cap {"refused", "gone", "failed", "unregistered"} # {}
      BY <2>1, <2>2 DEF RowIsTrue, Refused
    <2>7. row.status = "INVALID_TOKEN" => fates = {"none"}
      BY <2>1, <2>2, <2>3 DEF RowIsTrue
    <2> QED
      BY <2>4, <2>5, <2>6, <2>7 DEF fates
  <1> QED
    BY <1>1, CampaignInvariant, PTL

\* The final status sendCampaign computes from counts that polls change meanwhile says
\* something true of the campaign's messages.
THEOREM CampaignStatusFits == ApartCampaignSpec => []FinalStatusFits
PROOF
  <1>1. ASSUME CampaignInv, NEW c \in Campaigns, NEW fates,
               fates = {expo[x] : x \in {c} \X Tokens \X Senders}
        PROVE  /\ campaign[c].status = "SENT" => fates \cap {"refused", "gone"} = {}
               /\ campaign[c].status = "PARTIAL" =>
                    /\ fates \cap {"refused", "gone", "failed", "unregistered"} # {}
                    /\ fates \cap ({"accepted"} \union Receipts) # {}
               /\ campaign[c].status = "FAILED" =>
                    \/ fates \cap {"refused", "gone", "failed", "unregistered"} # {}
                    \/ \A t \in Tokens : delivery[<<c, t>>].status = "NONE"
    <2>1. StatusIsTrue(c)
      BY <1>1 DEF CampaignInv
    <2>2. \A t \in Tokens, r \in Senders : expo[<<c, t, r>>] \in fates
      BY <1>1
    <2>3. \A f \in fates : \E t \in Tokens, r \in Senders : f = expo[<<c, t, r>>]
      <3> SUFFICES ASSUME NEW x \in {c} \X Tokens \X Senders
                   PROVE  \E t \in Tokens, r \in Senders : expo[x] = expo[<<c, t, r>>]
        BY <1>1
      <3> x = <<c, x[2], x[3]>> /\ x[2] \in Tokens /\ x[3] \in Senders
        OBVIOUS
      <3> QED
        OBVIOUS
    <2>4. ASSUME NEW F
          PROVE  SomeFate(c, F) <=> fates \cap F # {}
      BY <2>2, <2>3 DEF SomeFate
    <2>5. Failures = {"refused", "gone", "failed", "unregistered"} /\ Refused = {"refused", "gone"}
      BY DEF Failures, Refused
    <2>6. Accepted = {"accepted"} \union Receipts
      BY DEF Accepted
    <2> QED
      BY <2>1, <2>4, <2>5, <2>6 DEF StatusIsTrue
  <1>2. CampaignInv => FinalStatusFits
    <2> SUFFICES ASSUME CampaignInv
                 PROVE  FinalStatusFits
      OBVIOUS
    <2> DEFINE fates(c) == {expo[x] : x \in {c} \X Tokens \X Senders}
    <2>1. \A c \in Campaigns :
            /\ campaign[c].status = "SENT" => fates(c) \cap {"refused", "gone"} = {}
            /\ campaign[c].status = "PARTIAL" =>
                 /\ fates(c) \cap {"refused", "gone", "failed", "unregistered"} # {}
                 /\ fates(c) \cap ({"accepted"} \union Receipts) # {}
            /\ campaign[c].status = "FAILED" =>
                 \/ fates(c) \cap {"refused", "gone", "failed", "unregistered"} # {}
                 \/ \A t \in Tokens : delivery[<<c, t>>].status = "NONE"
      BY <1>1
    <2> QED
      BY <2>1 DEF FinalStatusFits
  <1> QED
    BY <1>2, CampaignInvariant, PTL

\* A delivery never goes back, however many polls overlap with the sender: a receipt
\* read some time ago is still the last word on that row's ticket.
THEOREM CampaignDeliveriesMove == ApartCampaignSpec => DeliveryMoves
PROOF
  <1>1. CampaignInv /\ [CampaignNext /\ CampaignsApart']_campaignVars =>
          [\A d \in Campaigns \X Tokens : RowMoves(d)]_campaignVars
    BY NextCampaignInv
  <1> QED
    BY <1>1, CampaignInvariant, PTL DEF ApartCampaignSpec, DeliveryMoves, RowMoves

\* Who or what may take a device out of use.
UseEnds(t) ==
  token[t].valid /\ ~token'[t].valid =>
    \/ <<t, token[t].user>> \in leaving \ leaving'
    \/ \E l \in overtaken \ overtaken' : l[1] = t
    \/ \E c \in Campaigns, r \in Senders : expo[<<c, t, r>>] \in {"gone", "unregistered"}

LEMMA TokensEnd ==
  ASSUME CampaignInv, CampaignNext
  PROVE  \A t \in WellFormed : UseEnds(t)
PROOF
  <1> SUFFICES ASSUME NEW t \in WellFormed
               PROVE  UseEnds(t)
    OBVIOUS
  <1>0. t \in Tokens /\ CampaignTypeOK /\ TokensAreTrue /\ token \in [Tokens -> TokenRow]
    BY TokenAssumption DEF CampaignInv, CampaignTypeOK, TokenTypeOK
  <1>1. UNCHANGED token => UseEnds(t)
    BY DEF UseEnds
  <1>2. ASSUME NEW s, s # t, token' = Invalid(s)
        PROVE  UseEnds(t)
    BY <1>0, <1>2 DEF UseEnds, Invalid
  <1>3. CASE TokenNext
    <2>1. PICK s \in Tokens, u \in People :
            Register(s, u) \/ ReadInvalidate(s, u) \/ WriteInvalidate(s, u) \/ InvalidateStops(s, u)
      BY <1>3, TokenAssumption DEF TokenNext
    <2>2. CASE Register(s, u)
      BY <1>0, <2>2 DEF Register, UseEnds
    <2>3. CASE ReadInvalidate(s, u) \/ InvalidateStops(s, u)
      BY <1>1, <2>3 DEF ReadInvalidate, InvalidateStops
    <2>4. CASE WriteInvalidate(s, u)
      <3>1. /\ <<s, u>> \in leaving \ leaving' /\ token' = Invalid(s)
            /\ overtaken' = overtaken \ {<<s, u>>}
        BY <2>4 DEF WriteInvalidate, LeavingEnds
      <3>2. token[s].user = u \/ <<s, u>> \in overtaken \ overtaken'
        BY <1>0, <3>1 DEF TokensAreTrue
      <3>3. CASE s = t
        BY <3>1, <3>2, <3>3 DEF UseEnds
      <3> QED
        BY <1>2, <3>1, <3>3
    <2> QED
      BY <2>1, <2>2, <2>3, <2>4
  <1>4. ASSUME NEW r \in Senders, SendStep(r) \/ AnswerToChunkLost(r) \/ SendStops(r)
        PROVE  UseEnds(t)
    <2>1. CASE MarkMalformed(r)
      <3>1. send[r].bad # <<>> /\ send[r].at = "malformed" /\ token' = Invalid(Head(send[r].bad))
        BY <2>1 DEF MarkMalformed
      <3>2. Addressed(send[r]) /\ send[r] \in SendRequest
        BY <3>1, RequestAtWork
      <3>3. send[r].bad \in Seq(Tokens) /\ \A i \in DOMAIN send[r].bad : send[r].bad[i] \notin WellFormed
        BY <3>2 DEF SendRequest, Addressed
      <3>4. Head(send[r].bad) \notin WellFormed
        BY <3>1, <3>3
      <3> QED
        BY <1>2, <3>1, <3>4
    <2>2. CASE InvalidateUnreachable(r)
      <3> DEFINE q == send[r]
      <3>1. q.at = "invalidate" /\ token' = Invalid(q.messages[q.next])
        BY <2>2 DEF InvalidateUnreachable, MessageOf
      <3>2. Progress(q) /\ MessagesAre(q, r) /\ q \in SendRequest
        BY <3>1, RequestAtWork
      <3>3. q.next \in DOMAIN q.tickets /\ q.tickets[q.next] = "gone" /\ q.campaign \in Campaigns
        BY <3>1, <3>2 DEF Progress, SendRequest
      <3>4. expo[<<q.campaign, q.messages[q.next], r>>] = "gone"
        BY <3>2, <3>3 DEF MessagesAre
      <3>5. CASE q.messages[q.next] = t
        BY <3>3, <3>4, <3>5 DEF UseEnds
      <3> QED
        BY <1>2, <3>1, <3>5
    <2>3. CASE ~MarkMalformed(r) /\ ~InvalidateUnreachable(r)
      <3>1. UNCHANGED token
        BY <1>4, <2>3
           DEF SendStep, ReadSettings, WriteFailed, MarkSending, ReadRecipients, ReadTokens, Notify,
               CreateDeliveries, MarkMalformedRow, SendChunk, AllSent, WriteTicket, AllWritten,
               CountSent, CountFailed, WriteFinalStatus, AnswerToChunkLost, SendStops,
               OnlySend, OnlyCampaign, OnlyDelivery, tokenVars
      <3> QED
        BY <1>1, <3>1
    <2> QED
      BY <2>1, <2>2, <2>3
  <1>5. ASSUME NEW p \in Polls, NEW s \in poll[p].gone, InvalidateGone(p, s)
        PROVE  UseEnds(t)
    <2>1. token' = Invalid(s)
      BY <1>5 DEF InvalidateGone
    <2>2. \E c \in Campaigns, r \in Senders : expo[<<c, s, r>>] = "unregistered"
      BY DEF CampaignInv, PollIsTrue
    <2>3. CASE s = t
      BY <2>2, <2>3 DEF UseEnds
    <2> QED
      BY <1>2, <2>1, <2>3
  <1>6. ASSUME NEW p \in Polls, ReadWaiting(p) \/ PollStep(p) \/ PollFails(p)
        PROVE  UseEnds(t)
    <2>1. ReadWaiting(p) \/ FetchReceipts(p) \/ PollDone(p) \/ PollFails(p) => UNCHANGED token
      BY DEF ReadWaiting, FetchReceipts, PollDone, PollFails, OnlyPoll, tokenVars
    <2>2. ASSUME NEW x \in poll[p].found, WriteReceipt(p, x)
          PROVE  UNCHANGED token
      BY <2>2 DEF WriteReceipt, tokenVars
    <2> QED
      BY <1>1, <1>5, <1>6, <2>1, <2>2 DEF PollStep
  <1>7. ASSUME \/ \E c \in Campaigns, audience \in Audiences : CreateDraft(c, audience)
               \/ \E ch \in Switched : SwitchChannel(ch)
               \/ \E r \in Senders, c \in Campaigns : ReadCampaign(r, c)
               \/ \E x \in Campaigns \X Tokens \X Senders, receipt \in Receipts :
                    MakeReceipt(x, receipt)
        PROVE  UseEnds(t)
    BY <1>1, <1>7 DEF CreateDraft, SwitchChannel, ReadCampaign, MakeReceipt, OnlySend, tokenVars
  <1> QED
    BY <1>3, <1>4, <1>6, <1>7 DEF CampaignNext

\* A device in use stays so until its own user signs out, the push service says it is
\* gone, or the sign-out of an earlier user is overtaken by the registration of the
\* next: of all the writers of push_tokens no other takes out the device of another.
THEOREM CampaignInUse == ApartCampaignSpec => InUseUntilRefused
PROOF
  <1>1. CampaignInv /\ [CampaignNext /\ CampaignsApart']_campaignVars =>
          [\A t \in WellFormed : UseEnds(t)]_campaignVars
    BY TokensEnd
  <1> QED
    BY <1>1, CampaignInvariant, PTL DEF ApartCampaignSpec, InUseUntilRefused, UseEnds

=============================================================================
