---------------------------- MODULE PushCampaigns ----------------------------
(***************************************************************************)
(* Push campaigns (backend/src/modules/push-campaigns): a message sent     *)
(* once to every device of an audience, and the receipts of the push       *)
(* service (Expo) that are polled for later.                               *)
(*                                                                         *)
(* sendCampaign is a long handler without a transaction: campaign row,     *)
(* in-app notifications, delivery rows, chunks of messages to the push     *)
(* service, one update per ticket, counts, final status.  pollReceiptsOnce *)
(* runs on a timer that does not wait for the poll before.                 *)
(***************************************************************************)
EXTENDS PushTokens, SequencesExt

CONSTANTS Campaigns,        \* ids of the rows of push_campaigns
          Senders,          \* slots for sendCampaign requests in flight
          Polls,            \* slots for polls in flight
          Audiences,        \* audiences of the campaigns of the run
          Switched,         \* channels administrators switch: \subseteq {"push", "inApp"}
          ChunkSize,        \* messages in one call of the push service
          PollMax           \* PUSH_RECEIPTS_POLL_MAX

ASSUME CampaignAssumption ==
  /\ ChunkSize \in Nat \ {0}
  /\ PollMax \in Nat \ {0}
  /\ IsFiniteSet(Campaigns)
  /\ Audiences \subseteq SUBSET People
  /\ Switched \subseteq {"push", "inApp"}
  /\ Nobody \notin Campaigns \union Senders

VARIABLES channel,          \* the settings pushEnabled and inAppEnabled
          campaign,         \* table push_campaigns: [Campaigns -> Campaign]
          inbox,            \* table notifications: who has got which campaign
          delivery,         \* table push_deliveries: [Campaigns \X Tokens -> Delivery]
          expo,             \* what the push service made of each message:
                            \* [Campaigns \X Tokens \X Senders -> Fate]
          send,             \* requests in flight: [Senders -> SendRequest]
          poll              \* polls in flight: [Polls -> Poll]

campaignVars == <<tokenVars, channel, campaign, inbox, delivery, expo, send, poll>>

CampaignStatus == {"NONE", "DRAFT", "SENDING", "SENT", "PARTIAL", "FAILED"}

Campaign == [status : CampaignStatus, audience : SUBSET People]

DeliveryStatus == {"NONE", "QUEUED", "SENT", "DELIVERED", "FAILED", "INVALID_TOKEN"}

\* ticket: the request whose ticket is in expoTicketId.  since: createdAt, as the
\* number of the insert; 0 without a row.
Delivery == [status : DeliveryStatus, ticket : Senders \union {Nobody}, since : Nat]

\* none: not sent.  refused, gone: an error ticket, gone if DeviceNotRegistered.
\* accepted: a ticket, no receipt yet.  The others are receipts.
Tickets == {"refused", "gone", "accepted"}
Receipts == {"delivered", "failed", "unregistered"}
Fate == {"none"} \union Tickets \union Receipts

SendRequest == [at : {"idle", "settings", "off", "mark", "recipients", "none", "tokens",
                      "notify", "rows", "malformed", "malformedRow", "send", "tickets",
                      "invalidate", "count"},
                campaign : Campaigns \union {Nobody},
                notify : SUBSET People,             \* notifications still to be made
                bad : Seq(Tokens),                  \* malformed tokens still to be marked
                tokens : SUBSET Tokens,             \* tokens found
                messages : Seq(Tokens),             \* whom the messages are for
                tickets : Seq(Tickets),             \* tickets received
                next : Nat,                         \* tickets written
                sent : Nat \union {Nobody},         \* counts, Nobody before they are made
                failed : Nat \union {Nobody}]

IdleSend == [at |-> "idle", campaign |-> Nobody, notify |-> {}, bad |-> <<>>,
             tokens |-> {}, messages |-> <<>>, tickets |-> <<>>, next |-> 0,
             sent |-> Nobody, failed |-> Nobody]

\* found: the deliveries of the query, with their tickets; then those for which the
\* push service had a receipt.  gone: a token to be taken out of use next.
PollItem == [campaign : Campaigns, token : Tokens, ticket : Senders, fate : Fate]

Poll == [at : {"idle", "fetch", "write"}, found : SUBSET PollItem, gone : SUBSET Tokens]

IdlePoll == [at |-> "idle", found |-> {}, gone |-> {}]

CampaignTypeOK ==
  /\ TokenTypeOK
  /\ channel \in [push : BOOLEAN, inApp : BOOLEAN]
  /\ campaign \in [Campaigns -> Campaign]
  /\ inbox \subseteq Campaigns \X People
  /\ delivery \in [Campaigns \X Tokens -> Delivery]
  /\ expo \in [Campaigns \X Tokens \X Senders -> Fate]
  /\ send \in [Senders -> SendRequest]
  /\ poll \in [Polls -> Poll]

\* Everybody has signed in on some device before; the settings have their defaults.
CampaignInit ==
  /\ \E owner \in [Tokens -> People] :
       token = [t \in Tokens |-> [user |-> owner[t], valid |-> TRUE]]
  /\ leaving = {} /\ overtaken = {}
  /\ channel = [push |-> TRUE, inApp |-> TRUE]
  /\ campaign = [c \in Campaigns |-> [status |-> "NONE", audience |-> {}]]
  /\ inbox = {}
  /\ delivery = [d \in Campaigns \X Tokens |->
                   [status |-> "NONE", ticket |-> Nobody, since |-> 0]]
  /\ expo = [x \in Campaigns \X Tokens \X Senders |-> "none"]
  /\ send = [r \in Senders |-> IdleSend]
  /\ poll = [p \in Polls |-> IdlePoll]

-----------------------------------------------------------------------------
(* createDraft, settings. *)

CreateDraft(c, audience) ==
  /\ campaign[c].status = "NONE"
  /\ campaign' = [campaign EXCEPT ![c] = [status |-> "DRAFT", audience |-> audience]]
  /\ UNCHANGED <<tokenVars, channel, inbox, delivery, expo, send, poll>>

\* setNotificationChannelSettings, one switch: one upsert of one key.
SwitchChannel(ch) ==
  /\ channel' = [channel EXCEPT ![ch] = ~channel[ch]]
  /\ UNCHANGED <<tokenVars, campaign, inbox, delivery, expo, send, poll>>

-----------------------------------------------------------------------------
(* sendCampaign. *)

\* Request r goes on to its next step; what an action that writes one table leaves.
SendTo(r, at) == send' = [send EXCEPT ![r].at = at]
SendDone(r) == send' = [send EXCEPT ![r] = IdleSend]
OnlySend == UNCHANGED <<tokenVars, channel, campaign, inbox, delivery, expo, poll>>
OnlyCampaign == UNCHANGED <<tokenVars, channel, inbox, delivery, expo, poll>>
OnlyDelivery == UNCHANGED <<tokenVars, channel, campaign, inbox, expo, poll>>
OnlyToken == UNCHANGED <<signOuts, channel, campaign, inbox, delivery, expo, poll>>

CampaignStatusIs(c, status) == campaign' = [campaign EXCEPT ![c].status = status]

\* Mutant of Sendable: a campaign may be sent again.
SendableAgain(c) == campaign[c].status # "NONE"

\* 'Campaign already sent'
Sendable(c) == campaign[c].status = "DRAFT"

ReadCampaign(r, c) ==
  /\ send[r].at = "idle"
  /\ Sendable(c)
  /\ send' = [send EXCEPT ![r] = [IdleSend EXCEPT !.at = "settings", !.campaign = c]]
  /\ OnlySend

ReadSettings(r) ==
  /\ send[r].at = "settings"
  /\ SendTo(r, IF channel.push THEN "mark" ELSE "off")
  /\ OnlySend

\* Push is switched off, or the audience is empty: the campaign has failed.
WriteFailed(r) ==
  /\ send[r].at \in {"off", "none"}
  /\ CampaignStatusIs(send[r].campaign, "FAILED")
  /\ SendDone(r)
  /\ OnlyCampaign

\* Mutant of MarkSending: the status is not written before the work is done.
MarkNothing(r) ==
  /\ send[r].at = "mark"
  /\ SendTo(r, "recipients")
  /\ OnlySend

\* Unconditional, like every update of this handler.
MarkSending(r) ==
  /\ send[r].at = "mark"
  /\ CampaignStatusIs(send[r].campaign, "SENDING")
  /\ SendTo(r, "recipients")
  /\ OnlyCampaign

ReadRecipients(r) ==
  LET audience == campaign[send[r].campaign].audience IN
  /\ send[r].at = "recipients"
  /\ send' = [send EXCEPT ![r].at = IF audience = {} THEN "none" ELSE "tokens",
                          ![r].notify = audience]
  /\ OnlySend

\* The tokens a query for the valid tokens of these users finds.
FoundTokens(users) == {t \in Tokens : token[t].valid /\ token[t].user \in users}

\* The query finds them in any order and the loop over them keeps it: there is a
\* message for each well-formed one, the others are to be marked.
MessagesFor(found) == SetToSeqs(found \cap WellFormed)
MalformedOf(found) == SetToSeqs(found \ WellFormed)

ReadTokens(r) ==
  LET found == FoundTokens(send[r].notify) IN
  /\ send[r].at = "tokens"
  /\ \E messages \in MessagesFor(found), bad \in MalformedOf(found) :
       send' = [send EXCEPT ![r].at = "notify", ![r].tokens = found,
                            ![r].messages = messages, ![r].bad = bad]
  /\ OnlySend

\* NotificationsService.create for one recipient; all of them run side by side.
Notify(r, u) ==
  LET q == send[r] IN
  /\ q.at = "notify"
  /\ u \in q.notify
  /\ inbox' = IF channel.inApp THEN inbox \union {<<q.campaign, u>>} ELSE inbox
  /\ send' = [send EXCEPT ![r].notify = q.notify \ {u},
                          ![r].at = IF q.notify = {u} THEN "rows" ELSE "notify"]
  /\ UNCHANGED <<tokenVars, channel, campaign, delivery, expo, poll>>

InsertNumber == 1 + Max({delivery[d].since : d \in DOMAIN delivery})

\* createMany with skipDuplicates: one insert, rows that are there stay.
CreateDeliveries(r) ==
  LET q == send[r] IN
  /\ q.at = "rows"
  /\ delivery' = [d \in Campaigns \X Tokens |->
                    IF /\ d[1] = q.campaign
                       /\ d[2] \in q.tokens
                       /\ delivery[d].status = "NONE"
                    THEN [status |-> "QUEUED", ticket |-> Nobody, since |-> InsertNumber]
                    ELSE delivery[d]]
  /\ SendTo(r, "malformed")
  /\ OnlyDelivery

\* A malformed token is taken out of use ...
MarkMalformed(r) ==
  /\ send[r].at = "malformed"
  /\ send[r].bad # <<>>
  /\ token' = Invalid(Head(send[r].bad))
  /\ SendTo(r, "malformedRow")
  /\ OnlyToken

\* ... and then its delivery.
MarkMalformedRow(r) ==
  LET q == send[r] IN
  /\ q.at = "malformedRow"
  /\ delivery' = [delivery EXCEPT ![<<q.campaign, Head(q.bad)>>].status = "INVALID_TOKEN"]
  /\ send' = [send EXCEPT ![r].at = "malformed", ![r].bad = Tail(q.bad)]
  /\ OnlyDelivery

\* The next chunk to send.
Chunk(q) ==
  SubSeq(q.messages, Len(q.tickets) + 1, Min({Len(q.tickets) + ChunkSize, Len(q.messages)}))

\* What the push service makes of a chunk: `made` names an answer for each message.
Taken(q, r, chunk, made) ==
  [x \in DOMAIN expo |->
     IF x[1] = q.campaign /\ x[3] = r /\ x[2] \in Range(chunk)
     THEN made[CHOOSE i \in DOMAIN chunk : chunk[i] = x[2]] ELSE expo[x]]

ReadyToSend(q) == q.at \in {"malformed", "send"} /\ q.bad = <<>>

SendChunk(r) ==
  LET q == send[r] IN
  /\ ReadyToSend(q)
  /\ Chunk(q) # <<>>
  /\ \E made \in [DOMAIN Chunk(q) -> Tickets] :
       /\ expo' = Taken(q, r, Chunk(q), made)
       /\ send' = [send EXCEPT ![r].at = "send", ![r].tickets = q.tickets \o made]
  /\ UNCHANGED <<tokenVars, channel, campaign, inbox, delivery, poll>>

\* The call fails although the push service has taken the chunk: the handler ends
\* with an exception, its tickets are lost.
AnswerToChunkLost(r) ==
  LET q == send[r] IN
  /\ ReadyToSend(q)
  /\ Chunk(q) # <<>>
  /\ \E made \in [DOMAIN Chunk(q) -> Tickets] : expo' = Taken(q, r, Chunk(q), made)
  /\ SendDone(r)
  /\ UNCHANGED <<tokenVars, channel, campaign, inbox, delivery, poll>>

AllSent(r) ==
  /\ ReadyToSend(send[r])
  /\ Chunk(send[r]) = <<>>
  /\ SendTo(r, "tickets")
  /\ OnlySend

\* Mutant of MessageOf: the index starts again with every chunk.
MessageInChunk(q, i) == q.messages[1 + ((i - 1) % ChunkSize)]

\* Ticket i answers message i.
MessageOf(q, i) == q.messages[i]

\* Ticket i goes to the row of its message.
WriteTicket(r) ==
  LET q == send[r]
      i == q.next + 1
      d == <<q.campaign, MessageOf(q, i)>>
  IN
  /\ q.at = "tickets"
  /\ i \in DOMAIN q.tickets
  /\ delivery' = IF q.tickets[i] = "accepted"
                 THEN [delivery EXCEPT ![d].status = "SENT", ![d].ticket = r]
                 ELSE [delivery EXCEPT ![d].status = "FAILED"]
  /\ send' = [send EXCEPT ![r].next = i,
                          ![r].at = IF q.tickets[i] = "gone" THEN "invalidate" ELSE "tickets"]
  /\ OnlyDelivery

\* DeviceNotRegistered: the token is taken out of use.
InvalidateUnreachable(r) ==
  LET q == send[r] IN
  /\ q.at = "invalidate"
  /\ token' = Invalid(MessageOf(q, q.next))
  /\ SendTo(r, "tickets")
  /\ OnlyToken

\* Mutant of AllWritten: a ticket is expected for every token, malformed or not.
AllTokensWritten(r) ==
  /\ send[r].at = "tickets"
  /\ send[r].next = Cardinality(send[r].tokens)
  /\ SendTo(r, "count")
  /\ OnlySend

AllWritten(r) ==
  /\ send[r].at = "tickets"
  /\ send[r].next = Len(send[r].tickets)
  /\ SendTo(r, "count")
  /\ OnlySend

Count(c, status) == Cardinality({t \in Tokens : delivery[<<c, t>>].status = status})

\* getStats: the counts are queries of their own, answered in any order.
CountSent(r) ==
  /\ send[r].at = "count"
  /\ send[r].sent = Nobody
  /\ send' = [send EXCEPT ![r].sent = Count(send[r].campaign, "SENT")]
  /\ OnlySend

CountFailed(r) ==
  /\ send[r].at = "count"
  /\ send[r].failed = Nobody
  /\ send' = [send EXCEPT ![r].failed = Count(send[r].campaign, "FAILED")]
  /\ OnlySend

\* Mutant of FinalStatus: whatever was sent makes up for what failed.
FinalStatusOptimist(sent, failed) == IF failed > 0 /\ sent = 0 THEN "FAILED" ELSE "SENT"

\* Mutant of FinalStatus: a status of a delivery.
FinalStatusOfRow(sent, failed) ==
  IF failed > 0 THEN IF sent > 0 THEN "PARTIAL" ELSE "FAILED" ELSE "DELIVERED"

FinalStatus(sent, failed) ==
  IF failed > 0 THEN IF sent > 0 THEN "PARTIAL" ELSE "FAILED" ELSE "SENT"

WriteFinalStatus(r) ==
  LET q == send[r] IN
  /\ q.at = "count"
  /\ q.sent # Nobody /\ q.failed # Nobody
  /\ CampaignStatusIs(q.campaign, FinalStatus(q.sent, q.failed))
  /\ SendDone(r)
  /\ OnlyCampaign

\* The backend stops, or a call fails: nothing more happens to the campaign.
SendStops(r) ==
  /\ send[r].at # "idle"
  /\ SendDone(r)
  /\ OnlySend

SendStep(r) ==
  \/ ReadSettings(r)
  \/ WriteFailed(r)
  \/ MarkSending(r)
  \/ ReadRecipients(r)
  \/ ReadTokens(r)
  \/ \E u \in People : Notify(r, u)
  \/ CreateDeliveries(r)
  \/ MarkMalformed(r)
  \/ MarkMalformedRow(r)
  \/ SendChunk(r)
  \/ AllSent(r)
  \/ WriteTicket(r)
  \/ InvalidateUnreachable(r)
  \/ AllWritten(r)
  \/ CountSent(r)
  \/ CountFailed(r)
  \/ WriteFinalStatus(r)

-----------------------------------------------------------------------------
(* pollReceiptsOnce. *)

Waiting == {d \in Campaigns \X Tokens :
              delivery[d].status = "SENT" /\ delivery[d].ticket # Nobody}

\* The newest PollMax of them; rows of one insert have one date, so any of those.
Newest ==
  {D \in SUBSET Waiting :
     /\ Cardinality(D) = Min({PollMax, Cardinality(Waiting)})
     /\ \A d \in D, e \in Waiting \ D : delivery[d].since >= delivery[e].since}

PollItemOf(d) == [campaign |-> d[1], token |-> d[2], ticket |-> delivery[d].ticket,
                  fate |-> "none"]

OnlyPoll == UNCHANGED <<tokenVars, channel, campaign, inbox, delivery, expo, send>>

ReadWaiting(p) ==
  /\ poll[p].at = "idle"
  /\ Waiting # {}
  /\ \E D \in Newest :
       poll' = [poll EXCEPT ![p] = [IdlePoll EXCEPT !.at = "fetch",
                                                   !.found = {PollItemOf(d) : d \in D}]]
  /\ OnlyPoll

FateOf(x) == expo[<<x.campaign, x.token, x.ticket>>]

\* Deliveries without a receipt are left for a later poll.
FetchReceipts(p) ==
  /\ poll[p].at = "fetch"
  /\ poll' = [poll EXCEPT ![p].at = "write",
                          ![p].found = {[x EXCEPT !.fate = FateOf(x)] :
                             x \in {y \in poll[p].found : FateOf(y) \in Receipts}}]
  /\ OnlyPoll

\* Mutant of StatusOfReceipt: every receipt means delivered.
StatusOfAnyReceipt(fate) == "DELIVERED"

\* Mutant of StatusOfReceipt: an error that is not DeviceNotRegistered is no news.
StatusOfNewsOnly(fate) ==
  IF fate = "delivered" THEN "DELIVERED" ELSE IF fate = "unregistered" THEN "FAILED" ELSE "SENT"

StatusOfReceipt(fate) == IF fate = "delivered" THEN "DELIVERED" ELSE "FAILED"

WriteReceipt(p, x) ==
  /\ poll[p].at = "write"
  /\ x \in poll[p].found
  /\ poll[p].gone = {}
  /\ delivery' = [delivery EXCEPT ![<<x.campaign, x.token>>].status = StatusOfReceipt(x.fate)]
  /\ poll' = [poll EXCEPT ![p].found = poll[p].found \ {x},
                          ![p].gone = IF x.fate = "unregistered" THEN {x.token} ELSE {}]
  /\ UNCHANGED <<tokenVars, channel, campaign, inbox, expo, send>>

InvalidateGone(p, t) ==
  /\ t \in poll[p].gone
  /\ token' = Invalid(t)
  /\ poll' = [poll EXCEPT ![p].gone = {}]
  /\ UNCHANGED <<signOuts, channel, campaign, inbox, delivery, expo, send>>

PollDone(p) ==
  /\ poll[p].at = "write"
  /\ poll[p].found = {} /\ poll[p].gone = {}
  /\ poll' = [poll EXCEPT ![p] = IdlePoll]
  /\ OnlyPoll

\* The push service or a query fails, and the timer starts another poll in a while.
PollFails(p) ==
  /\ poll[p].at # "idle"
  /\ poll' = [poll EXCEPT ![p] = IdlePoll]
  /\ OnlyPoll

-----------------------------------------------------------------------------
\* The push service: a ticket gets its receipt.
MakeReceipt(x, receipt) ==
  /\ expo[x] = "accepted"
  /\ expo' = [expo EXCEPT ![x] = receipt]
  /\ UNCHANGED <<tokenVars, channel, campaign, inbox, delivery, send, poll>>

PollStep(p) ==
  \/ FetchReceipts(p)
  \/ \E x \in poll[p].found : WriteReceipt(p, x)
  \/ \E t \in poll[p].gone : InvalidateGone(p, t)
  \/ PollDone(p)

CampaignNext ==
  \/ \E c \in Campaigns, audience \in Audiences : CreateDraft(c, audience)
  \/ \E ch \in Switched : SwitchChannel(ch)
  \/ TokenNext /\ UNCHANGED <<channel, campaign, inbox, delivery, expo, send, poll>>
  \/ \E r \in Senders :
       \/ \E c \in Campaigns : ReadCampaign(r, c)
       \/ SendStep(r)
       \/ AnswerToChunkLost(r)
       \/ SendStops(r)
  \/ \E p \in Polls : ReadWaiting(p) \/ PollStep(p) \/ PollFails(p)
  \/ \E x \in Campaigns \X Tokens \X Senders, receipt \in Receipts : MakeReceipt(x, receipt)

CampaignSpec == CampaignInit /\ [][CampaignNext]_campaignVars

(***************************************************************************)
(* One request at a time sends a campaign.  The code does not enforce it.  *)
(***************************************************************************)
CampaignsApart ==
  \A r, q \in Senders : send[r].campaign = send[q].campaign => r = q \/ send[r].at = "idle"

\* A handler that awaits goes on, and the timer starts polls.  Of the push service
\* and the network: a call that is tried again and again succeeds some time, and a
\* ticket gets its receipt in the end.
CampaignFairness ==
  /\ \A r \in Senders : WF_campaignVars(SendStep(r))
  /\ \A p \in Polls : WF_campaignVars(ReadWaiting(p)) /\ WF_campaignVars(PollStep(p))
  /\ SF_campaignVars(\E p \in Polls : FetchReceipts(p))
  /\ \A t \in Tokens :
       SF_campaignVars(\E p \in Polls : \E x \in poll[p].found :
                         x.token = t /\ WriteReceipt(p, x))
  /\ \A x \in Campaigns \X Tokens \X Senders :
       WF_campaignVars(\E receipt \in Receipts : MakeReceipt(x, receipt))

ApartCampaignSpec == CampaignInit /\ [][CampaignNext /\ CampaignsApart']_campaignVars

FairCampaignSpec == ApartCampaignSpec /\ CampaignFairness

-----------------------------------------------------------------------------
(* Properties. *)

\* What a delivery row says is what the push service said of that very device:
\* tickets reach the row of their message although they are matched by position,
\* and a receipt read some time ago is still the receipt of that row.
NoFalseDelivery ==
  \A c \in Campaigns, t \in Tokens :
    LET fates == {expo[<<c, t, r>>] : r \in Senders} IN
    /\ delivery[<<c, t>>].status = "SENT" => fates \cap ({"accepted"} \union Receipts) # {}
    /\ delivery[<<c, t>>].status = "DELIVERED" => "delivered" \in fates
    /\ delivery[<<c, t>>].status = "FAILED" =>
         fates \cap {"refused", "gone", "failed", "unregistered"} # {}
    /\ delivery[<<c, t>>].status = "INVALID_TOKEN" => fates = {"none"}

\* Request r has sent campaign c to device t.
Pushed(c, t, r) == expo[<<c, t, r>>] # "none"

\* 'Campaign already sent': nobody gets a campaign twice on one device, whatever
\* stops, and whoever tries again.
PushedOnce ==
  \A c \in Campaigns, t \in Tokens, r, q \in Senders :
    Pushed(c, t, r) /\ Pushed(c, t, q) => r = q

\* A delivery never goes back: overlapping polls and the sender agree on its course.
DeliveryMoves ==
  [][\A d \in Campaigns \X Tokens :
       LET old == delivery[d].status
           new == delivery'[d].status
       IN  old # new => \/ old = "NONE" /\ new = "QUEUED"
                        \/ old = "QUEUED" /\ new \in {"SENT", "FAILED", "INVALID_TOKEN"}
                        \/ old = "SENT" /\ new \in {"DELIVERED", "FAILED"}]_campaignVars

\* The final status, computed from counts that polls change meanwhile, still says
\* something true: SENT, that the push service refused no message; PARTIAL, that it
\* took one and one failed; FAILED after messages, that one failed.
FinalStatusFits ==
  \A c \in Campaigns :
    LET fates == {expo[x] : x \in {c} \X Tokens \X Senders}
        failed == {"refused", "gone", "failed", "unregistered"}
    IN
    /\ campaign[c].status = "SENT" => fates \cap {"refused", "gone"} = {}
    /\ campaign[c].status = "PARTIAL" =>
         fates \cap failed # {} /\ fates \cap ({"accepted"} \union Receipts) # {}
    /\ campaign[c].status = "FAILED" =>
         fates \cap failed # {} \/ \A t \in Tokens : delivery[<<c, t>>].status = "NONE"

\* A device in use with a well-formed token stays so until its own user signs out, the
\* push service says it is gone, or the sign-out of an earlier user, who had it when
\* the sign-out began, is overtaken by the registration of the next.
InUseUntilRefused ==
  [][\A t \in WellFormed :
       token[t].valid /\ ~token'[t].valid =>
         \/ <<t, token[t].user>> \in leaving \ leaving'
         \/ \E l \in overtaken \ overtaken' : l[1] = t
         \/ \E c \in Campaigns, r \in Senders :
              expo[<<c, t, r>>] \in {"gone", "unregistered"}]_campaignVars

\* A campaign does not stay SENDING as long as its request is at work.
SendingEnds ==
  \A c \in Campaigns, r \in Senders :
    campaign[c].status = "SENDING" /\ send[r].campaign = c
      ~> campaign[c].status # "SENDING" \/ send[r].campaign # c

\* Every delivery that is SENT learns its fate, although a poll looks at the newest
\* PollMax only.
ReceiptsArrive ==
  \A d \in Campaigns \X Tokens : delivery[d].status = "SENT" ~> delivery[d].status # "SENT"
=============================================================================
