---------------------------- MODULE MCCampaigns ----------------------------
\* Instances of PushCampaigns.
EXTENDS PushCampaigns

CONSTANTS c1, t1, t2, t3, v1, v2, w1, w2, p1, p2

CampaignSymmetry == Permutations(Senders) \union Permutations(Polls)
=============================================================================
