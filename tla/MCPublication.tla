--------------------------- MODULE MCPublication ---------------------------
(* Small instances of Publication for TLC.                                  *)
EXTENDS Publication, TLC

\* One campaign published in two channels of one list.
TwoChannelsCampaign == [t \in Targets |-> "c1"]
TwoChannelsChannel  == (1 :> "a" @@ 2 :> "b")
OneList             == [t \in Targets |-> "l1"]
Staggered           == [t \in Targets |-> t - 1]
AtOnce              == [t \in Targets |-> 0]
ShortRetention      == [c \in Campaigns |-> 1]
NoEarlier           == [ch \in Channels |-> 0]

\* Two campaigns that publish once each in the same channel, as
\* uq_campaign_channel wants it; with a strike from before, two more remove it.
OneChannelCampaign == (1 :> "c1" @@ 2 :> "c2")
OneChannel         == [t \in Targets |-> "a"]
OneEarlier         == [ch \in Channels |-> 1]

\* Three campaigns, the first one malformed, in two lists: targets that cannot
\* be published, or whose window is long, stand before the last one.
ThreeCampaigns == (1 :> "c1" @@ 2 :> "c2" @@ 3 :> "c3")
TwoLists       == (1 :> "l1" @@ 2 :> "l2" @@ 3 :> "l1")
MixedRetention == ("c1" :> 1 @@ "c2" :> 2 @@ "c3" :> 1)

\* A campaign with two targets, one in a channel it shares with another campaign.
TwoAndOne    == (1 :> "c1" @@ 2 :> "c2" @@ 3 :> "c2")
SharedAndOwn == (1 :> "a" @@ 2 :> "a" @@ 3 :> "b")
=============================================================================
