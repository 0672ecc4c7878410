---------------------------- MODULE MCConversations ----------------------------
(***************************************************************************)
(* Instances of Conversations for TLC: how often the environment acts, and *)
(* which process a thread belongs to.                                      *)
(***************************************************************************)
EXTENDS Conversations, TLC

Never == [k \in Kinds |-> 0]
Two   == "message" :> 2 @@ Never

One   == "message" :> 1 @@ Never

Syncs     == "fault" :> 1 @@ "sync" :> 1 @@ Two
Crashes   == "crash" :> 1 @@ "sync" :> 1 @@ Two
Deletions == "fault" :> 1 @@ "delete" :> 1 @@ "block" :> 1 @@ One
Blocks    == "fault" :> 1 @@ "walk" :> 1 @@ "expire" :> 1 @@ "block" :> 2 @@ One
Renamings == "fault" :> 2 @@ "block" :> 1 @@ "rename" :> 1 @@ One
Walks     == "walk" :> 1 @@ "another" :> 1 @@ "scan" :> 1 @@ "expire" :> 1 @@ "rename" :> 1 @@ One

SharedLimits == {Syncs, Crashes, Deletions, Blocks, Renamings, Walks}
SettleLimits == {"end" :> 1 @@ Two, "crash" :> 1 @@ Two,
                 "crash" :> 1 @@ "end" :> 1 @@ One, "rename" :> 1 @@ "end" :> 1 @@ One}
StrandLimits == {"crash" :> 1 @@ "end" :> 1 @@ Two}
QuietLimits  == {Two}

OneHost  == [t \in Threads |-> "h1"]
TwoHosts == "w1" :> "h1" @@ "w2" :> "h2"
=============================================================================
