-------------------------- MODULE MCTabActivities --------------------------
(* feed is the pinned group feed, post a tab with an open post, fresh the
   tab a scan opens; one read comes into the tab of the feed, where a post
   has been opened. *)
EXTENDS TabActivities, TLC
CONSTANTS scan, read, here, more, new, auto, feed, post, fresh
MCKind == [c \in Calls |-> (scan :> "scan" @@ read :> "read" @@ here :> "read" @@ more :> "continue"
                            @@ new :> "new" @@ auto :> "auto")[c]]
MCTabs == [c \in Calls |-> (scan :> feed @@ read :> post @@ here :> feed @@ more :> feed
                            @@ new :> fresh @@ auto :> feed)[c]]
MCHolders == {"menu-scan", "menu-read", "auto-scan"}
MCLimit == [h \in MCHolders |-> 1]
\* Of what comes after the slot is lost nothing is claimed.
UntilLost == ~ astray
=============================================================================
