--------------------------- MODULE MCFacebookSlot ---------------------------
(* The reader opens tab t1 (and leaves it open when you clicked); the menu
   reads there as well; t2 is a tab neither works in. *)
EXTENDS FacebookSlot, TLC
CONSTANTS read, menu, t1, t2
MCHolderOf == [c \in Callers |-> (read :> "reader" @@ menu :> "menu-read")[c]]
MCTabOf == [c \in Callers |-> t1]
MCHolders == {"reader", "menu-read"}
MCLimit == [h \in MCHolders |-> IF h = "reader" THEN 1 ELSE 2]
=============================================================================
