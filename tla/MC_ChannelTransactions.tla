----------------------- MODULE MC_ChannelTransactions -----------------------
(* ChannelTransactions on a table with an admin channel behind another secondary and a free
   slot; the URL renames the primary, moves the admin channel and brings a LoRa change. *)
EXTENDS ChannelTransactions, TLC

McTable0 == (0 :> "prim") @@ (1 :> "x") @@ (2 :> "admin") @@ (3 :> "off")
McUrl == <<"a", "admin">>

=============================================================================
