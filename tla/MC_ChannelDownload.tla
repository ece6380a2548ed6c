------------------------- MODULE MC_ChannelDownload -------------------------
(* Instances of ChannelDownload for TLC.                                    *)
EXTENDS ChannelDownload
=============================================================================
