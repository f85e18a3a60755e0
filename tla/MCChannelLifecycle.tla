------------------------- MODULE MCChannelLifecycle -------------------------
(* Three processes and two channels.                                       *)
EXTENDS ChannelLifecycle
=============================================================================
