------------------------- MODULE MCMicbiosSettings -------------------------
(* Two set commands, any settings and modes, then getinfo of any setting. *)
EXTENDS MicbiosSettings

MCMaxWrites == 2

=============================================================================
