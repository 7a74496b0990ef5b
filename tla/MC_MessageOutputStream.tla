----------------------- MODULE MC_MessageOutputStream -----------------------
(* Model-checking instance: two compression algorithms (GZIP preferred),   *)
(* the local side supporting both, the remote side supporting LZW or       *)
(* sending no capabilities.                                                *)
EXTENDS MessageOutputStream

CONSTANTS GZIP, LZW

MCAlgos == {GZIP, LZW}
MCPreference == <<GZIP, LZW>>
MCLocalCaps == {GZIP, LZW}
MCRemoteCaps == {{LZW}, NoCaps}

=============================================================================
