--------------------------- MODULE MCPcapngExport ---------------------------
(***************************************************************************)
(* TLC instances of PcapngExport.                                          *)
(***************************************************************************)
EXTENDS PcapngExport
=============================================================================
