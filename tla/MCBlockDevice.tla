--------------------------- MODULE MCBlockDevice ---------------------------
(***************************************************************************)
(* Instance of BlockDevice for TLC: 2 reserved blocks and 4 data blocks,   *)
(* the last of which lies beyond the bound of modify_block and             *)
(* delete_block, as blocks 2048..4095 do in the program.                   *)
(***************************************************************************)
EXTENDS BlockDevice
=============================================================================
