---------------------------- MODULE MCNfcReader ----------------------------
(***************************************************************************)
(* Instance of NfcReader for TLC.                                          *)
(***************************************************************************)
EXTENDS NfcReader

CONSTANTS
  ntag, mifare,   \* UIDs, by the type of the card
  v1, v2          \* contents of the file of mappings
=============================================================================
