-------------------------------- MODULE Editor --------------------------------
(***************************************************************************)
(* The raw frame editor (engine/src/raw_frame_editor.c): one buffer with   *)
(* its length, filled from a station or by the client, changed byte by     *)
(* byte and sent.                                                          *)
(*                                                                         *)
(* rfe_edit_byte writes one octet behind the buffer when the last one is   *)
(* edited, and the event it publishes reads that octet.  In the structure  *)
(* of the engine padding lies there, so raw has it as its octet Size.      *)
(***************************************************************************)
EXTENDS Naturals, Sequences

CONSTANTS
  Size,   \* sizeof editor_frame_raw
  Bytes,  \* byte values other than NUL and GT
  Texts   \* texts a client sets or a station yields, shorter than Size

NUL == "NUL"
GT == ">"
Byte == Bytes \cup {NUL, GT}

VARIABLES
  raw,   \* editor_frame_raw and, at Size, the octet behind it
  len,   \* editor_frame_len
  tx,    \* e->config.tx_enabled
  sent   \* the bytes of the last frame.tx event, <<>> before the first

vars == <<raw, len, tx, sent>>

Init ==
  /\ raw = [i \in 0 .. Size |-> NUL]
  /\ len = 0
  /\ tx = TRUE
  /\ sent = <<>>

Content == [i \in 1 .. len |-> raw[i - 1]]

(* strncpy pads with NUL to the end of the buffer. *)
Padded(text) ==
  [i \in 0 .. Size |-> IF i < Len(text) THEN text[i + 1] ELSE IF i < Size THEN NUL ELSE raw[i]]

(* rfe_set_text, and rfe_copy_from_station when the station has a position. *)
SetText(text) ==
  /\ raw' = Padded(text)
  /\ len' = Len(text)
  /\ UNCHANGED <<tx, sent>>

(* rfe_copy_from_station of a station without: snprintf leaves what lies     *)
(* behind the NUL.                                                           *)
CopyStatus(text) ==
  /\ raw' = [i \in 0 .. Size |->
               IF i < Len(text) THEN text[i + 1] ELSE IF i = Len(text) THEN NUL ELSE raw[i]]
  /\ len' = Len(text)
  /\ UNCHANGED <<tx, sent>>

(* Mutant: the byte behind the new end is left. *)
EditByteOpen(offset, value) ==
  /\ offset < Size
  /\ raw' = [raw EXCEPT ![offset] = value]
  /\ len' = IF offset >= len THEN offset + 1 ELSE len
  /\ UNCHANGED <<tx, sent>>

(* rfe_edit_byte.  At the last offset the NUL behind the new end falls      *)
(* behind the buffer.                                                       *)
EditByte(offset, value) ==
  /\ offset < Size
  /\ len' = IF offset >= len THEN offset + 1 ELSE len
  /\ raw' = [i \in 0 .. Size |->
               IF i = offset THEN value
               ELSE IF offset >= len /\ i = offset + 1 THEN NUL ELSE raw[i]]
  /\ UNCHANGED <<tx, sent>>

Clear ==
  /\ raw' = [i \in 0 .. Size |-> IF i < Size THEN NUL ELSE raw[i]]
  /\ len' = 0
  /\ UNCHANGED <<tx, sent>>

(* fi_parse_frame as rfe_send calls it, with its input inside its output:   *)
(* clearing the output clears the input, no '>' is found, and the length    *)
(* is all that is left, one less than the buffer at most.                   *)
ParsedInPlace(bytes) ==
  [i \in 1 .. (IF Len(bytes) < Size THEN Len(bytes) ELSE Size - 1) |-> NUL]

(* rfe_send. *)
Send ==
  /\ len > 0 /\ tx
  /\ sent' = ParsedInPlace(Content)
  /\ UNCHANGED <<raw, len, tx>>

Lock(sending) ==
  /\ tx' = sending
  /\ UNCHANGED <<raw, len, sent>>

Next ==
  \/ \E text \in Texts : SetText(text) \/ CopyStatus(text)
  \/ \E offset \in 0 .. Size, value \in Byte : EditByte(offset, value)
  \/ Clear
  \/ Send
  \/ \E sending \in BOOLEAN : Lock(sending)

-----------------------------------------------------------------------------
(* What is shown and published as a string ends with its length: no byte of *)
(* an older frame reappears behind the end, whichever offsets were edited   *)
(* and whatever a longer text left there.  A text that fills the buffer has *)
(* its NUL behind it, where rfe_edit_byte put it.                           *)
Terminated ==
  /\ len <= Size
  /\ raw[len] = NUL
=============================================================================
