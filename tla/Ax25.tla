--------------------------------- MODULE Ax25 ---------------------------------
(***************************************************************************)
(* AX.25 frames on the wire (modem/ax25.c): address fields of equal        *)
(* length, whose last octet says by its lowest bit whether the field is    *)
(* the last one, control and protocol octets, and the text.                *)
(*                                                                         *)
(* An octet is [of, high, low]: what it carries besides its highest bit,   *)
(* which marks a field of the path as repeated and is not read here, and   *)
(* its lowest one.  The frame check sequence is left out; on_kiss_frame    *)
(* passes a frame without one.                                             *)
(*                                                                         *)
(* The text is printed as a string, as far as the first NUL from where it  *)
(* begins: nothing ends it at the end of the frame, so what the buffer of  *)
(* kiss_tnc_poll held behind the frame is printed too (ax25.c:188).        *)
(***************************************************************************)
EXTENDS Naturals, Sequences, SequencesExt

CONSTANTS
  Calls,    \* callsigns with their SSID, "none" not among them
  Texts,    \* texts: sequences of octets
  Leftovers, \* what the buffer may hold behind a frame
  FieldLen, \* octets of an address (7)
  MaxPath,  \* AX25_MAX_PATH
  MaxLine   \* sizeof text in on_kiss_frame, an address counted as one

(* "repeated" fields of the path have been used.  A destination has no SSID *)
(* here: ax25_encode reads none.                                            *)
Frames == [dst : Calls, src : Calls, path : SeqOf(Calls, MaxPath),
           repeated : 0 .. MaxPath, text : Texts]

VARIABLES
  wire,    \* the frame as transmitted, and who encoded it
  frame,   \* what it was
  behind,  \* what the buffer held behind it
  text     \* what on_kiss_frame made of it

vars == <<wire, frame, behind, text>>

None == [dst |-> "none", src |-> "none", path |-> <<>>, text |-> <<>>]

Init ==
  /\ wire = <<>>
  /\ frame = None
  /\ behind = <<>>
  /\ text = None

-----------------------------------------------------------------------------
(* encode_addr, decode_addr. *)
Field(call, mark, last) ==
  [i \in 1 .. FieldLen |-> [of |-> call, high |-> i = FieldLen /\ mark,
                            low |-> i = FieldLen /\ last]]
Call(octets) == octets[1].of

Control == <<[of |-> "UI", high |-> FALSE, low |-> TRUE],
             [of |-> "noLayer3", high |-> TRUE, low |-> FALSE]>>

(* ax25_build: the source and every field of the path end the addresses,    *)
(* and no field is marked as repeated.                                      *)
Built(f) ==
  Field(f.dst, FALSE, f.path = <<>>) \o Field(f.src, FALSE, TRUE)
  \o FlattenSeq([i \in DOMAIN f.path |-> Field(f.path[i], FALSE, TRUE)])
  \o Control \o f.text

(* What the protocol prescribes, and other stations send: the last only,    *)
(* and the destination marked as that of a command.                         *)
Prescribed(f) ==
  Field(f.dst, TRUE, FALSE) \o Field(f.src, FALSE, f.path = <<>>)
  \o FlattenSeq([i \in DOMAIN f.path |-> Field(f.path[i], i <= f.repeated, i = Len(f.path))])
  \o Control \o f.text

(* Mutant: the search starts behind the first field of the path. *)
AddressEndLate(octets) ==
  LET fields == {k \in 4 .. Len(octets) \div FieldLen : octets[k * FieldLen].low}
      last == IF fields = {} THEN Len(octets) \div FieldLen + 1
              ELSE CHOOSE k \in fields : \A l \in fields : k <= l
  IN last * FieldLen

(* The position after the addresses: the field behind the source is taken   *)
(* for one of the path without a look at the source's own bit.              *)
AddressEnd(octets) ==
  LET fields == {k \in 3 .. Len(octets) \div FieldLen : octets[k * FieldLen].low}
      last == IF fields = {} THEN Len(octets) \div FieldLen + 1
              ELSE CHOOSE k \in fields : \A l \in fields : k <= l
  IN last * FieldLen

FieldAt(octets, k) == SubSeq(octets, (k - 1) * FieldLen + 1, k * FieldLen)

(* What "%s" prints from here. *)
Printed(octets) ==
  LET nuls == {i \in DOMAIN octets : octets[i].of = "NUL"} IN
  IF nuls = {} THEN octets
  ELSE SubSeq(octets, 1, (CHOOSE i \in nuls : \A j \in nuls : i <= j) - 1)

(* ax25_decode; None when the frame is too short for what it takes for its  *)
(* addresses.                                                               *)
Decode(octets, rest) ==
  LET end == AddressEnd(octets) IN
  IF end + 2 > Len(octets) THEN None
  ELSE [dst |-> Call(FieldAt(octets, 1)),
        src |-> Call(FieldAt(octets, 2)),
        path |-> [i \in 1 .. end \div FieldLen - 2 |-> Call(FieldAt(octets, i + 2))],
        text |-> Printed(SubSeq(octets, end + 3, Len(octets)) \o rest)]

(* on_kiss_frame drops what does not fit in its line. *)
Heard(octets, rest) ==
  LET f == Decode(octets, rest) IN
  IF Len(f.path) + 2 + Len(f.text) >= MaxLine THEN None ELSE f

-----------------------------------------------------------------------------
(* A frame of this program, received by this program. *)
HearOwn(f, rest) ==
  /\ wire' = Built(f)
  /\ frame' = f
  /\ behind' = rest
  /\ text' = Heard(Built(f), rest)

(* A frame of another station. *)
HearOther(f, rest) ==
  /\ wire' = Prescribed(f)
  /\ frame' = f
  /\ behind' = rest
  /\ text' = Heard(Prescribed(f), rest)

Next == \E f \in Frames, rest \in Leftovers : HearOwn(f, rest) \/ HearOther(f, rest)

-----------------------------------------------------------------------------
(* The addresses of every frame of another station that passed a            *)
(* digipeater field are read as they were sent, and of one of this program  *)
(* when it has one such field; its text as far as its first NUL, and when   *)
(* it has none, with what was behind it.  A frame is dropped only when all  *)
(* this is too long for a line.                                             *)
RepeatedFramesRead ==
  frame.path # <<>> /\ (wire = Prescribed(frame) \/ Len(frame.path) = 1) =>
    LET printed == Printed(frame.text \o behind) IN
    \/ text = [dst |-> frame.dst, src |-> frame.src, path |-> frame.path, text |-> printed]
    \/ text = None /\ Len(frame.path) + 2 + Len(printed) >= MaxLine
=============================================================================
