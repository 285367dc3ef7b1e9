------------------------------- MODULE KissLink -------------------------------
(***************************************************************************)
(* The link to a TNC over TCP (modem/kiss_tnc.c, run_kiss_mode): frames    *)
(* are escaped and enclosed in FENDs, the stream is read in pieces of any  *)
(* size into a buffer, and complete frames are taken out of it.            *)
(*                                                                         *)
(* The content of a frame is a sequence of octets; the TNC, which is       *)
(* external, escapes as KISS prescribes and takes every FEND for the end   *)
(* of what came before it.  Frames are shorter than half the buffer, as    *)
(* AX.25 frames are.  The socket does not block: it may take only the      *)
(* beginning of a frame, which kiss_tnc_send reports as sent, and the rest *)
(* of it is lost.                                                          *)
(***************************************************************************)
EXTENDS Naturals, Sequences, SequencesExt

CONSTANTS
  Frames,     \* contents of frames on the air and from the engine
  Capacity,   \* sizeof rx_buf
  Piece,      \* the most recv returns, half the capacity
  MaxFrames   \* bound: frames both sides send

FEND == "FEND"
FESC == "FESC"
TFEND == "TFEND"
TFESC == "TFESC"
DATA == "DATA"

VARIABLES
  connected, \* tnc->connected
  wire,      \* octets on their way to us
  rx,        \* rx_buf
  sent,      \* history: frames the TNC sent
  heard,     \* history: frames handed to rx_cb
  queued,    \* history: frames kiss_tnc_send reported sent, and whether whole
  partial,   \* what the TNC has of a frame whose end it has not seen
  aired      \* history: what the TNC took for frames, and of which it was

vars == <<connected, wire, rx, sent, heard, queued, partial, aired>>

Init ==
  /\ connected = TRUE
  /\ wire = <<>> /\ rx = <<>>
  /\ sent = <<>> /\ heard = <<>>
  /\ queued = <<>> /\ partial = <<>> /\ aired = <<>>

-----------------------------------------------------------------------------
(* kiss_encode. *)
Escaped(octet) ==
  CASE octet = FEND -> <<FESC, TFEND>>
    [] octet = FESC -> <<FESC, TFESC>>
    [] OTHER -> <<octet>>

Encode(frame) ==
  <<FEND, DATA>> \o FlattenSeq([i \in DOMAIN frame |-> Escaped(frame[i])]) \o <<FEND>>

(* What an octet behind an escape stands for; another is dropped. *)
Meaning(octet) ==
  CASE octet = TFEND -> <<FEND>> [] octet = TFESC -> <<FESC>> [] OTHER -> <<>>

(* Mutant: the octet behind an escape is taken as it is. *)
ReadRaw(s, octet) ==
  IF s.ended THEN s
  ELSE IF octet = FESC /\ ~s.escape THEN [s EXCEPT !.escape = TRUE]
  ELSE IF octet = FEND THEN [s EXCEPT !.ended = TRUE]
  ELSE [text |-> Append(s.text, octet), escape |-> FALSE, ended |-> FALSE]

(* A round of the loop of kiss_decode: a FEND that is not escaped ends the  *)
(* frame.                                                                   *)
Read(s, octet) ==
  IF s.ended THEN s
  ELSE IF s.escape
    THEN [text |-> s.text \o Meaning(octet), escape |-> FALSE, ended |-> FALSE]
  ELSE [text |-> IF octet \in {FEND, FESC} THEN s.text ELSE Append(s.text, octet),
        escape |-> octet = FESC, ended |-> octet = FEND]

Unescaped(octets) ==
  LET after[i \in 0 .. Len(octets)] ==
        IF i = 0 THEN [text |-> <<>>, escape |-> FALSE, ended |-> FALSE]
        ELSE Read(after[i - 1], octets[i])
  IN after[Len(octets)].text

(* kiss_decode with the test of kiss_tnc_poll: data frames that say         *)
(* something.                                                               *)
Decoded(octets) ==
  LET content == Unescaped(SubSeq(octets, 3, Len(octets))) IN
  IF Len(octets) >= 3 /\ octets[2] = DATA /\ content # <<>> THEN <<content>> ELSE <<>>

(* The first FEND at or after p; behind the end when there is none. *)
NextFend(octets, p) ==
  LET at == {i \in p .. Len(octets) : octets[i] = FEND}
  IN IF at = {} THEN Len(octets) + 1 ELSE CHOOSE i \in at : \A j \in at : i <= j

(* A round of the loop of kiss_tnc_poll: the octets between two FENDs are   *)
(* a frame.  Octets before an opening FEND are skipped, and the FEND that   *)
(* closes a frame does not open the next.                                   *)
Taken(octets, s) ==
  LET open == NextFend(octets, s.pos)
      close == NextFend(octets, open + 1)
  IN IF close > Len(octets) THEN s
     ELSE [frames |-> s.frames \o Decoded(SubSeq(octets, open, close)), pos |-> close + 1]

(* The frames in the buffer, and where the rest begins that stays in it. *)
Extracted(octets) ==
  LET after[k \in 0 .. Len(octets)] ==
        IF k = 0 THEN [frames |-> <<>>, pos |-> 1] ELSE Taken(octets, after[k - 1])
      end == after[Len(octets)]
  IN [frames |-> end.frames, rest |-> NextFend(octets, end.pos)]

(* On overflow the newest half is kept. *)
Shortened(octets, n) ==
  LET keep == Capacity \div 2 IN
  IF Len(octets) + n > Capacity /\ keep < Len(octets)
    THEN SubSeq(octets, Len(octets) - keep + 1, Len(octets))
    ELSE octets

-----------------------------------------------------------------------------
TncSends(frame) ==
  /\ connected
  /\ Len(sent) + Len(queued) < MaxFrames
  /\ sent' = Append(sent, frame)
  /\ wire' = wire \o Encode(frame)
  /\ UNCHANGED <<connected, rx, heard, queued, partial, aired>>

(* Mutant: what is left behind the last complete frame is dropped. *)
PollForgets(n) ==
  /\ connected
  /\ n <= Len(wire)
  /\ wire' = SubSeq(wire, n + 1, Len(wire))
  /\ heard' = heard \o Extracted(Shortened(rx, n) \o SubSeq(wire, 1, n)).frames
  /\ rx' = <<>>
  /\ UNCHANGED <<connected, sent, queued, partial, aired>>

(* kiss_tnc_poll, with n octets received. *)
Poll(n) ==
  /\ connected
  /\ n <= Len(wire)
  /\ wire' = SubSeq(wire, n + 1, Len(wire))
  /\ LET octets == Shortened(rx, n) \o SubSeq(wire, 1, n)
         taken == Extracted(octets)
     IN /\ heard' = heard \o taken.frames
        /\ rx' = SubSeq(octets, taken.rest, Len(octets))
  /\ UNCHANGED <<connected, sent, queued, partial, aired>>

(* The peer closes: run_kiss_mode ends, everything received before that. *)
PollClosed ==
  /\ connected
  /\ wire = <<>>
  /\ connected' = FALSE
  /\ UNCHANGED <<wire, rx, sent, heard, queued, partial, aired>>

(* What the TNC takes for the k-th frame when it sees an end. *)
Aired(octets, k) ==
  [i \in DOMAIN Decoded(octets) |-> [of |-> k, text |-> Decoded(octets)[i]]]

(* on_engine_tx, kiss_tnc_send: the socket takes n octets, and the FEND a   *)
(* frame begins with ends one that was cut.  A frame of which the socket    *)
(* takes nothing is refused: an error is printed and nothing changes.       *)
EngineSends(frame, n) ==
  LET code == Encode(frame)
      whole == n = Len(code)
  IN /\ connected
     /\ Len(sent) + Len(queued) < MaxFrames
     /\ queued' = Append(queued, [frame |-> frame, whole |-> whole])
     /\ aired' = aired \o Aired(Append(partial, FEND), Len(queued))
                 \o IF whole THEN Aired(code, Len(queued) + 1) ELSE <<>>
     /\ partial' = IF whole THEN <<>> ELSE SubSeq(code, 1, n)
     /\ UNCHANGED <<connected, wire, rx, sent, heard>>

Next ==
  \/ \E frame \in Frames : TncSends(frame)
  \/ \E n \in 1 .. Piece : Poll(n)
  \/ PollClosed
  \/ \E frame \in Frames : \E n \in 1 .. Len(Encode(frame)) : EngineSends(frame, n)

-----------------------------------------------------------------------------
(* However the stream is cut into pieces, the frames of the TNC arrive      *)
(* whole, once and in order, and none waits in the buffer when its last     *)
(* octet is there.                                                          *)
HeardWhole ==
  /\ IsPrefix(heard, sent)
  /\ wire = <<>> => heard = sent

(* Every frame the socket took whole is aired as it was and once, in the    *)
(* order of the frames.  One that was cut spoils no other: it is aired as   *)
(* far as it was taken, before the next one, or not at all.                 *)
CutSpoilsNoOther ==
  /\ \A k \in DOMAIN queued : queued[k].whole => \E d \in DOMAIN aired : aired[d].of = k
  /\ \A d \in DOMAIN aired :
       /\ IsPrefix(aired[d].text, queued[aired[d].of].frame)
       /\ queued[aired[d].of].whole => aired[d].text = queued[aired[d].of].frame
  /\ \A d, e \in DOMAIN aired : d < e => aired[d].of < aired[e].of

LinkFaithful == HeardWhole /\ CutSpoilsNoOther
=============================================================================
