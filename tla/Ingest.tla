-------------------------------- MODULE Ingest --------------------------------
(***************************************************************************)
(* What becomes of a frame the host feeds to the engine                    *)
(* (engine/src/frame_ingest.c, engine_dispatch_frame): parsed, checked,    *)
(* filtered, compared with the frames of its sender, counted, and handed   *)
(* to the managers by its class.                                           *)
(*                                                                         *)
(* A frame is a record of what these steps look at: "named" says that the  *)
(* source has a letter, a digit or a hyphen, "printable" that the frame    *)
(* ends a line or no control character is in it, crc is the exclusive or   *)
(* of its bytes.                                                           *)
(* The effects on stations, messages and repeats are the other modules';   *)
(* here "outcome" says how far the frame came and which manager took it.   *)
(* Sounds are left out: they depend on nothing and nothing on them.        *)
(***************************************************************************)
EXTENDS Integers, Sequences

CONSTANTS
  Senders,  \* callsigns that are heard
  Frames,   \* [shape, named, printable, src, crc, class]: the frames fed
  Capacity, \* senders the table holds (MAX_UNIQUE_CHECK)
  Window    \* ticks of the host in the 30 seconds a frame counts as repeated

Shapes == {"noSource", "noPayload", "full"}
Crcs == {f.crc : f \in Frames}

VARIABLES
  seen,     \* e->unique_checks: entries [src, crc, age]
  tcpip,    \* e->filter_tcpip: third-party frames are dropped
  outcome,  \* history: what became of the last frame
  counted   \* history: the newest frame of each sender counted as unique

vars == <<seen, tcpip, outcome, counted>>

Nothing == [verdict |-> "none", handler |-> "none"]

Init ==
  /\ seen = <<>>
  /\ tcpip = FALSE
  /\ outcome = Nothing
  /\ counted = [s \in Senders |-> [crc |-> CHOOSE c \in Crcs : TRUE, age |-> Window]]

-----------------------------------------------------------------------------
(* fi_parse_frame and fi_validate_checksum: a frame without payload passes  *)
(* whatever its source.                                                     *)
Parses(f) == f.shape # "noSource"
Valid(f) == f.printable /\ (f.shape = "noPayload" \/ f.named)

(* fi_classify_frame. *)
ClassOf(f) == IF f.shape = "full" THEN f.class ELSE "unknown"

(* fi_apply_filters: invalid frames never pass, filter_invalid_ok or not,   *)
(* and filter_unique_only is not looked at.                                 *)
Passes(f) == Valid(f) /\ ~(ClassOf(f) = "thirdparty" /\ tcpip)

(* fi_is_unique. *)
Entries(src) == {i \in DOMAIN seen : seen[i].src = src}

Repeated(f) ==
  \E i \in Entries(f.src) : seen[i].crc = f.crc /\ seen[i].age < Window

(* Mutant: a repeated frame refreshes nothing, a new one only its checksum. *)
RememberedCrc(f) ==
  IF Repeated(f) THEN seen
  ELSE IF Entries(f.src) # {}
    THEN [i \in DOMAIN seen |->
            IF i \in Entries(f.src) THEN [seen[i] EXCEPT !.crc = f.crc] ELSE seen[i]]
  ELSE IF Len(seen) < Capacity
    THEN Append(seen, [src |-> f.src, crc |-> f.crc, age |-> 0])
  ELSE seen

(* fi_is_unique with fi_register_unique, which stores the same entry again. *)
(* A full table takes no other sender.                                      *)
Remembered(f) ==
  LET entry == [src |-> f.src, crc |-> f.crc, age |-> 0] IN
  IF Repeated(f) THEN seen
  ELSE IF Entries(f.src) # {}
    THEN [i \in DOMAIN seen |-> IF i \in Entries(f.src) THEN entry ELSE seen[i]]
  ELSE IF Len(seen) < Capacity THEN Append(seen, entry)
  ELSE seen

(* The switch at step 10 of the dispatch.  A query begins with '?', and is  *)
(* compared with "APRS?": no query is answered.                             *)
Handler(f) ==
  CASE ClassOf(f) = "message" -> "mm_receive_message"
    [] ClassOf(f) \in {"position", "mice"} -> "sm_recalc_all"
    [] OTHER -> "none"

-----------------------------------------------------------------------------
Refuse(f) ==
  /\ ~Parses(f) \/ ~Passes(f)
  /\ outcome' = [Nothing EXCEPT !.verdict =
                   IF Parses(f) /\ Valid(f) THEN "filtered" ELSE "invalid"]
  /\ UNCHANGED <<seen, tcpip, counted>>

(* engine_dispatch_frame, of a frame that passes the filters. *)
Take(f) ==
  /\ Parses(f) /\ Passes(f)
  /\ seen' = Remembered(f)
  /\ outcome' = [verdict |-> IF Repeated(f) THEN "repeated" ELSE "unique",
                 handler |-> Handler(f)]
  /\ counted' = IF Repeated(f) THEN counted
                ELSE [counted EXCEPT ![f.src] = [crc |-> f.crc, age |-> 0]]
  /\ UNCHANGED tcpip

(* SET_FRAME_FILTER, and the configuration loaded or reset. *)
SetFilter(drop) ==
  /\ tcpip' = drop
  /\ outcome' = Nothing
  /\ UNCHANGED <<seen, counted>>

Older(entry) == [entry EXCEPT !.age = IF @ < Window THEN @ + 1 ELSE @]

Tick ==
  /\ seen' = [i \in DOMAIN seen |-> Older(seen[i])]
  /\ counted' = [s \in Senders |-> Older(counted[s])]
  /\ outcome' = Nothing
  /\ UNCHANGED tcpip

Next ==
  \/ \E f \in Frames : Refuse(f) \/ Take(f)
  \/ \E drop \in BOOLEAN : SetFilter(drop)
  \/ Tick

-----------------------------------------------------------------------------
(* The first Capacity senders are remembered by what was counted last: for  *)
(* them a frame counts as unique exactly when the newest frame of theirs    *)
(* that counted was another one, or half a minute ago.                      *)
MemoryExact ==
  \A i \in DOMAIN seen :
    /\ seen[i] = [src |-> seen[i].src, crc |-> counted[seen[i].src].crc,
                  age |-> counted[seen[i].src].age]
    /\ Entries(seen[i].src) = {i}
=============================================================================
