---------------------------- MODULE MCComponents ----------------------------
(***************************************************************************)
(* Instance of Components for TLC, with small values for every component.  *)
(***************************************************************************)
EXTENDS Components

(* Frames of three senders, with and without a source and a payload. *)
HeardFrame(shape, named, printable, src, crc, class) ==
  [shape |-> shape, named |-> named, printable |-> printable, src |-> src, crc |-> crc,
   class |-> class]
MCHeardFrames ==
  {HeardFrame("full", TRUE, TRUE, n, crc, class) :
     n \in {"x", "y", "z"}, crc \in {1, 2}, class \in {"message", "thirdparty"}}
  \cup {HeardFrame(shape, FALSE, printable, "x", 1, "status") :
          shape \in {"noSource", "noPayload", "full"}, printable \in BOOLEAN}

(* Files of another program, of an older version and of another size, one   *)
(* whole from an earlier run, and some of this format that were damaged.    *)
MCFile(sum, data) == <<"APRS", 2, 2, <<"crc", sum>>>> \o data
MCData(c) == <<<<"data", c, 1>>, <<"data", c, 2>>>>
MCForeignFiles ==
  {<<"GIF8">>, <<"APRS", 1, 2>>, <<"APRS", 2, 3>>, MCFile(MCData("other"), <<>>),
   MCFile(MCData("other"), MCData("other")),
   MCFile(MCData("other"), <<<<"data", "other", 1>>, <<"data", "bad", 2>>>>),
   MCFile(MCData("new"), MCData("other")),
   MCFile(<<<<"data", "bad", 1>>>>, MCData("new"))}

(* Frames of WebSocket clients: every kind of message, known and unknown. *)
MCWsMessages ==
  {[op |-> "text", type |-> "command", topic |-> t] :
     t \in {"beacon.send", "message.send", "position.set", "tx.lock", "frame.edit",
            "frame.send_editor", "unknown"}}
  \cup {[op |-> "text", type |-> t, topic |-> ""] :
          t \in {"subscribe", "unsubscribe", "ping", "unknown"}}
  \cup {[op |-> o, type |-> "", topic |-> ""] : o \in {"ping", "close", "pong"}}

MCQueryStrings ==
  {<<>>, [sort |-> "dist"], [sort |-> "dist", order |-> "desc"],
   [sort |-> "name", order |-> "asc", count |-> "5"]}

(* A simple, a flooding and a tracing alias, and paths of them. *)
MCDigiAliases ==
  {[alias |-> "W1", type |-> 0, hoplimit |-> 3], [alias |-> "W2", type |-> 1, hoplimit |-> 3],
   [alias |-> "W3", type |-> 2, hoplimit |-> 3]}
MCSentPaths ==
  UNION {[1 .. n -> [call : {"W1", "W2", "W3"}, hops : {0, 2}, used : {FALSE}]] : n \in 1 .. 2}

(* Topics of two letters, patterns with and without a star. *)
MCTopics == {<<"a", "a">>, <<"a", "b">>}
MCPatterns == {<<"*">>, <<"a", "*">>, <<"a", "b">>}

(* Contents with and without octets that are escaped. *)
MCKissFrames == {<<"x">>, <<"FEND", "x">>, <<"FESC">>}
MCOctet(character) == [of |-> character, high |-> FALSE, low |-> TRUE]
MCAx25Texts == {<<>>, <<MCOctet("t")>>}
MCLeftovers == {<<MCOctet("NUL")>>, <<MCOctet("o"), MCOctet("o")>>}
MCEditorTexts == {<<"x">>, <<">">>, <<"x", ">", "x">>}

MCStrides == 1 .. 3
MCPages == 1 .. 6
=============================================================================
