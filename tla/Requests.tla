------------------------------- MODULE Requests -------------------------------
(***************************************************************************)
(* What the transports make of their clients' requests: the WebSocket      *)
(* server of the frames in one piece of input (transport/websocket/        *)
(* ws_server.c), the HTTP server of one request (transport/http/           *)
(* http_server.c).  A request ends in calls of the engine's API and in     *)
(* replies.                                                                *)
(*                                                                         *)
(* No authentication token is configured, as in both main programs.        *)
(* A piece of WebSocket input is read as a sequence of whole frames; the   *)
(* server keeps nothing of a frame that is cut, though its clients have a  *)
(* buffer for it.  A subscription names one topic, and who ends one has    *)
(* one (WsServer has the others).                                          *)
(***************************************************************************)
EXTENDS Naturals, Sequences, TLC

CONSTANTS
  Messages,  \* WebSocket frames: [op, type, topic], op in {"text", "close", "ping"}
  Pieces,    \* the most frames in one piece
  Queries    \* query strings: functions from some of "sort", "order", "count" to values

VARIABLE log  \* history: what each request of the last piece led to

(* ws_handle_message: the commands, by their topic. *)
WsCommands ==
     "beacon.send"       :> "send_beacon"
  @@ "message.send"      :> "send_message"
  @@ "position.set"      :> "set_manual_position"
  @@ "tx.lock"           :> "lock_tx"
  @@ "frame.edit"        :> "set_editor_frame_text"
  @@ "frame.send_editor" :> "send_editor_frame"

Done(calls, replies) == [calls |-> calls, replies |-> replies]

(* The acknowledgement follows the call, whatever the call returned. *)
WsMessage(m) ==
  CASE m.type = "subscribe"   -> Done(<<"subscribe">>, <<"ack", "snapshot">>)
    [] m.type = "unsubscribe" -> Done(<<"unsubscribe">>, <<"ack">>)
    [] m.type = "command" /\ m.topic \in DOMAIN WsCommands ->
         Done(<<WsCommands[m.topic]>>, <<"ack">>)
    [] m.type = "ping"        -> Done(<<>>, <<"pong">>)
    [] OTHER                  -> Done(<<>>, <<"error">>)

(* The switch over the opcodes. *)
WsFrame(m) ==
  CASE m.op = "text" -> WsMessage(m)
    [] m.op = "ping" -> Done(<<>>, <<"pong">>)
    [] OTHER         -> Done(<<>>, <<>>)

(* A close frame ends the reading of its piece. *)
UpToClose(piece) ==
  LET closes == {i \in DOMAIN piece : piece[i].op = "close"}
  IN IF closes = {} THEN piece
     ELSE SubSeq(piece, 1, CHOOSE i \in closes : \A j \in closes : i <= j)

Receive(piece) ==
  LET read == UpToClose(piece)
  IN log' = [i \in DOMAIN read |-> WsFrame(read[i])]

-----------------------------------------------------------------------------
(* get_query_param returns one static buffer: the values asked for earlier  *)
(* become the one found last.                                               *)
AskedLast(query) ==
  CHOOSE key \in DOMAIN query :
    \/ key = "count"
    \/ key = "order" /\ "count" \notin DOMAIN query
    \/ DOMAIN query = {"sort"}

(* handle_get_stations: <<column, ascending>> of the sort it asks for. *)
SortAsked(query) ==
  LET value == query[AskedLast(query)]
  IN <<value, ~("order" \in DOMAIN query /\ value = "desc")>>

Gets == {"/v2/state", "/v2/messages", "/v2/stats", "/v2/stats/hourly", "/v2/stats/20h",
         "/v2/gps", "/v2/digi/recent", "/v2/frame/editor", "/v2/stations/"}

(* Requests that need no body, and those that do. *)
Posts ==
     "/v2/beacon/send" :> "send_beacon"
  @@ "/v2/frame/send"  :> "send_editor_frame"
  @@ "/v2/config/reset" :> "factory_reset"
  @@ "/v2/remote/keys" :> "generate_remote_keys"

PostsWithBody ==
     "/v2/messages/send"    :> "send_message"
  @@ "/v2/position/set"     :> "set_manual_position"
  @@ "/v2/position/capture" :> "capture_station_position"
  @@ "/v2/position/select"  :> "select_position_slot"
  @@ "/v2/tx/lock"          :> "lock_tx"
  @@ "/v2/frame/edit"       :> "set_editor_frame_text"
  @@ "/v2/gps/nmea"         :> "push_nmea"

(* The two requests whose fields are looked at; the others take what is     *)
(* missing for empty or zero.                                               *)
Checked == {"/v2/messages/send", "/v2/position/set"}

Get(path, query) ==
  CASE path = "/v2/stations" ->
         Done(IF "sort" \in DOMAIN query THEN <<SortAsked(query)>> ELSE <<>>, <<"200">>)
    [] path \in Gets -> Done(<<>>, <<"200">>)
    [] OTHER         -> Done(<<>>, <<"404">>)

(* Mutant: the fields of a message are not looked at before the call. *)
PostUnchecked(path, body, complete) ==
  CASE path \in DOMAIN Posts -> Done(<<Posts[path]>>, <<"200">>)
    [] path \in DOMAIN PostsWithBody /\ body ->
         Done(<<PostsWithBody[path]>>,
              <<IF path \in Checked /\ ~complete THEN "400" ELSE "200">>)
    [] OTHER -> Done(<<>>, <<"404">>)

Post(path, body, complete) ==
  CASE path \in DOMAIN Posts -> Done(<<Posts[path]>>, <<"200">>)
    [] path \in DOMAIN PostsWithBody /\ body ->
         IF path \in Checked /\ ~complete
           THEN Done(<<>>, <<"400">>)
           ELSE Done(<<PostsWithBody[path]>>, <<"200">>)
    [] OTHER -> Done(<<>>, <<"404">>)

Request(method, path, query, body, complete) ==
  log' = <<CASE method = "GET"  -> Get(path, query)
             [] method = "POST" -> Post(path, body, complete)
             [] OTHER           -> Done(<<>>, <<"405">>)>>

-----------------------------------------------------------------------------
Paths == Gets \cup DOMAIN Posts \cup DOMAIN PostsWithBody \cup {"/v2/stations", "/"}

Init == log = <<>>

Next ==
  \/ \E n \in 0 .. Pieces : \E piece \in [1 .. n -> Messages] : Receive(piece)
  \/ \E method \in {"GET", "POST", "PUT"}, path \in Paths, query \in Queries,
        body, complete \in BOOLEAN : Request(method, path, query, body, complete)

vars == log

Refusals == {"error", "400", "404", "405"}

(* A request that is refused has called nothing, and one that called        *)
(* something is answered: a client that repeats what failed repeats no      *)
(* effect.  (That an answer of success means success is not so: the reply   *)
(* of the engine is not looked at.)                                         *)
RefusedChangesNothing ==
  \A i \in DOMAIN log :
    LET refused == \E k \in DOMAIN log[i].replies : log[i].replies[k] \in Refusals IN
    /\ refused => log[i].calls = <<>>
    /\ log[i].calls # <<>> => log[i].replies # <<>>
=============================================================================
