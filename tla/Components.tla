----------------------------- MODULE Components -----------------------------
(***************************************************************************)
(* The components that need few states and no fairness, side by side.      *)
(* They share nothing here: a behaviour picks one of them and takes its    *)
(* steps, so the states are those of all of them, one after the other.     *)
(***************************************************************************)
EXTENDS Naturals, Sequences, FiniteSets

CONSTANTS
  \* Position
  Places, NoPlace, Speeds, FixTicks, PositionSlots, Home,
  \* Ingest
  Senders, HeardFrames, SeenCapacity, Window,
  \* Statistics
  Minutes, Decades, Period, Strides, BucketFrames,
  \* Remote
  RemoteKeys, Seeds, CommandDepth,
  \* Editor
  EditorSize, Bytes, EditorTexts,
  \* ConfigFile
  Configs, DefaultConfig, ForeignFiles,
  \* EventBus
  Topics, Patterns, MaxSubs, EventDepth,
  \* KissLink
  KissFrames, RxCapacity, Piece, LinkFrames,
  \* Ax25
  Calls, Ax25Texts, Leftovers, FieldLen, MaxPath, MaxLine,
  \* Requests
  WsMessages, Pieces, QueryStrings,
  \* Scheduler
  ModemFrames, RepeatSlots, TxSlots, TxMessages, Retries, Delayed,
  \* StationLog
  OwnCall, Callers, Ids, LogEntries, MessageSlots, Drafts, Pages, MaxTime,
  \* Settings
  SettingTexts, Delays, MaxChanges,
  \* ListView
  Stations, Height,
  \* DigiPath
  Digis, DigiAliases, SentPaths, Ssid,
  \* Query
  QueryKeys, Codes, KeyTimes, MaxMade

ASSUME PositionAssumption == PositionSlots \in Nat \ {0}
(* Whoever left a file with the right header and the checksum of its data   *)
(* had saved that data: nobody computes it for anything else.               *)
ASSUME ConfigAssumption ==
  \A f \in ForeignFiles :
    /\ Len(f) \in Nat /\ f = [k \in 1 .. Len(f) |-> f[k]]
    /\ (/\ Len(f) >= 6 /\ f[1] = "APRS" /\ f[2] = 2 /\ f[3] = 2
        /\ f[4] = <<"crc", SubSeq(f, 5, 6)>>)
       => \E c \in Configs : SubSeq(f, 5, 6) = <<<<"data", c, 1>>, <<"data", c, 2>>>>
ASSUME IngestAssumption == \A f \in HeardFrames : f.src \in Senders
ASSUME StatisticsAssumption == Minutes \in Nat \ {0} /\ Decades \in Nat \ {0}
ASSUME RemoteAssumption == RemoteKeys \in Nat
ASSUME EditorAssumption ==
  /\ EditorSize \in Nat
  /\ \A text \in EditorTexts : Len(text) \in Nat /\ Len(text) < EditorSize
ASSUME QueryAssumption == QueryKeys \in Nat
ASSUME SchedulerAssumption == ModemFrames \in Nat /\ RepeatSlots \in Nat
ASSUME LogAssumption ==
  /\ LogEntries \in Nat \ {0} /\ MessageSlots \in Nat /\ Drafts \in Nat
  /\ Pages \subseteq Nat \ {0} /\ IsFiniteSet(Pages)
  /\ Cardinality(Pages) > LogEntries + MessageSlots + Drafts + 2
  /\ "blank" \notin Callers \cup {OwnCall}
ASSUME ListAssumption == Height \in Nat \ {0}
ASSUME LinkAssumption ==
  /\ Piece \in Nat /\ RxCapacity \in Nat
  /\ \A f \in KissFrames : /\ f \in Seq(STRING) /\ f # <<>>
                          /\ 2 * Len(f) + 3 + Piece <= RxCapacity
ASSUME FieldAssumption ==
  /\ FieldLen \in Nat \ {0} /\ MaxPath \in Nat
  /\ Calls \subseteq STRING
  /\ Ax25Texts \cup Leftovers \subseteq Seq([of : STRING, high : BOOLEAN, low : BOOLEAN])
ASSUME PathAssumption ==
  /\ Digis \subseteq STRING /\ Ssid \in 0 .. 15
  /\ \A alias \in DigiAliases : alias.type \in 0 .. 2
  /\ SentPaths \subseteq Seq([call : STRING, hops : 0 .. 15, used : BOOLEAN])
ASSUME BusAssumption ==
  /\ Topics \subseteq Seq(STRING)
  /\ Patterns \subseteq Seq(STRING)
  /\ \A p \in Patterns : \A k \in 1 .. Len(p) - 1 : p[k] # "*"

VARIABLES
  active,  \* the component that runs
  pos_parser, pos_gps, pos_fixCounter, pos_useMode, pos_reportMode, pos_slots,
  pos_activeSlot, pos_my, pos_ranged,
  ing_seen, ing_tcpip, ing_outcome, ing_counted,
  stat_traffic, stat_minute, stat_sinceMinute, stat_htraffic, stat_decade,
  stat_sinceDecade, stat_minuteLog, stat_decadeLog,
  rem_keys, rem_enabled, rem_tx, rem_digi, rem_running, rem_used,
  ed_raw, ed_len, ed_tx, ed_sent,
  cfg_config, cfg_file, cfg_todo, cfg_intact,
  bus_subs, bus_inside,
  kiss_connected, kiss_wire, kiss_rx, kiss_sent, kiss_heard, kiss_queued,
  kiss_partial, kiss_aired,
  ax_wire, ax_frame, ax_behind, ax_text,
  req_log,
  tc_stage, tc_app, tc_arrived, tc_modem, tc_tcpbuf, tc_lbuf, tc_buffer,
  tc_spirequest, tc_aprs_data_flag, tc_bufRq, tc_txRq, tc_rpRq, tc_msRq,
  tc_flash, tc_ownSaved, tc_rpbuf, tc_msbuf, tc_overtaken, tc_rpque, tc_left,
  tc_txqueue, tc_sensing, tc_inject, tc_newest,
  log_stations, log_num, log_messages, log_drafts, log_found, log_timeval,
  set_settings, set_flash, set_place, set_row, set_page, set_saved,
  set_changes,
  list_num, list_sort, list_filtered, list_start, list_cur, list_cstation,
  list_marked, list_was,
  path_path, path_origin, path_repeats,
  qry_keys, qry_code, qry_txenable, qry_due, qry_made, qry_answered

P == INSTANCE Position WITH
  SlotCount <- PositionSlots, parser <- pos_parser, gps <- pos_gps,
  fixCounter <- pos_fixCounter, useMode <- pos_useMode,
  reportMode <- pos_reportMode, slots <- pos_slots, activeSlot <- pos_activeSlot,
  my <- pos_my, ranged <- pos_ranged

I == INSTANCE Ingest WITH
  Frames <- HeardFrames, Capacity <- SeenCapacity, seen <- ing_seen, tcpip <- ing_tcpip, outcome <- ing_outcome,
  counted <- ing_counted

T == INSTANCE Statistics WITH
  MaxFrames <- BucketFrames, traffic <- stat_traffic, minute <- stat_minute, sinceMinute <- stat_sinceMinute,
  htraffic <- stat_htraffic, decade <- stat_decade,
  sinceDecade <- stat_sinceDecade, minuteLog <- stat_minuteLog,
  decadeLog <- stat_decadeLog

R == INSTANCE Remote WITH
  KeyCount <- RemoteKeys, Depth <- CommandDepth, keys <- rem_keys,
  enabled <- rem_enabled, tx <- rem_tx, digi <- rem_digi, running <- rem_running,
  used <- rem_used

E == INSTANCE Editor WITH
  Size <- EditorSize, Texts <- EditorTexts,
  raw <- ed_raw, len <- ed_len, tx <- ed_tx, sent <- ed_sent

C == INSTANCE ConfigFile WITH
  Default <- DefaultConfig, Foreign <- ForeignFiles,
  config <- cfg_config, file <- cfg_file, todo <- cfg_todo, intact <- cfg_intact

B == INSTANCE EventBus WITH
  Depth <- EventDepth, subs <- bus_subs, inside <- bus_inside

K == INSTANCE KissLink WITH
  Frames <- KissFrames, Capacity <- RxCapacity, MaxFrames <- LinkFrames,
  connected <- kiss_connected, wire <- kiss_wire, rx <- kiss_rx,
  sent <- kiss_sent, heard <- kiss_heard, queued <- kiss_queued,
  partial <- kiss_partial, aired <- kiss_aired

A == INSTANCE Ax25 WITH
  Texts <- Ax25Texts, wire <- ax_wire, frame <- ax_frame, behind <- ax_behind,
  text <- ax_text

Q == INSTANCE Requests WITH
  Messages <- WsMessages, Queries <- QueryStrings, log <- req_log

S == INSTANCE Scheduler WITH
  MaxFrames <- ModemFrames, Messages <- TxMessages, stage <- tc_stage, app <- tc_app, arrived <- tc_arrived,
  modem <- tc_modem, tcpbuf <- tc_tcpbuf, lbuf <- tc_lbuf, buffer <- tc_buffer,
  spirequest <- tc_spirequest, aprs_data_flag <- tc_aprs_data_flag,
  bufRq <- tc_bufRq, txRq <- tc_txRq, rpRq <- tc_rpRq, msRq <- tc_msRq,
  flash <- tc_flash, ownSaved <- tc_ownSaved, rpbuf <- tc_rpbuf, msbuf <- tc_msbuf,
  overtaken <- tc_overtaken, rpque <- tc_rpque, left <- tc_left, txqueue <- tc_txqueue,
  sensing <- tc_sensing, inject <- tc_inject, newest <- tc_newest

L == INSTANCE StationLog WITH
  Entries <- LogEntries, Own <- OwnCall, Slots <- MessageSlots, stations <- log_stations,
  num <- log_num, messages <- log_messages, drafts <- log_drafts,
  found <- log_found, timeval <- log_timeval

G == INSTANCE Settings WITH
  Texts <- SettingTexts, Times <- Delays, settings <- set_settings,
  flash <- set_flash, place <- set_place, row <- set_row, page <- set_page,
  saved <- set_saved, changes <- set_changes

V == INSTANCE ListView WITH
  num <- list_num, sort <- list_sort,
  filtered <- list_filtered, start <- list_start, cur <- list_cur,
  cstation <- list_cstation, marked <- list_marked, was <- list_was

D == INSTANCE DigiPath WITH
  Aliases <- DigiAliases, Paths <- SentPaths, path <- path_path, origin <- path_origin, repeats <- path_repeats

U == INSTANCE Query WITH
  KeyCount <- QueryKeys, Times <- KeyTimes, keys <- qry_keys, code <- qry_code, txenable <- qry_txenable, due <- qry_due,
  made <- qry_made, answered <- qry_answered

posVars ==
  <<pos_parser, pos_gps, pos_fixCounter, pos_useMode, pos_reportMode,
    pos_slots, pos_activeSlot, pos_my, pos_ranged>>
ingVars ==
  <<ing_seen, ing_tcpip, ing_outcome, ing_counted>>
statVars ==
  <<stat_traffic, stat_minute, stat_sinceMinute, stat_htraffic, stat_decade,
    stat_sinceDecade, stat_minuteLog, stat_decadeLog>>
remVars ==
  <<rem_keys, rem_enabled, rem_tx, rem_digi, rem_running, rem_used>>
edVars ==
  <<ed_raw, ed_len, ed_tx, ed_sent>>
cfgVars ==
  <<cfg_config, cfg_file, cfg_todo, cfg_intact>>
busVars ==
  <<bus_subs, bus_inside>>
kissVars ==
  <<kiss_connected, kiss_wire, kiss_rx, kiss_sent, kiss_heard, kiss_queued,
    kiss_partial, kiss_aired>>
axVars ==
  <<ax_wire, ax_frame, ax_behind, ax_text>>
reqVars ==
  <<req_log>>
tcVars ==
  <<tc_stage, tc_app, tc_arrived, tc_modem, tc_tcpbuf, tc_lbuf, tc_buffer,
    tc_spirequest, tc_aprs_data_flag, tc_bufRq, tc_txRq, tc_rpRq, tc_msRq,
    tc_flash, tc_ownSaved, tc_rpbuf, tc_msbuf, tc_overtaken, tc_rpque, tc_left,
    tc_txqueue, tc_sensing, tc_inject, tc_newest>>
logVars ==
  <<log_stations, log_num, log_messages, log_drafts, log_found, log_timeval>>
setVars ==
  <<set_settings, set_flash, set_place, set_row, set_page, set_saved,
    set_changes>>
listVars ==
  <<list_num, list_sort, list_filtered, list_start, list_cur, list_cstation,
    list_marked, list_was>>
pathVars ==
  <<path_path, path_origin, path_repeats>>
qryVars ==
  <<qry_keys, qry_code, qry_txenable, qry_due, qry_made, qry_answered>>

vars ==
  <<active, posVars, ingVars, statVars, remVars, edVars, cfgVars, busVars, kissVars,
    axVars, reqVars, tcVars, logVars, setVars, listVars, pathVars, qryVars>>

Components ==
  {"position", "ingest", "statistics", "remote", "editor", "config", "bus",
   "kiss", "ax25", "requests", "scheduler", "stationlog", "settings", "list",
   "digipath", "query"}

Init ==
  /\ active \in Components
  /\ P!Init
  /\ I!Init
  /\ T!Init
  /\ R!Init
  /\ E!Init
  /\ C!Init
  /\ B!Init
  /\ K!Init
  /\ A!Init
  /\ Q!Init
  /\ S!Init
  /\ L!Init
  /\ G!Init
  /\ V!Init
  /\ D!Init
  /\ U!Init
  /\ active # "config" => cfg_file = <<>>
  /\ active # "digipath" => path_path = CHOOSE p \in SentPaths : TRUE

(* One component takes a step, the others stay where they began. *)
PositionStep ==
  /\ active = "position"
  /\ P!Next
  /\ UNCHANGED <<active, ingVars, statVars, remVars, edVars, cfgVars, busVars,
                 kissVars, axVars, reqVars, tcVars, logVars, setVars, listVars,
                 pathVars, qryVars>>

IngestStep ==
  /\ active = "ingest"
  /\ I!Next
  /\ UNCHANGED <<active, posVars, statVars, remVars, edVars, cfgVars, busVars,
                 kissVars, axVars, reqVars, tcVars, logVars, setVars, listVars,
                 pathVars, qryVars>>

StatisticsStep ==
  /\ active = "statistics"
  /\ T!Next
  /\ UNCHANGED <<active, posVars, ingVars, remVars, edVars, cfgVars, busVars, kissVars,
                 axVars, reqVars, tcVars, logVars, setVars, listVars, pathVars,
                 qryVars>>

RemoteStep ==
  /\ active = "remote"
  /\ R!Next
  /\ UNCHANGED <<active, posVars, ingVars, statVars, edVars, cfgVars, busVars,
                 kissVars, axVars, reqVars, tcVars, logVars, setVars, listVars,
                 pathVars, qryVars>>

EditorStep ==
  /\ active = "editor"
  /\ E!Next
  /\ UNCHANGED <<active, posVars, ingVars, statVars, remVars, cfgVars, busVars,
                 kissVars, axVars, reqVars, tcVars, logVars, setVars, listVars,
                 pathVars, qryVars>>

ConfigFileStep ==
  /\ active = "config"
  /\ C!Next
  /\ UNCHANGED <<active, posVars, ingVars, statVars, remVars, edVars, busVars,
                 kissVars, axVars, reqVars, tcVars, logVars, setVars, listVars,
                 pathVars, qryVars>>

EventBusStep ==
  /\ active = "bus"
  /\ B!Next
  /\ UNCHANGED <<active, posVars, ingVars, statVars, remVars, edVars, cfgVars,
                 kissVars, axVars, reqVars, tcVars, logVars, setVars, listVars,
                 pathVars, qryVars>>

KissLinkStep ==
  /\ active = "kiss"
  /\ K!Next
  /\ UNCHANGED <<active, posVars, ingVars, statVars, remVars, edVars, cfgVars, busVars,
                 axVars, reqVars, tcVars, logVars, setVars, listVars, pathVars,
                 qryVars>>

Ax25Step ==
  /\ active = "ax25"
  /\ A!Next
  /\ UNCHANGED <<active, posVars, ingVars, statVars, remVars, edVars, cfgVars, busVars,
                 kissVars, reqVars, tcVars, logVars, setVars, listVars,
                 pathVars, qryVars>>

RequestsStep ==
  /\ active = "requests"
  /\ Q!Next
  /\ UNCHANGED <<active, posVars, ingVars, statVars, remVars, edVars, cfgVars, busVars,
                 kissVars, axVars, tcVars, logVars, setVars, listVars,
                 pathVars, qryVars>>

SchedulerStep ==
  /\ active = "scheduler"
  /\ S!Next
  /\ UNCHANGED <<active, posVars, ingVars, statVars, remVars, edVars, cfgVars, busVars,
                 kissVars, axVars, reqVars, logVars, setVars, listVars,
                 pathVars, qryVars>>

StationLogStep ==
  /\ active = "stationlog"
  /\ L!Next
  /\ UNCHANGED <<active, posVars, ingVars, statVars, remVars, edVars, cfgVars, busVars,
                 kissVars, axVars, reqVars, tcVars, setVars, listVars,
                 pathVars, qryVars>>

SettingsStep ==
  /\ active = "settings"
  /\ G!Next
  /\ UNCHANGED <<active, posVars, ingVars, statVars, remVars, edVars, cfgVars, busVars,
                 kissVars, axVars, reqVars, tcVars, logVars, listVars,
                 pathVars, qryVars>>

ListViewStep ==
  /\ active = "list"
  /\ V!Next
  /\ UNCHANGED <<active, posVars, ingVars, statVars, remVars, edVars, cfgVars, busVars,
                 kissVars, axVars, reqVars, tcVars, logVars, setVars, pathVars,
                 qryVars>>

DigiPathStep ==
  /\ active = "digipath"
  /\ D!Next
  /\ UNCHANGED <<active, posVars, ingVars, statVars, remVars, edVars, cfgVars, busVars,
                 kissVars, axVars, reqVars, tcVars, logVars, setVars, listVars,
                 qryVars>>

QueryStep ==
  /\ active = "query"
  /\ U!Next
  /\ UNCHANGED <<active, posVars, ingVars, statVars, remVars, edVars, cfgVars, busVars,
                 kissVars, axVars, reqVars, tcVars, logVars, setVars, listVars,
                 pathVars>>

Next ==
  \/ PositionStep
  \/ IngestStep
  \/ StatisticsStep
  \/ RemoteStep
  \/ EditorStep
  \/ ConfigFileStep
  \/ EventBusStep
  \/ KissLinkStep
  \/ Ax25Step
  \/ RequestsStep
  \/ SchedulerStep
  \/ StationLogStep
  \/ SettingsStep
  \/ ListViewStep
  \/ DigiPathStep
  \/ QueryStep

Spec == Init /\ [][Next]_vars

-----------------------------------------------------------------------------
(* In every mode, a command or sentence that moves the position in use      *)
(* leaves the distances of the stations computed from where it went, but    *)
(* for the steps that Position names Overlooked.                            *)
DistancesFollow == [][active = "position" => P!DistancesFollow]_vars

(* The distances are computed again on every change, as the architecture    *)
(* has it; the overlooked steps make this false.                            *)
DistancesOnChanges == [][active = "position" => P!ComputedOnChange]_vars

(* What counts as unique traffic is decided by what each sender really     *)
(* sent last, and the graphs drawn of the traffic are the newest periods   *)
(* in their order.                                                         *)
TrafficKnown == I!MemoryExact /\ T!GraphTrue

(* A key of the engine that let a command in lets another one in only from  *)
(* inside a command that has not returned, and none after that; a code of   *)
(* the old program is answered once.                                        *)
KeysSwitchedOff == R!UsedOnlyInside /\ U!AnsweredOnce

(* A file of settings is accepted only if one save wrote all of it,         *)
(* wherever a save was cut short and whatever was damaged.  The menu of the *)
(* old program is reached, once a screen has saved, only with all three     *)
(* pages holding the settings they hold, but for announce_new.              *)
ConfigurationsStored ==
  [][/\ active = "config" => C!LoadedWasSaved
     /\ active = "settings" => G!SavedAtMenu']_vars

(* Whoever stays subscribed during an event has been called for it when the *)
(* loop is past its entry, although the callbacks subscribe, unsubscribe    *)
(* and publish.                                                             *)
SteadyAreCalled == B!SteadyAreCalled

(* A frame comes through the modem.  To us, through the octets of the KISS  *)
(* link, however they are cut; from us, if the socket took it whole, and    *)
(* one it did not spoils no other; through the address fields, if it was    *)
(* digipeated, its text as far as the first NUL after it begins.  Every     *)
(* repeat of it is paid for by its path.                                    *)
FramesArrive == K!LinkFaithful /\ A!RepeatedFramesRead /\ D!RepeatsPaid

(* A request the server refuses has changed nothing, and the text that is   *)
(* edited byte by byte ends with its length: in its buffer, or right behind *)
(* a text that fills it.                                                    *)
ClientsServed == Q!RefusedChangesNothing /\ E!Terminated

(* Between the modem, the interrupt and the handler of the old program the  *)
(* pages of frames to be repeated keep them, requests are served as they    *)
(* were asked unless the interrupt replaced one between the page and the    *)
(* statement that says it was served, and frames stay in order.             *)
LegacyBuffers == S!PagesHold /\ S!ServedAsAsked /\ S!InOrder

(* The tables of the old program agree: a message shows the page that was  *)
(* written for it, and the cursor stays on its station, that is, on the    *)
(* number of its entry.                                                    *)
LegacyTables == L!LogTrue /\ V!CursorFollows
=============================================================================
