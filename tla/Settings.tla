------------------------------ MODULE Settings ------------------------------
(***************************************************************************)
(* The settings of the tracker, the screens that change them (config.c,    *)
(* graphics.c) and the flash pages they are saved to (globals.c), one page *)
(* after the other; the program may stop between any two steps and start   *)
(* again.  A screen is a sequence of rows; a row is the set of settings    *)
(* its keys may lead to.                                                   *)
(***************************************************************************)
EXTENDS Naturals, Sequences, TLC

CONSTANTS
  Texts,       \* what may be typed into a text field, beside the default
  Times,       \* what may be typed into a time field
  MaxChanges   \* bound on the changes of one behaviour

Default == "default"
STOP == 99000000
UserLevel == 1   \* demo.c:123
Filters == {"all", "direct", "position", "noposition", "viadigi", "wx", "digi", "gate"}
Sounds == {"snd1", "snd2", "snd3", "snd4", "snd5", "snd6"}
Aliases == <<"alias1", "alias2", "alias3", "alias4">>
AliasTypes == <<"type1", "type2", "type3", "type4">>
AliasTexts == <<"aliastext1", "aliastext2", "aliastext3", "aliastext4">>
Routes == <<"path1", "path2", "path3">>
RouteTexts == <<"spath1", "spath2", "spath3">>
Status == <<"status1", "status2", "status3">>
StatusTexts == <<"text1", "text2", "text3">>
Banks == <<"bank1", "bank2", "bank3">>

VARIABLES
  settings,  \* the settings in memory, by name
  flash,     \* what pages 2002 .. 2004 hold of them
  place,     \* "off", "startup", "menu" or the screen shown
  row,       \* m, the row of the screen, 1 outside
  page,      \* update_config: the page it comes to next, 0 outside of it
  saved,     \* history: since the start a screen of the menu has saved
  changes    \* changes so far, for the bound

vars == <<settings, flash, place, row, page, saved, changes>>

Names(list) == {list[i] : i \in DOMAIN list}
All(list, v) == [n \in Names(list) |-> v]

(* restore_factory: demo.c calls it after globals_initialize read the      *)
(* flash.                                                                  *)
Factory ==
  [ digidupetime |-> 30, digidelay |-> 0, announce_info |-> 0, announce_new |-> 0,
    static |-> 0, source |-> 0, trx_txdelay |-> 5, trx_txheader |-> 35,
    trx_rxtune |-> 75, trx_bitdelay |-> 187, trx_squelch |-> 0, allframes |-> 0,
    tcpipframes |-> 1, allmessages |-> 1, navmark |-> 1, msg_retries |-> 4,
    msg_delay |-> 35, beacon_auto |-> 0, beacon_digi |-> 0, beacon_delay |-> STOP,
    posuse |-> 0, repeater_enable |-> 1, txenable |-> 1, queryenable |-> 1,
    ssid |-> 0, symbol |-> 0, udest |-> Default, msgpredef |-> Default,
    position |-> Default, include |-> Filters, exclude |-> {},
    msgpath |-> {1} ]
  @@ [n \in Sounds |-> 0] @@ All(Aliases, 0) @@ All(AliasTexts, Default)
  @@ ("path1" :> 1) @@ All(Routes, 0) @@ All(RouteTexts, Default)
  @@ ("status1" :> 1) @@ All(Status, 0) @@ All(StatusTexts, Default) @@ All(Banks, Default)

(* globals_initialize with a new flash, then restore_factory. *)
Initial ==
  Factory @@ All(AliasTypes, 0)
  @@ [sign |-> Default, validonly |-> 1, ser_kbden |-> 0, serial0_opt |-> 0,
      gpsenable |-> 1, keys |-> 0]

(* What update_config does not write, though some screens change it and    *)
(* call update_config after that, and what it writes, by page.             *)
Unwritten == {"digidelay", "sign", "position", "ser_kbden", "validonly", "serial0_opt",
              "include", "exclude", "gpsenable", "keys"}
Written == DOMAIN Initial \ Unwritten
Page2003 == UNION {Names(l) : l \in {Routes, RouteTexts, Status, StatusTexts}} \cup {"msgpath"}
Page2004 == {"msgpredef"}
OnPage(k) ==
  IF k = 1 THEN DOMAIN flash \ (Page2003 \cup Page2004) ELSE IF k = 2 THEN Page2003 ELSE Page2004

(* After a start with what the pages hold: restore_factory leaves nothing  *)
(* of what globals_initialize has just read but the types of the aliases.  *)
Started(held) ==
  LET initial == Initial
  IN [n \in DOMAIN initial |-> IF n \in Names(AliasTypes) THEN held[n] ELSE initial[n]]

(* The effects of the keys. *)
Put(n, v) == {[settings EXCEPT ![n] = v]}
Toggle(n) == Put(n, 1 - settings[n])
Typed(n, texts) == {[settings EXCEPT ![n] = t] : t \in texts}
Clamp(v, lo, hi) == IF v < lo THEN lo ELSE IF v > hi THEN hi ELSE v
Adjust(n, lo, hi, by) == Put(n, IF settings[n] < lo + by THEN lo ELSE settings[n] - by)
                         \cup Put(n, Clamp(settings[n] + by, lo, hi))
Tune(n) == Put(n, (settings[n] + 255) % 256) \cup Put(n, (settings[n] + 1) % 256)
Cycle(n, size) == Put(n, (settings[n] + 1) % size)
Nothing == {settings}

(* The screens, one operator each. *)
Announce == <<Toggle("announce_info"), Toggle("announce_new")>>
PositionMode == <<Toggle("static"), Cycle("source", 3)>>
Symbol == [m \in 1 .. 2 |-> Put("symbol", m - 1)]
Suffix == <<Adjust("ssid", 0, 15, 1) \cup IF UserLevel < 2 THEN Typed("sign", Texts) ELSE {}>>
PathScreen ==
  [m \in 1 .. 3 |-> Toggle(Routes[m]) \cup Typed(RouteTexts[m], Texts) \cup Put("msgpath", {m})]
StatusScreen == [m \in 1 .. 3 |-> Toggle(Status[m]) \cup Typed(StatusTexts[m], Texts)]
AliasScreen ==
  [m \in 1 .. 4 |-> Toggle(Aliases[m]) \cup Cycle(AliasTypes[m], 3)
                    \cup Typed(AliasTexts[m], Texts)]
Dest == <<Typed("udest", Texts)>>
LeastDelay(t) == IF UserLevel > 2 /\ 10 * t < 300 THEN 300 ELSE 10 * t
BeaconTiming ==
  <<Typed("beacon_delay", {LeastDelay(t) : t \in Times}) \cup Put("beacon_delay", STOP),
    Toggle("beacon_auto"), Toggle("beacon_digi")>>
DigiTiming == <<Typed("digidupetime", {t % 256 : t \in Times}), Typed("digidelay", Times)>>
NavTag == <<Toggle("navmark")>>
MessagesReceive == <<Toggle("allmessages")>>
MessagesOption == <<Adjust("msg_retries", 1, 10, 1), Adjust("msg_delay", 10, 60, 5)>>
Frames == <<Toggle("allframes"), Toggle("tcpipframes"), Toggle("validonly")>>
TxLock == <<Toggle("txenable"), Toggle("queryenable"), Toggle("repeater_enable")>>
Trx ==
  <<Tune("trx_txdelay"), Tune("trx_txheader"), Tune("trx_bitdelay"), Tune("trx_rxtune"),
    Toggle("trx_squelch")>>
SoundScreen ==
  LET Volume(n) == Cycle(n, 10) \cup Put(n, IF settings[n] > 0 THEN settings[n] - 1 ELSE 0)
  IN <<Volume("snd1"), Volume("snd2"), Volume("snd3"), Volume("snd4"), Volume("snd5"),
       Volume("snd6")>>
FactoryScreen ==
  <<{[n \in DOMAIN settings |-> IF n \in DOMAIN Factory THEN Factory[n] ELSE settings[n]]}>>
Serial0 == <<Cycle("serial0_opt", 6) \cup Put("serial0_opt", (settings.serial0_opt + 5) % 6)>>
SerialKeyboard == <<Toggle("ser_kbden")>>
BeaconRuns == settings.beacon_delay < STOP \/ settings.beacon_auto = 1
Startup ==
  <<Toggle("txenable"), Toggle("repeater_enable"),
    {[settings EXCEPT !.beacon_auto = 0, !.beacon_delay = STOP]}>>
Position ==
  [m \in 1 .. 3 |->
    Put(Banks[m], settings.position) \cup Put("posuse", m - 1) \cup Typed(Banks[m], Texts)
    \cup IF settings.static = 1 THEN Put("position", settings[Banks[m]]) ELSE {}]

(* The text written last, put among the predefined ones (graphics.c). *)
Predefined == <<Typed("msgpredef", Texts)>>

(* config_filter: a filter goes from neither to include to exclude.        *)
Turned(f) ==
  IF f \in settings.include
  THEN [settings EXCEPT !.include = @ \ {f}, !.exclude = @ \cup {f}]
  ELSE IF f \in settings.exclude THEN [settings EXCEPT !.exclude = @ \ {f}]
  ELSE [settings EXCEPT !.include = @ \cup {f}]
Schemes == {<<{"direct"}, {}>>, <<{"viadigi"}, {}>>, <<{"digi"}, {"viadigi"}>>, <<{"all"}, {}>>}
FilterScreen ==
  <<{Turned(f) : f \in Filters} \cup Toggle("announce_new")
    \cup {[settings EXCEPT !.include = s[1], !.exclude = s[2]] : s \in Schemes}>>

Rows(s) ==
  CASE s = "announce" -> Announce [] s = "position_mode" -> PositionMode
    [] s = "symbol" -> Symbol [] s = "suffix" -> Suffix [] s = "path" -> PathScreen
    [] s = "status" -> StatusScreen [] s = "beacon" -> BeaconTiming [] s = "navmark" -> NavTag
    [] s = "dest" -> Dest [] s = "filter" -> FilterScreen [] s = "receive" -> MessagesReceive
    [] s = "option" -> MessagesOption [] s = "sounds" -> SoundScreen [] s = "txlock" -> TxLock
    [] s = "trx" -> Trx [] s = "frames" -> Frames [] s = "factory" -> FactoryScreen
    [] s = "aliases" -> AliasScreen [] s = "digi" -> DigiTiming
    [] s = "serial0" -> Serial0 [] s = "serialkbd" -> SerialKeyboard
    [] s = "static_position" -> Position [] s = "startup" -> Startup
    [] s = "predefined" -> Predefined
    [] OTHER -> <<Nothing>>   \* contacts, ranges, remote: no setting

(* The screens gomenu leads to.  Where the menu stands is not kept: its    *)
(* keys reach every item from every other.  Two screens are shown from the *)
(* quick menu and from the message editor.                                 *)
Screens ==
  {"announce", "position_mode", "symbol", "suffix", "contacts", "path", "status", "beacon",
   "navmark", "dest", "filter", "ranges", "receive", "option", "sounds", "txlock", "trx",
   "frames", "factory", "aliases", "digi", "remote", "keys", "serial0", "serialkbd",
   "static_position", "predefined"}
Unsaving == {"contacts", "filter", "keys", "serial0", "serialkbd", "predefined"}

Init ==
  /\ settings = Initial
  /\ flash = [n \in Written |-> 0]
  /\ place = "startup"
  /\ row = 1
  /\ page = 0
  /\ saved = FALSE
  /\ changes = 0

(* remote_keys makes and enables four keys when it is shown. *)
Open ==
  /\ place = "menu"
  /\ place' \in Screens
  /\ settings' = IF place' = "keys" THEN [settings EXCEPT !.keys = 4] ELSE settings
  /\ UNCHANGED <<flash, row, page, saved, changes>>

Shown == place \notin {"off", "menu"} /\ page = 0

MoveRow ==
  /\ Shown
  /\ row' \in {row - 1, row + 1} \cap DOMAIN Rows(place)
  /\ UNCHANGED <<settings, flash, place, page, saved, changes>>

(* A key of the row.  Stopping a beacon at the start saves at once, and so *)
(* does a predefined text, which ends its screen.                          *)
Edit ==
  /\ Shown
  /\ changes < MaxChanges
  /\ settings' \in Rows(place)[row]
  /\ changes' = changes + 1
  /\ page' = IF place = "predefined" \/ (place = "startup" /\ row = 3 /\ BeaconRuns)
             THEN 1 ELSE 0
  /\ UNCHANGED <<flash, place, row, saved>>

(* Mutant: the screen of the path returns without update_config. *)
LeaveUnsaved ==
  /\ Shown
  /\ IF place \in Unsaving \cup {"startup", "path"}
       THEN place' = "menu" /\ row' = 1 /\ page' = 0
       ELSE place' = place /\ row' = row /\ page' = 1
  /\ settings' = IF place = "serialkbd" /\ settings.ser_kbden = 1
                 THEN [settings EXCEPT !.gpsenable = 0] ELSE settings
  /\ UNCHANGED <<flash, saved, changes>>

(* Key 7: most screens end with update_config. *)
Leave ==
  /\ Shown
  /\ IF place \in Unsaving \cup {"startup"}
       THEN place' = "menu" /\ row' = 1 /\ page' = 0
       ELSE place' = place /\ row' = row /\ page' = 1
  /\ settings' = IF place = "serialkbd" /\ settings.ser_kbden = 1
                 THEN [settings EXCEPT !.gpsenable = 0] ELSE settings
  /\ UNCHANGED <<flash, saved, changes>>

(* update_config, page by page, written where it differs; 2004 is written  *)
(* again whenever 2003 was.  At the start the transmitter is locked        *)
(* meanwhile (app.c:118), which is what the page then holds.               *)
WritePage ==
  /\ page # 0
  /\ settings' = IF UserLevel > 2 THEN [settings EXCEPT !.navmark = 1] ELSE settings
  /\ LET now == IF place = "startup" THEN [settings' EXCEPT !.txenable = 0] ELSE settings'
         names == OnPage(page)
     IN flash' = [n \in DOMAIN flash |-> IF n \in names THEN now[n] ELSE flash[n]]
  /\ page' = (page + 1) % 4
  /\ IF page = 3 /\ place # "startup"
       THEN place' = "menu" /\ row' = 1 /\ saved' = TRUE
       ELSE UNCHANGED <<place, row, saved>>
  /\ UNCHANGED changes

(* The program stops, perhaps between two pages, and starts again.  What   *)
(* stands for the flash in this build is lost with it (eeprom.c); a flash  *)
(* keeps its pages.                                                        *)
Stop ==
  /\ place # "off" /\ place' = "off"
  /\ row' = 1 /\ page' = 0
  /\ settings' = [n \in DOMAIN settings |-> 0]
  /\ flash' \in {flash, [n \in DOMAIN flash |-> 0]}
  /\ saved' = FALSE
  /\ UNCHANGED changes

Start ==
  /\ place = "off" /\ place' = "startup"
  /\ settings' = Started(flash)
  /\ UNCHANGED <<flash, row, page, saved, changes>>

Next == Open \/ MoveRow \/ Edit \/ Leave \/ WritePage \/ Stop \/ Start

(* Once a screen of the menu has saved, the menu is reached only with all  *)
(* three pages holding what memory holds, whichever screens were opened    *)
(* and left since and wherever the program stopped before.  The filter     *)
(* screen changes announce_new without saving, so a page may be behind     *)
(* with it; and nothing is said of what no page holds, such as digidelay.  *)
SavedAtMenu ==
  place = "menu" /\ saved =>
    \A n \in DOMAIN flash \ {"announce_new"} : flash[n] = settings[n]
=============================================================================
