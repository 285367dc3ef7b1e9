------------------------------ MODULE StationLog ------------------------------
(***************************************************************************)
(* The station table of the legacy program with the received messages and  *)
(* the flash pages behind both (sta_manager.c, eeprom.c).  A station and   *)
(* its messages are numbers into each other's tables: an entry given to    *)
(* another station, and a page used again, must take nobody along.         *)
(*                                                                         *)
(* Entry 0 is the station itself.  A page is written soon after it is      *)
(* given out (Scheduler), so it holds the frame of who got it last.  The   *)
(* id of a message stands for its addressee when it has none: that is what *)
(* the code compares then.                                                 *)
(***************************************************************************)
EXTENDS Naturals, FiniteSetsExt

CONSTANTS
  Own,       \* one's own callsign
  Callers,   \* the callsigns of others
  Ids,       \* message ids
  Entries,   \* entries besides one's own (MAX_STATIONS - 1)
  Slots,     \* MAX_MESSAGES
  Drafts,    \* TX_MESSAGEBUF
  Pages,     \* the flash pages, 1 .. MAXEEPROM, more than can be in use
  MaxTime    \* bound on the clock

NoMessage == "none"
NoPage == 0

VARIABLES
  stations,  \* [sign, page, minutes]: stations[]
  num,       \* num_stations
  messages,  \* [stid, ackid, page, status, from]; "from" is history
  drafts,    \* the pages of txmessages
  found,     \* pagepoint, while send_message1 has not yet taken the page there
  timeval

vars == <<stations, num, messages, drafts, found, timeval>>

Blank == [sign |-> "blank", page |-> NoPage, minutes |-> 0]
Empty == [stid |-> 0, ackid |-> NoMessage, page |-> NoPage, status |-> 0, from |-> "blank"]

Init ==
  /\ stations = [i \in 0 .. Entries |-> IF i = 0 THEN [Blank EXCEPT !.sign = Own] ELSE Blank]
  /\ num = 0
  /\ messages = [i \in 1 .. Slots |-> Empty]
  /\ drafts = [d \in 1 .. Drafts |-> NoPage]
  /\ found = NoPage
  /\ timeval = 0

-----------------------------------------------------------------------------
(* Mutant: the pages of messages are not looked at. *)
BusyStationsOnly(count, kept) ==
  {stations[i].page : i \in 0 .. count} \cup {drafts[d] : d \in DOMAIN drafts}

(* "kept" are the messages without those of a station that is evicted.  The *)
(* lock on the page that frame_save copies is left out.                     *)
Busy(count, kept) ==
  {stations[i].page : i \in 0 .. count}
  \cup {kept[i].page : i \in {j \in DOMAIN kept : kept[j].status > 0}}
  \cup {drafts[d] : d \in DOMAIN drafts}

(* get_freepage gives out the next page that no station, message or draft   *)
(* holds, going round.  Free pages are alike; the first stands for it.      *)
FreePage(count, kept) == Min(Pages \ (Busy(count, kept) \cup {found}))

(* header_match. *)
Known(sign) == {i \in 0 .. Entries : stations[i].sign = sign}

(* A new station takes the next entry, or the one heard of longest ago; the *)
(* first, when all were heard at this moment.                               *)
Older == {i \in 1 .. Entries : stations[i].minutes < timeval}
Oldest == {i \in Older : \A j \in Older : stations[i].minutes <= stations[j].minutes}

Place(sign) ==
  IF Known(sign) # {} THEN Min(Known(sign))
  ELSE IF num < Entries THEN num + 1
  ELSE IF Older # {} THEN Min(Oldest) ELSE 1

Evicting(sign) == Known(sign) = {} /\ num = Entries

(* remove_station, for an entry that is given up. *)
Kept(sign) ==
  [i \in DOMAIN messages |->
     IF Evicting(sign) /\ messages[i].stid = Place(sign)
       THEN [messages[i] EXCEPT !.status = 0] ELSE messages[i]]

(* add_message: the slot of the same message, whatever became of it, or the *)
(* last free one.  A full table takes none.                                 *)
Same(kept, n, id) == {i \in DOMAIN kept : kept[i].stid = n /\ kept[i].ackid = id}
Free(kept) == {i \in DOMAIN kept : kept[i].status = 0}

SlotFor(kept, n, id) ==
  IF Same(kept, n, id) # {} THEN {Min(Same(kept, n, id))}
  ELSE IF Free(kept) # {} THEN {Max(Free(kept))} ELSE {}

Stored(kept, n, id, page, sign) ==
  [i \in DOMAIN kept |->
     IF id # NoMessage /\ i \in SlotFor(kept, n, id)
       THEN [stid |-> n, ackid |-> id, page |-> page, status |-> 1, from |-> sign]
       ELSE kept[i]]

-----------------------------------------------------------------------------
(* update_aprs, for a frame that is unique; not while the application works *)
(* on the tables (aprs_data_flag).                                          *)
Receive(sign, id) ==
  LET n     == Place(sign)
      count == IF Known(sign) = {} /\ num < Entries THEN num + 1 ELSE num
      page  == FreePage(count, Kept(sign))
  IN
  /\ found = NoPage
  /\ num' = count
  /\ stations' = [stations EXCEPT ![n] = [sign |-> sign, page |-> page, minutes |-> timeval]]
  /\ messages' = Stored(Kept(sign), n, IF n = 0 THEN NoMessage ELSE id, page, sign)
  /\ UNCHANGED <<drafts, found, timeval>>

(* send_beacon looks at no flag. *)
Beacon ==
  /\ stations' = [stations EXCEPT ![0].page = FreePage(num, messages)]
  /\ found' = IF found = NoPage THEN found ELSE FreePage(num, messages)
  /\ UNCHANGED <<num, messages, drafts, timeval>>

(* send_message1 looks for a page, and takes the one pagepoint is at by     *)
(* then: a beacon in between makes that the beacon's.                       *)
FindPage ==
  /\ found = NoPage
  /\ found' = FreePage(num, messages)
  /\ UNCHANGED <<stations, num, messages, drafts, timeval>>

WriteDraft(d) ==
  /\ found # NoPage
  /\ drafts' = [drafts EXCEPT ![d] = found]
  /\ found' = NoPage
  /\ UNCHANGED <<stations, num, messages, timeval>>

(* present_message, and the deletion of read or all messages. *)
ReadMessage(i) ==
  /\ messages[i].status = 1
  /\ messages' = [messages EXCEPT ![i].status = 2]
  /\ UNCHANGED <<stations, num, drafts, found, timeval>>

DeleteMessages(statuses) ==
  /\ found = NoPage
  /\ messages' = [i \in DOMAIN messages |->
                    IF messages[i].status \in statuses THEN [messages[i] EXCEPT !.status = 0]
                    ELSE messages[i]]
  /\ UNCHANGED <<stations, num, drafts, found, timeval>>

TimePasses ==
  /\ timeval < MaxTime
  /\ timeval' = timeval + 1
  /\ UNCHANGED <<stations, num, messages, drafts, found>>

Next ==
  \/ \E sign \in Callers \cup {Own}, id \in Ids \cup {NoMessage} : Receive(sign, id)
  \/ Beacon
  \/ FindPage
  \/ \E d \in DOMAIN drafts : WriteDraft(d)
  \/ \E i \in DOMAIN messages : ReadMessage(i)
  \/ DeleteMessages({2}) \/ DeleteMessages({1, 2})
  \/ TimePasses

-----------------------------------------------------------------------------
(* Every station and every message is shown with what its sender sent,      *)
(* under the sender's callsign, whatever entries and pages were used again: *)
(* a page is shared only by a station and the message that is its last      *)
(* frame.  (A draft can have the page of a beacon, see FindPage.)           *)
LogTrue ==
  LET others == 1 .. num
      stored == {i \in DOMAIN messages : messages[i].status > 0}
      inUse  == {d \in DOMAIN drafts : drafts[d] # NoPage}
  IN
  /\ \A i \in others, j \in 0 .. num : i # j => stations[i].page # stations[j].page
  /\ \A i \in stored :
       /\ stations[messages[i].stid].sign = messages[i].from
       /\ \A j \in 0 .. num \ {messages[i].stid} : stations[j].page # messages[i].page
       /\ \A k \in stored \ {i} : messages[k].page # messages[i].page
  /\ \A d \in inUse :
       drafts[d] \notin {stations[i].page : i \in others} \cup {messages[i].page : i \in stored}
=============================================================================
