------------------------------ MODULE Scheduler ------------------------------
(***************************************************************************)
(* The 2 Hz scheduler of the legacy program (timer.c: tc1), which runs in  *)
(* the handler of SIGALRM, and the application it interrupts.  They share  *)
(* the receive buffers, the transmit queue, the repeat queue, and four     *)
(* requests: the handler asks for flash to be read or written, because     *)
(* only the application may touch it (peripherial.c: spi_request_handler). *)
(*                                                                         *)
(* "stage" is the place in tc1, "app" the place in spi_request_handler.    *)
(* A frame is a number in the order of arrival, the flash page it is saved *)
(* in has the same number, 0 is none; a message and its page have one      *)
(* number too.  Pages are not used again here (StationLog).  Times are     *)
(* left to chance where tc1 compares them: a beacon, a retry or a message  *)
(* may be due at any pass.                                                 *)
(***************************************************************************)
EXTENDS Slots

CONSTANTS
  MaxFrames,   \* bound: frames received
  RepeatSlots, \* DIGIQUEUELEN
  TxSlots,     \* TXQUEUELEN
  Messages,    \* txmessages, with a page each
  Retries,     \* transmissions of a message
  Delayed      \* digidelay > 0: a frame waits before it is repeated

Frame == 1 .. MaxFrames

VARIABLES
  stage,     \* the interrupt: "off" or the step of tc1 that comes next
  app,       \* the application: "loop", "spin" or the next step of the handler
  arrived,   \* frames numbered: from the modem, or out of another frame
  modem, tcpbuf, lbuf, buffer,      \* the frames in the buffers, tcpflag, lbufflag
  spirequest, aprs_data_flag,       \* flags of the same name
  bufRq, txRq, rpRq, msRq,          \* the four spi_..._rq
  flash,     \* the content of the pages of the frames
  ownSaved,  \* the page of stations[0] holds the beacon sent last, as txbuf does
  rpbuf, msbuf,                     \* what the handler read for the interrupt
  overtaken, \* history: buffers whose request changed while it was served
  rpque,     \* the repeat queue
  left,      \* txmessages: transmissions left
  txqueue,   \* the number of items in the transmit queue
  sensing,   \* digisens_time is not NEVER
  inject,    \* frame_injection
  newest     \* history: the newest frame of the modem that was processed

rxVars == <<arrived, modem, tcpbuf, lbuf, buffer, newest>>
rqVars == <<bufRq, txRq, rpRq, msRq>>
pageVars == <<flash, ownSaved, rpbuf, msbuf, overtaken>>
vars == <<stage, app, rxVars, spirequest, aprs_data_flag, rqVars, pageVars, rpque, left,
          txqueue, sensing, inject>>

NoRq == [page |-> 0, ready |-> FALSE]
FreeSlot == [flag |-> 0, age |-> "old", frame |-> 0]

Init ==
  /\ stage = "off" /\ app = "loop"
  /\ arrived = 0 /\ modem = 0 /\ tcpbuf = 0 /\ lbuf = 0 /\ buffer = 0
  /\ spirequest = FALSE /\ aprs_data_flag = FALSE
  /\ bufRq = 0 /\ txRq = FALSE /\ rpRq = NoRq /\ msRq = NoRq
  /\ flash = [p \in Frame |-> 0] /\ ownSaved = TRUE
  /\ rpbuf = 0 /\ msbuf = 0 /\ overtaken = {}
  /\ rpque = [i \in 1 .. RepeatSlots |-> FreeSlot]
  /\ left = [m \in Messages |-> 0]
  /\ txqueue = 0
  /\ sensing = FALSE
  /\ inject = FALSE
  /\ newest = 0

-----------------------------------------------------------------------------
(* The frame is processed: update_aprs, for a frame in the buffer.          *)

(* digi_path takes the first slot that is free or whose time is long past,  *)
(* and an entry that waits for its time looks so, the difference of the     *)
(* times being unsigned.                                                    *)
Reusable == {i \in DOMAIN rpque : rpque[i].flag = 0 \/ rpque[i].age \in {"old", "future"}}

Offered(f) ==
  IF Reusable = {} THEN rpque
  ELSE [rpque EXCEPT ![First(Reusable)] =
          [flag |-> 1, age |-> IF Delayed THEN "future" ELSE "fresh", frame |-> f]]

Queued == IF txqueue < TxSlots THEN txqueue + 1 ELSE txqueue

(* What a frame turns out to be: heard before or invalid; of the station    *)
(* itself; with nothing to do, or like a frame repeated a moment ago; with  *)
(* another frame inside; to be repeated; a message, which is acknowledged.  *)
Outcomes == {"heard", "own", "plain", "thirdparty", "repeat", "message"}

Update(f, outcome) ==
  /\ buffer' = f
  /\ sensing' = (sensing /\ outcome # "own")
  /\ rpque' = IF outcome = "repeat" THEN Offered(f) ELSE rpque
  /\ txqueue' = IF outcome = "message" THEN Queued ELSE txqueue
  /\ spirequest' = (spirequest \/ outcome # "heard")
  /\ bufRq' = IF outcome = "heard" THEN bufRq ELSE f
  /\ UNCHANGED <<app, aprs_data_flag, txRq, rpRq, msRq, pageVars, left, inject>>

(* it_packet, which writes over a frame that waits there. *)
Unpack(outcome) ==
  IF outcome = "thirdparty"
    THEN arrived < MaxFrames /\ arrived' = arrived + 1 /\ tcpbuf' = arrived + 1
    ELSE UNCHANGED <<arrived, tcpbuf>>

-----------------------------------------------------------------------------
(* tc1, step by step.                                                       *)

Idle == ~aprs_data_flag /\ ~spirequest

(* The frame taken out of another one.  One more inside it is dropped.      *)
FromTcp(outcome) ==
  /\ stage = "off"
  /\ tcpbuf # 0 /\ Idle
  /\ Update(tcpbuf, outcome)
  /\ tcpbuf' = 0
  /\ stage' = "lbuf"
  /\ UNCHANGED <<arrived, modem, lbuf, newest>>

FromLbuf(outcome) ==
  /\ stage = "lbuf"
  /\ lbuf # 0 /\ Idle
  /\ Update(lbuf, outcome)
  /\ Unpack(outcome)
  /\ newest' = lbuf
  /\ lbuf' = 0
  /\ stage' = "modem"
  /\ UNCHANGED modem

SkipBuffers ==
  /\ \/ stage = "off" /\ ~(tcpbuf # 0 /\ Idle) /\ stage' = "lbuf"
     \/ stage = "lbuf" /\ ~(lbuf # 0 /\ Idle) /\ stage' = "modem"
  /\ UNCHANGED <<app, rxVars, spirequest, aprs_data_flag, rqVars, pageVars, rpque, left,
                 txqueue, sensing, inject>>

(* A new frame while the application is busy goes to lbuf, or stays where   *)
(* it is.                                                                   *)
ToLbuf ==
  /\ stage = "modem"
  /\ modem # 0 /\ ~Idle
  /\ IF lbuf = 0 THEN lbuf' = modem /\ modem' = 0 ELSE UNCHANGED <<lbuf, modem>>
  /\ stage' = "off"
  /\ UNCHANGED <<app, arrived, tcpbuf, buffer, newest, spirequest, aprs_data_flag, rqVars, pageVars,
                 rpque, left, txqueue, sensing, inject>>

(* Mutant: the new frame is processed though the last one is not saved.     *)
FromModemAtOnce(outcome) ==
  /\ stage = "modem"
  /\ modem # 0 /\ ~aprs_data_flag
  /\ Update(modem, outcome)
  /\ Unpack(outcome)
  /\ newest' = modem
  /\ modem' = 0
  /\ stage' = "off"
  /\ UNCHANGED lbuf

FromModem(outcome) ==
  /\ stage = "modem"
  /\ modem # 0 /\ Idle
  /\ Update(modem, outcome)
  /\ Unpack(outcome)
  /\ newest' = modem
  /\ modem' = 0
  /\ stage' = "off"
  /\ UNCHANGED lbuf

(* Without a new frame: send_txqueue, when the transmitter is free; with    *)
(* txenable off the item is dropped all the same.                           *)
SendQueued ==
  /\ stage = "modem" /\ modem = 0
  /\ \/ txqueue' = txqueue
     \/ txqueue > 0 /\ txqueue' = txqueue - 1
  /\ stage' = "beacon"
  /\ UNCHANGED <<app, rxVars, spirequest, aprs_data_flag, rqVars, pageVars, rpque, left,
                 sensing, inject>>

(* send_beacon, when one is due, or due again because nobody repeated the   *)
(* last: its text is to be saved as well.                                   *)
Beacon ==
  /\ stage = "beacon"
  /\ stage' = "message"
  /\ \/ UNCHANGED <<txqueue, spirequest, txRq, sensing, ownSaved, overtaken>>
     \/ /\ \/ txqueue <= TxSlots - 2 /\ sensing' = TRUE
           \/ sensing /\ txqueue = 0 /\ sensing' = FALSE
        /\ txqueue' = txqueue + 1
        /\ spirequest' = TRUE
        /\ txRq' = TRUE
        /\ ownSaved' = FALSE
        /\ overtaken' = IF app = "txclear" THEN overtaken \cup {"txbuf"} ELSE overtaken \ {"txbuf"}
  /\ UNCHANGED <<app, rxVars, aprs_data_flag, bufRq, rpRq, msRq, flash, rpbuf, msbuf, rpque,
                 left, inject>>

(* transmit_message, when its text was read; with a full queue later.  What *)
(* is in msbuf after that is of no use, as in rpbuf after do_repeat.        *)
MessageDone ==
  /\ msRq' = NoRq
  /\ msbuf' = 0
  /\ overtaken' = overtaken \ {"msbuf"}

TransmitMessage ==
  /\ msRq.ready
  /\ IF left[msRq.page] = 0
       THEN MessageDone /\ UNCHANGED <<txqueue, left>>
     ELSE IF txqueue = TxSlots
       THEN UNCHANGED <<msRq, msbuf, overtaken, txqueue, left>>
     ELSE /\ txqueue' = txqueue + 1
          /\ left' = [left EXCEPT ![msRq.page] = @ - 1]
          /\ MessageDone
  /\ UNCHANGED spirequest

(* A request that is not marked as served is replaced by a new one, also    *)
(* one the handler has just read the page for.                              *)
Replaced(name, marking, rq, page) ==
  IF app = marking /\ page # rq.page THEN overtaken \cup {name} ELSE overtaken

(* The scan for a message that is due begins at an index that was never     *)
(* set, so it may find any or none.                                         *)
AskForMessage ==
  /\ ~msRq.ready
  /\ \/ UNCHANGED <<msRq, spirequest, overtaken>>
     \/ /\ txqueue < TxSlots
        /\ \E m \in Messages :
             /\ left[m] > 0
             /\ msRq' = [page |-> m, ready |-> FALSE]
             /\ overtaken' = Replaced("msbuf", "msmark", msRq, m)
        /\ spirequest' = TRUE
  /\ UNCHANGED <<txqueue, left, msbuf>>

SendMessage ==
  /\ stage = "message"
  /\ TransmitMessage \/ AskForMessage
  /\ stage' = "repeat"
  /\ UNCHANGED <<app, rxVars, aprs_data_flag, bufRq, txRq, rpRq, flash, ownSaved, rpbuf,
                 rpque, sensing, inject>>

(* do_repeat: the entry counts as repeated with a full queue as well, and   *)
(* with repeater_enable off ("on" is left to chance).                       *)
Requested == {i \in DOMAIN rpque : rpque[i].flag = 1 /\ rpque[i].frame = rpRq.page}

DoRepeat ==
  /\ rpRq.ready
  /\ IF Requested = {} THEN UNCHANGED <<txqueue, rpque>>
     ELSE /\ rpque' = [rpque EXCEPT ![First(Requested)].flag = 2]
          /\ \E on \in BOOLEAN :
               txqueue' = IF on THEN Queued ELSE txqueue
  /\ rpRq' = NoRq
  /\ rpbuf' = 0
  /\ overtaken' = overtaken \ {"rpbuf"}
  /\ UNCHANGED spirequest

DueEntries == {i \in DOMAIN rpque : rpque[i].flag = 1 /\ rpque[i].age # "future"}

AskForRepeat ==
  /\ ~rpRq.ready
  /\ IF DueEntries = {} THEN UNCHANGED <<rpRq, spirequest, overtaken>>
     ELSE LET f == rpque[First(DueEntries)].frame
          IN /\ rpRq' = [page |-> f, ready |-> FALSE]
             /\ overtaken' = Replaced("rpbuf", "rpmark", rpRq, f)
             /\ spirequest' = TRUE
  /\ UNCHANGED <<txqueue, rpque, rpbuf>>

Repeat ==
  /\ stage = "repeat"
  /\ IF txqueue <= TxSlots - 3
       THEN DoRepeat \/ AskForRepeat
       ELSE UNCHANGED <<txqueue, rpque, rpRq, rpbuf, spirequest, overtaken>>
  /\ stage' = "inject"
  /\ UNCHANGED <<app, rxVars, aprs_data_flag, bufRq, txRq, msRq, flash, ownSaved, msbuf,
                 left, sensing, inject>>

(* application_frame_get, and the end of tc1. *)
GetInjected ==
  /\ stage = "inject"
  /\ IF inject /\ txqueue < TxSlots
       THEN inject' = FALSE /\ txqueue' = txqueue + 1
       ELSE UNCHANGED <<inject, txqueue>>
  /\ stage' = "off"
  /\ UNCHANGED <<app, rxVars, spirequest, aprs_data_flag, rqVars, pageVars, rpque, left, sensing>>

Tc1 ==
  \/ SkipBuffers \/ ToLbuf \/ SendQueued \/ Beacon \/ SendMessage \/ Repeat \/ GetInjected
  \/ \E outcome \in Outcomes : FromTcp(outcome) \/ FromLbuf(outcome) \/ FromModem(outcome)

-----------------------------------------------------------------------------
(* The application, between two interrupts.                                 *)

(* spi_request_handler, called from the keyboard loop, from the drawing of  *)
(* text and for a received frame.  An alarm may come before each step, also *)
(* between a page written or read and the statement that says so.           *)
EnterHandler ==
  /\ app = "loop" /\ spirequest
  /\ app' = "buffer"
  /\ UNCHANGED <<pageVars, spirequest, rqVars>>

WriteBuffer ==
  /\ app = "buffer"
  /\ IF bufRq # 0
       THEN flash' = [flash EXCEPT ![bufRq] = buffer] /\ app' = "bufclear"
       ELSE flash' = flash /\ app' = "txbuf"
  /\ UNCHANGED <<ownSaved, rpbuf, msbuf, overtaken, spirequest, rqVars>>

ClearBuffer ==
  /\ app = "bufclear" /\ app' = "txbuf"
  /\ bufRq' = 0
  /\ UNCHANGED <<pageVars, spirequest, txRq, rpRq, msRq>>

WriteTxbuf ==
  /\ app = "txbuf"
  /\ IF txRq
       THEN ownSaved' = TRUE /\ app' = "txclear"
       ELSE UNCHANGED ownSaved /\ app' = "rpbuf"
  /\ UNCHANGED <<flash, rpbuf, msbuf, overtaken, spirequest, rqVars>>

ClearTxbuf ==
  /\ app = "txclear" /\ app' = "rpbuf"
  /\ txRq' = FALSE
  /\ UNCHANGED <<pageVars, spirequest, bufRq, rpRq, msRq>>

ReadRpbuf ==
  /\ app = "rpbuf"
  /\ IF rpRq.page # 0 /\ ~rpRq.ready
       THEN /\ app' = "rpmark"
            /\ rpbuf' = flash[rpRq.page]
            /\ overtaken' = overtaken \ {"rpbuf"}
       ELSE app' = "msbuf" /\ UNCHANGED <<rpbuf, overtaken>>
  /\ UNCHANGED <<flash, ownSaved, msbuf, spirequest, rqVars>>

MarkRpbuf ==
  /\ app = "rpmark" /\ app' = "msbuf"
  /\ rpRq' = [rpRq EXCEPT !.ready = TRUE]
  /\ UNCHANGED <<pageVars, spirequest, bufRq, txRq, msRq>>

ReadMsbuf ==
  /\ app = "msbuf"
  /\ IF msRq.page # 0 /\ ~msRq.ready
       THEN /\ app' = "msmark"
            /\ msbuf' = msRq.page
            /\ overtaken' = overtaken \ {"msbuf"}
       ELSE app' = "end" /\ UNCHANGED <<msbuf, overtaken>>
  /\ UNCHANGED <<flash, ownSaved, rpbuf, spirequest, rqVars>>

MarkMsbuf ==
  /\ app = "msmark" /\ app' = "end"
  /\ msRq' = [msRq EXCEPT !.ready = TRUE]
  /\ UNCHANGED <<pageVars, spirequest, bufRq, txRq, rpRq>>

(* Mutant: the handler takes back what was asked while it ran. *)
LeaveHandlerClearing ==
  /\ app = "end" /\ app' = "loop"
  /\ spirequest' = FALSE
  /\ txRq' = FALSE
  /\ UNCHANGED <<pageVars, bufRq, rpRq, msRq>>

LeaveHandler ==
  /\ app = "end" /\ app' = "loop"
  /\ spirequest' = FALSE
  /\ UNCHANGED <<pageVars, rqVars>>

Handler ==
  /\ stage = "off"
  /\ EnterHandler \/ WriteBuffer \/ ClearBuffer \/ WriteTxbuf \/ ClearTxbuf \/ ReadRpbuf
     \/ MarkRpbuf \/ ReadMsbuf \/ MarkMsbuf \/ LeaveHandler
  /\ UNCHANGED <<stage, rxVars, aprs_data_flag, rpque, left, txqueue, sensing, inject>>

(* A screen is drawn from the tables, which must not change meanwhile. *)
Draw ==
  /\ stage = "off" /\ app = "loop"
  /\ aprs_data_flag' = ~aprs_data_flag
  /\ UNCHANGED <<stage, app, rxVars, spirequest, rqVars, pageVars, rpque, left, txqueue, sensing, inject>>

(* A message is written; its text is in the flash before. *)
Compose(m) ==
  /\ stage = "off" /\ app = "loop"
  /\ left[m] = 0
  /\ left' = [left EXCEPT ![m] = Retries]
  /\ UNCHANGED <<stage, app, rxVars, spirequest, aprs_data_flag, rqVars, pageVars, rpque, txqueue,
                 sensing, inject>>

(* application_frame_send waits for the interrupt, and does nothing else.   *)
Inject ==
  /\ stage = "off" /\ app = "loop"
  /\ app' = "spin"
  /\ inject' = TRUE
  /\ UNCHANGED <<stage, rxVars, spirequest, aprs_data_flag, rqVars, pageVars, rpque, left, txqueue, sensing>>

Injected ==
  /\ stage = "off" /\ app = "spin" /\ ~inject
  /\ app' = "loop"
  /\ UNCHANGED <<stage, rxVars, spirequest, aprs_data_flag, rqVars, pageVars, rpque, left, txqueue,
                 sensing, inject>>

(* The modem receives; what was not fetched is overwritten. *)
Arrive ==
  /\ stage = "off"
  /\ arrived < MaxFrames
  /\ arrived' = arrived + 1
  /\ modem' = arrived + 1
  /\ UNCHANGED <<stage, app, tcpbuf, lbuf, buffer, newest, spirequest, aprs_data_flag, rqVars, pageVars,
                 rpque, left, txqueue, sensing, inject>>

(* Time passes for the entry of a repeat slot. *)
Ages(i) ==
  /\ stage = "off"
  /\ rpque[i].age # "old"
  /\ rpque' = [rpque EXCEPT ![i].age = IF @ = "future" THEN "fresh" ELSE "old"]
  /\ UNCHANGED <<stage, app, rxVars, spirequest, aprs_data_flag, rqVars, pageVars, left, txqueue,
                 sensing, inject>>

Next ==
  \/ Tc1 \/ Handler \/ Draw \/ Inject \/ Injected \/ Arrive
  \/ \E m \in Messages : Compose(m)
  \/ \E i \in DOMAIN rpque : Ages(i)

Spec == Init /\ [][Next]_vars

-----------------------------------------------------------------------------
(* A frame in the repeat queue is in its page, or on the way there in a     *)
(* buffer nothing else has been put into.                                   *)
PagesHold ==
  \A i \in DOMAIN rpque :
    LET f == rpque[i].frame
    IN rpque[i].flag = 1 => flash[f] = f \/ (bufRq = f /\ buffer = f)

(* What the handler wrote or read is what was asked for: the page of one's  *)
(* own station holds the beacon sent last or will, and what is repeated or  *)
(* sent is the frame and the message of the request.  The one exception is  *)
(* a request the interrupt replaced between the page and the statement that *)
(* says it was served: then a beacon is lost for its page, or another frame *)
(* or message sent than the one that is counted as sent.                    *)
ServedAsAsked ==
  /\ ownSaved \/ txRq \/ "txbuf" \in overtaken
  /\ rpRq.ready => rpbuf = rpRq.page \/ "rpbuf" \in overtaken
  /\ msRq.ready => msbuf = msRq.page \/ "msbuf" \in overtaken

(* Of two frames from the modem the older is processed first: what waits is *)
(* younger than what was processed, and in lbuf older than in the modem.    *)
InOrder ==
  /\ \A f \in {lbuf, modem} \ {0} : f > newest
  /\ lbuf # 0 /\ modem # 0 => lbuf < modem
=============================================================================
