--------------------------- MODULE ConfigTransfer ---------------------------
(***************************************************************************)
(* Configuration files on their way from the host to flash.  The host      *)
(* (WinAPI/PinscapeVendorInterface.cpp) sends a file page by page, with    *)
(* retries, over a USB pipe; the device (Firmware/VendorIfc.cpp) checks    *)
(* order, repetition and the CRC and hands the pages to Firmware/Config.cpp*)
(* which writes them through the one write handle of the flash file system *)
(* and reads files back through a cache.  The file system is seen as       *)
(* StoredFile sees it; one call of SavePage is one step.                   *)
(*                                                                         *)
(* A CRC is represented by the pages it was calculated over, that is,      *)
(* CRC-32 is taken to have no collisions.  A request's token is            *)
(* represented by the flag "fresh": the host still waits for its reply.    *)
(*                                                                         *)
(* A definition named D_Xxx is a plausible mistake in D; nothing refers to *)
(* it.                                                                     *)
(***************************************************************************)
EXTENDS Integers, Sequences, SequencesExt

CONSTANTS
    Files,          \* the configuration files, "config.json" and "safemode.json"
    Texts,          \* for each file, the texts the host may store, sequences of pages
    LastTry,        \* number of the last attempt for one page, 4 in the code
    MaxOps,         \* bound: operations the host starts
    MaxFaults,      \* bound: lost, torn or late messages, host deaths, flash failures
    MaxResets       \* bound: device resets

None == "none"
All  == "all files"                         \* CONFIG_FILE_ALL

ASSUME TransferAssumption ==
    /\ None \notin Files /\ All \notin Files
    /\ \A f \in Files : \A t \in Texts[f] : t \in Seq(STRING)
    /\ LastTry \in Nat /\ MaxOps \in Nat /\ MaxFaults \in Nat /\ MaxResets \in Nat

VARIABLES
    host,           \* the operation of the host application and its state
    wire,           \* requests on the OUT pipe
    reply,          \* the reply on the IN pipe to the request the host waits for
    curRequest,     \* a request whose data has not arrived
    prevPage, prevSum,   \* putConfigPrevPageNo, putConfigPrevPageChecksum
    sum,            \* putConfigChecksum
    handle,         \* Config::flashHandle and the file system's write handle
    readCache,      \* Config::readCache
    stored,         \* what each file's reader gets from flash
    delay,          \* whether G_debugAndTestVars.putConfigDelay is set
    unsaved,        \* ghost: pages of the last file received were answered with
                    \* OK and are not where the file's reader looks for them
    ops, faults, resets     \* counters for the bounds

device == <<curRequest, prevPage, prevSum, sum>>
flash  == <<handle, readCache, stored, delay, unsaved>>
counts == <<ops, faults, resets>>
vars   == <<host, wire, reply, device, flash, counts>>

SOF  == 0 - 1           \* page number of the START OF FILE request
Torn == "torn"          \* page data that is not what the host sent

(***************************************************************************)
(* Stored files.  A file that was closed before its last page has no CRC   *)
(* of its own: its last four bytes are taken for one, and do not match.    *)
(***************************************************************************)
NoCRC    == <<>>
NoFile   == [pages |-> <<>>, crc |-> NoCRC]
Broken   == [pages |-> <<Torn>>, crc |-> NoCRC]
Whole(t) == [pages |-> t, crc |-> t]
Valid(s) == s.pages # <<>> /\ s.crc = s.pages

NoCache    == [name |-> None, file |-> NoFile]
Cleared_Never(f) == readCache
Cleared(f) == IF readCache.name = f THEN NoCache ELSE readCache

(***************************************************************************)
(* Requests.                                                               *)
(***************************************************************************)
Commands == {"get", "erase", "reset"}       \* apart from "put"

Put(f, t, p) == [cmd |-> "put", file |-> f, page |-> p, nPages |-> Len(t),
                 data |-> IF p = SOF THEN None ELSE t[p + 1],
                 crc |-> t, whole |-> TRUE, fresh |-> TRUE]

Command(c, f) == [cmd |-> c, file |-> f, page |-> SOF, nPages |-> 0, data |-> None,
                  crc |-> <<>>, whole |-> TRUE, fresh |-> TRUE]

NoRequest == [cmd |-> None, file |-> None, page |-> SOF, nPages |-> 0, data |-> None,
              crc |-> <<>>, whole |-> TRUE, fresh |-> FALSE]

HasData(m) == m.data # None
Stale(m)   == [m EXCEPT !.fresh = FALSE]
IsLast(m)  == m.page + 1 = m.nPages

(***************************************************************************)
(* The host.                                                               *)
(***************************************************************************)
Idle == [st |-> "idle", cmd |-> None, file |-> None, text |-> <<>>, page |-> SOF, tries |-> 0]

Waiting == host.st = "sent"
Send(m) == wire' = Append(wire, m)

\* the replies and requests the host no longer waits for
Abandon ==
    /\ wire' = [i \in 1 .. Len(wire) |-> Stale(wire[i])]
    /\ curRequest' = Stale(curRequest)
    /\ reply' = None

StartPut(f, t) ==
    /\ ~ Waiting /\ ops < MaxOps
    /\ host' = [st |-> "sent", cmd |-> "put", file |-> f, text |-> t, page |-> SOF, tries |-> 0]
    /\ Send(Put(f, t, SOF))
    /\ ops' = ops + 1
    /\ UNCHANGED <<reply, device, flash, faults, resets>>

StartCommand(c, f) ==
    /\ ~ Waiting /\ ops < MaxOps
    /\ host' = [Idle EXCEPT !.st = "sent", !.cmd = c, !.file = f]
    /\ Send(Command(c, f))
    /\ ops' = ops + 1
    /\ UNCHANGED <<reply, device, flash, faults, resets>>

\* a user whose save failed saves again
StartAgain ==
    /\ host.st = "failed" /\ host.cmd = "put"
    /\ host' = [host EXCEPT !.st = "sent", !.page = SOF, !.tries = 0]
    /\ Send(Put(host.file, host.text, SOF))
    /\ UNCHANGED <<reply, device, flash, counts>>

\* a reply the host takes for success
Accepts(stat) ==
    \/ stat = "ok"
    \/ stat = "retry_ok" /\ host.cmd = "put" /\ host.page # SOF /\ host.tries > 0

\* whether the request that failed is sent again
Retries_OneMore == host.cmd = "put" /\ host.page # SOF /\ host.tries <= LastTry
Retries == host.cmd = "put" /\ host.page # SOF /\ host.tries < LastTry

HostAccepts ==
    /\ Waiting /\ reply # None /\ Accepts(reply)
    /\ reply' = None
    /\ LET next == host.page + 1
           more == host.cmd = "put" /\ next < Len(host.text)
       IN  IF more
           THEN /\ host' = [host EXCEPT !.page = next, !.tries = 0]
                /\ Send(Put(host.file, host.text, next))
           ELSE /\ host' = [host EXCEPT !.st = "ok"]
                /\ UNCHANGED wire
    /\ UNCHANGED <<device, flash, counts>>

\* SendRequest has returned an error
Fails(pipe) ==
    IF Retries
    THEN /\ host' = [host EXCEPT !.tries = @ + 1]
         /\ wire' = Append(pipe, Put(host.file, host.text, host.page))
    ELSE /\ host' = [host EXCEPT !.st = "failed"]
         /\ wire' = pipe

HostRejects ==
    /\ Waiting /\ reply # None /\ ~ Accepts(reply)
    /\ reply' = None
    /\ Fails(wire)
    /\ UNCHANGED <<device, flash, counts>>

\* nothing is on its way that would bring the host its reply
Starved == reply = None /\ \A i \in 1 .. Len(wire) : wire[i].fresh => ~ wire[i].whole

\* the request or the read times out or fails; later replies will be skipped
HostTimeout ==
    /\ Waiting
    /\ ~ Starved => faults < MaxFaults
    /\ faults' = IF Starved THEN faults ELSE faults + 1
    /\ reply' = None
    /\ curRequest' = Stale(curRequest)
    /\ Fails([i \in 1 .. Len(wire) |-> Stale(wire[i])])
    /\ UNCHANGED <<prevPage, prevSum, sum, flash, ops, resets>>

HostDies ==
    /\ Waiting /\ faults < MaxFaults
    /\ host' = Idle
    /\ Abandon
    /\ faults' = faults + 1
    /\ UNCHANGED <<prevPage, prevSum, sum, flash, ops, resets>>

(***************************************************************************)
(* The pipe.  A request is lost, or stops after its header, or the reply   *)
(* is lost.                                                                *)
(***************************************************************************)
Lose ==
    /\ faults < MaxFaults /\ wire # <<>>
    /\ \/ wire' = Front(wire)
       \/ HasData(Last(wire)) /\ wire' = [wire EXCEPT ![Len(wire)].whole = FALSE]
    /\ faults' = faults + 1
    /\ UNCHANGED <<host, reply, device, flash, ops, resets>>

LoseReply ==
    /\ faults < MaxFaults /\ reply # None
    /\ reply' = None
    /\ faults' = faults + 1
    /\ UNCHANGED <<host, wire, device, flash, ops, resets>>

(***************************************************************************)
(* The write handle.  The file system has one; it survives the end of the  *)
(* host that made the device open it, the removal of its file ("spoiled":  *)
(* the first sector of the block is gone) and a factory reset ("wild": its *)
(* directory entry is gone).  What is written through a "lost" handle      *)
(* follows a header that was erased: no reader finds it.                   *)
(***************************************************************************)
NoHandle == [file |-> None, mode |-> None, data |-> <<>>, entry |-> None]

Open(f, mode) == [file |-> f, mode |-> mode, data |-> <<>>, entry |-> "own"]
Opened == handle # NoHandle

\* an existing file can be appended to when there is room
Modes(file) == IF file = NoFile THEN {"over"} ELSE {"append", "over"}

\* what CloseWrite of handle h makes of the files st
Closed(h, crc, st) ==
    CASE h.entry = "own"     -> [st EXCEPT ![h.file] = [pages |-> h.data, crc |-> crc]]
      [] h.entry = "spoiled" -> [st EXCEPT ![h.file] =
                                    IF h.mode = "append" THEN NoFile ELSE Broken]
      [] OTHER               -> st

(***************************************************************************)
(* Config::SavePage.  The flash may fail to open the file, to take the     *)
(* data or to take the header of the file that is closed.                  *)
(***************************************************************************)
\* "failed" and "silent" count the failures SavePage reports and does not
\* report; "lost" says that no reader will find what it writes
Result(h, st, cache, failed, silent, lost) ==
    [handle |-> h, stored |-> st, readCache |-> cache,
     failed |-> failed, silent |-> silent, lost |-> lost]

\* what is left of f when the sector the new copy begins in was erased and its
\* contents are not put back: an older copy, whole or not, or nothing
Remnants(f) == {NoFile, Broken} \cup {Whole(t) : t \in Texts[f]}

\* append mode after the put-back has failed, which OpenWrite does not notice;
\* the headers may have been put back, or be in the sector before
Damaged(f, st) ==
    {Result(Open(f, "append"), [st EXCEPT ![f] = Broken], Cleared(f), 0, 1, FALSE)}
    \cup {Result([Open(f, "append") EXCEPT !.entry = "lost"], [st EXCEPT ![f] = s],
                 Cleared(f), 0, 1, TRUE) : s \in Remnants(f)}

\* the first page closes what an earlier transfer left open and opens the file
Opening(f) ==
    LET st == IF Opened THEN Closed(handle, NoCRC, stored) ELSE stored
    IN  {Result(Open(f, mode),
                IF mode = "append" THEN st ELSE [st EXCEPT ![f] = NoFile],
                Cleared(f), 0, 0, FALSE) : mode \in Modes(st[f])}
        \cup (IF st[f] = NoFile THEN {} ELSE Damaged(f, st))
        \cup {Result(NoHandle, st, readCache, 1, 0, FALSE)}

Writing(m) == IF m.page = 0 THEN Opening(m.file)
              ELSE {Result(handle, stored, readCache, 0, 0, FALSE)}

\* with o opened, the page is written; the last page is followed by the CRC
Written(m, o, crc) ==
    IF o.handle = NoHandle THEN {o}
    ELSE {LET h == [o.handle EXCEPT !.data = Append(@, IF bad = "data" THEN Torn ELSE m.data)]
              failed == IF bad = "nothing" THEN 0 ELSE 1
          IN  IF IsLast(m)
              THEN Result(NoHandle, IF bad = "header" THEN o.stored ELSE Closed(h, crc, o.stored),
                          o.readCache, failed, o.silent, o.lost)
              ELSE Result(h, o.stored, o.readCache, failed, o.silent, o.lost)
          : bad \in {"nothing", "data"} \cup (IF IsLast(m) THEN {"header"} ELSE {})}

SavePage(m, crc) == UNION {Written(m, o, crc) : o \in Writing(m)}

\* SavePage returns true
Saved(m, r) == r.failed = 0 /\ (m.page > 0 => Opened)

(***************************************************************************)
(* The device processes a request.  A request the host has given up gets   *)
(* its reply too, which the host skips.                                    *)
(***************************************************************************)
Reply(m, stat) == reply' = IF m.fresh THEN stat ELSE reply

Forget == prevPage' = SOF /\ prevSum' = None

ExpectedPage == IF prevPage < 0 THEN 0 ELSE prevPage + 1

IsRepeat(m) == m.page = prevPage /\ m.data = prevSum

\* the running CRC with page m in it
SumWith(m) == IF m.page = 0 THEN <<m.data>> ELSE Append(sum, m.data)

PutStart(m) ==
    /\ m.page = SOF
    /\ Forget
    /\ Reply(m, "ok")
    /\ UNCHANGED <<sum, flash, faults>>

PutRepeat(m) ==
    /\ m.page # SOF /\ IsRepeat(m)
    /\ Reply(m, "retry_ok")
    /\ UNCHANGED <<prevPage, prevSum, sum, flash, faults>>

PutOutOfOrder(m) ==
    /\ m.page # SOF /\ ~ IsRepeat(m) /\ m.page # ExpectedPage
    /\ Reply(m, "out_of_bounds")
    /\ UNCHANGED <<prevPage, prevSum, sum, flash, faults>>

InOrder(m) == m.page # SOF /\ ~ IsRepeat(m) /\ m.page = ExpectedPage

\* the CRC of the whole file is not compared with the host's
Mismatch_Unchecked(m) == FALSE

\* the host's CRC does not match
Mismatch(m) == IsLast(m) /\ SumWith(m) # m.crc

PutMismatch(m) ==
    /\ InOrder(m) /\ Mismatch(m)
    /\ sum' = SumWith(m)
    /\ Forget
    /\ Reply(m, "config_invalid")
    /\ UNCHANGED <<flash, faults>>

Accept(m) == prevPage' = m.page /\ prevSum' = m.data /\ Reply(m, "ok")

\* the debug mode that simulates a slow PUT stores nothing
PutDelayed(m) ==
    /\ Accept(m)
    /\ unsaved' = TRUE
    /\ UNCHANGED <<handle, readCache, stored, delay, faults>>

PutSaved(m) ==
    /\ \E r \in SavePage(m, SumWith(m)) :
        /\ faults + r.failed + r.silent <= MaxFaults
        /\ faults' = faults + r.failed + r.silent
        /\ handle' = r.handle /\ stored' = r.stored /\ readCache' = r.readCache
        /\ unsaved' = ((m.page # 0 /\ unsaved) \/ r.lost)
        /\ IF Saved(m, r) THEN Accept(m) ELSE Forget /\ Reply(m, "failed")
    /\ UNCHANGED delay

PutPage(m) ==
    /\ InOrder(m) /\ ~ Mismatch(m)
    /\ sum' = SumWith(m)
    /\ IF delay THEN PutDelayed(m) ELSE PutSaved(m)

PutData(m) == PutRepeat(m) \/ PutOutOfOrder(m) \/ PutMismatch(m) \/ PutPage(m)

ProcessPut(m) == m.cmd = "put" /\ (PutStart(m) \/ PutData(m))

\* SUBCMD_CONFIG_GET, _EXISTS and _TEST_CHECKSUM all read through the cache
Lookup(f) == IF readCache.name = f THEN readCache ELSE [name |-> f, file |-> stored[f]]

ProcessGet(m) ==
    /\ m.cmd = "get"
    /\ readCache' = Lookup(m.file)
    /\ Reply(m, IF Lookup(m.file).file = NoFile THEN "not_found" ELSE "ok")
    /\ UNCHANGED <<prevPage, prevSum, sum, handle, stored, delay, unsaved, faults>>

Erased_Every(f) == Files
Erased(f) == IF f = All THEN Files ELSE {f}

\* EraseConfig; the removal of one of the files may fail
ProcessErase(m) ==
    /\ m.cmd = "erase"
    /\ readCache' = IF m.file = All THEN NoCache ELSE Cleared(m.file)
    /\ \E gone \in SUBSET Erased(m.file) :
        /\ gone # Erased(m.file) => faults < MaxFaults
        /\ faults' = IF gone = Erased(m.file) THEN faults ELSE faults + 1
        /\ stored' = [f \in Files |-> IF f \in gone THEN NoFile ELSE stored[f]]
        /\ handle' = IF handle.file \in gone /\ handle.entry = "own"
                     THEN [handle EXCEPT !.entry = "spoiled"] ELSE handle
        /\ Reply(m, IF gone = Erased(m.file) THEN "ok" ELSE "failed")
    /\ UNCHANGED <<prevPage, prevSum, sum, delay, unsaved>>

\* FactoryReset
ProcessReset(m) ==
    /\ m.cmd = "reset"
    /\ stored' = [f \in Files |-> NoFile]
    /\ handle' = IF Opened THEN [handle EXCEPT !.entry = "wild"] ELSE handle
    /\ Reply(m, "ok")
    /\ UNCHANGED <<prevPage, prevSum, sum, readCache, delay, unsaved, faults>>

ProcessRequest(m) == ProcessPut(m) \/ ProcessGet(m) \/ ProcessErase(m) \/ ProcessReset(m)

(***************************************************************************)
(* OnOutput.  While a request waits for its data, whatever arrives next is *)
(* taken for that data; a request alone may be too short to complete it.   *)
(* Of the requests here only PUT has data.                                 *)
(***************************************************************************)
Pending == curRequest # NoRequest

ReceiveRequest ==
    /\ wire # <<>> /\ ~ Pending
    /\ Head(wire).whole
    /\ ProcessRequest(Head(wire))
    /\ wire' = Tail(wire)
    /\ UNCHANGED <<host, curRequest, ops, resets>>

ReceiveHeader ==
    /\ wire # <<>> /\ ~ Pending
    /\ ~ Head(wire).whole
    /\ curRequest' = Head(wire)
    /\ wire' = Tail(wire)
    /\ UNCHANGED <<host, reply, prevPage, prevSum, sum, flash, counts>>

ReceiveAsData ==
    /\ wire # <<>> /\ Pending
    /\ PutData([curRequest EXCEPT !.data = Torn])
    /\ curRequest' = NoRequest
    /\ wire' = Tail(wire)
    /\ UNCHANGED <<host, ops, resets>>

ReceiveTooLittle ==
    /\ wire # <<>> /\ Pending
    /\ ~ (HasData(Head(wire)) /\ Head(wire).whole)
    /\ wire' = Tail(wire)
    /\ UNCHANGED <<host, reply, device, flash, counts>>

\* the timeout clears the transfer buffer and not the command
CancelRequest_KeepsCommand == Pending /\ UNCHANGED vars

\* REQUEST_TIMEOUT has passed
CancelRequest ==
    /\ Pending
    /\ curRequest' = NoRequest
    /\ UNCHANGED <<host, wire, reply, prevPage, prevSum, sum, flash, counts>>

\* 30 seconds without a PUT: the next one will find the state forgotten
LongPause ==
    /\ prevPage # SOF /\ faults < MaxFaults
    /\ Forget
    /\ faults' = faults + 1
    /\ UNCHANGED <<host, wire, reply, curRequest, sum, flash, ops, resets>>

\* the device restarts: USB is enumerated anew, and RAM is cleared
DeviceReset ==
    /\ resets < MaxResets
    /\ wire' = <<>> /\ reply' = None /\ curRequest' = NoRequest
    /\ Forget /\ sum' = <<>>
    /\ handle' = NoHandle /\ readCache' = NoCache /\ delay' = FALSE
    /\ resets' = resets + 1
    /\ UNCHANGED <<host, stored, unsaved, ops, faults>>

\* the console command devtest --config-put-timeout, between two transfers
SetDelay ==
    /\ prevPage = SOF
    /\ delay' = ~ delay
    /\ UNCHANGED <<host, wire, reply, device, handle, readCache, stored, unsaved, counts>>

Init ==
    /\ host = Idle /\ wire = <<>> /\ reply = None
    /\ curRequest = NoRequest /\ prevPage = SOF /\ prevSum = None /\ sum = <<>>
    /\ handle = NoHandle /\ readCache = NoCache /\ delay = FALSE /\ unsaved = FALSE
    /\ stored \in [Files -> {NoFile} \cup {Whole(t) : t \in UNION {Texts[g] : g \in Files}}]
    /\ \A f \in Files : stored[f] = NoFile \/ stored[f].pages \in Texts[f]
    /\ ops = 0 /\ faults = 0 /\ resets = 0

Start ==
    \/ \E f \in Files : \E t \in Texts[f] : StartPut(f, t)
    \/ \E f \in Files : \E c \in {"get", "erase"} : StartCommand(c, f)
    \/ StartCommand("erase", All)
    \/ StartCommand("reset", None)

Device == ReceiveRequest \/ ReceiveHeader \/ ReceiveAsData \/ ReceiveTooLittle \/ CancelRequest

Next ==
    \/ Start \/ StartAgain \/ HostAccepts \/ HostRejects \/ HostTimeout \/ HostDies
    \/ Lose \/ LoseReply
    \/ Device \/ LongPause \/ DeviceReset \/ SetDelay

Spec == Init /\ [][Next]_vars

\* the device's main loop polls the pipe, SendRequest returns at the latest
\* after its timeout, and the user saves again
Fairness ==
    /\ WF_vars(ReceiveRequest \/ ReceiveHeader \/ ReceiveAsData \/ ReceiveTooLittle)
    /\ WF_vars(CancelRequest)
    /\ WF_vars(HostAccepts \/ HostRejects)
    /\ WF_vars(HostTimeout /\ Starved)
    /\ WF_vars(StartAgain)

LiveSpec == Spec /\ Fairness

(***************************************************************************)
(* Properties.                                                             *)
(***************************************************************************)
AnyText == UNION {Texts[f] : f \in Files}
AnyPage == (UNION {Range(t) : t \in AnyText}) \cup {Torn, None}

\* Every variable has its type: the attempts for a page are limited, the wire
\* holds at most the requests the host gave up and the one it waits for, and
\* what is received of a file is not longer than its text.
TypeOK ==
    /\ host.st \in {"idle", "sent", "ok", "failed"}
    /\ host.cmd \in Commands \cup {"put", None}
    /\ host.file \in Files \cup {All, None}
    /\ host.page \in SOF .. Len(host.text) /\ host.tries \in 0 .. LastTry
    /\ Len(wire) <= 1 + MaxFaults
    /\ reply \in {None, "ok", "retry_ok", "out_of_bounds", "config_invalid", "failed", "not_found"}
    /\ prevPage = SOF \/ \E t \in AnyText : prevPage \in 0 .. Len(t) - 1
    /\ prevSum \in AnyPage
    /\ sum \in Seq(AnyPage)
    /\ handle.file \in Files \cup {None} /\ handle.mode \in {"append", "over", None}
    /\ handle.entry \in {"own", "spoiled", "wild", "lost", None}
    /\ delay \in BOOLEAN /\ unsaved \in BOOLEAN
    /\ prevPage >= 0 => Len(sum) = prevPage + 1
    /\ readCache.name \in Files \cup {None}
    /\ DOMAIN stored = Files
    /\ ops \in 0 .. MaxOps /\ faults \in 0 .. MaxFaults /\ resets \in 0 .. MaxResets

\* A file that the boot code accepts (Config::Load checks the CRC it carries)
\* is one text that a host sent for that very file, whole and in order: never
\* a mixture of two transfers, or of two files, or a page that was torn on
\* the pipe, whatever was lost, repeated or abandoned.
ValidWasSent == \A f \in Files : Valid(stored[f]) => stored[f].pages \in Texts[f]

\* When PutConfig returns OK to the host application, also after retries that
\* the device answered with ERR_RETRY_OK, the file in flash is the whole text
\* and the device has released its write handle and holds nothing older in its
\* read cache.  There are three exceptions: an empty text, for which only
\* START OF FILE is sent, and the two ways to be "unsaved": the debug mode,
\* and a sector that OpenWrite erased and could not put back.
PutOkStored ==
    host.st = "ok" /\ host.cmd = "put" /\ host.text # <<>> /\ ~ unsaved =>
        /\ stored[host.file] = Whole(host.text) /\ ~ Opened
        /\ readCache.name = host.file => readCache.file = stored[host.file]

\* However a transfer is disturbed, sending it again from START OF FILE gets
\* the file stored: no half-received request, page counter or handle that an
\* earlier attempt left in the device can block it for ever.  (The host may die
\* or turn to another command instead.)
TransferEnds ==
    (host.st = "sent" /\ host.cmd = "put")
        ~> (host.st \in {"ok", "idle"} \/ host.cmd # "put")

\* The request the device processes in a step.
Current == IF Pending THEN curRequest ELSE Head(wire)

\* VendorIfcProtocol.h says that fileID selects "which config file to operate
\* on": a request leaves every other file as it is, except for the one whose
\* abandoned transfer the first page of the next transfer completes.
OtherFilesKept ==
    [][\A f \in Files : stored'[f] # stored[f] =>
            \/ Current.cmd = "reset"
            \/ Current.file \in {f, All}
            \/ Current.cmd = "put" /\ Current.page = 0 /\ handle.file = f]_vars
=============================================================================
