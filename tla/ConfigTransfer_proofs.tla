------------------------ MODULE ConfigTransfer_proofs ------------------------
(***************************************************************************)
(* Theorems about ConfigTransfer, for every set of files and texts, every  *)
(* number of attempts and every number of faults, operations and resets.   *)
(*                                                                         *)
(* The device knows a transfer by the next page number alone.  That this   *)
(* is enough rests on the pipe: it keeps the order of the requests, and by *)
(* the time the host sends a page the device has processed the START OF    *)
(* FILE of the transfer, and with it all that was sent before.             *)
(***************************************************************************)
EXTENDS ConfigTransfer, SequenceTheorems, TLAPS

(***************************************************************************)
(* Types.                                                                  *)
(***************************************************************************)
Requests ==
    [cmd : Commands \cup {"put"}, file : Files \cup {All, None}, page : Int, nPages : Nat,
     data : AnyPage, crc : AnyText \cup {<<>>}, whole : BOOLEAN, fresh : BOOLEAN]

\* a request that a host makes
Proper(m) ==
    /\ m \in Requests
    /\ m.cmd = "put" => /\ m.file \in Files /\ m.crc \in Texts[m.file]
                        /\ m.nPages = Len(m.crc) /\ m.page \in SOF .. m.nPages - 1
    /\ m.cmd # "put" => m.page = SOF
    /\ m.cmd = "get" => m.file \in Files
    /\ m.cmd = "erase" => m.file \in Files \cup {All}

\* the requests that the device has still to process
QueueOf(w, c) == {w[i] : i \in 1 .. Len(w)} \cup (IF c # NoRequest THEN {c} ELSE {})
SizeOf(w, c)  == Len(w) + (IF c # NoRequest THEN 1 ELSE 0)
Queue == QueueOf(wire, curRequest)

HostType ==
    [st : {"idle", "sent", "ok", "failed"}, cmd : Commands \cup {"put", None},
     file : Files \cup {All, None}, text : AnyText \cup {<<>>}, page : Int, tries : Nat]

HostOK ==
    /\ host \in HostType /\ host.tries \in 0 .. LastTry
    /\ host.cmd = "put" => /\ host.file \in Files /\ host.text \in Texts[host.file]
                           /\ host.page \in SOF .. Len(host.text) - 1
    /\ host.cmd # "put" => host.page = SOF

Statuses == {"ok", "retry_ok", "out_of_bounds", "config_invalid", "failed", "not_found"}

PipeOK ==
    /\ wire \in Seq(Requests) /\ \A m \in Queue : Proper(m)
    /\ Pending => ~ curRequest.whole
    /\ reply \in {None} \cup Statuses

FileType == [pages : Seq(AnyPage), crc : Seq(AnyPage)]

HandleType ==
    [file : Files \cup {None}, mode : {"append", "over", None}, data : Seq(AnyPage),
     entry : {"own", "spoiled", "wild", "lost", None}]

DeviceOK ==
    /\ prevPage \in Int /\ prevPage >= SOF /\ prevSum \in AnyPage /\ sum \in Seq(AnyPage)
    /\ prevPage >= 0 => Len(sum) = prevPage + 1 /\ \E t \in AnyText : prevPage < Len(t)
    /\ handle \in HandleType /\ (handle # NoHandle => handle.file \in Files)
    /\ handle # NoHandle => handle.entry # None
    /\ readCache \in [name : Files \cup {None}, file : FileType]
    /\ stored \in [Files -> FileType]
    /\ delay \in BOOLEAN /\ unsaved \in BOOLEAN

CountsOK == ops \in 0 .. MaxOps /\ faults \in 0 .. MaxFaults /\ resets \in 0 .. MaxResets

(***************************************************************************)
(* The order of the requests.                                              *)
(***************************************************************************)
\* what request a is, when b comes after it: only the last request is waited for,
\* and a page is preceded by pages of its own transfer
Ahead(a, b) == ~ a.fresh /\ (b.page >= 0 => a.page >= 0 /\ a.file = b.file)

Ordered(w, c) ==
    /\ \A i, j \in 1 .. Len(w) : i < j => Ahead(w[i], w[j])
    /\ c # NoRequest => \A i \in 1 .. Len(w) : Ahead(c, w[i])

\* the requests on their way, by the faults they have cost
Awaited(m) == m.fresh /\ m.whole

OrderOK ==
    /\ Ordered(wire, curRequest)
    /\ SizeOf(wire, curRequest) <= faults + 1
    /\ (\A m \in Queue : ~ Awaited(m)) => SizeOf(wire, curRequest) <= faults

\* the host waits for the reply to a page
Paging == Waiting /\ host.cmd = "put" /\ host.page >= 0

\* what the host waits for is the last of the queue, and while it sends pages the
\* queue holds nothing but attempts for the current page
MatchOK ==
    /\ ~ Waiting => reply = None /\ \A m \in Queue : ~ m.fresh
    /\ reply # None => Queue = {}
    /\ \A m \in Queue : m.fresh => m.cmd = host.cmd /\ m.page = host.page
    /\ Paging => \A m \in Queue : /\ m.cmd = "put" /\ m.page = host.page
                                  /\ m.file = host.file /\ m.crc = host.text
    /\ Waiting /\ host.cmd = "put" /\ host.page = SOF /\ reply # None => prevPage = SOF
    /\ host.st = "ok" => Queue = {}

(***************************************************************************)
(* The transfer that the device has begun.                                 *)
(***************************************************************************)
\* the text that the host sends is in flash, and the handle released
Done == stored[host.file] = Whole(host.text) /\ ~ Opened

Fresh == readCache.name # host.file

\* the handle will store what the transfer writes, or the ghost says otherwise
Storing == handle.entry = "own" \/ (handle.entry = "lost" /\ unsaved)

DataOK ==
    /\ prevPage >= 0 /\ Opened /\ ~ delay =>
          /\ handle.data = sum
          /\ \A m \in Queue : m.page >= 0 => m.file = handle.file
          /\ Paging => host.file = handle.file /\ Storing
    /\ prevPage >= 0 /\ Paging /\ ~ unsaved =>
          /\ Fresh
          /\ prevPage + 1 = Len(host.text) => Done
    /\ Paging /\ reply \in {"ok", "retry_ok"} /\ host.page + 1 = Len(host.text) /\ ~ unsaved =>
          Done /\ Fresh
    /\ host.st = "ok" /\ host.cmd = "put" /\ host.text # <<>> /\ ~ unsaved => Done /\ Fresh

Inv == /\ HostOK /\ PipeOK /\ DeviceOK /\ CountsOK
       /\ OrderOK /\ MatchOK /\ DataOK /\ ValidWasSent

(***************************************************************************)
(* What can be done to the queue.                                          *)
(***************************************************************************)
LEMMA QueueSend ==
    ASSUME NEW w \in Seq(Requests), NEW c, NEW m \in Requests, NEW v, v = Append(w, m)
    PROVE  /\ v \in Seq(Requests) /\ SizeOf(v, c) = SizeOf(w, c) + 1
           /\ \A a : a \in QueueOf(v, c) <=> a \in QueueOf(w, c) \/ a = m
           /\ Ordered(w, c) /\ (\A a \in QueueOf(w, c) : Ahead(a, m)) => Ordered(v, c)
<1>1. /\ v \in Seq(Requests) /\ Len(v) = Len(w) + 1 /\ Len(w) \in Nat
      /\ \A i \in 1 .. Len(w) : v[i] = w[i]
      /\ v[Len(w) + 1] = m
    BY AppendProperties, LenProperties
<1>2. 1 .. Len(v) = (1 .. Len(w)) \cup {Len(v)}
    BY <1>1
<1>3. {v[i] : i \in 1 .. Len(v)} = {w[i] : i \in 1 .. Len(w)} \cup {m}
    BY <1>1, <1>2
<1>4. QueueOf(v, c) = QueueOf(w, c) \cup {m}
    BY <1>3 DEF QueueOf
<1>5. ASSUME Ordered(w, c), \A a \in QueueOf(w, c) : Ahead(a, m)
      PROVE  Ordered(v, c)
    <2>1. \A i \in 1 .. Len(w) : Ahead(w[i], m)
        BY <1>5 DEF QueueOf
    <2>2. c # NoRequest => Ahead(c, m)
        BY <1>5 DEF QueueOf
    <2>3. ASSUME NEW i \in 1 .. Len(v), NEW j \in 1 .. Len(v), i < j
          PROVE  Ahead(v[i], v[j])
        <3>1. i \in 1 .. Len(w) /\ v[i] = w[i]
            BY <1>1, <2>3
        <3>2. CASE j \in 1 .. Len(w)
            BY <1>1, <1>5, <2>3, <3>1, <3>2 DEF Ordered
        <3>3. CASE j = Len(w) + 1
            BY <1>1, <2>1, <3>1, <3>3
        <3>4. QED
            BY <1>1, <3>2, <3>3
    <2>4. ASSUME c # NoRequest, NEW i \in 1 .. Len(v)
          PROVE  Ahead(c, v[i])
        <3>1. CASE i \in 1 .. Len(w)
            BY <1>1, <1>5, <2>4, <3>1 DEF Ordered
        <3>2. CASE i = Len(w) + 1
            BY <1>1, <2>2, <2>4, <3>2
        <3>3. QED
            BY <1>1, <3>1, <3>2
    <2>5. QED
        BY <2>3, <2>4 DEF Ordered
<1>6. SizeOf(v, c) = SizeOf(w, c) + 1
    BY <1>1 DEF SizeOf
<1>7. QED
    BY <1>1, <1>4, <1>5, <1>6

\* A request whose answer nobody waits for any more is otherwise the same.
LEMMA StaleIs ==
    ASSUME NEW m \in Requests
    PROVE  /\ Stale(m) \in Requests /\ ~ Stale(m).fresh
           /\ Stale(m).cmd = m.cmd /\ Stale(m).file = m.file /\ Stale(m).page = m.page
           /\ Stale(m).crc = m.crc /\ Stale(m).whole = m.whole
           /\ Stale(m).nPages = m.nPages /\ Stale(m).data = m.data
<1>1. Stale(m) \in Requests
    BY DEF Stale, Requests
<1>2. ~ Stale(m).fresh /\ Stale(m).whole = m.whole
    BY DEF Stale, Requests
<1>3. /\ Stale(m).cmd = m.cmd /\ Stale(m).file = m.file /\ Stale(m).page = m.page
      /\ Stale(m).crc = m.crc /\ Stale(m).nPages = m.nPages /\ Stale(m).data = m.data
    BY DEF Stale, Requests
<1>4. QED
    BY <1>1, <1>2, <1>3

\* No request is none, whoever waits.
LEMMA NoRequestIs ==
    /\ NoRequest \notin Requests /\ Stale(NoRequest) = NoRequest
    /\ NoRequest.page = SOF /\ ~ NoRequest.fresh
<1>1. NoRequest.cmd \notin Commands \cup {"put"}
    BY DEF NoRequest, Commands, None
<1>2. NoRequest \notin Requests
    BY <1>1 DEF Requests
<1>3. Stale(NoRequest) = NoRequest
    <2>1. /\ NoRequest \in [cmd : {None}, file : {None}, page : {SOF}, nPages : {0},
                             data : {None}, crc : {<<>>}, whole : BOOLEAN, fresh : BOOLEAN]
          /\ NoRequest.fresh = FALSE
        BY DEF NoRequest
    <2>2. ASSUME NEW r \in [cmd : {None}, file : {None}, page : {SOF}, nPages : {0},
                            data : {None}, crc : {<<>>}, whole : BOOLEAN, fresh : BOOLEAN],
                 r.fresh = FALSE
          PROVE  [r EXCEPT !.fresh = FALSE] = r
        BY <2>2
    <2>3. QED
        BY <2>1, <2>2 DEF Stale
<1>4. NoRequest.page = SOF /\ ~ NoRequest.fresh
    BY DEF NoRequest
<1>5. QED
    BY <1>2, <1>3, <1>4

\* All the requests are abandoned.
LEMMA QueueStale ==
    ASSUME NEW w \in Seq(Requests), NEW c \in Requests \cup {NoRequest},
           NEW v, v = [i \in 1 .. Len(w) |-> Stale(w[i])],
           NEW d, d = Stale(c)
    PROVE  /\ v \in Seq(Requests) /\ d \in Requests \cup {NoRequest}
           /\ SizeOf(v, d) = SizeOf(w, c)
           /\ \A a \in QueueOf(v, d) : \E m \in QueueOf(w, c) : a = Stale(m)
           /\ Ordered(w, c) => Ordered(v, d)
           /\ d # NoRequest <=> c # NoRequest
<1>1. Len(w) \in Nat /\ \A i \in 1 .. Len(w) : w[i] \in Requests
    BY LenProperties, ElementOfSeq
<1>2. v \in [1 .. Len(w) -> Requests]
    BY <1>1, StaleIs
<1>3. v \in Seq(Requests) /\ Len(v) = Len(w)
    <2>1. v \in Seq(Requests)
        BY <1>1, <1>2, SeqDef
    <2>2. DOMAIN v = 1 .. Len(v) /\ DOMAIN v = 1 .. Len(w) /\ Len(v) \in Nat
        BY <1>2, <2>1, LenProperties
    <2>3. QED
        BY <1>1, <2>1, <2>2
<1>4. (d # NoRequest <=> c # NoRequest) /\ d \in Requests \cup {NoRequest}
    <2>1. CASE c = NoRequest
        BY <2>1, NoRequestIs
    <2>2. CASE c \in Requests
        BY <2>2, NoRequestIs, StaleIs
    <2>3. QED
        BY <2>1, <2>2
<1>5. \A i \in 1 .. Len(w) : v[i] = Stale(w[i])
    OBVIOUS
<1>6. QueueOf(v, d) = {Stale(m) : m \in QueueOf(w, c)}
    <2>1. {v[i] : i \in 1 .. Len(v)} = {Stale(w[i]) : i \in 1 .. Len(w)}
        BY <1>3, <1>5
    <2>2. QED
        BY <1>4, <2>1 DEF QueueOf
<1>7. ASSUME NEW a \in Requests, NEW b \in Requests, Ahead(a, b)
      PROVE  Ahead(Stale(a), Stale(b))
    BY <1>7, StaleIs DEF Ahead
<1>8. ASSUME Ordered(w, c) PROVE Ordered(v, d)
    <2>1. \A i, j \in 1 .. Len(w) : i < j => Ahead(Stale(w[i]), Stale(w[j]))
        BY <1>1, <1>7, <1>8 DEF Ordered
    <2>2. c # NoRequest => \A i \in 1 .. Len(w) : Ahead(Stale(c), Stale(w[i]))
        BY <1>1, <1>7, <1>8 DEF Ordered
    <2>3. QED
        BY <1>3, <1>4, <1>5, <2>1, <2>2 DEF Ordered
<1>9. SizeOf(v, d) = SizeOf(w, c)
    BY <1>3, <1>4 DEF SizeOf
<1>10. QED
    BY <1>3, <1>4, <1>6, <1>8, <1>9

\* the first of the wire is taken off it
LEMMA QueuePop ==
    ASSUME NEW w \in Seq(Requests), w # <<>>, NEW c, NEW v, v = Tail(w), Ordered(w, c)
    PROVE  /\ v \in Seq(Requests) /\ SizeOf(v, c) = SizeOf(w, c) - 1
           /\ QueueOf(v, c) \subseteq QueueOf(w, c) /\ Ordered(v, c)
           /\ Head(w) \in QueueOf(w, c) /\ Head(w) \in Requests
           /\ \A i \in 1 .. Len(v) : Ahead(Head(w), v[i])
           /\ Head(w).fresh => v = <<>>
<1>1. /\ v \in Seq(Requests) /\ Len(v) = Len(w) - 1 /\ Len(w) \in Nat /\ Len(v) \in Nat
      /\ Head(w) \in Requests /\ Head(w) = w[1] /\ Len(w) >= 1
      /\ \A i \in 1 .. Len(v) : v[i] = w[i + 1]
    BY HeadTailProperties, LenProperties, EmptySeq
<1>2. \A i \in 1 .. Len(v) : i + 1 \in 1 .. Len(w) /\ i \in Int
    BY <1>1
<1>3. QueueOf(v, c) \subseteq QueueOf(w, c)
    BY <1>1, <1>2 DEF QueueOf
<1>4. Ordered(v, c)
    <2>1. \A i, j \in 1 .. Len(v) : i < j => Ahead(v[i], v[j])
        <3> SUFFICES ASSUME NEW i \in 1 .. Len(v), NEW j \in 1 .. Len(v), i < j
                     PROVE  Ahead(v[i], v[j])
            OBVIOUS
        <3>1. i + 1 \in 1 .. Len(w) /\ j + 1 \in 1 .. Len(w) /\ i + 1 < j + 1
            BY <1>1
        <3>2. Ahead(w[i + 1], w[j + 1])
            BY <3>1 DEF Ordered
        <3>3. QED
            BY <1>1, <3>2
    <2>2. c # NoRequest => \A i \in 1 .. Len(v) : Ahead(c, v[i])
        <3> SUFFICES ASSUME c # NoRequest, NEW i \in 1 .. Len(v)
                     PROVE  Ahead(c, v[i])
            OBVIOUS
        <3>1. Ahead(c, w[i + 1])
            BY <1>2 DEF Ordered
        <3>2. QED
            BY <1>1, <3>1
    <2>3. QED
        BY <2>1, <2>2 DEF Ordered
<1>5. \A i \in 1 .. Len(v) : Ahead(Head(w), v[i])
    <2> SUFFICES ASSUME NEW i \in 1 .. Len(v) PROVE Ahead(Head(w), v[i])
        OBVIOUS
    <2>1. 1 \in 1 .. Len(w) /\ 1 < i + 1
        BY <1>1
    <2>2. Ahead(w[1], w[i + 1])
        BY <1>2, <2>1 DEF Ordered
    <2>3. QED
        BY <1>1, <2>2
<1>6. Head(w) \in QueueOf(w, c)
    <2>1. 1 \in 1 .. Len(w)
        BY <1>1
    <2>2. QED
        BY <1>1, <2>1 DEF QueueOf
<1>7. ASSUME Head(w).fresh PROVE v = <<>>
    <2>1. SUFFICES ASSUME v # <<>> PROVE FALSE
        OBVIOUS
    <2>2. 1 \in 1 .. Len(v)
        BY <1>1, <2>1, EmptySeq
    <2>3. ~ Head(w).fresh
        BY <1>5, <2>2 DEF Ahead
    <2>4. QED
        BY <1>7, <2>3
<1>8. SizeOf(v, c) = SizeOf(w, c) - 1
    BY <1>1 DEF SizeOf
<1>9. QED
    BY <1>1, <1>3, <1>4, <1>5, <1>6, <1>7, <1>8

\* a request waits for its data, or is dropped
LEMMA QueueTake ==
    ASSUME NEW w \in Seq(Requests), w # <<>>, NEW v, v = Tail(w), Ordered(w, NoRequest),
           NEW d, d = Head(w)
    PROVE  /\ QueueOf(v, d) \subseteq QueueOf(w, NoRequest) /\ Ordered(v, d)
           /\ QueueOf(w, NoRequest) \subseteq QueueOf(v, d)
           /\ SizeOf(v, d) = SizeOf(w, NoRequest) /\ d # NoRequest
<1>1. /\ v \in Seq(Requests) /\ Ordered(v, NoRequest) /\ d \in Requests
      /\ \A i \in 1 .. Len(v) : Ahead(d, v[i])
    BY QueuePop
<1>2. /\ Len(v) = Len(w) - 1 /\ Len(w) \in Nat /\ Len(v) \in Nat /\ d = w[1] /\ Len(w) >= 1
      /\ \A i \in 1 .. Len(v) : v[i] = w[i + 1]
    BY HeadTailProperties, LenProperties, EmptySeq
<1>3. d # NoRequest
    BY <1>1, NoRequestIs
<1>4. Ordered(v, d)
    BY <1>1 DEF Ordered
<1>5. {w[i] : i \in 1 .. Len(w)} = {v[i] : i \in 1 .. Len(v)} \cup {d}
    <2>1. \A i \in 1 .. Len(w) : i = 1 \/ (i - 1 \in 1 .. Len(v) /\ (i - 1) + 1 = i)
        BY <1>2
    <2>2. \A i \in 1 .. Len(w) : w[i] = d \/ \E j \in 1 .. Len(v) : w[i] = v[j]
        <3> SUFFICES ASSUME NEW i \in 1 .. Len(w), i # 1 PROVE \E j \in 1 .. Len(v) : w[i] = v[j]
            BY <1>2
        <3>1. i - 1 \in 1 .. Len(v) /\ (i - 1) + 1 = i
            BY <2>1
        <3>2. v[i - 1] = w[i]
            BY <1>2, <3>1
        <3>3. QED
            BY <3>1, <3>2
    <2>3. \A i \in 1 .. Len(v) : i + 1 \in 1 .. Len(w) /\ v[i] = w[i + 1]
        BY <1>2
    <2>4. 1 \in 1 .. Len(w)
        BY <1>2
    <2>5. w[1] = d
        BY <1>2
    <2>6. {v[i] : i \in 1 .. Len(v)} \subseteq {w[i] : i \in 1 .. Len(w)}
        BY <2>3
    <2>7. QED
        BY <2>2, <2>4, <2>5, <2>6
<1>6. QueueOf(v, d) = QueueOf(w, NoRequest)
    BY <1>3, <1>5 DEF QueueOf
<1>7. SizeOf(v, d) = SizeOf(w, NoRequest)
    BY <1>2, <1>3 DEF SizeOf
<1>8. QED
    BY <1>3, <1>4, <1>6, <1>7

\* The request being received is dropped.
LEMMA QueueDrop ==
    ASSUME NEW w \in Seq(Requests), NEW c, c # NoRequest, Ordered(w, c)
    PROVE  /\ QueueOf(w, NoRequest) \subseteq QueueOf(w, c) /\ Ordered(w, NoRequest)
           /\ SizeOf(w, NoRequest) = SizeOf(w, c) - 1 /\ c \in QueueOf(w, c)
           /\ \A i \in 1 .. Len(w) : Ahead(c, w[i])
           /\ w # <<>> => ~ c.fresh
<1>1. \A i \in 1 .. Len(w) : Ahead(c, w[i])
    BY DEF Ordered
<1>2. w # <<>> => ~ c.fresh
    <2>1. SUFFICES ASSUME w # <<>> PROVE ~ c.fresh
        OBVIOUS
    <2>2. 1 \in 1 .. Len(w)
        BY <2>1, EmptySeq
    <2>3. QED
        BY <1>1, <2>2 DEF Ahead
<1>3. QueueOf(w, NoRequest) \subseteq QueueOf(w, c) /\ c \in QueueOf(w, c)
    BY DEF QueueOf
<1>4. Ordered(w, NoRequest)
    BY DEF Ordered
<1>5. SizeOf(w, NoRequest) = SizeOf(w, c) - 1
    BY LenProperties DEF SizeOf
<1>6. QED
    BY <1>1, <1>2, <1>3, <1>4, <1>5

\* The first words of a sequence.
LEMMA Prefix ==
    ASSUME NEW S, NEW w, NEW n \in Nat, \A i \in 1 .. n : w[i] \in S
    PROVE  /\ SubSeq(w, 1, n) \in Seq(S) /\ Len(SubSeq(w, 1, n)) = n
           /\ \A i \in 1 .. n : SubSeq(w, 1, n)[i] = w[i]
OBVIOUS

\* the last request is lost
LEMMA QueueFront ==
    ASSUME NEW w \in Seq(Requests), w # <<>>, NEW c, NEW v, v = Front(w), Ordered(w, c)
    PROVE  /\ v \in Seq(Requests) /\ SizeOf(v, c) = SizeOf(w, c) - 1
           /\ QueueOf(v, c) \subseteq QueueOf(w, c) /\ Ordered(v, c)
<1>1. Len(w) \in Nat /\ Len(w) >= 1 /\ \A i \in 1 .. Len(w) : w[i] \in Requests
    BY LenProperties, EmptySeq, ElementOfSeq
<1>2. v = SubSeq(w, 1, Len(w) - 1)
    BY DEF Front
<1>3. \A i \in 1 .. (Len(w) - 1) : w[i] \in Requests
    BY <1>1
<1>4. /\ v \in Seq(Requests) /\ Len(v) = Len(w) - 1
      /\ \A i \in 1 .. Len(v) : v[i] = w[i]
    <2> DEFINE n == Len(w) - 1
    <2>1. n \in Nat /\ v = SubSeq(w, 1, n) /\ \A i \in 1 .. n : w[i] \in Requests
        BY <1>1, <1>2, <1>3
    <2> HIDE DEF n
    <2>2. v \in Seq(Requests) /\ Len(v) = n /\ \A i \in 1 .. n : v[i] = w[i]
        BY <2>1, Prefix
    <2>3. QED
        BY <2>2 DEF n
<1>5. \A i \in 1 .. Len(v) : i \in 1 .. Len(w)
    BY <1>1, <1>4
<1>6. QueueOf(v, c) \subseteq QueueOf(w, c)
    BY <1>4, <1>5 DEF QueueOf
<1>7. Ordered(v, c)
    BY <1>4, <1>5 DEF Ordered
<1>8. SizeOf(v, c) = SizeOf(w, c) - 1
    BY <1>1, <1>4 DEF SizeOf
<1>9. QED
    BY <1>4, <1>6, <1>7, <1>8

\* the last request is cut off after its header
Cut(m) == [m EXCEPT !.whole = FALSE]

\* A request whose data was cut short is otherwise the same.
LEMMA CutIs ==
    ASSUME NEW m \in Requests
    PROVE  /\ Cut(m) \in Requests /\ ~ Cut(m).whole /\ Cut(m).fresh = m.fresh
           /\ Cut(m).cmd = m.cmd /\ Cut(m).file = m.file /\ Cut(m).page = m.page
           /\ Cut(m).crc = m.crc /\ Cut(m).nPages = m.nPages /\ Cut(m).data = m.data
<1>1. Cut(m) \in Requests
    BY DEF Cut, Requests
<1>2. ~ Cut(m).whole /\ Cut(m).fresh = m.fresh
    BY DEF Cut, Requests
<1>3. /\ Cut(m).cmd = m.cmd /\ Cut(m).file = m.file /\ Cut(m).page = m.page
      /\ Cut(m).crc = m.crc /\ Cut(m).nPages = m.nPages /\ Cut(m).data = m.data
    BY DEF Cut, Requests
<1>4. QED
    BY <1>1, <1>2, <1>3

\* The data of the last request is cut short.
LEMMA QueueCut ==
    ASSUME NEW w \in Seq(Requests), w # <<>>, NEW c, Ordered(w, c),
           NEW v \in Seq(Requests), Len(v) = Len(w),
           \A j \in 1 .. Len(w) : v[j] = IF j = Len(w) THEN Cut(w[Len(w)]) ELSE w[j]
    PROVE  /\ SizeOf(v, c) = SizeOf(w, c) /\ Ordered(v, c)
           /\ \A m \in QueueOf(v, c) : \E n \in QueueOf(w, c) : m = n \/ (n \in Requests /\ m = Cut(n))
<1>1. Len(w) \in Nat /\ Len(w) \in 1 .. Len(w) /\ \A i \in 1 .. Len(w) : w[i] \in Requests
    BY LenProperties, EmptySeq, ElementOfSeq
<1>3. /\ v \in Seq(Requests) /\ Len(v) = Len(w)
      /\ \A j \in 1 .. Len(w) : v[j] = IF j = Len(w) THEN Cut(w[Len(w)]) ELSE w[j]
    OBVIOUS
<1>4. ASSUME NEW a, NEW j \in 1 .. Len(w), Ahead(a, w[j])
      PROVE  Ahead(a, v[j])
    <2>1. v[j] = w[j] \/ v[j] = Cut(w[j])
        BY <1>3
    <2> w[j] \in Requests
        BY <1>1
    <2>2. v[j].page = w[j].page /\ v[j].file = w[j].file
        BY <2>1, CutIs
    <2>3. QED
        BY <1>4, <2>2 DEF Ahead
<1>5. Ordered(v, c)
    <2>1. ASSUME NEW i \in 1 .. Len(w), NEW j \in 1 .. Len(w), i < j
          PROVE  Ahead(v[i], v[j])
        <3>1. Ahead(w[i], w[j])
            BY <2>1 DEF Ordered
        <3>2. i # Len(w)
            BY <1>1, <2>1
        <3>3. v[i] = w[i]
            BY <1>3, <3>2
        <3>4. QED
            BY <1>4, <3>1, <3>3
    <2>2. c # NoRequest => \A i \in 1 .. Len(w) : Ahead(c, v[i])
        BY <1>4 DEF Ordered
    <2>3. QED
        BY <1>3, <2>1, <2>2 DEF Ordered
<1>6. \A m \in QueueOf(v, c) : \E n \in QueueOf(w, c) : m = n \/ (n \in Requests /\ m = Cut(n))
    <2>1. \A j \in 1 .. Len(w) : w[j] \in QueueOf(w, c)
        BY DEF QueueOf
    <2>2. ASSUME NEW j \in 1 .. Len(w)
          PROVE  \E n \in QueueOf(w, c) : v[j] = n \/ (n \in Requests /\ v[j] = Cut(n))
        <3>1. v[j] = w[j] \/ v[j] = Cut(w[j])
            BY <1>3
        <3>2. w[j] \in QueueOf(w, c) /\ w[j] \in Requests
            BY <1>1, <2>1
        <3>3. QED
            BY <3>1, <3>2, Zenon
    <2>3. \A m \in QueueOf(v, c) : m \in QueueOf(w, c) \/ \E j \in 1 .. Len(w) : m = v[j]
        BY <1>3 DEF QueueOf
    <2>4. QED
        BY <2>2, <2>3
<1>7. SizeOf(v, c) = SizeOf(w, c)
    BY <1>3 DEF SizeOf
<1>8. QED
    BY <1>3, <1>5, <1>6, <1>7

(***************************************************************************)
(* The requests that the host makes, and what the pipe makes of them.      *)
(***************************************************************************)
LEMMA TextIs ==
    ASSUME NEW f \in Files, NEW t \in Texts[f]
    PROVE  /\ t \in AnyText /\ Len(t) \in Nat /\ (t # <<>> => Len(t) >= 1)
           /\ \A i \in 1 .. Len(t) : t[i] \in AnyPage
<1>1. t \in Seq(STRING) /\ t \in AnyText
    BY TransferAssumption DEF AnyText
<1>2. Len(t) \in Nat /\ (t # <<>> => Len(t) >= 1) /\ DOMAIN t = 1 .. Len(t)
    BY <1>1, LenProperties, EmptySeq
<1>3. \A i \in 1 .. Len(t) : t[i] \in Range(t)
    BY <1>2 DEF Range
<1>4. Range(t) \subseteq AnyPage
    BY <1>1 DEF AnyPage
<1>5. QED
    BY <1>1, <1>2, <1>3, <1>4

\* The contents of a page that nobody sent.
LEMMA PageIs == None \in AnyPage /\ Torn \in AnyPage
<1> DEFINE P == UNION {Range(t) : t \in AnyText}
<1>1. AnyPage = P \cup {Torn, None}
    BY DEF AnyPage
<1> HIDE DEF P
<1>2. QED
    BY <1>1

\* A request to put a page.
LEMMA PutIs ==
    ASSUME NEW f \in Files, NEW t \in Texts[f], NEW p \in SOF .. Len(t) - 1,
           NEW m, m = Put(f, t, p)
    PROVE  /\ Proper(m) /\ m \in Requests /\ m.fresh /\ m.whole
           /\ m.cmd = "put" /\ m.file = f /\ m.page = p /\ m.crc = t
<1>1. t \in AnyText /\ Len(t) \in Nat /\ \A i \in 1 .. Len(t) : t[i] \in AnyPage
    BY TextIs
<1>2. p \in Int /\ p >= SOF /\ p <= Len(t) - 1 /\ SOF \in Int
    BY <1>1 DEF SOF
<1> DEFINE d == IF p = SOF THEN None ELSE t[p + 1]
<1>3. d \in AnyPage
    <2>1. CASE p = SOF
        BY <2>1, PageIs
    <2>2. CASE p # SOF
        <3>1. p + 1 \in 1 .. Len(t)
            BY <1>1, <1>2, <2>2 DEF SOF
        <3>2. t[p + 1] \in AnyPage
            BY <1>1, <3>1
        <3>3. QED
            BY <2>2, <3>2
    <2>3. QED
        BY <2>1, <2>2
<1>4. m = [cmd |-> "put", file |-> f, page |-> p, nPages |-> Len(t), data |-> d, crc |-> t,
           whole |-> TRUE, fresh |-> TRUE]
    BY DEF Put
<1> HIDE DEF d
<1>5. m \in Requests
    <2>1. t \in AnyText \cup {<<>>} /\ f \in Files \cup {All, None}
        BY <1>1
    <2>2. QED
        BY <1>1, <1>2, <1>3, <1>4, <2>1 DEF Requests
<1>6. m.cmd = "put" /\ m.file = f /\ m.page = p /\ m.crc = t /\ m.nPages = Len(t)
    BY <1>4
<1>7. m.fresh /\ m.whole
    BY <1>4
<1>8. Proper(m)
    BY <1>1, <1>2, <1>5, <1>6 DEF Proper
<1>9. QED
    BY <1>5, <1>6, <1>7, <1>8

\* A request that carries no page.
LEMMA CommandIs ==
    ASSUME NEW c \in Commands, NEW f \in Files \cup {All, None}, NEW m, m = Command(c, f),
           c = "get" => f \in Files, c = "erase" => f \in Files \cup {All}
    PROVE  /\ Proper(m) /\ m \in Requests /\ m.fresh /\ m.whole
           /\ m.cmd = c /\ m.file = f /\ m.page = SOF
<1>1. m = [cmd |-> c, file |-> f, page |-> SOF, nPages |-> 0, data |-> None,
           crc |-> <<>>, whole |-> TRUE, fresh |-> TRUE]
    BY DEF Command
<1>2. None \in AnyPage /\ SOF \in Int
    BY PageIs DEF SOF
<1>3. m \in Requests
    BY <1>1, <1>2 DEF Requests
<1>4. m.cmd = c /\ m.file = f /\ m.page = SOF
    BY <1>1
<1>5. m.fresh /\ m.whole
    BY <1>1
<1>6. c # "put"
    BY DEF Commands
<1>7. Proper(m)
    BY <1>3, <1>4, <1>6 DEF Proper
<1>8. QED
    BY <1>3, <1>4, <1>5, <1>7

\* a request that differs only in what the pipe changes
LEMMA LikeProper ==
    ASSUME NEW m, Proper(m), NEW n \in Requests,
           n.cmd = m.cmd, n.file = m.file, n.page = m.page, n.crc = m.crc, n.nPages = m.nPages
    PROVE  Proper(n)
BY DEF Proper

\* What a request that the host can send looks like.
LEMMA ProperIs ==
    ASSUME NEW m, Proper(m)
    PROVE  /\ m \in Requests /\ m.page \in Int /\ m.page >= SOF /\ m.fresh \in BOOLEAN
           /\ m.page >= 0 => m.cmd = "put"
           /\ m.cmd = "put" => m.file \in Files /\ m.crc \in Texts[m.file]
BY DEF Proper, Requests, SOF

\* the queue is a set of requests
LEMMA QueueIs ==
    ASSUME PipeOK
    PROVE  /\ wire \in Seq(Requests) /\ curRequest \in Requests \cup {NoRequest}
           /\ Queue = QueueOf(wire, curRequest) /\ \A m \in Queue : m \in Requests
           /\ Len(wire) \in Nat /\ SizeOf(wire, curRequest) \in Nat
           /\ Queue = {} => wire = <<>> /\ curRequest = NoRequest
           /\ SizeOf(wire, curRequest) = 0 <=> Queue = {}
           /\ Pending => curRequest \in Queue
           /\ wire # <<>> => Head(wire) \in Queue
<1>1. wire \in Seq(Requests) /\ \A m \in Queue : Proper(m)
    BY DEF PipeOK
<1>2. Queue = QueueOf(wire, curRequest)
    BY DEF Queue
<1>3. \A m \in Queue : m \in Requests
    BY <1>1 DEF Proper
<1>4. Pending => curRequest \in Queue
    BY <1>2 DEF Pending, QueueOf
<1>5. Len(wire) \in Nat /\ (wire # <<>> <=> Len(wire) >= 1)
    BY <1>1, LenProperties, EmptySeq
<1>6. wire # <<>> => Head(wire) \in Queue
    <2> SUFFICES ASSUME wire # <<>> PROVE Head(wire) \in Queue
        OBVIOUS
    <2>1. Head(wire) = wire[1] /\ 1 \in 1 .. Len(wire)
        BY <1>1, <1>5, HeadTailProperties
    <2>2. QED
        BY <1>2, <2>1 DEF QueueOf
<1>7. curRequest \in Requests \cup {NoRequest}
    BY <1>3, <1>4 DEF Pending
<1>8. Queue = {} => wire = <<>> /\ curRequest = NoRequest
    BY <1>4, <1>6 DEF Pending
<1>9. wire = <<>> /\ curRequest = NoRequest => Queue = {}
    BY <1>2, <1>5 DEF QueueOf
<1>10. SizeOf(wire, curRequest) \in Nat
    BY <1>5 DEF SizeOf
<1>11. SizeOf(wire, curRequest) = 0 <=> Queue = {}
    BY <1>5, <1>8, <1>9 DEF SizeOf
<1>12. QED
    BY <1>1, <1>2, <1>3, <1>4, <1>5, <1>6, <1>7, <1>8, <1>10, <1>11

(***************************************************************************)
(* The host's steps.                                                       *)
(***************************************************************************)
LEMMA DeviceKept ==
    ASSUME DeviceOK, ValidWasSent, UNCHANGED <<prevPage, prevSum, sum, flash>>
    PROVE  DeviceOK' /\ ValidWasSent'
<1>1. UNCHANGED <<prevPage, prevSum, sum, handle, readCache, stored, delay, unsaved>>
    BY DEF flash
<1>2. DeviceOK'
    BY <1>1 DEF DeviceOK
<1>3. ValidWasSent'
    BY <1>1 DEF ValidWasSent, Valid
<1>4. QED
    BY <1>2, <1>3

\* a request is sent, after requests that nobody waits for any more
LEMMA Sends ==
    ASSUME NEW w \in Seq(Requests), NEW c \in Requests \cup {NoRequest},
           NEW m \in Requests, Proper(m), m.fresh, m.whole,
           Ordered(w, c), SizeOf(w, c) <= faults',
           \A a \in QueueOf(w, c) : Proper(a) /\ Ahead(a, m),
           c # NoRequest => ~ c.whole, reply' = None, faults \in Nat, faults' \in Nat,
           wire' = Append(w, m), curRequest' = c
    PROVE  /\ PipeOK' /\ OrderOK' /\ Queue' = QueueOf(w, c) \cup {m}
           /\ \A a \in QueueOf(w, c) : ~ a.fresh
<1>1. /\ wire' \in Seq(Requests) /\ SizeOf(wire', c) = SizeOf(w, c) + 1
      /\ QueueOf(wire', c) = QueueOf(w, c) \cup {m}
      /\ Ordered(wire', c)
    <2>1. PICK v : v = Append(w, m)
        OBVIOUS
    <2>2. \A a \in QueueOf(w, c) : Ahead(a, m)
        OBVIOUS
    <2>3. /\ v \in Seq(Requests) /\ SizeOf(v, c) = SizeOf(w, c) + 1
          /\ \A a : a \in QueueOf(v, c) <=> a \in QueueOf(w, c) \/ a = m
          /\ Ordered(w, c) /\ (\A a \in QueueOf(w, c) : Ahead(a, m)) => Ordered(v, c)
        BY <2>1, QueueSend
    <2>4. QED
        BY <2>1, <2>2, <2>3
<1>2. Queue' = QueueOf(wire', c)
    BY DEF Queue
<1>3. PipeOK'
    BY <1>1, <1>2 DEF PipeOK, Pending
<1>4. SizeOf(w, c) \in Nat
    BY LenProperties DEF SizeOf
<1>5. m \in Queue' /\ Awaited(m)
    BY <1>1, <1>2 DEF Awaited
<1>6. SizeOf(wire', curRequest') <= faults' + 1
    BY <1>1, <1>4
<1>7. OrderOK'
    BY <1>1, <1>5, <1>6 DEF OrderOK
<1>8. \A a \in QueueOf(w, c) : ~ a.fresh
    BY DEF Ahead
<1>9. QED
    BY <1>1, <1>2, <1>3, <1>7, <1>8

\* The first request of an operation.
LEMMA FirstRequest ==
    ASSUME Inv, ~ Waiting, NEW m, Proper(m), m.fresh, m.whole, m.page = SOF,
           wire' = Append(wire, m), HostOK', CountsOK', faults' = faults,
           host'.st = "sent", host'.cmd = m.cmd, host'.page = SOF,
           UNCHANGED <<reply, device, flash>>
    PROVE  Inv'
<1>1. /\ PipeOK /\ DeviceOK /\ ValidWasSent /\ OrderOK /\ MatchOK /\ DataOK /\ CountsOK
      /\ faults \in Nat
    BY TransferAssumption DEF Inv, CountsOK
<1>2. UNCHANGED <<curRequest, prevPage, prevSum, sum, handle, readCache, stored, delay, unsaved>>
    BY DEF device, flash
<1>3. /\ wire \in Seq(Requests) /\ curRequest \in Requests \cup {NoRequest} /\ m \in Requests
      /\ Queue = QueueOf(wire, curRequest) /\ Ordered(wire, curRequest)
      /\ \A a \in Queue : Proper(a)
      /\ curRequest # NoRequest => ~ curRequest.whole
    BY <1>1, QueueIs DEF PipeOK, OrderOK, Pending, Proper
<1>4. \A a \in Queue : ~ a.fresh
    BY <1>1 DEF MatchOK
<1>5. reply = None /\ reply' = None
    BY <1>1 DEF MatchOK
<1>6. SizeOf(wire, curRequest) <= faults
    BY <1>1, <1>4 DEF OrderOK, Awaited
<1>7. \A a \in Queue : Ahead(a, m)
    BY <1>4 DEF Ahead, SOF
<1>8. PipeOK' /\ OrderOK' /\ Queue' = Queue \cup {m}
    BY <1>1, <1>2, <1>3, <1>5, <1>6, <1>7, Sends
<1>9. Waiting' /\ ~ Paging'
    BY DEF Waiting, Paging, SOF
<1>10. MatchOK'
    BY <1>4, <1>5, <1>8, <1>9 DEF MatchOK, Waiting
<1>11. DataOK'
    <2>1. \A a \in Queue' : a.page >= 0 => a \in Queue
        BY <1>8 DEF SOF
    <2>2. ~ (host.st = "ok")'
        OBVIOUS
    <2>3. (prevPage >= 0 /\ Opened /\ ~ delay)' => prevPage >= 0 /\ Opened /\ ~ delay
        BY <1>2 DEF Opened
    <2>4. QED
        BY <1>1, <1>2, <1>9, <2>1, <2>2, <2>3 DEF DataOK
<1>12. QED
    BY <1>1, <1>2, <1>8, <1>10, <1>11, DeviceKept DEF Inv, flash

\* The host starts an operation.
LEMMA StartStep ==
    ASSUME Inv, Start \/ StartAgain
    PROVE  Inv'
<1>1. HostOK /\ CountsOK
    BY DEF Inv
<1>2. ASSUME NEW f \in Files, NEW t \in Texts[f], StartPut(f, t)
      PROVE  Inv'
    <2>1. SOF \in SOF .. Len(t) - 1 /\ t \in AnyText
        BY TextIs DEF SOF
    <2>2. PICK m : m = Put(f, t, SOF)
        OBVIOUS
    <2>3. Proper(m) /\ m.fresh /\ m.whole /\ m.cmd = "put" /\ m.page = SOF
        BY <2>1, <2>2, PutIs
    <2>4. host' \in HostType /\ host'.tries \in 0 .. LastTry
        BY <1>2, <2>1, TransferAssumption DEF StartPut, HostType, SOF
    <2>5. host'.cmd = "put" /\ host'.file = f /\ host'.text = t /\ host'.page = SOF /\ host'.st = "sent"
        BY <1>2 DEF StartPut
    <2>6. HostOK'
        BY <2>1, <2>4, <2>5 DEF HostOK
    <2>7. CountsOK' /\ faults' = faults
        BY <1>1, <1>2, TransferAssumption DEF StartPut, CountsOK
    <2>8. QED
        BY <1>2, <2>2, <2>3, <2>5, <2>6, <2>7, FirstRequest DEF StartPut, Send
<1>3. ASSUME NEW c \in Commands, NEW f \in Files \cup {All, None}, StartCommand(c, f),
             c = "get" => f \in Files, c = "erase" => f \in Files \cup {All}
      PROVE  Inv'
    <2>1. PICK m : m = Command(c, f)
        OBVIOUS
    <2>2. Proper(m) /\ m.fresh /\ m.whole /\ m.cmd = c /\ m.page = SOF
        BY <1>3, <2>1, CommandIs
    <2>3. host' = [st |-> "sent", cmd |-> c, file |-> f, text |-> <<>>, page |-> SOF, tries |-> 0]
        BY <1>3 DEF StartCommand, Idle
    <2>4. host' \in HostType /\ host'.tries \in 0 .. LastTry
        BY <2>3, TransferAssumption DEF HostType, SOF
    <2>5. host'.cmd = c /\ host'.page = SOF /\ host'.st = "sent" /\ c # "put"
        BY <2>3 DEF Commands
    <2>6. HostOK'
        BY <2>4, <2>5 DEF HostOK
    <2>7. CountsOK' /\ faults' = faults
        BY <1>1, <1>3, TransferAssumption DEF StartCommand, CountsOK
    <2>8. QED
        BY <1>3, <2>1, <2>2, <2>5, <2>6, <2>7, FirstRequest DEF StartCommand, Send
<1>4. ASSUME StartAgain
      PROVE  Inv'
    <2>1. host.cmd = "put" /\ host.file \in Files /\ host.text \in Texts[host.file]
        BY <1>1, <1>4 DEF StartAgain, HostOK
    <2>2. SOF \in SOF .. Len(host.text) - 1 /\ host.text \in AnyText
        BY <2>1, TextIs DEF SOF
    <2>3. PICK m : m = Put(host.file, host.text, SOF)
        OBVIOUS
    <2>4. Proper(m) /\ m.fresh /\ m.whole /\ m.cmd = "put" /\ m.page = SOF
        BY <2>1, <2>2, <2>3, PutIs
    <2>5. host' = [host EXCEPT !.st = "sent", !.page = SOF, !.tries = 0] /\ ~ Waiting
        BY <1>4 DEF StartAgain, Waiting
    <2>6. host' \in HostType /\ host'.tries \in 0 .. LastTry
        <3>1. host \in HostType /\ SOF \in Int /\ 0 \in 0 .. LastTry
            BY <1>1, TransferAssumption DEF HostOK, SOF
        <3>2. host' \in HostType /\ host'.tries = 0
            BY <2>5, <3>1 DEF HostType
        <3>3. QED
            BY <3>1, <3>2
    <2>7. /\ host'.cmd = "put" /\ host'.file = host.file /\ host'.text = host.text
          /\ host'.page = SOF /\ host'.st = "sent"
        BY <1>1, <2>1, <2>5 DEF HostOK, HostType
    <2>8. HostOK'
        BY <2>1, <2>2, <2>6, <2>7 DEF HostOK
    <2>9. CountsOK' /\ faults' = faults
        BY <1>1, <1>4 DEF StartAgain, CountsOK, counts
    <2>10. QED
        BY <1>4, <2>3, <2>4, <2>5, <2>7, <2>8, <2>9, FirstRequest DEF StartAgain, Send
<1>5. QED
    <2>1. CASE StartAgain
        BY <1>4, <2>1
    <2>2. CASE \E f \in Files : \E t \in Texts[f] : StartPut(f, t)
        BY <1>2, <2>2
    <2>3. CASE \E f \in Files : \E c \in {"get", "erase"} : StartCommand(c, f)
        <3>1. PICK f \in Files, c \in {"get", "erase"} : StartCommand(c, f)
            BY <2>3
        <3>2. c \in Commands
            BY <3>1 DEF Commands
        <3>3. QED
            BY <1>3, <3>1, <3>2
    <2>4. CASE StartCommand("erase", All)
        BY <1>3, <2>4 DEF Commands
    <2>5. CASE StartCommand("reset", None)
        BY <1>3, <2>5 DEF Commands
    <2>6. QED
        BY <2>1, <2>2, <2>3, <2>4, <2>5 DEF Start

\* what becomes of the queue when the host gives up what it waits for
GivenUp(w, c) ==
    /\ w \in Seq(Requests) /\ c \in Requests \cup {NoRequest} /\ Ordered(w, c)
    /\ SizeOf(w, c) = SizeOf(wire, curRequest)
    /\ c # NoRequest => ~ c.whole
    /\ \A a \in QueueOf(w, c) :
          /\ Proper(a) /\ ~ a.fresh
          /\ \E b \in Queue : a.cmd = b.cmd /\ a.page = b.page /\ a.file = b.file /\ a.crc = b.crc

\* Nothing in the pipe is nothing to wait for.
LEMMA EmptyGivenUp ==
    ASSUME Inv, Queue = {}
    PROVE  GivenUp(wire, curRequest)
<1>1. PipeOK /\ OrderOK
    BY DEF Inv
<1>2. QED
    BY <1>1, QueueIs DEF GivenUp, OrderOK

\* Abandoned requests are nothing to wait for.
LEMMA StaleGivenUp ==
    ASSUME Inv, NEW w, w = [i \in 1 .. Len(wire) |-> Stale(wire[i])],
           NEW c, c = Stale(curRequest)
    PROVE  GivenUp(w, c)
<1>1. PipeOK /\ OrderOK
    BY DEF Inv
<1>2. /\ wire \in Seq(Requests) /\ curRequest \in Requests \cup {NoRequest}
      /\ Queue = QueueOf(wire, curRequest) /\ \A m \in Queue : m \in Requests /\ Proper(m)
      /\ Ordered(wire, curRequest)
    BY <1>1, QueueIs DEF PipeOK, OrderOK
<1>3. /\ w \in Seq(Requests) /\ c \in Requests \cup {NoRequest}
      /\ SizeOf(w, c) = SizeOf(wire, curRequest) /\ Ordered(w, c)
      /\ \A a \in QueueOf(w, c) : \E m \in Queue : a = Stale(m)
      /\ c # NoRequest <=> curRequest # NoRequest
    BY <1>2, QueueStale
<1>4. c # NoRequest => ~ c.whole
    <2> SUFFICES ASSUME c # NoRequest PROVE ~ c.whole
        OBVIOUS
    <2>1. Pending /\ curRequest \in Requests /\ ~ curRequest.whole
        BY <1>1, <1>2, <1>3 DEF Pending, PipeOK
    <2>2. QED
        BY <2>1, StaleIs
<1>5. ASSUME NEW a \in QueueOf(w, c)
      PROVE  /\ Proper(a) /\ ~ a.fresh
             /\ \E b \in Queue : a.cmd = b.cmd /\ a.page = b.page /\ a.file = b.file /\ a.crc = b.crc
    <2>1. PICK m \in Queue : a = Stale(m)
        BY <1>3
    <2>2. m \in Requests /\ Proper(m)
        BY <1>2
    <2>3. /\ a \in Requests /\ ~ a.fresh /\ a.cmd = m.cmd /\ a.file = m.file /\ a.page = m.page
          /\ a.crc = m.crc /\ a.nPages = m.nPages
        BY <2>1, <2>2, StaleIs
    <2>4. Proper(a)
        BY <2>2, <2>3, LikeProper
    <2>5. QED
        BY <2>3, <2>4
<1>6. QED
    BY <1>3, <1>4, <1>5 DEF GivenUp

\* the host turns away from what it has sent
LEMMA TurnsAway ==
    ASSUME Inv, NEW w, NEW c, GivenUp(w, c), SizeOf(w, c) <= faults',
           wire' = w, curRequest' = c, reply' = None, HostOK', CountsOK',
           host'.st \notin {"sent", "ok"}, UNCHANGED <<prevPage, prevSum, sum, flash>>
    PROVE  Inv'
<1>1. /\ PipeOK /\ DeviceOK /\ ValidWasSent /\ MatchOK /\ DataOK
      /\ UNCHANGED <<prevPage, prevSum, sum, handle, readCache, stored, delay, unsaved>>
      /\ faults' \in Nat
    BY TransferAssumption DEF Inv, CountsOK, flash
<1>2. Queue' = QueueOf(w, c) /\ SizeOf(w, c) \in Nat
    BY LenProperties DEF Queue, GivenUp, SizeOf
<1>3. PipeOK'
    BY <1>2 DEF PipeOK, Pending, GivenUp
<1>4. OrderOK'
    BY <1>1, <1>2 DEF OrderOK, GivenUp
<1>5. \A m \in Queue' : ~ m.fresh
    BY <1>2 DEF GivenUp
<1>6. ~ Waiting' /\ ~ Paging' /\ ~ (host.st = "ok")'
    BY DEF Waiting, Paging
<1>7. MatchOK'
    BY <1>5, <1>6 DEF MatchOK
<1>8. DataOK'
    <2>1. (prevPage >= 0 /\ Opened /\ ~ delay)' => prevPage >= 0 /\ Opened /\ ~ delay
        BY <1>1 DEF Opened
    <2>2. ASSUME prevPage >= 0, Opened, ~ delay, NEW m \in Queue', m.page >= 0
          PROVE  m.file = handle.file
        <3>1. PICK b \in Queue : m.page = b.page /\ m.file = b.file
            BY <1>2, <2>2 DEF GivenUp
        <3>2. b.file = handle.file
            BY <1>1, <2>2, <3>1 DEF DataOK
        <3>3. QED
            BY <3>1, <3>2
    <2>3. prevPage >= 0 /\ Opened /\ ~ delay => handle.data = sum
        BY <1>1 DEF DataOK
    <2>4. QED
        BY <1>1, <1>6, <2>1, <2>2, <2>3 DEF DataOK
<1>9. QED
    BY <1>1, <1>3, <1>4, <1>7, <1>8, DeviceKept DEF Inv

\* the host sends a page
LEMMA PageSent ==
    ASSUME Inv, Waiting, host.cmd = "put", NEW p \in 0 .. Len(host.text) - 1,
           host.page = p \/ Queue = {}, host.page = SOF => reply # None,
           NEW w, NEW c, GivenUp(w, c), SizeOf(w, c) <= faults',
           wire' = Append(w, Put(host.file, host.text, p)), curRequest' = c, reply' = None,
           HostOK', CountsOK', host'.st = "sent", host'.cmd = "put", host'.page = p,
           host'.file = host.file, host'.text = host.text,
           UNCHANGED <<prevPage, prevSum, sum, flash>>
    PROVE  Inv'
<1>1. /\ HostOK /\ PipeOK /\ DeviceOK /\ ValidWasSent /\ MatchOK /\ DataOK
      /\ UNCHANGED <<prevPage, prevSum, sum, handle, readCache, stored, delay, unsaved>>
      /\ faults \in Nat /\ faults' \in Nat
    BY TransferAssumption DEF Inv, CountsOK, flash
<1>2. host.file \in Files /\ host.text \in Texts[host.file] /\ host.page \in Int
    BY <1>1 DEF HostOK, HostType
<1>3. PICK m : m = Put(host.file, host.text, p)
    OBVIOUS
<1>4. p \in SOF .. Len(host.text) - 1 /\ p >= 0 /\ p # SOF
    BY <1>2, TextIs DEF SOF
<1>5. /\ m \in Requests /\ Proper(m) /\ m.fresh /\ m.whole /\ m.cmd = "put"
      /\ m.page = p /\ m.file = host.file /\ m.crc = host.text
    BY <1>2, <1>3, <1>4, PutIs
<1>6. ASSUME NEW a \in QueueOf(w, c)
      PROVE  /\ Paging /\ ~ a.fresh /\ Proper(a)
             /\ a.cmd = "put" /\ a.page = p /\ a.file = host.file /\ a.crc = host.text
    <2>1. PICK b \in Queue : a.cmd = b.cmd /\ a.page = b.page /\ a.file = b.file /\ a.crc = b.crc
        BY DEF GivenUp
    <2>2. Paging /\ host.page = p
        BY <1>4, <2>1 DEF Paging
    <2>3. b.cmd = "put" /\ b.page = p /\ b.file = host.file /\ b.crc = host.text
        BY <1>1, <2>1, <2>2 DEF MatchOK
    <2>4. QED
        BY <2>1, <2>2, <2>3 DEF GivenUp
<1>7. \A a \in QueueOf(w, c) : Proper(a) /\ Ahead(a, m)
    BY <1>4, <1>5, <1>6 DEF Ahead
<1>8. PipeOK' /\ OrderOK' /\ Queue' = QueueOf(w, c) \cup {m}
    BY <1>1, <1>3, <1>5, <1>7, Sends DEF GivenUp
<1>9. Waiting' /\ Paging' /\ ~ (host.st = "ok")'
    BY <1>4 DEF Waiting, Paging
<1>10. \A a \in Queue' : a.cmd = "put" /\ a.page = p /\ a.file = host.file /\ a.crc = host.text
    BY <1>5, <1>6, <1>8
<1>11. MatchOK'
    BY <1>4, <1>9, <1>10 DEF MatchOK
<1>12. prevPage >= 0 => Paging
    <2>1. host.page = SOF => prevPage = SOF
        BY <1>1 DEF MatchOK
    <2>2. host.page # SOF => host.page >= 0
        BY <1>1, <1>2 DEF HostOK, SOF
    <2>3. QED
        BY <2>1, <2>2 DEF Paging, SOF
<1>13. DataOK'
    <2>1. prevPage >= 0 /\ Opened /\ ~ delay =>
              handle.data = sum /\ host.file = handle.file /\ Storing
        BY <1>1, <1>12 DEF DataOK
    <2>2. prevPage >= 0 /\ ~ unsaved => Fresh /\ (prevPage + 1 = Len(host.text) => Done)
        BY <1>1, <1>12 DEF DataOK
    <2>3. (Opened' => Opened) /\ (Fresh => Fresh') /\ (Done => Done')
        BY <1>1 DEF Opened, Fresh, Done
    <2>4. ASSUME prevPage' >= 0, Opened', ~ delay'
          PROVE  /\ handle'.data = sum' /\ host'.file = handle'.file /\ Storing'
                 /\ \A a \in Queue' : a.file = handle'.file
        BY <1>1, <1>10, <2>1, <2>3, <2>4 DEF Storing
    <2>5. prevPage' >= 0 /\ ~ unsaved' => Fresh' /\ (prevPage' + 1 = Len(host'.text) => Done')
        BY <1>1, <2>2, <2>3
    <2>6. QED
        BY <1>9, <2>4, <2>5 DEF DataOK, None
<1>14. QED
    BY <1>1, <1>8, <1>11, <1>13, DeviceKept DEF Inv

\* The host retries or gives up.
LEMMA FailsStep ==
    ASSUME Inv, Waiting, NEW w, NEW c, GivenUp(w, c), SizeOf(w, c) <= faults',
           Fails(w), curRequest' = c, reply' = None, CountsOK',
           host.page = SOF => reply # None \/ ~ Retries,
           UNCHANGED <<prevPage, prevSum, sum, flash>>
    PROVE  Inv'
<1>1. HostOK /\ host \in HostType
    BY DEF Inv, HostOK
<1>2. CASE Retries
    <2>1. /\ host.cmd = "put" /\ host.page # SOF /\ host.tries < LastTry
          /\ host' = [host EXCEPT !.tries = @ + 1]
          /\ wire' = Append(w, Put(host.file, host.text, host.page))
        BY <1>2 DEF Fails, Retries
    <2>2. host.tries \in 0 .. LastTry /\ host.tries \in Nat /\ LastTry \in Nat
        BY <1>1, TransferAssumption DEF HostOK, HostType
    <2>3. host' \in HostType /\ host'.tries = host.tries + 1
        BY <1>1, <2>1, <2>2 DEF HostType
    <2>4. /\ host'.st = "sent" /\ host'.cmd = "put" /\ host'.page = host.page
          /\ host'.file = host.file /\ host'.text = host.text
        BY <1>1, <2>1 DEF HostType, Waiting
    <2>5. host'.tries \in 0 .. LastTry
        BY <2>1, <2>2, <2>3
    <2>6. HostOK'
        BY <1>1, <2>1, <2>3, <2>4, <2>5 DEF HostOK
    <2>7. host.page \in 0 .. Len(host.text) - 1
        <3>1. host.page \in SOF .. Len(host.text) - 1 /\ Len(host.text) \in Nat
            BY <1>1, <2>1, TextIs DEF HostOK
        <3>2. QED
            BY <2>1, <3>1 DEF SOF
    <2>8. QED
        BY <2>1, <2>4, <2>6, <2>7, PageSent
<1>3. CASE ~ Retries
    <2>1. host' = [host EXCEPT !.st = "failed"] /\ wire' = w
        BY <1>3 DEF Fails
    <2>2. host' \in HostType
        BY <1>1, <2>1 DEF HostType
    <2>3. /\ host'.st = "failed" /\ host'.cmd = host.cmd /\ host'.page = host.page
          /\ host'.file = host.file /\ host'.text = host.text /\ host'.tries = host.tries
        BY <1>1, <2>1 DEF HostType
    <2>4. HostOK'
        BY <1>1, <2>2, <2>3 DEF HostOK
    <2>5. QED
        BY <2>1, <2>3, <2>4, TurnsAway
<1>4. QED
    BY <1>2, <1>3

\* The device refused a request.
LEMMA RejectStep ==
    ASSUME Inv, HostRejects
    PROVE  Inv'
<1>1. /\ Waiting /\ reply # None /\ reply' = None /\ Fails(wire)
      /\ UNCHANGED <<curRequest, prevPage, prevSum, sum, flash, ops, faults, resets>>
    BY DEF HostRejects, device, counts
<1>2. Queue = {} /\ PipeOK /\ CountsOK /\ faults \in Nat
    BY <1>1, TransferAssumption DEF Inv, MatchOK, CountsOK
<1>3. GivenUp(wire, curRequest) /\ SizeOf(wire, curRequest) = 0
    BY <1>2, EmptyGivenUp, QueueIs
<1>4. CountsOK'
    BY <1>1, <1>2 DEF CountsOK
<1>5. SizeOf(wire, curRequest) <= faults'
    BY <1>1, <1>2, <1>3
<1>6. QED
    BY <1>1, <1>3, <1>4, <1>5, FailsStep

\* The host has waited too long.
LEMMA TimeoutStep ==
    ASSUME Inv, HostTimeout
    PROVE  Inv'
<1>1. PICK w : w = [i \in 1 .. Len(wire) |-> Stale(wire[i])]
    OBVIOUS
<1>2. PICK c : c = Stale(curRequest)
    OBVIOUS
<1>3. /\ Waiting /\ reply' = None /\ Fails(w) /\ curRequest' = c
      /\ ~ Starved => faults < MaxFaults
      /\ faults' = IF Starved THEN faults ELSE faults + 1
      /\ UNCHANGED <<prevPage, prevSum, sum, flash, ops, resets>>
    BY <1>1, <1>2 DEF HostTimeout
<1>4. GivenUp(w, c) /\ SizeOf(w, c) = SizeOf(wire, curRequest)
    BY <1>1, <1>2, StaleGivenUp DEF GivenUp
<1>5. PipeOK /\ OrderOK /\ CountsOK /\ faults \in 0 .. MaxFaults /\ MaxFaults \in Nat
    BY TransferAssumption DEF Inv, CountsOK
<1>6. CountsOK' /\ faults' \in Nat
    BY <1>3, <1>5 DEF CountsOK
<1>7. SizeOf(w, c) <= faults'
    <2>1. SizeOf(wire, curRequest) \in Nat
        BY <1>5, QueueIs
    <2>2. CASE Starved
        <3>1. \A m \in Queue : ~ Awaited(m)
            BY <1>5, <2>2 DEF Starved, Queue, QueueOf, Awaited, PipeOK, Pending
        <3>2. QED
            BY <1>3, <1>4, <2>2, <3>1, <1>5 DEF OrderOK
    <2>3. CASE ~ Starved
        BY <1>3, <1>4, <1>5, <2>1, <2>3 DEF OrderOK
    <2>4. QED
        BY <2>2, <2>3
<1>8. host.page = SOF => ~ Retries
    BY DEF Retries
<1>9. QED
    BY <1>3, <1>4, <1>6, <1>7, <1>8, FailsStep

\* The host program dies.
LEMMA DeathStep ==
    ASSUME Inv, HostDies
    PROVE  Inv'
<1>1. PICK w : w = [i \in 1 .. Len(wire) |-> Stale(wire[i])]
    OBVIOUS
<1>2. PICK c : c = Stale(curRequest)
    OBVIOUS
<1>3. /\ reply' = None /\ wire' = w /\ curRequest' = c /\ host' = Idle
      /\ faults < MaxFaults /\ faults' = faults + 1
      /\ UNCHANGED <<prevPage, prevSum, sum, flash, ops, resets>>
    BY <1>1, <1>2 DEF HostDies, Abandon
<1>4. GivenUp(w, c) /\ SizeOf(w, c) = SizeOf(wire, curRequest)
    BY <1>1, <1>2, StaleGivenUp DEF GivenUp
<1>5. PipeOK /\ OrderOK /\ CountsOK /\ faults \in 0 .. MaxFaults /\ MaxFaults \in Nat
    BY TransferAssumption DEF Inv, CountsOK
<1>6. CountsOK'
    BY <1>3, <1>5 DEF CountsOK
<1>7. SizeOf(w, c) <= faults'
    BY <1>3, <1>4, <1>5, QueueIs DEF OrderOK
<1>8. host'.st = "idle" /\ host'.cmd = None /\ host'.page = SOF
    BY <1>3 DEF Idle
<1>9. host' \in HostType /\ host'.tries \in 0 .. LastTry
    BY <1>3, TransferAssumption DEF Idle, HostType, SOF
<1>10. HostOK'
    BY <1>8, <1>9 DEF HostOK, None
<1>11. QED
    BY <1>3, <1>4, <1>6, <1>7, <1>8, <1>10, TurnsAway

\* The device did what the host asked.
LEMMA AcceptStep ==
    ASSUME Inv, HostAccepts
    PROVE  Inv'
<1>1. /\ Waiting /\ reply # None /\ Accepts(reply) /\ reply' = None
      /\ UNCHANGED <<curRequest, prevPage, prevSum, sum, flash, ops, faults, resets>>
    BY DEF HostAccepts, device, counts
<1>2. /\ Queue = {} /\ PipeOK /\ CountsOK /\ HostOK /\ DataOK /\ DeviceOK /\ ValidWasSent
      /\ host \in HostType /\ faults \in Nat
    BY <1>1, TransferAssumption DEF Inv, MatchOK, CountsOK, HostOK
<1>3. GivenUp(wire, curRequest) /\ SizeOf(wire, curRequest) = 0
    BY <1>2, EmptyGivenUp, QueueIs
<1>4. CountsOK' /\ SizeOf(wire, curRequest) <= faults'
    BY <1>1, <1>2, <1>3 DEF CountsOK
<1>5. host.cmd = "put" => /\ host.file \in Files /\ host.text \in Texts[host.file]
                          /\ host.page \in SOF .. Len(host.text) - 1 /\ Len(host.text) \in Nat
                          /\ (host.text # <<>> => Len(host.text) >= 1) /\ host.page \in Int
    BY <1>2, TextIs DEF HostOK, HostType
<1>6. CASE host.cmd = "put" /\ host.page + 1 < Len(host.text)
    <2>1. PICK p : p = host.page + 1
        OBVIOUS
    <2>2. /\ host' = [host EXCEPT !.page = p, !.tries = 0]
          /\ wire' = Append(wire, Put(host.file, host.text, p))
        BY <1>6, <2>1 DEF HostAccepts, Send
    <2>3. p \in 0 .. Len(host.text) - 1 /\ p \in SOF .. Len(host.text) - 1 /\ p \in Int
        BY <1>5, <1>6, <2>1 DEF SOF
    <2>4. host' \in HostType /\ host'.tries = 0 /\ host'.tries \in 0 .. LastTry
        <3>1. host \in HostType /\ p \in Int /\ 0 \in 0 .. LastTry
            BY <1>2, <2>3, TransferAssumption
        <3>2. host' \in HostType /\ host'.tries = 0
            BY <2>2, <3>1 DEF HostType
        <3>3. QED
            BY <3>1, <3>2
    <2>5. /\ host'.st = "sent" /\ host'.cmd = "put" /\ host'.page = p
          /\ host'.file = host.file /\ host'.text = host.text
        BY <1>1, <1>2, <1>6, <2>2 DEF HostType, Waiting
    <2>6. HostOK'
        BY <1>5, <1>6, <2>3, <2>4, <2>5 DEF HostOK
    <2>7. QED
        BY <1>1, <1>2, <1>3, <1>4, <1>6, <2>2, <2>3, <2>5, <2>6, PageSent
<1>7. CASE ~ (host.cmd = "put" /\ host.page + 1 < Len(host.text))
    <2>1. host' = [host EXCEPT !.st = "ok"] /\ wire' = wire
        BY <1>7 DEF HostAccepts
    <2>2. host' \in HostType
        BY <1>2, <2>1 DEF HostType
    <2>3. /\ host'.st = "ok" /\ host'.cmd = host.cmd /\ host'.page = host.page
          /\ host'.file = host.file /\ host'.text = host.text /\ host'.tries = host.tries
        BY <1>2, <2>1 DEF HostType
    <2>4. HostOK'
        BY <1>2, <2>2, <2>3 DEF HostOK
    <2>5. Queue' = Queue /\ PipeOK'
        BY <1>1, <1>2, <2>1 DEF Queue, PipeOK, Pending
    <2>6. OrderOK'
        BY <1>1, <1>2, <1>3, <2>1 DEF OrderOK, GivenUp
    <2>7. ~ Waiting' /\ ~ Paging'
        BY <2>3 DEF Waiting, Paging
    <2>8. MatchOK'
        BY <1>1, <1>2, <2>3, <2>5, <2>7 DEF MatchOK
    <2>9. host.cmd = "put" /\ host.text # <<>> /\ ~ unsaved => Done /\ Fresh
        <3> SUFFICES ASSUME host.cmd = "put", host.text # <<>>, ~ unsaved PROVE Done /\ Fresh
            OBVIOUS
        <3>1. host.page + 1 = Len(host.text) /\ host.page >= 0
            BY <1>5, <1>7 DEF SOF
        <3>2. Paging /\ reply \in {"ok", "retry_ok"}
            BY <1>1, <3>1 DEF Paging, Accepts
        <3>3. QED
            BY <1>2, <3>1, <3>2 DEF DataOK
    <2>10. DataOK'
        <3>1. UNCHANGED <<prevPage, sum, handle, stored, readCache, delay, unsaved>>
            BY <1>1 DEF flash
        <3>2. (Opened' => Opened) /\ (Fresh => Fresh') /\ (Done => Done')
            BY <2>3, <3>1 DEF Opened, Fresh, Done
        <3>3. prevPage >= 0 /\ Opened /\ ~ delay => handle.data = sum
            BY <1>2 DEF DataOK
        <3>4. QED
            BY <1>2, <2>3, <2>5, <2>7, <2>9, <3>1, <3>2, <3>3 DEF DataOK
    <2>11. QED
        BY <1>1, <1>2, <1>4, <2>4, <2>5, <2>6, <2>8, <2>10, DeviceKept DEF Inv
<1>8. QED
    BY <1>6, <1>7

(***************************************************************************)
(* Steps that only take requests or replies away.                          *)
(***************************************************************************)
LEMMA Fewer ==
    ASSUME Inv, host' = host, reply' \in {reply, None}, wire' \in Seq(Requests),
           Pending' => ~ curRequest'.whole, OrderOK', DeviceOK', CountsOK',
           \A a \in Queue' :
              /\ Proper(a)
              /\ \E b \in Queue : /\ a.cmd = b.cmd /\ a.page = b.page /\ a.file = b.file
                                  /\ a.crc = b.crc /\ (a.fresh => b.fresh),
           stored' = stored, Done => Done', host.cmd = "put" /\ Fresh => Fresh',
           unsaved' = unsaved, prevPage' = SOF \/ UNCHANGED <<prevPage, sum, handle, delay>>
    PROVE  Inv'
<1>1. HostOK /\ PipeOK /\ DeviceOK /\ ValidWasSent /\ MatchOK /\ DataOK
    BY DEF Inv
<1>2. HostOK' /\ (Waiting' <=> Waiting) /\ (Paging' <=> Paging)
    BY <1>1 DEF HostOK, Waiting, Paging
<1>3. PipeOK'
    <2>1. \A a \in Queue' : Proper(a)
        OBVIOUS
    <2>2. reply' \in {None} \cup Statuses
        BY <1>1 DEF PipeOK
    <2>3. QED
        BY <2>1, <2>2 DEF PipeOK
<1>4. ValidWasSent'
    BY <1>1 DEF ValidWasSent, Valid
<1>5. MatchOK'
    <2>1. Queue = {} => Queue' = {}
        OBVIOUS
    <2>2. ASSUME NEW m \in Queue'
          PROVE  /\ m.fresh => Waiting /\ m.cmd = host.cmd /\ m.page = host.page
                 /\ Paging => /\ m.cmd = "put" /\ m.page = host.page
                              /\ m.file = host.file /\ m.crc = host.text
        <3>1. PICK b \in Queue : /\ m.cmd = b.cmd /\ m.page = b.page /\ m.file = b.file
                                 /\ m.crc = b.crc /\ (m.fresh => b.fresh)
            OBVIOUS
        <3>2. m.fresh => Waiting /\ m.cmd = host.cmd /\ m.page = host.page
            BY <1>1, <3>1 DEF MatchOK
        <3>3. Paging => /\ m.cmd = "put" /\ m.page = host.page
                        /\ m.file = host.file /\ m.crc = host.text
            BY <1>1, <3>1 DEF MatchOK
        <3>4. QED
            BY <3>2, <3>3
    <2>3. ~ Waiting => reply' = None
        BY <1>1 DEF MatchOK
    <2>4. reply' # None => Queue' = {}
        BY <1>1, <2>1 DEF MatchOK
    <2>5. Waiting /\ host.cmd = "put" /\ host.page = SOF /\ reply' # None => prevPage' = SOF
        BY <1>1 DEF MatchOK
    <2>6. host.st = "ok" => Queue' = {}
        BY <1>1, <2>1 DEF MatchOK
    <2>7. QED
        BY <1>2, <2>2, <2>3, <2>4, <2>5, <2>6 DEF MatchOK
<1>6. DataOK'
    <2>1. ASSUME prevPage' >= 0, Opened', ~ delay'
          PROVE  /\ handle'.data = sum'
                 /\ Paging => host.file = handle'.file /\ Storing'
                 /\ \A m \in Queue' : m.page >= 0 => m.file = handle'.file
        <3>1. UNCHANGED <<prevPage, sum, handle>> /\ prevPage >= 0 /\ Opened /\ ~ delay
            BY <2>1 DEF SOF, Opened
        <3>2. /\ handle'.data = sum'
              /\ Paging => host.file = handle'.file /\ Storing'
            BY <1>1, <3>1 DEF DataOK, Storing
        <3>3. ASSUME NEW m \in Queue', m.page >= 0
              PROVE  m.file = handle'.file
            <4>1. PICK b \in Queue : m.page = b.page /\ m.file = b.file
                OBVIOUS
            <4>2. b.file = handle.file
                BY <1>1, <3>1, <3>3, <4>1 DEF DataOK
            <4>3. QED
                BY <3>1, <4>1, <4>2
        <3>4. QED
            BY <3>2, <3>3
    <2>2. ASSUME prevPage' >= 0, Paging, ~ unsaved
          PROVE  Fresh' /\ (prevPage' + 1 = Len(host.text) => Done')
        <3>1. prevPage' = prevPage
            BY <2>2 DEF SOF
        <3>2. QED
            BY <1>1, <2>2, <3>1 DEF DataOK, Paging
    <2>3. Paging /\ reply' \in {"ok", "retry_ok"} /\ host.page + 1 = Len(host.text) /\ ~ unsaved =>
             Done' /\ Fresh'
        BY <1>1 DEF DataOK, Paging, None
    <2>4. host.st = "ok" /\ host.cmd = "put" /\ host.text # <<>> /\ ~ unsaved => Done' /\ Fresh'
        BY <1>1 DEF DataOK
    <2>5. QED
        BY <1>2, <2>1, <2>2, <2>3, <2>4 DEF DataOK
<1>7. QED
    BY <1>2, <1>3, <1>4, <1>5, <1>6 DEF Inv

\* What the device keeps of the transfer is untouched.
LEMMA SameData ==
    ASSUME DeviceOK, UNCHANGED <<host, prevPage, prevSum, sum, flash>>
    PROVE  /\ DeviceOK' /\ (Done => Done') /\ (Fresh => Fresh') /\ stored' = stored
           /\ unsaved' = unsaved /\ (prevPage' = SOF \/ UNCHANGED <<prevPage, sum, handle, delay>>)
<1>1. UNCHANGED <<prevPage, prevSum, sum, handle, readCache, stored, delay, unsaved>>
    BY DEF flash
<1>2. DeviceOK'
    BY <1>1 DEF DeviceOK
<1>3. (Done => Done') /\ (Fresh => Fresh')
    BY <1>1 DEF Done, Fresh, Opened
<1>4. QED
    BY <1>1, <1>2, <1>3

\* The last request is lost.
LEMMA LoseStep ==
    ASSUME Inv, Lose
    PROVE  Inv'
<1>1. /\ wire # <<>> /\ faults < MaxFaults /\ faults' = faults + 1
      /\ UNCHANGED <<host, reply, curRequest, prevPage, prevSum, sum, flash, ops, resets>>
    BY DEF Lose, device
<1>2. /\ PipeOK /\ OrderOK /\ DeviceOK /\ CountsOK /\ faults \in 0 .. MaxFaults /\ MaxFaults \in Nat
      /\ faults \in Nat
    BY TransferAssumption DEF Inv, CountsOK
<1>3. CountsOK'
    BY <1>1, <1>2 DEF CountsOK
<1>4. /\ wire \in Seq(Requests) /\ Ordered(wire, curRequest) /\ Queue = QueueOf(wire, curRequest)
      /\ Len(wire) \in Nat /\ SizeOf(wire, curRequest) \in Nat
      /\ SizeOf(wire, curRequest) <= faults + 1
    BY <1>2, QueueIs DEF OrderOK
<1>5. /\ wire' \in Seq(Requests) /\ Ordered(wire', curRequest)
      /\ SizeOf(wire', curRequest) <= SizeOf(wire, curRequest)
      /\ \A m \in QueueOf(wire', curRequest) :
            \E n \in Queue : m = n \/ (n \in Requests /\ m = Cut(n))
    <2>1. CASE wire' = Front(wire)
        <3>1. PICK v : v = Front(wire)
            OBVIOUS
        <3>2. /\ v \in Seq(Requests) /\ SizeOf(v, curRequest) = SizeOf(wire, curRequest) - 1
              /\ QueueOf(v, curRequest) \subseteq QueueOf(wire, curRequest) /\ Ordered(v, curRequest)
            BY <1>1, <1>4, <3>1, QueueFront
        <3>3. QED
            BY <1>4, <2>1, <3>1, <3>2
    <2>2. CASE wire' = [wire EXCEPT ![Len(wire)].whole = FALSE]
        <3>1. PICK v : v = [wire EXCEPT ![Len(wire)] = Cut(wire[Len(wire)])]
            OBVIOUS
        <3>2. wire' = v
            BY <2>2, <3>1 DEF Cut
        <3>3. /\ Len(wire) \in 1 .. Len(wire) /\ wire[Len(wire)] \in Requests
              /\ Cut(wire[Len(wire)]) \in Requests
            BY <1>1, <1>4, EmptySeq, ElementOfSeq, CutIs
        <3>4. /\ v \in Seq(Requests) /\ Len(v) = Len(wire)
              /\ \A j \in 1 .. Len(wire) : v[j] = IF j = Len(wire) THEN Cut(wire[Len(wire)]) ELSE wire[j]
            BY <1>4, <3>1, <3>3, ExceptSeq
        <3>5. /\ SizeOf(v, curRequest) = SizeOf(wire, curRequest)
              /\ Ordered(v, curRequest)
              /\ \A m \in QueueOf(v, curRequest) : \E n \in QueueOf(wire, curRequest) :
                    m = n \/ (n \in Requests /\ m = Cut(n))
            BY <1>1, <1>4, <3>4, QueueCut
        <3>6. QED
            BY <1>4, <3>2, <3>4, <3>5
    <2>3. QED
        BY <2>1, <2>2 DEF Lose
<1>6. Queue' = QueueOf(wire', curRequest)
    BY <1>1 DEF Queue
<1>7. OrderOK'
    BY <1>1, <1>2, <1>4, <1>5, LenProperties DEF OrderOK, SizeOf
<1>8. \A a \in Queue' :
         /\ Proper(a)
         /\ \E b \in Queue : /\ a.cmd = b.cmd /\ a.page = b.page /\ a.file = b.file
                             /\ a.crc = b.crc /\ (a.fresh => b.fresh)
    <2> SUFFICES ASSUME NEW a \in Queue'
                 PROVE  \E b \in Queue : /\ Proper(a)
                                         /\ a.cmd = b.cmd /\ a.page = b.page /\ a.file = b.file
                                         /\ a.crc = b.crc /\ (a.fresh => b.fresh)
        OBVIOUS
    <2>1. PICK n \in Queue : a = n \/ (n \in Requests /\ a = Cut(n))
        BY <1>5, <1>6
    <2>2. Proper(n)
        BY <1>2 DEF PipeOK
    <2>3. CASE a = n
        BY <2>2, <2>3
    <2>4. CASE n \in Requests /\ a = Cut(n)
        <3>1. /\ a \in Requests /\ a.cmd = n.cmd /\ a.file = n.file /\ a.page = n.page
              /\ a.crc = n.crc /\ a.nPages = n.nPages
            BY <2>4, CutIs
        <3>2. a.fresh => n.fresh
            BY <2>4, CutIs
        <3>3. Proper(a)
            BY <2>2, <3>1, LikeProper
        <3>4. QED
            BY <3>1, <3>2, <3>3
    <2>5. QED
        BY <2>1, <2>3, <2>4
<1>9. Pending' => ~ curRequest'.whole
    BY <1>1, <1>2 DEF PipeOK, Pending
<1>10. QED
    BY <1>1, <1>2, <1>3, <1>5, <1>7, <1>8, <1>9, SameData, Fewer

\* The reply is lost.
LEMMA LoseReplyStep ==
    ASSUME Inv, LoseReply
    PROVE  Inv'
<1>1. /\ faults < MaxFaults /\ faults' = faults + 1 /\ reply' = None
      /\ UNCHANGED <<host, wire, curRequest, prevPage, prevSum, sum, flash, ops, resets>>
    BY DEF LoseReply, device
<1>2. /\ PipeOK /\ OrderOK /\ DeviceOK /\ CountsOK /\ faults \in 0 .. MaxFaults /\ MaxFaults \in Nat
    BY TransferAssumption DEF Inv, CountsOK
<1>3. CountsOK'
    BY <1>1, <1>2 DEF CountsOK
<1>4. Queue' = Queue /\ SizeOf(wire, curRequest) \in Nat
    BY <1>1, <1>2, QueueIs DEF Queue
<1>5. OrderOK'
    BY <1>1, <1>2, <1>4 DEF OrderOK
<1>6. Pending' => ~ curRequest'.whole
    BY <1>1, <1>2 DEF PipeOK, Pending
<1>7. wire' \in Seq(Requests) /\ \A a \in Queue' : Proper(a)
    BY <1>1, <1>2, <1>4 DEF PipeOK
<1>8. QED
    BY <1>1, <1>2, <1>3, <1>4, <1>5, <1>6, <1>7, SameData, Fewer

\* So long a pause that the device forgets the transfer.
LEMMA PauseStep ==
    ASSUME Inv, LongPause
    PROVE  Inv'
<1>1. /\ faults < MaxFaults /\ faults' = faults + 1 /\ prevPage' = SOF /\ prevSum' = None
      /\ UNCHANGED <<host, wire, reply, curRequest, sum, handle, readCache, stored, delay, unsaved,
                     ops, resets>>
    BY DEF LongPause, Forget, flash
<1>2. /\ PipeOK /\ OrderOK /\ DeviceOK /\ CountsOK /\ faults \in 0 .. MaxFaults /\ MaxFaults \in Nat
    BY TransferAssumption DEF Inv, CountsOK
<1>3. CountsOK'
    BY <1>1, <1>2 DEF CountsOK
<1>4. Queue' = Queue /\ SizeOf(wire, curRequest) \in Nat
    BY <1>1, <1>2, QueueIs DEF Queue
<1>5. OrderOK'
    BY <1>1, <1>2, <1>4 DEF OrderOK
<1>6. Pending' => ~ curRequest'.whole
    BY <1>1, <1>2 DEF PipeOK, Pending
<1>7. wire' \in Seq(Requests) /\ \A a \in Queue' : Proper(a)
    BY <1>1, <1>2, <1>4 DEF PipeOK
<1>8. DeviceOK'
    BY <1>1, <1>2, PageIs DEF DeviceOK, SOF
<1>9. (Done => Done') /\ (Fresh => Fresh')
    BY <1>1 DEF Done, Fresh, Opened
<1>10. QED
    BY <1>1, <1>3, <1>4, <1>5, <1>6, <1>7, <1>8, <1>9, Fewer

\* The empty values are of their types.
LEMMA EmptyTypes ==
    /\ <<>> \in Seq(Requests) /\ <<>> \in Seq(AnyPage) /\ NoCache.name = None
    /\ NoFile \in FileType /\ NoHandle \in HandleType
    /\ NoCache \in [name : Files \cup {None}, file : FileType]
<1>1. <<>> \in Seq(Requests) /\ <<>> \in Seq(AnyPage)
    BY EmptySeq
<1>2. NoFile \in FileType
    BY <1>1 DEF NoFile, NoCRC, FileType
<1>3. NoHandle \in HandleType
    BY <1>1 DEF NoHandle, HandleType
<1>4. NoCache.name = None /\ NoCache \in [name : Files \cup {None}, file : FileType]
    BY <1>2 DEF NoCache
<1>5. QED
    BY <1>1, <1>2, <1>3, <1>4

\* The device restarts.
LEMMA ResetStep ==
    ASSUME Inv, DeviceReset
    PROVE  Inv'
<1>1. /\ resets < MaxResets /\ resets' = resets + 1 /\ prevPage' = SOF /\ prevSum' = None
      /\ wire' = <<>> /\ reply' = None /\ curRequest' = NoRequest /\ sum' = <<>>
      /\ handle' = NoHandle /\ readCache' = NoCache /\ delay' = FALSE
      /\ UNCHANGED <<host, stored, unsaved, ops, faults>>
    BY DEF DeviceReset, Forget
<1>2. /\ HostOK /\ DeviceOK /\ CountsOK /\ faults \in Nat
      /\ resets \in 0 .. MaxResets /\ MaxResets \in Nat
    BY TransferAssumption DEF Inv, CountsOK
<1>3. CountsOK'
    BY <1>1, <1>2 DEF CountsOK
<1>4. Queue' = {} /\ SizeOf(wire', curRequest') = 0
    <2>1. Len(<<>>) = 0 /\ 1 .. 0 = {}
        OBVIOUS
    <2>2. QED
        BY <1>1, <2>1 DEF Queue, QueueOf, SizeOf
<1>5. OrderOK'
    <2>1. Len(<<>>) = 0 /\ 1 .. 0 = {}
        OBVIOUS
    <2>2. Ordered(wire', curRequest')
        BY <1>1, <2>1 DEF Ordered
    <2>3. QED
        BY <1>1, <1>2, <1>4, <2>2 DEF OrderOK
<1>6. ~ Pending'
    BY <1>1 DEF Pending
<1>7. DeviceOK'
    <2>1. delay' \in BOOLEAN /\ unsaved' \in BOOLEAN
        BY <1>1, <1>2 DEF DeviceOK
    <2>2. QED
        BY <1>1, <1>2, <2>1, PageIs, EmptyTypes DEF DeviceOK, SOF
<1>8. ~ Opened' /\ (Done => Done')
    BY <1>1 DEF Done, Opened
<1>9. host.cmd = "put" /\ Fresh => Fresh'
    BY <1>1, <1>2, EmptyTypes, TransferAssumption DEF Fresh, HostOK
<1>10. QED
    BY <1>1, <1>3, <1>4, <1>5, <1>6, <1>7, <1>8, <1>9, EmptyTypes, Fewer

\* The debug mode is switched on or off.
LEMMA DelayStep ==
    ASSUME Inv, SetDelay
    PROVE  Inv'
<1>1. /\ prevPage' = SOF /\ delay' = ~ delay
      /\ UNCHANGED <<host, wire, reply, curRequest, prevPage, prevSum, sum, handle, readCache, stored,
                     unsaved, ops, faults, resets>>
    BY DEF SetDelay, device, counts
<1>2. PipeOK /\ OrderOK /\ DeviceOK /\ CountsOK
    BY DEF Inv
<1>3. CountsOK'
    BY <1>1, <1>2 DEF CountsOK
<1>4. Queue' = Queue /\ (Pending' <=> Pending)
    BY <1>1 DEF Queue, Pending
<1>5. OrderOK'
    BY <1>1, <1>2, <1>4 DEF OrderOK
<1>6. Pending' => ~ curRequest'.whole
    BY <1>1, <1>2, <1>4 DEF PipeOK
<1>7. wire' \in Seq(Requests) /\ \A a \in Queue' : Proper(a)
    BY <1>1, <1>2, <1>4 DEF PipeOK
<1>8. DeviceOK'
    BY <1>1, <1>2 DEF DeviceOK
<1>9. (Done => Done') /\ (Fresh => Fresh')
    BY <1>1 DEF Done, Fresh, Opened
<1>10. QED
    BY <1>1, <1>3, <1>4, <1>5, <1>6, <1>7, <1>8, <1>9, Fewer

\* The device gives up a request whose data does not come.
LEMMA CancelStep ==
    ASSUME Inv, CancelRequest
    PROVE  Inv'
<1>1. /\ Pending /\ curRequest' = NoRequest
      /\ UNCHANGED <<host, wire, reply, prevPage, prevSum, sum, flash, ops, faults, resets>>
    BY DEF CancelRequest, counts
<1>2. /\ PipeOK /\ OrderOK /\ DeviceOK /\ CountsOK /\ faults \in Nat
    BY TransferAssumption DEF Inv, CountsOK
<1>3. CountsOK'
    BY <1>1, <1>2 DEF CountsOK
<1>4. wire \in Seq(Requests) /\ Ordered(wire, curRequest) /\ SizeOf(wire, curRequest) <= faults + 1
    BY <1>2, QueueIs DEF OrderOK
<1>5. /\ QueueOf(wire, NoRequest) \subseteq QueueOf(wire, curRequest) /\ Ordered(wire, NoRequest)
      /\ SizeOf(wire, NoRequest) = SizeOf(wire, curRequest) - 1
    BY <1>1, <1>4, QueueDrop DEF Pending
<1>6. Queue' \subseteq Queue
    BY <1>1, <1>5 DEF Queue
<1>7. SizeOf(wire, curRequest) \in Nat
    BY <1>2, QueueIs
<1>8. OrderOK'
    BY <1>1, <1>2, <1>4, <1>5, <1>7 DEF OrderOK
<1>9. ~ Pending'
    BY <1>1 DEF Pending
<1>10. wire' \in Seq(Requests) /\ \A a \in Queue' : Proper(a)
    BY <1>1, <1>2, <1>4, <1>6 DEF PipeOK
<1>11. QED
    BY <1>1, <1>2, <1>3, <1>6, <1>8, <1>9, <1>10, SameData, Fewer

\* The device receives a request with data to follow.
LEMMA HeaderStep ==
    ASSUME Inv, ReceiveHeader
    PROVE  Inv'
<1>1. /\ wire # <<>> /\ curRequest = NoRequest /\ ~ Head(wire).whole
      /\ curRequest' = Head(wire) /\ wire' = Tail(wire)
      /\ UNCHANGED <<host, reply, prevPage, prevSum, sum, flash, ops, faults, resets>>
    BY DEF ReceiveHeader, counts, Pending
<1>2. /\ PipeOK /\ OrderOK /\ DeviceOK /\ CountsOK /\ faults \in Nat
    BY TransferAssumption DEF Inv, CountsOK
<1>3. CountsOK'
    BY <1>1, <1>2 DEF CountsOK
<1>4. /\ wire \in Seq(Requests) /\ Ordered(wire, NoRequest) /\ Queue = QueueOf(wire, NoRequest)
      /\ SizeOf(wire, NoRequest) <= faults + 1
    BY <1>1, <1>2, QueueIs DEF OrderOK
<1>5. PICK v, d : v = Tail(wire) /\ d = Head(wire)
    OBVIOUS
<1>6. /\ QueueOf(v, d) \subseteq Queue /\ Queue \subseteq QueueOf(v, d) /\ Ordered(v, d)
      /\ SizeOf(v, d) = SizeOf(wire, NoRequest) /\ v \in Seq(Requests)
    BY <1>1, <1>4, <1>5, QueueTake, QueuePop
<1>7. Queue' = QueueOf(v, d) /\ wire' = v /\ curRequest' = d
    BY <1>1, <1>5 DEF Queue
<1>8. OrderOK'
    BY <1>1, <1>2, <1>4, <1>6, <1>7 DEF OrderOK
<1>9. Pending' => ~ curRequest'.whole
    BY <1>1
<1>10. wire' \in Seq(Requests) /\ Queue' \subseteq Queue /\ \A a \in Queue' : Proper(a)
    BY <1>2, <1>6, <1>7 DEF PipeOK
<1>11. QED
    BY <1>1, <1>2, <1>3, <1>8, <1>9, <1>10, SameData, Fewer

\* The device receives something that is no request.
LEMMA TooLittleStep ==
    ASSUME Inv, ReceiveTooLittle
    PROVE  Inv'
<1>1. /\ wire # <<>> /\ wire' = Tail(wire)
      /\ UNCHANGED <<host, reply, curRequest, prevPage, prevSum, sum, flash, ops, faults, resets>>
    BY DEF ReceiveTooLittle, counts, device
<1>2. /\ PipeOK /\ OrderOK /\ DeviceOK /\ CountsOK /\ faults \in Nat
    BY TransferAssumption DEF Inv, CountsOK
<1>3. CountsOK'
    BY <1>1, <1>2 DEF CountsOK
<1>4. /\ wire \in Seq(Requests) /\ Ordered(wire, curRequest) /\ Queue = QueueOf(wire, curRequest)
      /\ SizeOf(wire, curRequest) <= faults + 1 /\ SizeOf(wire, curRequest) \in Nat
    BY <1>1, <1>2, QueueIs DEF OrderOK
<1>5. PICK v : v = Tail(wire)
    OBVIOUS
<1>6. /\ QueueOf(v, curRequest) \subseteq Queue /\ Ordered(v, curRequest)
      /\ SizeOf(v, curRequest) = SizeOf(wire, curRequest) - 1 /\ v \in Seq(Requests)
    BY <1>1, <1>4, <1>5, QueuePop
<1>7. Queue' = QueueOf(v, curRequest) /\ wire' = v /\ curRequest' = curRequest
    BY <1>1, <1>5 DEF Queue
<1>8. OrderOK'
    <2>1. faults' = faults /\ SizeOf(wire', curRequest') = SizeOf(wire, curRequest) - 1
        BY <1>1, <1>6, <1>7
    <2>2. Ordered(wire', curRequest')
        BY <1>6, <1>7
    <2>3. SizeOf(wire', curRequest') <= faults'
        BY <1>2, <1>4, <2>1
    <2>4. SizeOf(wire', curRequest') <= faults' + 1
        BY <1>2, <1>4, <2>1
    <2>5. QED
        BY <2>2, <2>3, <2>4 DEF OrderOK
<1>9. Pending' => ~ curRequest'.whole
    BY <1>1, <1>2 DEF PipeOK, Pending
<1>10. wire' \in Seq(Requests) /\ Queue' \subseteq Queue /\ \A a \in Queue' : Proper(a)
    BY <1>2, <1>6, <1>7 DEF PipeOK
<1>11. QED
    BY <1>1, <1>2, <1>3, <1>8, <1>9, <1>10, SameData, Fewer

(***************************************************************************)
(* The device processes a request.                                         *)
(***************************************************************************)
\* what is known of a request that the device has taken off the queue
Taken(m) ==
    /\ Proper(m) /\ host' = host /\ ops' = ops /\ resets' = resets
    /\ wire' \in Seq(Requests) /\ curRequest' = NoRequest
    /\ Ordered(wire', NoRequest) /\ SizeOf(wire', NoRequest) <= faults
    /\ Queue' \subseteq Queue /\ \A n \in Queue' : Ahead(m, n)
    /\ m.fresh => Waiting /\ m.cmd = host.cmd /\ m.page = host.page /\ Queue' = {}
    /\ Paging => /\ m.cmd = "put" /\ m.page = host.page
                 /\ m.file = host.file /\ m.crc = host.text
    /\ prevPage >= 0 /\ Opened /\ ~ delay /\ m.page >= 0 => m.file = handle.file
    /\ reply = None /\ host.st # "ok"

\* The device has a whole request to work on.
LEMMA TakenWhole ==
    ASSUME Inv, ReceiveRequest
    PROVE  \E m : /\ Taken(m) /\ ProcessRequest(m)
                  /\ m.file = Current.file /\ m.page = Current.page /\ m.cmd = Current.cmd
<1>1. /\ wire # <<>> /\ curRequest = NoRequest /\ ProcessRequest(Head(wire))
      /\ wire' = Tail(wire) /\ UNCHANGED <<host, curRequest, ops, resets>>
    BY DEF ReceiveRequest, Pending
<1>2. PipeOK /\ OrderOK /\ MatchOK /\ DataOK /\ CountsOK /\ faults \in Nat
    BY TransferAssumption DEF Inv, CountsOK
<1>3. /\ wire \in Seq(Requests) /\ Ordered(wire, NoRequest) /\ Queue = QueueOf(wire, NoRequest)
      /\ SizeOf(wire, NoRequest) <= faults + 1 /\ SizeOf(wire, NoRequest) \in Nat
    BY <1>1, <1>2, QueueIs DEF OrderOK
<1>4. PICK v, m : v = Tail(wire) /\ m = Head(wire)
    OBVIOUS
<1>5. /\ QueueOf(v, NoRequest) \subseteq Queue /\ Ordered(v, NoRequest)
      /\ SizeOf(v, NoRequest) = SizeOf(wire, NoRequest) - 1 /\ v \in Seq(Requests)
      /\ m \in Queue /\ \A i \in 1 .. Len(v) : Ahead(m, v[i])
      /\ m.fresh => v = <<>>
    BY <1>1, <1>3, <1>4, QueuePop
<1>6. Queue' = QueueOf(v, NoRequest) /\ wire' = v
    BY <1>1, <1>4 DEF Queue
<1>7. Queue' = {v[i] : i \in 1 .. Len(v)}
    BY <1>6 DEF QueueOf
<1>8. m.fresh => Queue' = {}
    <2>1. Len(<<>>) = 0 /\ 1 .. 0 = {}
        OBVIOUS
    <2>2. QED
        BY <1>5, <1>7, <2>1
<1>9. /\ m.fresh => Waiting /\ m.cmd = host.cmd /\ m.page = host.page
      /\ Paging => /\ m.cmd = "put" /\ m.page = host.page
                   /\ m.file = host.file /\ m.crc = host.text
      /\ reply = None /\ host.st # "ok"
    BY <1>2, <1>5 DEF MatchOK
<1>10. prevPage >= 0 /\ Opened /\ ~ delay /\ m.page >= 0 => m.file = handle.file
    BY <1>2, <1>5 DEF DataOK
<1>11. Proper(m)
    BY <1>2, <1>5 DEF PipeOK
<1>12. SizeOf(wire', NoRequest) <= faults
    BY <1>2, <1>3, <1>5, <1>6
<1>13. \A n \in Queue' : Ahead(m, n)
    BY <1>5, <1>7
<1>14. Taken(m)
    BY <1>1, <1>5, <1>6, <1>8, <1>9, <1>10, <1>11, <1>12, <1>13 DEF Taken
<1>15. Current = m
    BY <1>1, <1>4 DEF Current, Pending
<1>16. QED
    BY <1>1, <1>4, <1>14, <1>15

\* A request whose page is not what was sent is otherwise the same.
LEMMA TornIs ==
    ASSUME NEW m, Proper(m), NEW n, n = [m EXCEPT !.data = Torn]
    PROVE  /\ Proper(n) /\ (n.fresh <=> m.fresh) /\ n.file = m.file /\ n.page = m.page
           /\ n.cmd = m.cmd /\ n.crc = m.crc
<1>1. m \in Requests
    BY DEF Proper
<1>2. n \in Requests
    BY <1>1, PageIs DEF Requests
<1>3. /\ n.file = m.file /\ n.page = m.page /\ n.nPages = m.nPages
      /\ n.cmd = m.cmd /\ n.crc = m.crc
    BY <1>1 DEF Requests
<1>4. n.fresh <=> m.fresh
    BY <1>1 DEF Requests
<1>5. QED
    BY <1>2, <1>3, <1>4, LikeProper

\* The device takes a request for the data of the previous one.
LEMMA TakenTorn ==
    ASSUME Inv, ReceiveAsData
    PROVE  \E m : /\ Taken(m) /\ PutData(m)
                  /\ m.file = Current.file /\ m.page = Current.page /\ m.cmd = Current.cmd
<1>1. /\ wire # <<>> /\ curRequest # NoRequest /\ PutData([curRequest EXCEPT !.data = Torn])
      /\ wire' = Tail(wire) /\ curRequest' = NoRequest /\ UNCHANGED <<host, ops, resets>>
    BY DEF ReceiveAsData, Pending
<1>2. PipeOK /\ OrderOK /\ MatchOK /\ DataOK /\ CountsOK /\ faults \in Nat
    BY TransferAssumption DEF Inv, CountsOK
<1>3. /\ wire \in Seq(Requests) /\ Ordered(wire, curRequest) /\ Queue = QueueOf(wire, curRequest)
      /\ SizeOf(wire, curRequest) <= faults + 1 /\ SizeOf(wire, curRequest) \in Nat
      /\ Queue # {}
    BY <1>1, <1>2, QueueIs DEF OrderOK
<1>4. PICK v, m : v = Tail(wire) /\ m = [curRequest EXCEPT !.data = Torn]
    OBVIOUS
<1>5. /\ QueueOf(wire, NoRequest) \subseteq Queue /\ Ordered(wire, NoRequest)
      /\ SizeOf(wire, NoRequest) = SizeOf(wire, curRequest) - 1 /\ curRequest \in Queue
      /\ \A i \in 1 .. Len(wire) : Ahead(curRequest, wire[i])
      /\ ~ curRequest.fresh
    BY <1>1, <1>3, QueueDrop
<1>6. /\ QueueOf(v, NoRequest) \subseteq QueueOf(wire, NoRequest) /\ Ordered(v, NoRequest)
      /\ SizeOf(v, NoRequest) = SizeOf(wire, NoRequest) - 1 /\ v \in Seq(Requests)
    BY <1>1, <1>3, <1>4, <1>5, QueuePop
<1>7. Queue' = QueueOf(v, NoRequest) /\ wire' = v
    BY <1>1, <1>4 DEF Queue
<1>8. Proper(curRequest)
    BY <1>2, <1>5 DEF PipeOK
<1>9. /\ Proper(m) /\ ~ m.fresh /\ m.file = curRequest.file /\ m.page = curRequest.page
      /\ m.cmd = curRequest.cmd /\ m.crc = curRequest.crc
    BY <1>4, <1>5, <1>8, TornIs
<1>10. \A n \in Queue' : Ahead(m, n)
    <2> SUFFICES ASSUME NEW n \in Queue' PROVE Ahead(m, n)
        OBVIOUS
    <2>1. PICK i \in 1 .. Len(wire) : n = wire[i]
        BY <1>6, <1>7 DEF QueueOf
    <2>2. Ahead(curRequest, n)
        BY <1>5, <2>1
    <2>3. QED
        BY <1>9, <2>2 DEF Ahead
<1>11. /\ Paging => /\ m.cmd = "put" /\ m.page = host.page
                    /\ m.file = host.file /\ m.crc = host.text
       /\ reply = None /\ host.st # "ok"
    BY <1>2, <1>3, <1>5, <1>9 DEF MatchOK
<1>12. prevPage >= 0 /\ Opened /\ ~ delay /\ m.page >= 0 => m.file = handle.file
    BY <1>2, <1>5, <1>9 DEF DataOK
<1>13. SizeOf(wire', NoRequest) <= faults
    BY <1>2, <1>3, <1>5, <1>6, <1>7
<1>14. Queue' \subseteq Queue
    BY <1>5, <1>6, <1>7
<1>15. Taken(m)
    BY <1>1, <1>6, <1>7, <1>9, <1>10, <1>11, <1>12, <1>13, <1>14 DEF Taken
<1>16. Current = curRequest
    BY <1>1 DEF Current, Pending
<1>17. QED
    BY <1>1, <1>4, <1>9, <1>15, <1>16

\* what a step that processes a request has to establish
LEMMA Processed ==
    ASSUME Inv, NEW m, Taken(m), NEW stat \in Statuses, reply' = IF m.fresh THEN stat ELSE reply,
           DeviceOK', ValidWasSent', CountsOK', faults' \in Nat, faults' >= faults,
           m.page = SOF /\ m.cmd = "put" => prevPage' = SOF,
           prevPage' >= 0 /\ Opened' /\ ~ delay' =>
              /\ handle'.data = sum'
              /\ \A n \in Queue' : n.page >= 0 => n.file = handle'.file
              /\ Paging => host.file = handle'.file /\ Storing',
           prevPage' >= 0 /\ Paging /\ ~ unsaved' =>
              Fresh' /\ (prevPage' + 1 = Len(host.text) => Done'),
           Paging /\ m.fresh /\ stat \in {"ok", "retry_ok"} /\ host.page + 1 = Len(host.text)
              /\ ~ unsaved' => Done' /\ Fresh'
    PROVE  Inv'
<1>1. /\ HostOK /\ PipeOK /\ DeviceOK /\ OrderOK /\ MatchOK /\ CountsOK /\ faults \in Nat
      /\ host' = host /\ curRequest' = NoRequest /\ reply = None
    BY TransferAssumption DEF Inv, Taken, CountsOK
<1>2. HostOK' /\ (Waiting' <=> Waiting) /\ (Paging' <=> Paging)
    BY <1>1 DEF HostOK, Waiting, Paging
<1>3. PipeOK'
    <2>1. \A a \in Queue' : Proper(a)
        BY <1>1 DEF PipeOK, Taken
    <2>2. reply' \in {None} \cup Statuses
        BY <1>1
    <2>3. ~ Pending'
        BY <1>1 DEF Pending
    <2>4. QED
        BY <2>1, <2>2, <2>3 DEF PipeOK, Taken
<1>4. OrderOK'
    <2>1. SizeOf(wire', curRequest') \in Nat
        BY <1>1, LenProperties DEF SizeOf, Taken
    <2>2. SizeOf(wire', curRequest') <= faults' /\ Ordered(wire', curRequest')
        BY <1>1, <2>1 DEF Taken
    <2>3. SizeOf(wire', curRequest') <= faults' + 1
        BY <2>1, <2>2
    <2>4. QED
        BY <2>2, <2>3 DEF OrderOK
<1>5. reply' # None => m.fresh
    BY <1>1
<1>6. MatchOK'
    <2>1. ~ Waiting => reply' = None /\ \A n \in Queue' : ~ n.fresh
        BY <1>1, <1>5 DEF MatchOK, Taken
    <2>2. reply' # None => Queue' = {}
        BY <1>5 DEF Taken
    <2>3. \A n \in Queue' : n.fresh => n.cmd = host.cmd /\ n.page = host.page
        BY <1>1 DEF MatchOK, Taken
    <2>4. Paging => \A n \in Queue' : /\ n.cmd = "put" /\ n.page = host.page
                                      /\ n.file = host.file /\ n.crc = host.text
        BY <1>1 DEF MatchOK, Taken
    <2>5. Waiting /\ host.cmd = "put" /\ host.page = SOF /\ reply' # None => prevPage' = SOF
        BY <1>5 DEF Taken
    <2>6. host.st # "ok"
        BY DEF Taken
    <2>7. QED
        BY <1>1, <1>2, <2>1, <2>2, <2>3, <2>4, <2>5, <2>6 DEF MatchOK
<1>7. DataOK'
    <2>1. reply' \in {"ok", "retry_ok"} => m.fresh /\ stat \in {"ok", "retry_ok"}
        BY <1>1 DEF None
    <2>2. host.st # "ok"
        BY DEF Taken
    <2>3. Paging /\ reply' \in {"ok", "retry_ok"} /\ host.page + 1 = Len(host.text) /\ ~ unsaved' =>
             Done' /\ Fresh'
        BY <2>1
    <2>4. QED
        BY <1>1, <1>2, <2>2, <2>3 DEF DataOK
<1>8. QED
    BY <1>2, <1>3, <1>4, <1>6, <1>7 DEF Inv

\* The device starts a file.
LEMMA StartOfFile ==
    ASSUME Inv, NEW m, Taken(m), m.cmd = "put", PutStart(m)
    PROVE  Inv'
<1>1. /\ prevPage' = SOF /\ prevSum' = None /\ reply' = IF m.fresh THEN "ok" ELSE reply
      /\ m.page = SOF /\ UNCHANGED <<sum, handle, readCache, stored, delay, unsaved, faults>>
    BY DEF PutStart, Forget, Reply, flash
<1>2. DeviceOK /\ ValidWasSent /\ CountsOK /\ faults \in Nat /\ ops' = ops /\ resets' = resets
    BY TransferAssumption DEF Inv, CountsOK, Taken
<1>3. DeviceOK'
    BY <1>1, <1>2, PageIs DEF DeviceOK, SOF
<1>4. ValidWasSent' /\ CountsOK'
    BY <1>1, <1>2 DEF ValidWasSent, Valid, CountsOK
<1>5. ~ (prevPage' >= 0)
    BY <1>1 DEF SOF
<1>6. ~ (Paging /\ m.fresh)
    BY <1>1 DEF Taken, Paging, SOF
<1>7. "ok" \in Statuses
    BY DEF Statuses
<1>8. QED
    BY <1>1, <1>2, <1>3, <1>4, <1>5, <1>6, <1>7, Processed

\* the request changes nothing of the transfer
LEMMA Answered ==
    ASSUME Inv, NEW m, Taken(m), m.page # SOF, NEW stat \in Statuses \ {"ok"}, Reply(m, stat),
           UNCHANGED <<prevPage, prevSum, sum, flash, faults>>,
           stat = "retry_ok" => m.page = prevPage
    PROVE  Inv'
<1>1. /\ reply' = IF m.fresh THEN stat ELSE reply
      /\ UNCHANGED <<prevPage, prevSum, sum, handle, readCache, stored, delay, unsaved, faults>>
    BY DEF Reply, flash
<1>2. /\ DeviceOK /\ ValidWasSent /\ CountsOK /\ DataOK /\ faults \in Nat
      /\ ops' = ops /\ resets' = resets /\ host' = host
    BY TransferAssumption DEF Inv, CountsOK, Taken
<1>3. DeviceOK' /\ ValidWasSent'
    BY <1>2, DeviceKept
<1>4. CountsOK'
    BY <1>1, <1>2 DEF CountsOK
<1>5. (Opened' => Opened) /\ (Done => Done') /\ (Fresh => Fresh')
    BY <1>1, <1>2 DEF Opened, Done, Fresh
<1>6. ASSUME prevPage' >= 0, Opened', ~ delay'
      PROVE  /\ handle'.data = sum'
             /\ \A n \in Queue' : n.page >= 0 => n.file = handle'.file
             /\ Paging => host.file = handle'.file /\ Storing'
    <2>1. prevPage >= 0 /\ Opened /\ ~ delay /\ Queue' \subseteq Queue
        BY <1>1, <1>5, <1>6 DEF Taken
    <2>2. QED
        BY <1>1, <1>2, <2>1 DEF DataOK, Storing
<1>7. prevPage' >= 0 /\ Paging /\ ~ unsaved' => Fresh' /\ (prevPage' + 1 = Len(host.text) => Done')
    BY <1>1, <1>2, <1>5 DEF DataOK
<1>8. ASSUME Paging, m.fresh, stat \in {"ok", "retry_ok"}, host.page + 1 = Len(host.text), ~ unsaved'
      PROVE  Done' /\ Fresh'
    <2>1. m.page = prevPage /\ m.page = host.page /\ prevPage >= 0
        BY <1>8 DEF Taken, Paging
    <2>2. QED
        BY <1>1, <1>2, <1>5, <1>8, <2>1 DEF DataOK
<1>9. QED
    BY <1>1, <1>2, <1>3, <1>4, <1>6, <1>7, <1>8, Processed

\* The sum over a page that comes in order has one more page.
LEMMA SumIs ==
    ASSUME DeviceOK, NEW m, Proper(m), m.cmd = "put"
    PROVE  /\ SumWith(m) \in Seq(AnyPage) /\ m.data \in AnyPage
           /\ m.page # SOF /\ m.page = ExpectedPage =>
                  Len(SumWith(m)) = m.page + 1 /\ m.page >= 0
           /\ m.page < Len(m.crc) /\ m.crc \in AnyText
<1>1. m.data \in AnyPage /\ m.page \in Int
    BY DEF Proper, Requests
<1>2. SumWith(m) \in Seq(AnyPage)
    BY <1>1 DEF DeviceOK, SumWith
<1>3. ASSUME m.page # SOF, m.page = ExpectedPage
      PROVE  Len(SumWith(m)) = m.page + 1 /\ m.page >= 0
    <2>1. CASE prevPage < 0
        <3>1. m.page = 0
            BY <1>3, <2>1 DEF ExpectedPage
        <3>2. QED
            BY <3>1 DEF SumWith
    <2>2. CASE prevPage >= 0
        <3>1. prevPage \in Int /\ m.page = prevPage + 1 /\ m.page # 0 /\ Len(sum) = prevPage + 1
            BY <1>3, <2>2 DEF ExpectedPage, DeviceOK
        <3>2. SumWith(m) = Append(sum, m.data) /\ sum \in Seq(AnyPage)
            BY <3>1 DEF SumWith, DeviceOK
        <3>3. Len(SumWith(m)) = Len(sum) + 1
            BY <1>1, <3>2
        <3>4. QED
            BY <2>2, <3>1, <3>3
    <2>3. QED
        BY <2>1, <2>2 DEF DeviceOK
<1>4. m.page < Len(m.crc) /\ m.crc \in AnyText
    <2>1. m.file \in Files /\ m.crc \in Texts[m.file] /\ m.page \in SOF .. Len(m.crc) - 1
        BY DEF Proper
    <2>2. m.crc \in AnyText /\ Len(m.crc) \in Nat
        BY <2>1, TextIs
    <2>3. QED
        BY <1>1, <2>1, <2>2 DEF SOF
<1>5. QED
    BY <1>1, <1>2, <1>3, <1>4

\* The last page does not match the sum of the whole file.
LEMMA Mismatched ==
    ASSUME Inv, NEW m, Taken(m), m.cmd = "put", PutMismatch(m)
    PROVE  Inv'
<1>1. /\ prevPage' = SOF /\ prevSum' = None /\ sum' = SumWith(m)
      /\ reply' = IF m.fresh THEN "config_invalid" ELSE reply
      /\ m.page # SOF /\ UNCHANGED <<handle, readCache, stored, delay, unsaved, faults>>
    BY DEF PutMismatch, InOrder, Forget, Reply, flash
<1>2. /\ DeviceOK /\ ValidWasSent /\ CountsOK /\ faults \in Nat
      /\ ops' = ops /\ resets' = resets /\ Proper(m)
    BY TransferAssumption DEF Inv, CountsOK, Taken
<1>3. DeviceOK'
    <2>1. SumWith(m) \in Seq(AnyPage)
        BY <1>2, SumIs
    <2>2. QED
        BY <1>1, <1>2, <2>1, PageIs DEF DeviceOK, SOF
<1>4. ValidWasSent' /\ CountsOK'
    BY <1>1, <1>2 DEF ValidWasSent, Valid, CountsOK
<1>5. ~ (prevPage' >= 0)
    BY <1>1 DEF SOF
<1>6. "config_invalid" \in Statuses
    BY DEF Statuses
<1>7. QED
    BY <1>1, <1>2, <1>3, <1>4, <1>5, <1>6, Processed

\* a request other than PUT keeps the transfer that the device has begun
LEMMA OtherCommand ==
    ASSUME Inv, NEW m, Taken(m), m.cmd # "put", NEW stat \in Statuses, Reply(m, stat),
           UNCHANGED <<prevPage, prevSum, sum, delay>>, DeviceOK', ValidWasSent', CountsOK',
           faults' \in Nat, faults' >= faults,
           Opened' => Opened /\ handle'.data = handle.data /\ handle'.file = handle.file
    PROVE  Inv'
<1>1. reply' = IF m.fresh THEN stat ELSE reply
    BY DEF Reply
<1>2. ~ Paging /\ Queue' \subseteq Queue /\ DataOK
    BY DEF Taken, Inv
<1>3. ASSUME prevPage' >= 0, Opened', ~ delay'
      PROVE  /\ handle'.data = sum'
             /\ \A n \in Queue' : n.page >= 0 => n.file = handle'.file
    <2>1. prevPage >= 0 /\ Opened /\ ~ delay
        BY <1>3
    <2>2. QED
        BY <1>2, <1>3, <2>1 DEF DataOK
<1>4. QED
    BY <1>1, <1>2, <1>3, Processed

\* The device answers a read.
LEMMA GetStep ==
    ASSUME Inv, NEW m, Taken(m), ProcessGet(m)
    PROVE  Inv'
<1>1. /\ m.cmd = "get" /\ readCache' = Lookup(m.file)
      /\ UNCHANGED <<prevPage, prevSum, sum, handle, stored, delay, unsaved, faults>>
    BY DEF ProcessGet
<1>2. /\ DeviceOK /\ ValidWasSent /\ CountsOK /\ faults \in Nat
      /\ ops' = ops /\ resets' = resets /\ m.file \in Files
    BY <1>1, TransferAssumption DEF Inv, CountsOK, Taken, Proper
<1>3. Lookup(m.file) \in [name : Files \cup {None}, file : FileType]
    BY <1>2 DEF Lookup, DeviceOK
<1>4. DeviceOK'
    BY <1>1, <1>2, <1>3 DEF DeviceOK
<1>5. ValidWasSent' /\ CountsOK'
    BY <1>1, <1>2 DEF ValidWasSent, Valid, CountsOK
<1>6. Opened' => Opened
    BY <1>1 DEF Opened
<1>7. PICK stat \in Statuses : Reply(m, stat)
    BY DEF ProcessGet, Statuses
<1>8. QED
    BY <1>1, <1>2, <1>4, <1>5, <1>6, <1>7, OtherCommand

\* The device is reset to the factory settings.
LEMMA FactoryReset ==
    ASSUME Inv, NEW m, Taken(m), ProcessReset(m)
    PROVE  Inv'
<1>1. /\ m.cmd = "reset" /\ stored' = [f \in Files |-> NoFile] /\ Reply(m, "ok")
      /\ handle' = IF Opened THEN [handle EXCEPT !.entry = "wild"] ELSE handle
      /\ UNCHANGED <<prevPage, prevSum, sum, readCache, delay, unsaved, faults>>
    BY DEF ProcessReset
<1>2. /\ DeviceOK /\ CountsOK /\ faults \in Nat
      /\ ops' = ops /\ resets' = resets
    BY TransferAssumption DEF Inv, CountsOK, Taken
<1>3. handle \in HandleType /\ (handle # NoHandle => handle.file \in Files)
    BY <1>2 DEF DeviceOK
<1>4. /\ handle' \in HandleType /\ handle'.data = handle.data /\ handle'.file = handle.file
      /\ Opened' => Opened /\ handle'.entry # None
    <2>1. CASE Opened
        <3>1. handle' = [handle EXCEPT !.entry = "wild"]
            BY <1>1, <2>1
        <3>2. handle' \in HandleType /\ handle'.data = handle.data /\ handle'.file = handle.file
            BY <1>3, <3>1 DEF HandleType
        <3>3. handle'.entry = "wild"
            BY <1>3, <3>1 DEF HandleType
        <3>4. QED
            BY <2>1, <3>2, <3>3 DEF None
    <2>2. CASE ~ Opened
        <3>1. handle' = handle
            BY <1>1, <2>2
        <3>2. QED
            BY <1>3, <2>2, <3>1 DEF Opened
    <2>3. QED
        BY <2>1, <2>2
<1>5. DeviceOK'
    <2>1. stored' \in [Files -> FileType]
        BY <1>1, EmptyTypes
    <2>2. QED
        BY <1>1, <1>2, <1>3, <1>4, <2>1 DEF DeviceOK, Opened
<1>6. ValidWasSent'
    <2>1. NoFile.pages = <<>>
        BY DEF NoFile
    <2>2. \A f \in Files : ~ Valid(stored'[f])
        BY <1>1, <2>1 DEF Valid
    <2>3. QED
        BY <2>2 DEF ValidWasSent, Valid
<1>7. CountsOK'
    BY <1>1, <1>2 DEF CountsOK
<1>8. "ok" \in Statuses
    BY DEF Statuses
<1>9. QED
    BY <1>1, <1>2, <1>4, <1>5, <1>6, <1>7, <1>8, OtherCommand

\* The device erases files.
LEMMA EraseStep ==
    ASSUME Inv, NEW m, Taken(m), ProcessErase(m)
    PROVE  Inv'
<1>1. /\ m.cmd = "erase" /\ readCache' = IF m.file = All THEN NoCache ELSE Cleared(m.file)
      /\ UNCHANGED <<prevPage, prevSum, sum, delay, unsaved>>
    BY DEF ProcessErase
<1>2. PICK gone \in SUBSET Erased(m.file) :
         /\ gone # Erased(m.file) => faults < MaxFaults
         /\ faults' = IF gone = Erased(m.file) THEN faults ELSE faults + 1
         /\ stored' = [f \in Files |-> IF f \in gone THEN NoFile ELSE stored[f]]
         /\ handle' = IF handle.file \in gone /\ handle.entry = "own"
                      THEN [handle EXCEPT !.entry = "spoiled"] ELSE handle
         /\ Reply(m, IF gone = Erased(m.file) THEN "ok" ELSE "failed")
    BY DEF ProcessErase
<1>3. /\ DeviceOK /\ ValidWasSent /\ CountsOK /\ faults \in 0 .. MaxFaults /\ MaxFaults \in Nat
      /\ ops' = ops /\ resets' = resets /\ m.file \in Files \cup {All}
    BY <1>1, TransferAssumption DEF Inv, CountsOK, Taken, Proper
<1>4. /\ handle \in HandleType /\ (handle # NoHandle => handle.file \in Files)
      /\ (handle # NoHandle => handle.entry # None) /\ NoHandle.entry = None
    BY <1>3 DEF DeviceOK, NoHandle
<1>5. /\ handle' \in HandleType /\ handle'.data = handle.data /\ handle'.file = handle.file
      /\ Opened' => Opened /\ handle'.entry # None
    <2>1. CASE handle.file \in gone /\ handle.entry = "own"
        <3>1. handle' = [handle EXCEPT !.entry = "spoiled"]
            BY <1>2, <2>1
        <3>2. handle' \in HandleType /\ handle'.data = handle.data /\ handle'.file = handle.file
            BY <1>4, <3>1 DEF HandleType
        <3>3. handle'.entry = "spoiled"
            BY <1>4, <3>1 DEF HandleType
        <3>4. Opened
            BY <1>4, <2>1 DEF Opened, None
        <3>5. QED
            BY <3>2, <3>3, <3>4 DEF None
    <2>2. CASE ~ (handle.file \in gone /\ handle.entry = "own")
        <3>1. handle' = handle
            BY <1>2, <2>2
        <3>2. QED
            BY <1>4, <3>1 DEF Opened
    <2>3. QED
        BY <2>1, <2>2
<1>6. DeviceOK'
    <2>1. stored' \in [Files -> FileType]
        BY <1>2, <1>3, EmptyTypes DEF DeviceOK
    <2>2. readCache' \in [name : Files \cup {None}, file : FileType]
        BY <1>1, <1>3, EmptyTypes DEF DeviceOK, Cleared
    <2>3. QED
        BY <1>1, <1>3, <1>4, <1>5, <2>1, <2>2 DEF DeviceOK, Opened
<1>7. ValidWasSent'
    <2>1. NoFile.pages = <<>>
        BY DEF NoFile
    <2>2. ASSUME NEW f \in Files, Valid(stored'[f])
          PROVE  stored'[f].pages \in Texts[f]
        <3>1. f \notin gone
            BY <1>2, <2>1, <2>2 DEF Valid
        <3>2. stored'[f] = stored[f]
            BY <1>2, <3>1
        <3>3. QED
            BY <1>3, <2>2, <3>2 DEF ValidWasSent
    <2>3. QED
        BY <2>2 DEF ValidWasSent, Valid
<1>8. CountsOK' /\ faults' \in Nat /\ faults' >= faults
    BY <1>2, <1>3 DEF CountsOK
<1>9. PICK stat \in Statuses : Reply(m, stat)
    BY <1>2 DEF Statuses
<1>10. QED
    BY <1>1, <1>5, <1>6, <1>7, <1>8, <1>9, OtherCommand

(***************************************************************************)
(* What SavePage makes of the files.                                       *)
(***************************************************************************)
CacheType == [name : Files \cup {None}, file : FileType]

\* the files r are the files st with handle h closed
ClosedFrom(h, crc, st, r) ==
    /\ r \in [Files -> FileType]
    /\ \A f \in Files : f # h.file => r[f] = st[f]
    /\ h.entry = "own" => r[h.file] = [pages |-> h.data, crc |-> crc]
    /\ Valid(r[h.file]) => \/ r[h.file] = st[h.file]
                           \/ r[h.file].pages = crc /\ crc # NoCRC

\* A file that was cut off is not accepted.
LEMMA BrokenIs == Broken \in FileType /\ ~ Valid(Broken)
<1>1. Broken \in FileType
    BY PageIs, EmptyTypes DEF Broken, FileType, NoCRC
<1>2. ~ Valid(Broken)
    BY DEF Broken, Valid, NoCRC
<1>3. QED
    BY <1>1, <1>2

\* A text of the host as a file.
LEMMA TextType ==
    ASSUME NEW f \in Files, NEW t \in Texts[f]
    PROVE  Whole(t) \in FileType /\ Whole(t).pages = t
<1>1. t \in Seq(STRING) /\ \A i \in 1 .. Len(t) : t[i] \in AnyPage
    BY TransferAssumption, TextIs
<1>2. Len(t) \in Nat /\ t \in [1 .. Len(t) -> AnyPage]
    BY <1>1, LenProperties
<1>3. t \in Seq(AnyPage)
    BY <1>2, SeqDef
<1>4. QED
    BY <1>3 DEF Whole, FileType

\* What a sector that was not put back leaves of a file.
LEMMA RemnantIs ==
    ASSUME NEW f \in Files, NEW s \in Remnants(f)
    PROVE  s \in FileType /\ (Valid(s) => s.pages \in Texts[f])
<1>1. CASE s = NoFile
    <2>1. ~ Valid(NoFile)
        BY DEF Valid, NoFile
    <2>2. QED
        BY <1>1, <2>1, EmptyTypes
<1>2. CASE s = Broken
    BY <1>2, BrokenIs
<1>3. CASE s # NoFile /\ s # Broken
    <2>1. PICK t \in Texts[f] : s = Whole(t)
        BY <1>3 DEF Remnants
    <2>2. QED
        BY <2>1, TextType
<1>4. QED
    BY <1>1, <1>2, <1>3

\* Closing a handle stores its file, or leaves nothing readable.
LEMMA ClosedIs ==
    ASSUME NEW h \in HandleType, h.file \in Files, NEW st \in [Files -> FileType],
           NEW crc \in Seq(AnyPage)
    PROVE  ClosedFrom(h, crc, st, Closed(h, crc, st))
<1> DEFINE r == Closed(h, crc, st)
<1> SUFFICES ClosedFrom(h, crc, st, r)
    OBVIOUS
<1>1. h.data \in Seq(AnyPage)
    BY DEF HandleType
<1> USE DEF ClosedFrom
<1>2. CASE h.entry = "own"
    <2>1. r = [st EXCEPT ![h.file] = [pages |-> h.data, crc |-> crc]]
        BY <1>2 DEF Closed
    <2>2. [pages |-> h.data, crc |-> crc] \in FileType
        BY <1>1 DEF FileType
    <2>3. /\ r \in [Files -> FileType] /\ r[h.file] = [pages |-> h.data, crc |-> crc]
          /\ \A f \in Files : f # h.file => r[f] = st[f]
        BY <2>1, <2>2
    <2>4. Valid(r[h.file]) => r[h.file].pages = crc /\ crc # NoCRC
        BY <2>3 DEF Valid, NoCRC
    <2> HIDE DEF r
    <2>5. QED
        BY <1>2, <2>3, <2>4
<1>3. CASE h.entry = "spoiled"
    <2>1. PICK s : s = IF h.mode = "append" THEN NoFile ELSE Broken
        OBVIOUS
    <2>2. r = [st EXCEPT ![h.file] = s]
        BY <1>3, <2>1 DEF Closed
    <2>3. s \in FileType /\ ~ Valid(s)
        <3>1. ~ Valid(NoFile)
            BY DEF Valid, NoFile
        <3>2. QED
            BY <2>1, <3>1, EmptyTypes, BrokenIs
    <2>4. /\ r \in [Files -> FileType] /\ r[h.file] = s
          /\ \A f \in Files : f # h.file => r[f] = st[f]
        BY <2>2, <2>3
    <2> HIDE DEF r
    <2>5. QED
        BY <1>3, <2>3, <2>4
<1>4. CASE h.entry # "own" /\ h.entry # "spoiled"
    <2>1. r = st
        BY <1>4 DEF Closed
    <2> HIDE DEF r
    <2>2. QED
        BY <1>4, <2>1
<1>5. QED
    BY <1>2, <1>3, <1>4

\* A new handle.
LEMMA OpenIs ==
    ASSUME NEW f \in Files, NEW mode \in {"append", "over"}, NEW e \in {"own", "lost"},
           NEW h, h = [file |-> f, mode |-> mode, data |-> <<>>, entry |-> e]
    PROVE  /\ h \in HandleType /\ h.file = f /\ h.data = <<>> /\ h.entry = e
           /\ h.entry # None /\ h # NoHandle
<1>1. h \in HandleType
    BY EmptyTypes DEF HandleType
<1>2. h.entry # NoHandle.entry
    BY DEF NoHandle, None
<1>3. QED
    BY <1>1, <1>2 DEF None

\* The outcomes when the sector that is written first is not put back.
LEMMA DamagedIs ==
    ASSUME NEW f \in Files, NEW st, NEW o \in Damaged(f, st)
    PROVE  \E e \in {"own", "lost"}, s \in Remnants(f) :
              o = Result([file |-> f, mode |-> "append", data |-> <<>>, entry |-> e],
                         [st EXCEPT ![f] = s], Cleared(f), 0, 1, e = "lost")
<1>1. CASE o = Result(Open(f, "append"), [st EXCEPT ![f] = Broken], Cleared(f), 0, 1, FALSE)
    <2>1. Broken \in Remnants(f) /\ ("own" = "lost") = FALSE
        BY DEF Remnants
    <2>2. QED
        BY <1>1, <2>1 DEF Open
<1>2. CASE \E s \in Remnants(f) :
              o = Result([Open(f, "append") EXCEPT !.entry = "lost"], [st EXCEPT ![f] = s],
                         Cleared(f), 0, 1, TRUE)
    <2>1. PICK s \in Remnants(f) :
              o = Result([Open(f, "append") EXCEPT !.entry = "lost"], [st EXCEPT ![f] = s],
                         Cleared(f), 0, 1, TRUE)
        BY <1>2
    <2>2. [Open(f, "append") EXCEPT !.entry = "lost"] =
              [file |-> f, mode |-> "append", data |-> <<>>, entry |-> "lost"]
        BY DEF Open
    <2>3. ("lost" = "lost") = TRUE
        OBVIOUS
    <2>4. QED
        BY <2>1, <2>2, <2>3
<1>3. QED
    BY <1>1, <1>2 DEF Damaged

\* the outcomes of opening the file for a page
OpenedFor(m, o) ==
    /\ o.handle \in HandleType /\ o.stored \in [Files -> FileType] /\ o.readCache \in CacheType
    /\ o.handle # NoHandle => o.handle.file \in Files /\ o.handle.entry # None
    /\ o.silent \in {0, 1} /\ o.lost \in BOOLEAN
    /\ \A f \in Files : Valid(o.stored[f]) =>
            o.stored[f] = stored[f] \/ (f = m.file /\ o.stored[f].pages \in Texts[f])
    /\ \A f \in Files : o.stored[f] # stored[f] =>
            m.page = 0 /\ (f = m.file \/ (Opened /\ f = handle.file))
    /\ m.page = 0 =>
          \/ o.handle = NoHandle /\ o.failed = 1
          \/ /\ o.failed = 0 /\ o.handle # NoHandle /\ o.handle.file = m.file
             /\ o.handle.data = <<>> /\ o.readCache = Cleared(m.file)
             /\ o.handle.entry = IF o.lost THEN "lost" ELSE "own"
    /\ m.page # 0 =>
          /\ o.handle = handle /\ o.stored = stored /\ o.readCache = readCache
          /\ o.failed = 0 /\ ~ o.lost

\* The handle that a page is written to.
LEMMA WritingIs ==
    ASSUME DeviceOK, NEW m, m.file \in Files, NEW o \in Writing(m)
    PROVE  OpenedFor(m, o)
<1>1. /\ handle \in HandleType /\ (handle # NoHandle => handle.file \in Files)
      /\ handle # NoHandle => handle.entry # None
      /\ readCache \in CacheType /\ stored \in [Files -> FileType]
    BY DEF DeviceOK, CacheType
<1>2. CASE m.page # 0
    <2>1. o = Result(handle, stored, readCache, 0, 0, FALSE)
        BY <1>2 DEF Writing
    <2>2. /\ o.handle = handle /\ o.stored = stored /\ o.readCache = readCache
          /\ o.failed = 0 /\ o.silent = 0 /\ o.lost = FALSE
        BY <2>1 DEF Result
    <2>3. QED
        BY <1>1, <1>2, <2>2 DEF OpenedFor
<1>3. CASE m.page = 0
    <2>1. PICK st : st = IF Opened THEN Closed(handle, NoCRC, stored) ELSE stored
        OBVIOUS
    <2>2. /\ st \in [Files -> FileType]
          /\ \A f \in Files : Valid(st[f]) => st[f] = stored[f]
          /\ \A f \in Files : st[f] # stored[f] => Opened /\ f = handle.file
        <3>1. CASE Opened
            <4>1. st = Closed(handle, NoCRC, stored) /\ handle.file \in Files /\ NoCRC \in Seq(AnyPage)
                BY <1>1, <2>1, <3>1, EmptyTypes DEF Opened, NoCRC
            <4>2. /\ st \in [Files -> FileType]
                  /\ \A f \in Files : f # handle.file => st[f] = stored[f]
                  /\ Valid(st[handle.file]) => st[handle.file] = stored[handle.file]
                <5>1. ClosedFrom(handle, NoCRC, stored, st)
                    BY <1>1, <4>1, ClosedIs
                <5>2. QED
                    BY <5>1 DEF ClosedFrom
            <4>3. QED
                BY <3>1, <4>1, <4>2
        <3>2. CASE ~ Opened
            BY <1>1, <2>1, <3>2
        <3>3. QED
            BY <3>1, <3>2
    <2>3. o \in {Result(Open(m.file, mode),
                        IF mode = "append" THEN st ELSE [st EXCEPT ![m.file] = NoFile],
                        Cleared(m.file), 0, 0, FALSE) : mode \in Modes(st[m.file])}
              \cup (IF st[m.file] = NoFile THEN {} ELSE Damaged(m.file, st))
              \cup {Result(NoHandle, st, readCache, 1, 0, FALSE)}
        BY <1>3, <2>1 DEF Writing, Opening
    <2>4. CASE o = Result(NoHandle, st, readCache, 1, 0, FALSE)
        <3>1. /\ o.handle = NoHandle /\ o.stored = st /\ o.readCache = readCache
              /\ o.failed = 1 /\ o.silent = 0 /\ o.lost = FALSE
            BY <2>4 DEF Result
        <3>2. QED
            BY <1>1, <1>3, <2>2, <3>1, EmptyTypes DEF OpenedFor
    <2>5. Cleared(m.file) \in CacheType
        BY <1>1, EmptyTypes DEF Cleared, CacheType
    <2>6. CASE o \in Damaged(m.file, st)
        <3>1. PICK e \in {"own", "lost"}, x \in Remnants(m.file) :
                 o = Result([file |-> m.file, mode |-> "append", data |-> <<>>, entry |-> e],
                            [st EXCEPT ![m.file] = x], Cleared(m.file), 0, 1, e = "lost")
            BY <2>6, DamagedIs
        <3>2. PICK h, s : /\ h = [file |-> m.file, mode |-> "append", data |-> <<>>, entry |-> e]
                          /\ s = [st EXCEPT ![m.file] = x]
            OBVIOUS
        <3>3. /\ o.handle = h /\ o.stored = s /\ o.readCache = Cleared(m.file)
              /\ o.failed = 0 /\ o.silent = 1 /\ o.lost = (e = "lost")
            BY <3>1, <3>2 DEF Result
        <3>4. /\ h \in HandleType /\ h.file = m.file /\ h.data = <<>> /\ h.entry = e
              /\ h.entry # None /\ h # NoHandle
            BY <3>2, OpenIs
        <3>5. x \in FileType /\ (Valid(x) => x.pages \in Texts[m.file])
            BY RemnantIs
        <3>6. /\ s \in [Files -> FileType]
              /\ \A f \in Files : s[f] = st[f] \/ (f = m.file /\ s[f] = x)
            BY <2>2, <3>2, <3>5
        <3>7. /\ \A f \in Files : Valid(s[f]) =>
                    s[f] = stored[f] \/ (f = m.file /\ s[f].pages \in Texts[f])
              /\ \A f \in Files : s[f] # stored[f] => f = m.file \/ (Opened /\ f = handle.file)
            BY <2>2, <3>5, <3>6
        <3>8. o.lost \in BOOLEAN /\ o.handle.entry = IF o.lost THEN "lost" ELSE "own"
            BY <3>3, <3>4
        <3>9. QED
            BY <1>3, <2>5, <3>3, <3>4, <3>6, <3>7, <3>8 DEF OpenedFor
    <2>7. CASE o \notin Damaged(m.file, st) /\ o # Result(NoHandle, st, readCache, 1, 0, FALSE)
        <3>1. PICK mode \in Modes(st[m.file]) :
                 o = Result(Open(m.file, mode),
                            IF mode = "append" THEN st ELSE [st EXCEPT ![m.file] = NoFile],
                            Cleared(m.file), 0, 0, FALSE)
            BY <2>3, <2>7
        <3>2. mode \in {"append", "over"}
            BY DEF Modes
        <3>3. PICK h, s, k : /\ h = Open(m.file, mode) /\ k = Cleared(m.file)
                             /\ s = IF mode = "append" THEN st ELSE [st EXCEPT ![m.file] = NoFile]
            OBVIOUS
        <3>4. /\ o.handle = h /\ o.stored = s /\ o.readCache = k
              /\ o.failed = 0 /\ o.silent = 0 /\ o.lost = FALSE
            BY <3>1, <3>3 DEF Result
        <3>5. /\ h \in HandleType /\ h.file = m.file /\ h.data = <<>> /\ h.entry = "own"
              /\ h.entry # None /\ h # NoHandle
            BY <3>2, <3>3, OpenIs DEF Open
        <3>6. k \in CacheType
            BY <2>5, <3>3
        <3>7. ~ Valid(NoFile)
            BY DEF Valid, NoFile
        <3>8. /\ s \in [Files -> FileType]
              /\ \A f \in Files : s[f] = st[f] \/ (f = m.file /\ s[f] = NoFile)
            BY <2>2, <3>3, EmptyTypes
        <3>9. /\ \A f \in Files : Valid(s[f]) => s[f] = stored[f]
              /\ \A f \in Files : s[f] # stored[f] => f = m.file \/ (Opened /\ f = handle.file)
            BY <2>2, <3>7, <3>8
        <3>10. QED
            BY <1>3, <3>3, <3>4, <3>5, <3>6, <3>8, <3>9 DEF OpenedFor
    <2>8. QED
        BY <2>4, <2>6, <2>7
<1>4. QED
    BY <1>2, <1>3

\* the data in the handle with the page of m behind it
DataWith(m) == Append(IF m.page = 0 THEN <<>> ELSE handle.data, m.data)

Owned(m) == m.page = 0 \/ handle.entry = "own"

\* the handle's entry after the page of m
EntryWith(m, lost) ==
    IF m.page # 0 THEN handle.entry ELSE IF lost THEN "lost" ELSE "own"

\* page m is saved in full
SavedOK(m, crc, r) ==
    /\ m.page # 0 => Opened /\ r.readCache = readCache
    /\ m.page = 0 => r.readCache = Cleared(m.file)
    /\ IsLast(m) =>
          /\ r.handle = NoHandle
          /\ Owned(m) /\ ~ r.lost => r.stored[m.file] = [pages |-> DataWith(m), crc |-> crc]
    /\ ~ IsLast(m) =>
          /\ r.handle.file = m.file /\ r.handle.data = DataWith(m)
          /\ r.handle.entry = EntryWith(m, r.lost)

SaveTypes(r) ==
    /\ r.handle \in HandleType /\ r.stored \in [Files -> FileType] /\ r.readCache \in CacheType
    /\ r.failed \in {0, 1} /\ r.silent \in {0, 1} /\ r.lost \in BOOLEAN
    /\ r.handle # NoHandle => r.handle.file \in Files /\ r.handle.entry # None

SaveFiles(m, crc, r) ==
    \A f \in Files :
        /\ Valid(r.stored[f]) => \/ r.stored[f] = stored[f]
                                 \/ f = m.file /\ IsLast(m) /\ r.stored[f].pages = crc
                                 \/ f = m.file /\ r.stored[f].pages \in Texts[f]
        /\ r.stored[f] # stored[f] => f = m.file \/ (m.page = 0 /\ Opened /\ f = handle.file)

\* What saving a page does to the files.
LEMMA SaveIs ==
    ASSUME DeviceOK, NEW m, m.file \in Files, m.page \in Nat, m.data \in AnyPage,
           m.page # 0 /\ Opened => handle.file = m.file,
           NEW crc \in Seq(AnyPage), NEW r \in SavePage(m, crc)
    PROVE  /\ SaveTypes(r) /\ SaveFiles(m, crc, r)
           /\ Saved(m, r) => SavedOK(m, crc, r)
<1>1. PICK o \in Writing(m) : r \in Written(m, o, crc)
    BY DEF SavePage
<1>2. OpenedFor(m, o)
    BY <1>1, WritingIs
<1>3. /\ o.handle \in HandleType /\ o.stored \in [Files -> FileType] /\ o.readCache \in CacheType
      /\ o.failed \in {0, 1} /\ o.silent \in {0, 1} /\ o.lost \in BOOLEAN
      /\ o.handle # NoHandle => o.handle.file \in Files /\ o.handle.entry # None
    BY <1>2 DEF OpenedFor
<1>4. /\ \A f \in Files : Valid(o.stored[f]) =>
            o.stored[f] = stored[f] \/ (f = m.file /\ o.stored[f].pages \in Texts[f])
      /\ \A f \in Files : o.stored[f] # stored[f] =>
            m.page = 0 /\ (f = m.file \/ (Opened /\ f = handle.file))
    BY <1>2 DEF OpenedFor
<1>5. CASE o.handle = NoHandle
    <2>1. r = o
        BY <1>1, <1>5 DEF Written
    <2>2. SaveTypes(r) /\ SaveFiles(m, crc, r)
        BY <1>3, <1>4, <2>1 DEF SaveTypes, SaveFiles
    <2>3. ~ Saved(m, r)
        <3>1. CASE m.page = 0
            BY <1>2, <1>5, <2>1, <3>1 DEF OpenedFor, Saved
        <3>2. CASE m.page # 0
            BY <1>2, <1>5, <2>1, <3>2 DEF OpenedFor, Saved, Opened
        <3>3. QED
            BY <3>1, <3>2
    <2>4. QED
        BY <2>2, <2>3
<1>6. CASE o.handle # NoHandle
    <2>1. PICK bad \in {"nothing", "data"} \cup (IF IsLast(m) THEN {"header"} ELSE {}) :
             r = LET h == [o.handle EXCEPT !.data = Append(@, IF bad = "data" THEN Torn ELSE m.data)]
                     failed == IF bad = "nothing" THEN 0 ELSE 1
                 IN  IF IsLast(m)
                     THEN Result(NoHandle,
                                 IF bad = "header" THEN o.stored ELSE Closed(h, crc, o.stored),
                                 o.readCache, failed, o.silent, o.lost)
                     ELSE Result(h, o.stored, o.readCache, failed, o.silent, o.lost)
        BY <1>1, <1>6 DEF Written
    <2>2. PICK x : x = IF bad = "data" THEN Torn ELSE m.data
        OBVIOUS
    <2>3. PICK h : h = [o.handle EXCEPT !.data = Append(@, x)]
        OBVIOUS
    <2>4. PICK failed : failed = IF bad = "nothing" THEN 0 ELSE 1
        OBVIOUS
    <2>5. PICK s : s = IF bad = "header" THEN o.stored ELSE Closed(h, crc, o.stored)
        OBVIOUS
    <2>6. r = IF IsLast(m) THEN Result(NoHandle, s, o.readCache, failed, o.silent, o.lost)
              ELSE Result(h, o.stored, o.readCache, failed, o.silent, o.lost)
        BY <2>1, <2>2, <2>3, <2>4, <2>5
    <2>7. x \in AnyPage /\ failed \in {0, 1}
        BY <2>2, <2>4, PageIs
    <2>8. /\ h \in HandleType /\ h.file = o.handle.file /\ h.entry = o.handle.entry
          /\ h.data = Append(o.handle.data, x)
        <3>1. PICK g : g = o.handle
            OBVIOUS
        <3>2. PICK d : d = Append(g.data, x)
            OBVIOUS
        <3>3. g \in HandleType /\ d \in Seq(AnyPage)
            BY <1>3, <2>7, <3>1, <3>2 DEF HandleType
        <3>4. h = [g EXCEPT !.data = d]
            BY <2>3, <3>1, <3>2
        <3>5. h \in HandleType /\ h.file = g.file /\ h.entry = g.entry /\ h.data = d
            BY <3>3, <3>4 DEF HandleType
        <3>6. QED
            BY <3>1, <3>2, <3>5
    <2>9. /\ o.handle.file = m.file /\ o.handle.entry = EntryWith(m, o.lost)
          /\ Owned(m) /\ ~ o.lost => o.handle.entry = "own"
          /\ o.handle.data = IF m.page = 0 THEN <<>> ELSE handle.data
        <3>1. CASE m.page = 0
            BY <1>2, <1>6, <3>1 DEF OpenedFor, EntryWith
        <3>2. CASE m.page # 0
            BY <1>2, <1>6, <3>2 DEF OpenedFor, Opened, Owned, EntryWith
        <3>3. QED
            BY <3>1, <3>2
    <2>10. h.file = m.file /\ h # NoHandle
        <3>1. h.file \in Files /\ None \notin Files
            BY <2>8, <2>9, TransferAssumption
        <3>2. QED
            BY <2>8, <2>9, <3>1 DEF NoHandle
    <2>11. bad = "nothing" => h.data = DataWith(m)
        BY <2>2, <2>8, <2>9 DEF DataWith
    <2>12. bad # "header" => ClosedFrom(h, crc, o.stored, s)
        BY <1>3, <2>5, <2>8, <2>10, ClosedIs
    <2>13. /\ s \in [Files -> FileType]
           /\ \A f \in Files : Valid(s[f]) =>
                 s[f] = stored[f] \/ (f = m.file /\ (s[f].pages = crc \/ s[f].pages \in Texts[f]))
           /\ \A f \in Files : s[f] # stored[f] => f = m.file \/ (m.page = 0 /\ Opened /\ f = handle.file)
        <3>1. CASE bad = "header"
            BY <1>3, <1>4, <2>5, <3>1
        <3>2. CASE bad # "header"
            <4>1. /\ s \in [Files -> FileType] /\ \A f \in Files : f # m.file => s[f] = o.stored[f]
                  /\ Valid(s[m.file]) => s[m.file] = o.stored[m.file] \/ s[m.file].pages = crc
                BY <2>10, <2>12, <3>2 DEF ClosedFrom
            <4>2. QED
                BY <1>4, <4>1
        <3>3. QED
            BY <3>1, <3>2
    <2>14. failed = 0 => bad = "nothing"
        BY <2>4
    <2>15. CASE IsLast(m)
        <3>1. /\ r.handle = NoHandle /\ r.stored = s /\ r.readCache = o.readCache
              /\ r.failed = failed /\ r.silent = o.silent /\ r.lost = o.lost
            BY <2>6, <2>15 DEF Result
        <3>2. SaveTypes(r) /\ SaveFiles(m, crc, r)
            BY <1>3, <2>7, <2>13, <2>15, <3>1, EmptyTypes DEF SaveTypes, SaveFiles
        <3>3. ASSUME Saved(m, r)
              PROVE  SavedOK(m, crc, r)
            <4>1. bad = "nothing"
                BY <2>14, <3>1, <3>3 DEF Saved
            <4>2. Owned(m) /\ ~ r.lost => s[m.file] = [pages |-> DataWith(m), crc |-> crc]
                BY <2>8, <2>9, <2>10, <2>11, <2>12, <3>1, <4>1 DEF ClosedFrom
            <4>3. /\ m.page # 0 => Opened /\ r.readCache = readCache
                  /\ m.page = 0 => r.readCache = Cleared(m.file)
                BY <1>2, <1>6, <3>1, <3>3 DEF OpenedFor, Saved
            <4>4. QED
                BY <2>15, <3>1, <4>2, <4>3 DEF SavedOK
        <3>4. QED
            BY <3>2, <3>3
    <2>16. CASE ~ IsLast(m)
        <3>1. /\ r.handle = h /\ r.stored = o.stored /\ r.readCache = o.readCache
              /\ r.failed = failed /\ r.silent = o.silent /\ r.lost = o.lost
            BY <2>6, <2>16 DEF Result
        <3>2. SaveTypes(r) /\ SaveFiles(m, crc, r)
            BY <1>3, <1>4, <1>6, <2>7, <2>8, <3>1 DEF SaveTypes, SaveFiles
        <3>3. ASSUME Saved(m, r)
              PROVE  SavedOK(m, crc, r)
            <4>1. bad = "nothing"
                BY <2>14, <3>1, <3>3 DEF Saved
            <4>2. h.file = m.file /\ h.data = DataWith(m) /\ h.entry = EntryWith(m, r.lost)
                BY <2>8, <2>9, <2>10, <2>11, <3>1, <4>1
            <4>3. /\ m.page # 0 => Opened /\ r.readCache = readCache
                  /\ m.page = 0 => r.readCache = Cleared(m.file)
                BY <1>2, <1>6, <3>1, <3>3 DEF OpenedFor, Saved
            <4>4. QED
                BY <2>16, <3>1, <4>2, <4>3 DEF SavedOK
        <3>4. QED
            BY <3>2, <3>3
    <2>17. QED
        BY <2>15, <2>16
<1>7. QED
    BY <1>5, <1>6

\* What is known of a page that comes in order.
LEMMA PageFacts ==
    ASSUME Inv, NEW m, Taken(m), m.cmd = "put", InOrder(m), NEW crc, crc = SumWith(m)
    PROVE  /\ crc \in Seq(AnyPage) /\ m.data \in AnyPage /\ Len(crc) = m.page + 1
           /\ m.page \in Nat /\ m.page < Len(m.crc) /\ m.crc \in AnyText
           /\ m.file \in Files /\ m.crc \in Texts[m.file] /\ m.nPages = Len(m.crc)
           /\ m.page # 0 => prevPage >= 0 /\ prevPage + 1 = m.page
           /\ m.page # 0 /\ Opened /\ ~ delay => handle.file = m.file /\ handle.data = sum
           /\ ~ delay => \A r \in SavePage(m, crc) : /\ SaveTypes(r) /\ SaveFiles(m, crc, r)
                                                     /\ Saved(m, r) => SavedOK(m, crc, r)
<1>1. DeviceOK /\ DataOK /\ Proper(m) /\ m.page # SOF /\ m.page = ExpectedPage
    BY DEF Inv, Taken, InOrder
<1>2. /\ crc \in Seq(AnyPage) /\ m.data \in AnyPage /\ Len(crc) = m.page + 1 /\ m.page >= 0
      /\ m.page < Len(m.crc) /\ m.crc \in AnyText /\ m.page \in Nat
    BY <1>1, SumIs DEF Proper, Requests
<1>3. m.file \in Files /\ m.crc \in Texts[m.file] /\ m.nPages = Len(m.crc)
    BY <1>1 DEF Proper
<1>4. m.page # 0 => prevPage >= 0 /\ prevPage + 1 = m.page
    BY <1>1, <1>2 DEF ExpectedPage, DeviceOK
<1>5. m.page # 0 /\ Opened /\ ~ delay => handle.file = m.file /\ handle.data = sum
    BY <1>1, <1>2, <1>4 DEF Taken, DataOK
<1>6. ASSUME ~ delay, NEW r \in SavePage(m, crc)
      PROVE  /\ SaveTypes(r) /\ SaveFiles(m, crc, r)
             /\ Saved(m, r) => SavedOK(m, crc, r)
    BY <1>1, <1>2, <1>3, <1>5, <1>6, SaveIs
<1>7. QED
    BY <1>2, <1>3, <1>4, <1>5, <1>6

\* The device answers a page with OK and stores nothing.
LEMMA DelayedStep ==
    ASSUME Inv, NEW m, Taken(m), m.cmd = "put", PutPage(m), delay
    PROVE  Inv'
<1>1. /\ InOrder(m) /\ m.page # SOF /\ sum' = SumWith(m) /\ unsaved' = TRUE
      /\ prevPage' = m.page /\ prevSum' = m.data /\ reply' = IF m.fresh THEN "ok" ELSE reply
      /\ UNCHANGED <<handle, readCache, stored, delay, faults>>
    BY DEF PutPage, PutDelayed, InOrder, Accept, Reply
<1>2. /\ DeviceOK /\ ValidWasSent /\ CountsOK /\ faults \in Nat
      /\ ops' = ops /\ resets' = resets
    BY TransferAssumption DEF Inv, CountsOK, Taken
<1>3. PICK crc : crc = SumWith(m)
    OBVIOUS
<1>4. /\ crc \in Seq(AnyPage) /\ m.data \in AnyPage /\ Len(crc) = m.page + 1
      /\ m.page \in Nat /\ m.page < Len(m.crc) /\ m.crc \in AnyText
    BY <1>1, <1>3, PageFacts
<1>5. DeviceOK'
    BY <1>1, <1>2, <1>3, <1>4 DEF DeviceOK, SOF
<1>6. ValidWasSent' /\ CountsOK'
    BY <1>1, <1>2 DEF ValidWasSent, Valid, CountsOK
<1>7. "ok" \in Statuses
    BY DEF Statuses
<1>8. QED
    BY <1>1, <1>2, <1>5, <1>6, <1>7, Processed

\* The device stores a page.
LEMMA PageStep ==
    ASSUME Inv, NEW m, Taken(m), m.cmd = "put", PutPage(m), ~ delay
    PROVE  Inv'
<1>1. /\ HostOK /\ DeviceOK /\ ValidWasSent /\ CountsOK /\ DataOK
      /\ faults \in 0 .. MaxFaults /\ MaxFaults \in Nat
      /\ ops' = ops /\ resets' = resets /\ host' = host /\ Proper(m)
    BY TransferAssumption DEF Inv, CountsOK, Taken
<1>2. /\ m.page # SOF /\ m.page = ExpectedPage /\ ~ Mismatch(m) /\ sum' = SumWith(m)
    BY DEF PutPage, InOrder
<1>3. PICK crc : crc = SumWith(m)
    OBVIOUS
<1>4. PICK r \in SavePage(m, crc) :
         /\ faults + r.failed + r.silent <= MaxFaults /\ faults' = faults + r.failed + r.silent
         /\ handle' = r.handle /\ stored' = r.stored /\ readCache' = r.readCache
         /\ unsaved' = ((m.page # 0 /\ unsaved) \/ r.lost) /\ delay' = delay
         /\ IF Saved(m, r)
            THEN prevPage' = m.page /\ prevSum' = m.data /\ Reply(m, "ok")
            ELSE Forget /\ Reply(m, "failed")
    BY <1>3 DEF PutPage, PutSaved, Accept
<1>5. /\ crc \in Seq(AnyPage) /\ m.data \in AnyPage /\ Len(crc) = m.page + 1
      /\ m.page \in Nat /\ m.page < Len(m.crc) /\ m.crc \in AnyText
      /\ m.file \in Files /\ m.crc \in Texts[m.file] /\ m.nPages = Len(m.crc)
      /\ m.page # 0 => prevPage >= 0 /\ prevPage + 1 = m.page
      /\ m.page # 0 /\ Opened => handle.file = m.file /\ handle.data = sum
      /\ delay \in BOOLEAN /\ unsaved \in BOOLEAN /\ r.lost \in BOOLEAN
      /\ SaveTypes(r) /\ SaveFiles(m, crc, r)
      /\ Saved(m, r) => SavedOK(m, crc, r)
    BY <1>1, <1>3, <1>4, PageFacts DEF PutPage, DeviceOK, SaveTypes
<1>6. m.page # 0 /\ Opened /\ Paging => Storing
    BY <1>1, <1>5 DEF DataOK
<1>7. IsLast(m) => crc = m.crc
    BY <1>2, <1>3 DEF Mismatch
<1>8. CountsOK' /\ faults' \in Nat /\ faults' >= faults
    BY <1>1, <1>4, <1>5 DEF CountsOK, SaveTypes
<1>9. ValidWasSent'
    <2>1. ASSUME NEW f \in Files, Valid(r.stored[f])
          PROVE  r.stored[f].pages \in Texts[f]
        <3>1. \/ r.stored[f] = stored[f]
              \/ f = m.file /\ IsLast(m) /\ r.stored[f].pages = crc
              \/ f = m.file /\ r.stored[f].pages \in Texts[f]
            BY <1>5, <2>1 DEF SaveFiles
        <3>2. CASE r.stored[f] = stored[f]
            BY <1>1, <2>1, <3>2 DEF ValidWasSent
        <3>3. CASE f = m.file /\ IsLast(m) /\ r.stored[f].pages = crc
            BY <1>5, <1>7, <3>3
        <3>4. QED
            BY <3>1, <3>2, <3>3
    <2>2. QED
        BY <1>4, <2>1 DEF ValidWasSent, Valid
<1>10. /\ handle' \in HandleType /\ (handle' # NoHandle => handle'.file \in Files)
       /\ handle' # NoHandle => handle'.entry # None
       /\ readCache' \in [name : Files \cup {None}, file : FileType]
       /\ stored' \in [Files -> FileType] /\ sum' \in Seq(AnyPage)
       /\ delay' \in BOOLEAN /\ unsaved' \in BOOLEAN
    BY <1>2, <1>3, <1>4, <1>5 DEF SaveTypes, CacheType
<1>11. CASE ~ Saved(m, r)
    <2>1. prevPage' = SOF /\ prevSum' = None /\ reply' = IF m.fresh THEN "failed" ELSE reply
        BY <1>4, <1>11 DEF Forget, Reply
    <2>2. DeviceOK'
        BY <1>10, <2>1, PageIs DEF DeviceOK, SOF
    <2>3. ~ (prevPage' >= 0) /\ "failed" \in Statuses
        BY <2>1 DEF SOF, Statuses
    <2>4. QED
        BY <1>8, <1>9, <2>1, <2>2, <2>3, Processed
<1>12. CASE Saved(m, r)
    <2>1. prevPage' = m.page /\ prevSum' = m.data /\ reply' = IF m.fresh THEN "ok" ELSE reply
        BY <1>4, <1>12 DEF Reply
    <2>2. DeviceOK'
        BY <1>2, <1>3, <1>5, <1>10, <2>1 DEF DeviceOK, SOF
    <2>3. SavedOK(m, crc, r)
        BY <1>5, <1>12
    <2>4. DataWith(m) = crc
        <3>1. CASE m.page = 0
            <4>1. DataWith(m) = <<m.data>>
                BY <3>1 DEF DataWith
            <4>2. QED
                BY <1>3, <3>1, <4>1 DEF SumWith
        <3>2. CASE m.page # 0
            <4>1. Opened
                BY <2>3, <3>2 DEF SavedOK
            <4>2. QED
                BY <1>3, <1>5, <3>2, <4>1 DEF DataWith, SumWith
        <3>3. QED
            BY <3>1, <3>2
    <2>5. Paging /\ ~ unsaved' => Owned(m) /\ ~ r.lost
        BY <1>4, <1>6, <2>3 DEF Owned, SavedOK, Storing
    <2>6. Paging => m.file = host.file /\ m.crc = host.text /\ m.page = host.page
        BY DEF Taken
    <2>7. ASSUME Opened'
          PROVE  /\ handle'.data = sum'
                 /\ \A n \in Queue' : n.page >= 0 => n.file = handle'.file
                 /\ Paging => host.file = handle'.file /\ Storing'
        <3>1. ~ IsLast(m)
            BY <1>4, <2>3, <2>7 DEF SavedOK, Opened
        <3>2. /\ handle'.file = m.file /\ handle'.data = sum'
              /\ handle'.entry = EntryWith(m, r.lost)
            BY <1>2, <1>3, <1>4, <2>3, <2>4, <3>1 DEF SavedOK
        <3>3. \A n \in Queue' : n.page >= 0 => n.file = m.file
            BY DEF Taken, Ahead
        <3>4. ASSUME Paging PROVE Storing'
            <4>1. CASE m.page = 0
                BY <1>4, <3>2, <4>1 DEF EntryWith, Storing
            <4>2. CASE m.page # 0
                <5>1. Storing /\ (unsaved => unsaved') /\ handle'.entry = handle.entry
                    BY <1>4, <1>6, <2>3, <3>2, <3>4, <4>2 DEF EntryWith, SavedOK
                <5>2. QED
                    BY <5>1 DEF Storing
            <4>3. QED
                BY <4>1, <4>2
        <3>5. QED
            BY <2>6, <3>2, <3>3, <3>4
    <2>8. ASSUME Paging, ~ unsaved'
          PROVE  Fresh' /\ (m.page + 1 = Len(host.text) => Done')
        <3>1. Fresh'
            <4>1. CASE m.page = 0
                <5>1. readCache' = Cleared(m.file)
                    BY <1>4, <2>3, <4>1 DEF SavedOK
                <5>2. readCache'.name # m.file
                    BY <1>5, <5>1, EmptyTypes, TransferAssumption DEF Cleared
                <5>3. QED
                    BY <1>1, <2>6, <2>8, <5>2 DEF Fresh
            <4>2. CASE m.page # 0
                <5>1. readCache' = readCache
                    BY <1>4, <2>3, <4>2 DEF SavedOK
                <5>2. Fresh
                    BY <1>1, <1>4, <1>5, <2>8, <4>2 DEF DataOK
                <5>3. QED
                    BY <1>1, <5>1, <5>2 DEF Fresh
            <4>3. QED
                BY <4>1, <4>2
        <3>2. ASSUME m.page + 1 = Len(host.text)
              PROVE  Done'
            <4>1. IsLast(m)
                BY <1>5, <2>6, <2>8, <3>2 DEF IsLast
            <4>2. r.handle = NoHandle /\ r.stored[m.file] = [pages |-> crc, crc |-> crc]
                BY <2>3, <2>4, <2>5, <2>8, <4>1 DEF SavedOK
            <4>3. crc = host.text
                BY <1>7, <2>6, <2>8, <4>1
            <4>4. stored'[host'.file] = Whole(host'.text)
                BY <1>1, <1>4, <2>6, <2>8, <4>2, <4>3 DEF Whole
            <4>5. QED
                BY <1>4, <4>2, <4>4 DEF Done, Opened
        <3>3. QED
            BY <3>1, <3>2
    <2>9. prevPage' >= 0 /\ Paging /\ ~ unsaved' => Fresh' /\ (prevPage' + 1 = Len(host.text) => Done')
        BY <2>1, <2>8
    <2>10. Paging /\ m.fresh /\ host.page + 1 = Len(host.text) /\ ~ unsaved' => Done' /\ Fresh'
        BY <2>6, <2>8
    <2>11. "ok" \in Statuses /\ m.page # SOF
        BY <1>2 DEF Statuses
    <2>12. QED
        BY <1>8, <1>9, <2>1, <2>2, <2>7, <2>9, <2>10, <2>11, Processed
<1>13. QED
    BY <1>11, <1>12

\* The device works on a page, or on the start of a file.
LEMMA PutDataStep ==
    ASSUME Inv, NEW m, Taken(m), m.cmd = "put", PutData(m)
    PROVE  Inv'
<1>1. CASE PutRepeat(m)
    BY <1>1, Answered DEF PutRepeat, IsRepeat, Statuses
<1>2. CASE PutOutOfOrder(m)
    BY <1>2, Answered DEF PutOutOfOrder, Statuses
<1>3. CASE PutMismatch(m)
    BY <1>3, Mismatched
<1>4. CASE PutPage(m)
    BY <1>4, PageStep, DelayedStep
<1>5. QED
    BY <1>1, <1>2, <1>3, <1>4 DEF PutData

\* The device works on a whole request.
LEMMA ReceiveStep ==
    ASSUME Inv, ReceiveRequest
    PROVE  Inv'
<1>1. PICK m : Taken(m) /\ ProcessRequest(m)
    BY TakenWhole
<1>2. CASE ProcessPut(m)
    BY <1>1, <1>2, StartOfFile, PutDataStep DEF ProcessPut
<1>3. CASE ProcessGet(m)
    BY <1>1, <1>3, GetStep
<1>4. CASE ProcessErase(m)
    BY <1>1, <1>4, EraseStep
<1>5. CASE ProcessReset(m)
    BY <1>1, <1>5, FactoryReset
<1>6. QED
    BY <1>1, <1>2, <1>3, <1>4, <1>5 DEF ProcessRequest

\* The device works on data that was a request.
LEMMA TornStep ==
    ASSUME Inv, ReceiveAsData
    PROVE  Inv'
<1>1. PICK m : Taken(m) /\ PutData(m)
    BY TakenTorn
<1>2. m.page # SOF
    BY <1>1 DEF PutData, PutRepeat, PutOutOfOrder, PutMismatch, PutPage, InOrder
<1>3. m.cmd = "put"
    BY <1>1, <1>2 DEF Taken, Proper
<1>4. QED
    BY <1>1, <1>3, PutDataStep

(***************************************************************************)
(* The invariant, and what follows from it.                                *)
(***************************************************************************)
\* The invariant holds when both start.
LEMMA InitInv ==
    ASSUME Init
    PROVE  Inv
<1>1. /\ host = Idle /\ wire = <<>> /\ reply = None
      /\ curRequest = NoRequest /\ prevPage = SOF /\ prevSum = None /\ sum = <<>>
      /\ handle = NoHandle /\ readCache = NoCache /\ delay = FALSE /\ unsaved = FALSE
      /\ ops = 0 /\ faults = 0 /\ resets = 0
    BY DEF Init
<1>2. HostOK
    <2>1. host \in HostType /\ host.tries \in 0 .. LastTry
        BY <1>1, TransferAssumption DEF Idle, HostType, SOF
    <2>2. host.cmd = None /\ host.page = SOF
        BY <1>1 DEF Idle
    <2>3. QED
        BY <2>1, <2>2 DEF HostOK, None
<1>3. Len(<<>>) = 0 /\ 1 .. 0 = {}
    OBVIOUS
<1>4. Queue = {} /\ SizeOf(wire, curRequest) = 0 /\ ~ Pending
    BY <1>1, <1>3 DEF Queue, QueueOf, SizeOf, Pending
<1>5. PipeOK
    BY <1>1, <1>4, EmptyTypes DEF PipeOK
<1>6. CountsOK /\ faults = 0
    BY <1>1, TransferAssumption DEF CountsOK
<1>7. OrderOK
    <2>1. Ordered(wire, curRequest)
        BY <1>1, <1>3 DEF Ordered
    <2>2. QED
        BY <1>4, <1>6, <2>1 DEF OrderOK
<1>8. ~ Waiting /\ ~ Paging /\ host.st # "ok"
    BY <1>1 DEF Waiting, Paging, Idle
<1>9. MatchOK
    BY <1>1, <1>4, <1>8 DEF MatchOK
<1>10. ~ Opened /\ ~ (prevPage >= 0)
    BY <1>1 DEF Opened, SOF
<1>11. DataOK
    BY <1>8, <1>10 DEF DataOK
<1>12. \A f \in Files : stored[f] \in FileType /\ (Valid(stored[f]) => stored[f].pages \in Texts[f])
    <2> SUFFICES ASSUME NEW f \in Files
                 PROVE  stored[f] \in FileType /\ (Valid(stored[f]) => stored[f].pages \in Texts[f])
        OBVIOUS
    <2>1. /\ stored[f] = NoFile \/ stored[f].pages \in Texts[f]
          /\ stored[f] \in {NoFile} \cup {Whole(t) : t \in UNION {Texts[g] : g \in Files}}
        BY DEF Init
    <2>2. ~ Valid(NoFile)
        BY DEF Valid, NoFile
    <2>3. CASE stored[f] = NoFile
        BY <2>2, <2>3, EmptyTypes
    <2>4. CASE stored[f] # NoFile
        <3>1. PICK t \in UNION {Texts[g] : g \in Files} : stored[f] = Whole(t)
            BY <2>1, <2>4
        <3>2. PICK g \in Files : t \in Texts[g]
            OBVIOUS
        <3>3. QED
            BY <2>1, <2>4, <3>1, <3>2, TextType
    <2>5. QED
        BY <2>3, <2>4
<1>13. DeviceOK
    <2>1. stored \in [Files -> FileType]
        BY <1>12 DEF Init
    <2>2. delay \in BOOLEAN /\ unsaved \in BOOLEAN
        BY <1>1
    <2>3. QED
        BY <1>1, <2>1, <2>2, EmptyTypes, PageIs DEF DeviceOK, SOF
<1>14. ValidWasSent
    BY <1>12 DEF ValidWasSent
<1>15. QED
    BY <1>2, <1>5, <1>6, <1>7, <1>9, <1>11, <1>13, <1>14 DEF Inv

\* Every step keeps the invariant.
LEMMA NextInv ==
    ASSUME Inv, [Next]_vars
    PROVE  Inv'
<1>1. CASE UNCHANGED vars
    <2>1. /\ UNCHANGED <<host, wire, reply, curRequest, prevPage, prevSum, sum, handle, readCache>>
          /\ UNCHANGED <<stored, delay, unsaved, ops, faults, resets>>
        BY <1>1 DEF vars, device, flash, counts
    <2>2. /\ HostOK' /\ CountsOK' /\ DeviceOK' /\ ValidWasSent'
        BY <2>1 DEF Inv, HostOK, CountsOK, DeviceOK, ValidWasSent, Valid
    <2>3. Queue' = Queue /\ (Waiting' <=> Waiting) /\ (Paging' <=> Paging) /\ (Pending' <=> Pending)
        BY <2>1 DEF Queue, Waiting, Paging, Pending
    <2>4. PipeOK'
        BY <2>1, <2>3 DEF Inv, PipeOK
    <2>5. OrderOK'
        BY <2>1, <2>3 DEF Inv, OrderOK
    <2>6. MatchOK'
        BY <2>1, <2>3 DEF Inv, MatchOK
    <2>7. (Opened' <=> Opened) /\ (Done' <=> Done) /\ (Fresh' <=> Fresh) /\ (Storing' <=> Storing)
        BY <2>1 DEF Opened, Done, Fresh, Storing
    <2>8. DataOK'
        BY <2>1, <2>3, <2>7 DEF Inv, DataOK
    <2>9. QED
        BY <2>2, <2>4, <2>5, <2>6, <2>8 DEF Inv
<1>2. CASE Start \/ StartAgain
    BY <1>2, StartStep
<1>3. CASE HostAccepts
    BY <1>3, AcceptStep
<1>4. CASE HostRejects
    BY <1>4, RejectStep
<1>5. CASE HostTimeout
    BY <1>5, TimeoutStep
<1>6. CASE HostDies
    BY <1>6, DeathStep
<1>7. CASE Lose
    BY <1>7, LoseStep
<1>8. CASE LoseReply
    BY <1>8, LoseReplyStep
<1>9. CASE ReceiveRequest
    BY <1>9, ReceiveStep
<1>10. CASE ReceiveHeader
    BY <1>10, HeaderStep
<1>11. CASE ReceiveAsData
    BY <1>11, TornStep
<1>12. CASE ReceiveTooLittle
    BY <1>12, TooLittleStep
<1>13. CASE CancelRequest
    BY <1>13, CancelStep
<1>14. CASE LongPause
    BY <1>14, PauseStep
<1>15. CASE DeviceReset
    BY <1>15, ResetStep
<1>16. CASE SetDelay
    BY <1>16, DelayStep
<1>17. QED
    BY <1>1, <1>2, <1>3, <1>4, <1>5, <1>6, <1>7, <1>8, <1>9, <1>10, <1>11, <1>12, <1>13,
       <1>14, <1>15, <1>16 DEF Next, Device

\* the invariant of the transfer
THEOREM TransferInvariant == Spec => []Inv
<1>1. Init => Inv
    BY InitInv
<1>2. Inv /\ [Next]_vars => Inv'
    BY NextInv
<1>3. QED
    BY <1>1, <1>2, PTL DEF Spec

\* Type correctness: the pipe holds at most one request more than faults have
\* happened, whatever the host gives up and sends again.
THEOREM TypeInvariant == Spec => []TypeOK
<1>1. Inv => TypeOK
    <2> SUFFICES ASSUME Inv PROVE TypeOK
        OBVIOUS
    <2>1. HostOK /\ PipeOK /\ DeviceOK /\ CountsOK /\ OrderOK
        BY DEF Inv
    <2>2. /\ host.st \in {"idle", "sent", "ok", "failed"}
          /\ host.cmd \in Commands \cup {"put", None}
          /\ host.file \in Files \cup {All, None} /\ host.tries \in 0 .. LastTry
          /\ host.text \in AnyText \cup {<<>>} /\ host.page \in Int
        BY <2>1 DEF HostOK, HostType
    <2>3. host.page \in SOF .. Len(host.text)
        <3>1. CASE host.cmd = "put"
            <4>1. host.page \in SOF .. Len(host.text) - 1 /\ Len(host.text) \in Nat
                BY <2>1, <3>1, TextIs DEF HostOK
            <4>2. QED
                BY <4>1 DEF SOF
        <3>2. CASE host.cmd # "put"
            <4>1. host.page = SOF /\ Len(host.text) \in Nat
                <5>1. CASE host.text = <<>>
                    BY <2>1, <3>2, <5>1 DEF HostOK
                <5>2. CASE host.text \in AnyText
                    <6>1. PICK f \in Files : host.text \in Texts[f]
                        BY <5>2 DEF AnyText
                    <6>2. QED
                        BY <2>1, <3>2, <6>1, TextIs DEF HostOK
                <5>3. QED
                    BY <2>2, <5>1, <5>2
            <4>2. QED
                BY <4>1 DEF SOF
        <3>3. QED
            BY <3>1, <3>2
    <2>4. Len(wire) <= 1 + MaxFaults
        <3>1. /\ Len(wire) \in Nat /\ faults \in 0 .. MaxFaults /\ MaxFaults \in Nat
              /\ SizeOf(wire, curRequest) <= faults + 1
            BY <2>1, QueueIs, TransferAssumption DEF CountsOK, OrderOK
        <3>2. SizeOf(wire, curRequest) >= Len(wire)
            BY <3>1 DEF SizeOf
        <3>3. QED
            BY <3>1, <3>2 DEF SizeOf
    <2>5. prevPage = SOF \/ \E t \in AnyText : prevPage \in 0 .. Len(t) - 1
        <3>1. CASE prevPage >= 0
            <4>1. PICK t \in AnyText : prevPage < Len(t)
                BY <2>1, <3>1 DEF DeviceOK
            <4>2. PICK f \in Files : t \in Texts[f]
                BY DEF AnyText
            <4>3. Len(t) \in Nat /\ prevPage \in Int
                BY <2>1, <4>2, TextIs DEF DeviceOK
            <4>4. prevPage \in 0 .. Len(t) - 1
                BY <3>1, <4>1, <4>3
            <4>5. QED
                BY <4>4
        <3>2. CASE ~ (prevPage >= 0)
            BY <2>1, <3>2 DEF DeviceOK, SOF
        <3>3. QED
            BY <3>1, <3>2
    <2>6. /\ handle.file \in Files \cup {None} /\ handle.mode \in {"append", "over", None}
          /\ handle.entry \in {"own", "spoiled", "wild", "lost", None}
          /\ delay \in BOOLEAN /\ unsaved \in BOOLEAN
          /\ readCache.name \in Files \cup {None} /\ DOMAIN stored = Files
        BY <2>1 DEF DeviceOK, HandleType
    <2>7. /\ prevSum \in AnyPage /\ sum \in Seq(AnyPage)
          /\ prevPage >= 0 => Len(sum) = prevPage + 1
        BY <2>1 DEF DeviceOK
    <2>8. reply \in {None, "ok", "retry_ok", "out_of_bounds", "config_invalid", "failed", "not_found"}
        BY <2>1 DEF PipeOK, Statuses
    <2>9. QED
        BY <2>1, <2>2, <2>3, <2>4, <2>5, <2>6, <2>7, <2>8 DEF TypeOK, CountsOK
<1>2. QED
    BY <1>1, TransferInvariant, PTL

\* A file that the boot code accepts is one text that a host sent for that very
\* file, whole and in order, whatever is lost, repeated or abandoned.
THEOREM ValidFilesWereSent == Spec => []ValidWasSent
<1>1. Inv => ValidWasSent
    BY DEF Inv
<1>2. QED
    BY <1>1, TransferInvariant, PTL

\* A PUT of a text with pages that the host reports as done is in flash as a
\* whole, and the device has let go of its write handle and of what it had read
\* before, unless the debug mode or a sector that was not put back kept the
\* pages from where the reader looks.
THEOREM GoodPutIsStored == Spec => []PutOkStored
<1>1. Inv => PutOkStored
    BY DEF Inv, DataOK, Done, Fresh, PutOkStored
<1>2. QED
    BY <1>1, TransferInvariant, PTL

\* A request changes no file but its own, a factory reset and the first page of
\* a transfer aside, which completes the file that an abandoned one left open.
THEOREM OtherFilesAreKept == Spec => OtherFilesKept
<1> DEFINE Kept == \A f \in Files : stored'[f] # stored[f] =>
                      \/ Current.cmd = "reset"
                      \/ Current.file \in {f, All}
                      \/ Current.cmd = "put" /\ Current.page = 0 /\ handle.file = f
<1>1. ASSUME Inv, ReceiveRequest \/ ReceiveAsData
      PROVE  Kept
    <2>1. PICK m : /\ Taken(m) /\ (ProcessRequest(m) \/ PutData(m))
                   /\ m.file = Current.file /\ m.page = Current.page /\ m.cmd = Current.cmd
        BY <1>1, TakenWhole, TakenTorn
    <2>2. SUFFICES ASSUME NEW f \in Files, stored'[f] # stored[f]
                   PROVE  \/ m.cmd = "reset"
                          \/ m.file \in {f, All}
                          \/ m.cmd = "put" /\ m.page = 0 /\ handle.file = f
        BY <2>1
    <2>3. stored \in [Files -> FileType]
        BY <1>1 DEF Inv, DeviceOK
    <2>4. CASE PutPage(m)
        <3>1. m.cmd = "put"
            BY <2>1, <2>4 DEF PutPage, InOrder, Taken, Proper
        <3>2. PICK crc : crc = SumWith(m)
            OBVIOUS
        <3>3. ~ delay
            BY <2>2, <2>4 DEF PutPage, PutDelayed
        <3>4. PICK r \in SavePage(m, crc) : stored' = r.stored
            BY <2>4, <3>2, <3>3 DEF PutPage, PutSaved
        <3>5. SaveFiles(m, crc, r)
            BY <1>1, <2>1, <2>4, <3>1, <3>2, <3>3, <3>4, PageFacts DEF PutPage
        <3>6. QED
            BY <2>2, <3>1, <3>4, <3>5 DEF SaveFiles
    <2>5. CASE ProcessErase(m)
        <3>1. PICK gone \in SUBSET Erased(m.file) :
                 stored' = [g \in Files |-> IF g \in gone THEN NoFile ELSE stored[g]]
            BY <2>5 DEF ProcessErase
        <3>2. f \in gone
            BY <2>2, <3>1
        <3>3. QED
            BY <3>1, <3>2 DEF Erased
    <2>6. CASE ProcessReset(m)
        BY <2>6 DEF ProcessReset
    <2>7. CASE PutStart(m) \/ PutRepeat(m) \/ PutOutOfOrder(m) \/ PutMismatch(m) \/ ProcessGet(m)
        BY <2>2, <2>7 DEF PutStart, PutRepeat, PutOutOfOrder, PutMismatch, ProcessGet, flash
    <2>8. QED
        BY <2>1, <2>4, <2>5, <2>6, <2>7 DEF ProcessRequest, ProcessPut, PutData
<1>2. ASSUME [Next]_vars, ~ (ReceiveRequest \/ ReceiveAsData)
      PROVE  stored' = stored
    <2>1. CASE UNCHANGED vars
        BY <2>1 DEF vars, flash
    <2>2. CASE Start
        BY <2>2 DEF Start, StartPut, StartCommand, flash
    <2>3. CASE StartAgain \/ HostAccepts \/ HostRejects \/ HostTimeout \/ HostDies
        BY <2>3 DEF StartAgain, HostAccepts, HostRejects, HostTimeout, HostDies, flash
    <2>4. CASE Lose \/ LoseReply \/ LongPause \/ DeviceReset \/ SetDelay
        BY <2>4 DEF Lose, LoseReply, LongPause, DeviceReset, SetDelay, flash
    <2>5. CASE ReceiveHeader \/ ReceiveTooLittle \/ CancelRequest
        BY <2>5 DEF ReceiveHeader, ReceiveTooLittle, CancelRequest, flash
    <2>6. QED
        BY <1>2, <2>1, <2>2, <2>3, <2>4, <2>5 DEF Next, Device
<1>3. Inv /\ [Next]_vars => [Kept]_vars
    BY <1>1, <1>2
<1>4. QED
    BY <1>3, TransferInvariant, PTL DEF Spec, OtherFilesKept
=============================================================================
