-------------------------- MODULE HTTPFrontProofs ---------------------------
(***************************************************************************)
(* Proofs about HTTPFront, for every set of requests with headers of any   *)
(* number and length, every time limit and every width of millis().        *)
(***************************************************************************)
EXTENDS HTTPFront, TLAPS, SequenceTheorems

----------------------------------------------------------------------------
(* The length of a URL as an integer of WSP: one octet or two. *)

LEMMA UintvarLength ==
  ASSUME NEW v \in Nat, v < 512
  PROVE  UintvarLen(v) = IF v < 128 THEN 1 ELSE 2
  <1> DEFINE pow(k) == 128^k
             Ok(n) == (n = 5 \/ v < pow(n)) /\ \A k \in 1..(n - 1) : v >= pow(k)
             n0 == IF v < 128 THEN 1 ELSE 2
  <1>0. pow(1) = 128 /\ pow(2) = 16384
    BY SMT
  <1> HIDE DEF pow
  <1>1. Ok(n0) /\ n0 \in 1..5
    BY <1>0, SMT
  <1>2. ASSUME NEW n \in 1..5, Ok(n) PROVE n = n0
    <2>1. n > 1 => v >= pow(1)
      BY <1>2, SMT
    <2>2. n > 2 => v >= pow(2)
      BY <1>2, SMT
    <2>3. n = 1 => v < pow(1)
      BY <1>2, SMT
    <2> QED
      BY <1>0, <2>1, <2>2, <2>3, SMT
  <1>3. UintvarLen(v) = CHOOSE n \in 1..5 : Ok(n)
    BY DEF UintvarLen, MaxOctets, pow
  <1> HIDE DEF Ok, n0
  <1>4. UintvarLen(v) = n0
    BY <1>1, <1>2, <1>3
  <1> QED
    BY <1>4 DEF n0

(* What is written in the request is read as the length that was meant. *)
LEMMA UintvarRoundTrip ==
  ASSUME NEW v \in Nat, v < 512
  PROVE  /\ Len(encodeUintvar(v)) \in 1..2
         /\ decodeUintvar(encodeUintvar(v)).value = v
  <1> DEFINE d == encodeUintvar(v)
             ends == {i \in DOMAIN d : i <= 5 /\ d[i] < 128}
  <1>1. ASSUME NEW n \in 1..2, n \in ends, \A j \in ends : n <= j
        PROVE  decodeUintvar(d).value = UintvarValue(d, n)
    <2>1. n = CHOOSE i \in ends : \A j \in ends : i <= j
      <3>1. \A i \in ends : i \in Int
        BY UintvarLength DEF encodeUintvar
      <3>2. n \in ends /\ \A j \in ends : n <= j
        BY <1>1
      <3> HIDE DEF ends
      <3> DEFINE m == CHOOSE i \in ends : \A j \in ends : i <= j
      <3>3. m \in ends /\ \A j \in ends : m <= j
        BY <3>2
      <3>4. n <= m /\ m <= n /\ m \in Int
        BY <3>1, <3>2, <3>3
      <3> HIDE DEF m
      <3>5. n = m
        BY <3>4
      <3> QED
        BY <3>5 DEF m
    <2>2. ends # {}
      BY <1>1
    <2> QED
      BY <2>1, <2>2 DEF decodeUintvar, MaxOctets
  <1>2. CASE v < 128
    <2>1. d = [i \in 1..1 |-> v]
      <3>1. UintvarLen(v) = 1
        BY <1>2, UintvarLength
      <3>2. 128^(1 - 1) = 1 /\ v \div 1 = v /\ v % 128 = v
        BY <1>2, SMT
      <3> QED
        BY <3>1, <3>2, SMT DEF encodeUintvar
    <2> HIDE DEF d
    <2>2. Len(d) = 1 /\ DOMAIN d = 1..1 /\ d[1] = v
      BY <2>1
    <2>3. decodeUintvar(d).value = UintvarValue(d, 1)
      BY <1>1, <1>2, <2>2
    <2>4. UintvarValue(d, 1) = v
      BY <1>2, <2>2, SMT DEF UintvarValue
    <2> QED
      BY <2>2, <2>3, <2>4 DEF d
  <1>3. CASE v >= 128
    <2>1. d = [i \in 1..2 |-> IF i = 1 THEN (v \div 128) + 128 ELSE v % 128]
      <3>1. UintvarLen(v) = 2
        BY <1>3, UintvarLength
      <3>2. 128^(2 - 1) = 128 /\ 128^(2 - 2) = 1
        BY SMT
      <3>3. (v \div 128) % 128 = v \div 128 /\ v \div 1 = v
        BY SMT
      <3> QED
        BY <3>1, <3>2, <3>3, SMT DEF encodeUintvar
    <2> HIDE DEF d
    <2>2. Len(d) = 2 /\ DOMAIN d = 1..2 /\ d[1] = (v \div 128) + 128 /\ d[2] = v % 128
      BY <2>1
    <2>3. decodeUintvar(d).value = UintvarValue(d, 2)
      BY <1>1, <1>3, <2>2
    <2>4. UintvarValue(d, 2) = v
      BY <1>3, <2>2, SMT DEF UintvarValue
    <2> QED
      BY <2>2, <2>3, <2>4 DEF d
  <1> QED
    BY <1>2, <1>3

(* Sizes: whatever was stored of a request, it fits when it is encoded. *)

Hosts == [name : {"host"}, len : 0..HostMax, check : Nat]

StoredRequests ==
  [get : BOOLEAN, path : 0..PathMax, absHost : Int, host : Hosts, contentLength : Nat]

LEMMA RequestSizes ==
  ASSUME NEW r \in StoredRequests
  PROVE  /\ UriLen(r) \in Nat /\ UriLen(r) < 512
         /\ HeadersLen(r) <= 128
         /\ MaxNeeded(r) \in Nat /\ MaxNeeded(r) <= WapRequestSize
         /\ PduLen(r) <= MaxNeeded(r)
         /\ decodeUintvar(encodeUintvar(UriLen(r))).value = UriLen(r)
  <1> DEFINE p == r.path
             h == r.host.len
             uri == UriLen(r)
             headers == HeadersLen(r)
             digits == Len(encodeUintvar(uri))
  <1>1. p \in Nat /\ p <= 255 /\ h \in Nat /\ h <= 127 /\ r.absHost \in Int
    <2>1. r.path \in 0..PathMax /\ r.host \in Hosts /\ r.absHost \in Int
      BY DEF StoredRequests
    <2>2. r.host.len \in 0..HostMax
      BY <2>1 DEF Hosts
    <2> QED
      BY <2>1, <2>2 DEF PathMax, HostMax
  <1>2. HostHeaderLen(UriHost(r)) \in Nat /\ HostHeaderLen(UriHost(r)) <= 65
    BY <1>1 DEF HostHeaderLen, HostHeaderMax
  <1>3. headers \in Nat /\ headers <= 86
    BY <1>2 DEF HeadersLen
  <1>4. uri \in Nat /\ uri <= 389
    <2>1. CASE r.absHost >= 0
      BY <1>1, <2>1 DEF UriLen
    <2>2. CASE ~(r.absHost >= 0)
      <3>1. uri = Min2(511, 7 + (IF h > 0 THEN h ELSE 17) + p)
        BY <2>2 DEF UriLen, UrlMax
      <3> HIDE DEF uri, h, p
      <3> QED
        BY <1>1, <3>1 DEF Min2
    <2> QED
      BY <2>1, <2>2
  <1>5. digits \in 1..2 /\ decodeUintvar(encodeUintvar(uri)).value = uri
    <2> HIDE DEF uri
    <2>1. uri < 512
      BY <1>4
    <2> QED
      BY <1>4, <2>1, UintvarRoundTrip DEF digits
  <1>6. MaxNeeded(r) = 1 + 1 + 5 + uri + headers /\ PduLen(r) = 2 + digits + uri + headers
    BY DEF MaxNeeded, PduLen
  <1> HIDE DEF p, h, uri, headers, digits
  <1>7. MaxNeeded(r) \in Nat /\ MaxNeeded(r) <= 512 /\ PduLen(r) <= MaxNeeded(r) /\ uri < 512 /\ headers <= 128
    BY <1>3, <1>4, <1>5, <1>6
  <1> QED
    BY <1>4, <1>5, <1>7 DEF WapRequestSize, uri, headers

----------------------------------------------------------------------------
(* Types: with the stored request, of which an outcome is a copy. *)

TypeInv ==
  /\ TypeOK
  /\ req \in StoredRequests
  /\ pc = "headers" => line \in 0..(Lines - 1)
  /\ outcome.kind # "500"
  /\ outcome.kind = "sent" => outcome.uri = req /\ outcome.len = PduLen(req) /\ pc = "idle"

(* A request asked for is typed, and has as many lines as headers and two. *)
LEMMA AskedFacts ==
  ASSUME NEW r \in Requests
  PROVE  /\ r.path \in Nat /\ r.absHost \in Int /\ r.get \in BOOLEAN /\ r.valid \in BOOLEAN
         /\ r.headers \in Seq(HeaderLines) /\ Len(r.headers) \in Nat
         /\ \A n \in 1..Len(r.headers) : r.headers[n] \in HeaderLines
  BY HTTPFrontAssumption

LEMMA EmptyStored == EmptyRequest \in StoredRequests
  BY DEF EmptyRequest, NoHost, StoredRequests, Hosts, PathMax, HostMax

(* A header is stored within the array for it. *)
LEMMA HeaderStored ==
  ASSUME req \in StoredRequests, NEW h \in HeaderLines, NEW half \in BOOLEAN
  PROVE  WithHeader(h, half) \in StoredRequests
  <1>1. CASE h.name = "host"
    <2>1. h \in [name : {"host"}, len : Nat, check : Nat]
      BY <1>1 DEF HeaderLines
    <2>2. Stored(h, half) \in Hosts
      <3> DEFINE n == IF half THEN Min2(h.len \div 2, HostMax) ELSE Min2(h.len, HostMax)
      <3>1. n \in 0..HostMax
        BY <2>1 DEF Min2, HostMax
      <3>2. Stored(h, half) = [name |-> "host", len |-> n, check |-> h.check]
        BY <2>1 DEF Stored
      <3> HIDE DEF n
      <3> QED
        BY <2>1, <3>1, <3>2 DEF Hosts
    <2> QED
      BY <1>1, <2>2 DEF WithHeader, StoredRequests
  <1>2. CASE h.name = "content-length"
    <2>1. h.len \in Nat
      BY <1>2 DEF HeaderLines
    <2> QED
      BY <1>2, <2>1 DEF WithHeader, StoredRequests
  <1> QED
    BY <1>1, <1>2 DEF WithHeader

----------------------------------------------------------------------------
(* Time: how long the program can have been busy, by the part of the       *)
(* request that it is reading.  The deadline for the first octet is an     *)
(* absolute time: if it lies behind millis(), because the sum wrapped, the *)
(* wait is over at once.                                                   *)

Elapsed == (millis - startTime) % Wrap

TimeInv ==
  /\ busy \in Nat /\ busy <= BusyMax
  /\ pc = "wait" => /\ busy <= DataTimeout
                    /\ millis < startTime => busy + (startTime - millis) <= DataTimeout
  /\ pc \in {"line", "headers", "body"} => Elapsed <= ReadTimeout
  /\ pc = "line" => busy <= DataTimeout + Elapsed
  /\ pc = "headers" => busy <= DataTimeout + ReadTimeout + Elapsed
  /\ pc = "body" => busy <= DataTimeout + 2 * ReadTimeout + Elapsed

----------------------------------------------------------------------------
(* What was read of the request that is asked for.  Until the request line *)
(* is read nothing is stored; after it, its path; after n - 1 lines of     *)
(* headers, the last host among them.                                      *)

PathRead == req.path = StoredPath(asked.path) /\ req.absHost = asked.absHost

HostsBefore(n) == {k \in AskedHosts : k < n}

IsLast(k, S) == k \in S /\ \A j \in S : j <= k

HostRead(n) ==
  \/ HostsBefore(n) = {} /\ req.host = NoHost
  \/ \E k \in HostsBefore(n) : /\ IsLast(k, HostsBefore(n))
                               /\ req.host = Stored(asked.headers[k], FALSE)

AskInv ==
  /\ pc \in {"wait", "line"} => line = 0 /\ req = EmptyRequest
  /\ pc = "headers" => PathRead /\ HostRead(line)
  /\ (pc \in {"body", "dispatch"} \/ outcome.kind = "sent") /\ ~cut => PathRead /\ HostRead(Lines - 1)
  /\ outcome.kind = "sent" => ~IsCheck(req.host)

IInv == TypeInv /\ TimeInv /\ AskInv

----------------------------------------------------------------------------
(* Types *)

LEMMA InitType == Init => TypeInv
  <1> SUFFICES ASSUME Init PROVE TypeInv
    OBVIOUS
  <1>1. req \in StoredRequests
    BY EmptyStored DEF Init
  <1>2. outcome.kind = "none"
    BY DEF Init, Outcome
  <1>3. req.path \in 0..PathMax /\ req.host.len \in 0..HostMax
    BY <1>1 DEF StoredRequests, Hosts
  <1>4. Lines \in Nat /\ BusyMax \in Nat
    BY AskedFacts, HTTPFrontAssumption DEF Init, Lines, BusyMax
  <1>5. 0 \in 0..(Wrap - 1) /\ 0 \in 0..(TidRange - 1)
    BY HTTPFrontAssumption
  <1>6. 0 \in 0..(2 * Lines + 1) /\ 0 \in 0..Lines /\ 0 \in 0..(BusyMax + 1)
    BY <1>4
  <1>7. TypeOK
    BY <1>2, <1>3, <1>5, <1>6 DEF Init, TypeOK
  <1> QED
    BY <1>1, <1>2, <1>7 DEF TypeInv, Init

(* Facts about the request that is being read. *)
LEMMA Asked ==
  ASSUME TypeOK
  PROVE  /\ Lines \in Nat /\ Lines >= 2 /\ Lines = Len(asked.headers) + 2
         /\ asked.path \in Nat /\ asked.absHost \in Int /\ asked.get \in BOOLEAN
         /\ asked.headers \in Seq(HeaderLines)
         /\ \A n \in 1..Len(asked.headers) : asked.headers[n] \in HeaderLines
  <1>1. asked \in Requests
    BY DEF TypeOK
  <1>2. Len(asked.headers) \in Nat
    BY <1>1, AskedFacts
  <1>3. Lines \in Nat /\ Lines >= 2 /\ Lines = Len(asked.headers) + 2
    BY <1>2 DEF Lines
  <1> QED
    BY <1>1, <1>3, AskedFacts

LEMMA BusyMaxType == BusyMax \in Nat /\ DataTimeout \in Nat /\ ReadTimeout \in Nat
  BY HTTPFrontAssumption DEF BusyMax

(* The clock and the limits lie within the range of millis(). *)
LEMMA ClockType ==
  Wrap \in Nat \ {0} /\ DataTimeout \in 0..(Wrap - 1) /\ ReadTimeout \in 0..(Wrap - 1)
  <1>1. /\ DataTimeout \in Nat /\ ReadTimeout \in Nat
        /\ Wrap \in Nat /\ DataTimeout < Wrap /\ ReadTimeout < Wrap
    BY HTTPFrontAssumption
  <1> QED
    BY <1>1

LEMMA Wrapped == ASSUME NEW W \in Nat \ {0}, NEW x \in Nat PROVE x % W \in 0..(W - 1)
  OBVIOUS

(* A step that leaves the browser, the clock and the counters alone, and   *)
(* ends in a typed position with a typed request.                          *)
LEMMA KeepType ==
  ASSUME TypeInv, UNCHANGED reading, startTime' \in 0..(Wrap - 1), line' \in 0..Lines,
         rest' \in {"none", "text", "end"},
         req' \in StoredRequests, cut' \in BOOLEAN, pc' = "headers" => line' \in 0..(Lines - 1),
         \/ /\ pc' \in {"line", "headers", "body", "dispatch"} /\ pc # "idle"
            /\ outcome' = outcome
         \/ /\ pc' = "idle" /\ outcome' \in {Outcome("closed"), Outcome("400")}
  PROVE  TypeInv'
  <1>1. Lines' = Lines
    BY DEF Lines, reading
  <1>2. req'.path \in 0..PathMax /\ req'.host.len \in 0..HostMax
    BY DEF StoredRequests, Hosts
  <1>3. outcome'.kind \in {"none", "closed", "400", "501", "500", "sent"}
    BY DEF TypeInv, TypeOK, Outcome
  <1>4. pc' \in {"idle", "wait", "line", "headers", "body", "dispatch"}
    OBVIOUS
  <1>5. TypeOK'
    BY <1>1, <1>2, <1>3, <1>4 DEF TypeInv, TypeOK, reading
  <1>6. outcome'.kind # "500" /\ outcome'.kind # "sent"
    BY DEF TypeInv, Outcome
  <1> QED
    BY <1>1, <1>5, <1>6 DEF TypeInv

(* One step per action. *)
LEMMA StepType ==
  ASSUME TypeInv, [Next]_vars
  PROVE  TypeInv'
  <1>0. TypeOK /\ Lines \in Nat /\ Lines >= 2 /\ BusyMax \in Nat
    BY Asked, BusyMaxType DEF TypeInv
  <1>1. ASSUME NEW r \in Requests, Connect(r) PROVE TypeInv'
    <2>1. PICK k \in Nat : Lines' = k
      BY <1>1, AskedFacts DEF Connect, Lines
    <2>2. 0 \in 0..(2 * Lines' + 1) /\ 0 \in 0..Lines'
      <3>1. 0 \in 0..(2 * k + 1) /\ 0 \in 0..k
        OBVIOUS
      <3> QED
        BY <2>1, <3>1
    <2>7. 0 \in 0..(BusyMax + 1)
      BY <1>0
    <2>3. req' \in StoredRequests /\ outcome'.kind = "none"
      BY <1>1, EmptyStored DEF Connect, Outcome
    <2>4. req'.path \in 0..PathMax /\ req'.host.len \in 0..HostMax
      BY <2>3 DEF StoredRequests, Hosts
    <2>5. (millis + DataTimeout) % Wrap \in 0..(Wrap - 1)
      <3>1. millis \in 0..(Wrap - 1)
        BY <1>0 DEF TypeOK
      <3>2. Wrap \in Nat \ {0} /\ millis + DataTimeout \in Nat
        BY <3>1, ClockType
      <3> QED
        BY <3>2, Wrapped
    <2>6. TypeOK'
      BY <1>0, <1>1, <2>2, <2>3, <2>4, <2>5, <2>7 DEF Connect, TypeOK
    <2> QED
      BY <1>1, <2>3, <2>6 DEF TypeInv, Connect
  <1>2. CASE SendSome
    <2>1. Lines' = Lines /\ UNCHANGED <<pc, req, outcome, line>>
      BY <1>2 DEF SendSome, Lines
    <2>2. sent' \in 0..(2 * Lines + 1)
      BY <1>0, <1>2 DEF SendSome, Min2, TypeOK
    <2>3. TypeOK'
      BY <1>0, <1>2, <2>1, <2>2 DEF SendSome, TypeOK
    <2>4. PduLen(req)' = PduLen(req)
      BY <2>1
    <2> QED
      BY <2>1, <2>3, <2>4 DEF TypeInv
  <1>3. CASE Leave
    <2>1. Lines' = Lines /\ UNCHANGED <<pc, req, outcome, line>>
      BY <1>3 DEF Leave, Lines
    <2>2. TypeOK'
      BY <1>0, <1>3, <2>1 DEF Leave, TypeOK
    <2> QED
      BY <2>1, <2>2 DEF TypeInv
  <1>4. millis \in 0..(Wrap - 1) /\ startTime \in 0..(Wrap - 1) /\ line \in 0..Lines
        /\ cut \in BOOLEAN /\ req \in StoredRequests /\ rest \in {"none", "text", "end"}
    BY <1>0 DEF TypeInv, TypeOK
  <1>5. CASE FirstData
    BY <1>4, <1>5, KeepType DEF FirstData
  <1>6. CASE NoData
    BY <1>4, <1>6, KeepType DEF NoData, Finish
  <1>7. CASE ReadRequestLine
    <2>1. StoredPath(asked.path) \in 0..PathMax
      <3>1. asked.path \in Nat
        BY <1>0, Asked
      <3> QED
        BY <3>1 DEF StoredPath, Min2, PathMax
    <2>2. req' \in StoredRequests
      BY <1>0, <1>4, <1>7, <2>1, Asked DEF ReadRequestLine, StoredRequests
    <2>3. line' \in 0..Lines /\ line' \in 0..(Lines - 1) /\ rest' \in {"none", "text", "end"}
      BY <1>0, <1>7 DEF ReadRequestLine
    <2> QED
      BY <1>4, <1>7, <2>2, <2>3, KeepType DEF ReadRequestLine
  <1>8. CASE BadRequestLine
    BY <1>4, <1>8, KeepType DEF BadRequestLine, Finish
  <1>9. ASSUME pc = "headers", line > 0, line + 1 < Lines, NEW half \in BOOLEAN
        PROVE  WithHeader(asked.headers[line], half) \in StoredRequests
    <2>1. line \in 1..Len(asked.headers)
      BY <1>0, <1>4, <1>9, Asked DEF TypeInv
    <2> QED
      BY <1>0, <1>4, <2>1, Asked, HeaderStored
  <1>10. CASE ReadHeader
    <2>1. line + 1 \in 0..Lines /\ line + 1 \in 0..(Lines - 1)
      BY <1>0, <1>4, <1>10 DEF ReadHeader
    <2>2. req' \in StoredRequests
      BY <1>9, <1>10 DEF ReadHeader
    <2> QED
      BY <1>4, <1>10, <2>1, <2>2, KeepType DEF ReadHeader, TimeOfHeaders
  <1>16. CASE ReadRest
    <2>1. 1 \in 0..Lines /\ 1 \in 0..(Lines - 1)
      BY <1>0
    <2> QED
      BY <1>4, <1>16, <2>1, KeepType DEF ReadRest
  <1>11. CASE EndHeaders
    <2>1. req' \in StoredRequests
      BY <1>4, <1>9, <1>11 DEF EndHeaders
    <2>2. cut' \in BOOLEAN
      BY <1>4, <1>11, Zenon DEF EndHeaders, GaveUp
    <2> QED
      BY <1>4, <1>11, <2>1, <2>2, KeepType DEF EndHeaders
  <1>12. CASE ReadBody
    BY <1>4, <1>12, KeepType DEF ReadBody
  <1>13. CASE Dispatch
    <2>1. Lines' = Lines /\ pc' = "idle" /\ UNCHANGED <<millis, startTime, client, asked, sent, line, rest, req, busy, cut>>
      BY <1>13 DEF Dispatch, Finish, Lines
    <2>2. transactionCounter' \in 0..(TidRange - 1)
      BY <1>0, <1>13, HTTPFrontAssumption DEF Dispatch, TypeOK
    <2>3. ~(MaxNeeded(req) > WapRequestSize)
      BY <1>4, RequestSizes DEF WapRequestSize
    <2>4. outcome' \in {Outcome("closed"), Outcome("501"), [kind |-> "sent", uri |-> req, len |-> PduLen(req)]}
      BY <1>13, <2>3 DEF Dispatch, Finish
    <2>5. /\ outcome'.kind \in {"closed", "501", "sent"}
          /\ outcome'.kind = "sent" => outcome'.uri = req /\ outcome'.len = PduLen(req)
      BY <2>4 DEF Outcome
    <2>6. TypeOK'
      BY <1>0, <2>1, <2>2, <2>5 DEF TypeOK
    <2>7. PduLen(req)' = PduLen(req)
      BY <2>1
    <2> QED
      BY <1>4, <2>1, <2>5, <2>6, <2>7 DEF TypeInv
  <1>14. CASE Tick
    <2>1. Lines' = Lines /\ UNCHANGED <<pc, startTime, client, asked, sent, line, rest, req, transactionCounter, outcome, cut>>
      BY <1>14 DEF Tick, Lines
    <2>2. millis' \in 0..(Wrap - 1)
      BY <1>4, <1>14, HTTPFrontAssumption DEF Tick
    <2>3. busy' \in 0..(BusyMax + 1)
      BY <1>0, <1>14 DEF Tick, Min2, TypeOK
    <2>4. TypeOK'
      BY <1>0, <2>1, <2>2, <2>3 DEF TypeOK
    <2>5. PduLen(req)' = PduLen(req)
      BY <2>1
    <2> QED
      BY <2>1, <2>4, <2>5 DEF TypeInv
  <1>15. CASE UNCHANGED vars
    <2>1. Lines' = Lines /\ PduLen(req)' = PduLen(req)
      BY <1>15 DEF vars, Lines
    <2>2. TypeOK'
      BY <1>0, <1>15, <2>1 DEF vars, TypeOK
    <2> QED
      BY <1>15, <2>1, <2>2 DEF vars, TypeInv
  <1> QED
    BY <1>1, <1>2, <1>3, <1>5, <1>6, <1>7, <1>8, <1>10, <1>11, <1>12, <1>13, <1>14, <1>15, <1>16
       DEF Next, Handle

----------------------------------------------------------------------------
(* Time *)

(* Unsigned differences: what the clock shows of a part of the request. *)
LEMMA ClockDifference ==
  ASSUME NEW W \in Nat \ {0}, NEW m \in 0..(W - 1), NEW t \in 0..(W - 1)
  PROVE  (m - t) % W = IF m >= t THEN m - t ELSE m - t + W
  <1> DEFINE x == m - t
  <1>1. x \in Int /\ (x \in 0..(W - 1) \/ x + W \in 0..(W - 1)) /\ (x >= 0 <=> m >= t)
    OBVIOUS
  <1> HIDE DEF x
  <1>2. x % W = IF x >= 0 THEN x ELSE x + W
    BY <1>1
  <1> QED
    BY <1>1, <1>2 DEF x

LEMMA ClockSum ==
  ASSUME NEW W \in Nat \ {0}, NEW m \in 0..(W - 1), NEW n \in 0..(W - 1)
  PROVE  (m + n) % W = IF m + n < W THEN m + n ELSE m + n - W
  <1> DEFINE x == m + n
  <1>1. x \in Int /\ (x \in 0..(W - 1) \/ x - W \in 0..(W - 1)) /\ (x < W <=> m + n < W)
    OBVIOUS
  <1> HIDE DEF x
  <1>2. x % W = IF x < W THEN x ELSE x - W
    BY <1>1
  <1> QED
    BY <1>1, <1>2 DEF x

LEMMA ElapsedType ==
  ASSUME TypeOK
  PROVE  Elapsed \in Nat
  BY HTTPFrontAssumption, ClockDifference DEF TypeOK, Elapsed

LEMMA JustStarted ==
  ASSUME TypeOK, startTime' = millis, millis' = millis
  PROVE  Elapsed' = 0
  <1>1. millis - millis = 0 /\ 0 % Wrap = 0
    BY HTTPFrontAssumption DEF TypeOK
  <1> QED
    BY <1>1 DEF Elapsed

LEMMA TickLater ==
  ASSUME TypeOK, startTime' = startTime, millis' = (millis + 1) % Wrap, Elapsed < ReadTimeout
  PROVE  Elapsed' = Elapsed + 1
  <1>1. /\ Wrap \in Nat \ {0} /\ 1 \in 0..(Wrap - 1) /\ ReadTimeout \in Nat /\ ReadTimeout < Wrap
        /\ millis \in 0..(Wrap - 1) /\ startTime \in 0..(Wrap - 1)
    BY HTTPFrontAssumption, SMTT(40) DEF TypeOK
  <1>2. millis' = IF millis + 1 < Wrap THEN millis + 1 ELSE millis + 1 - Wrap
    BY <1>1, ClockSum
  <1>3. millis' \in 0..(Wrap - 1)
    BY <1>1, <1>2
  <1>4. Elapsed = IF millis >= startTime THEN millis - startTime ELSE millis - startTime + Wrap
    BY <1>1, ClockDifference DEF Elapsed
  <1>5. Elapsed' = IF millis' >= startTime THEN millis' - startTime ELSE millis' - startTime + Wrap
    BY <1>1, <1>3, ClockDifference DEF Elapsed
  <1> HIDE DEF Elapsed
  <1> QED
    BY <1>1, <1>2, <1>3, <1>4, <1>5

LEMMA InitTime == Init => TimeInv
  BY BusyMaxType DEF Init, TimeInv

LEMMA StepTime ==
  ASSUME TypeInv, TimeInv, [Next]_vars
  PROVE  TimeInv'
  <1>0. /\ TypeOK /\ DataTimeout \in Nat /\ ReadTimeout \in Nat /\ BusyMax = DataTimeout + 3 * ReadTimeout
        /\ Elapsed \in Nat /\ busy \in Nat /\ BusyMax \in Nat
    BY BusyMaxType, ElapsedType DEF TypeInv, TimeInv, BusyMax
  <1>1. ASSUME NEW r \in Requests, Connect(r) PROVE TimeInv'
    <2>1. Wrap \in Nat \ {0} /\ millis \in 0..(Wrap - 1) /\ DataTimeout \in 0..(Wrap - 1)
      BY <1>0, ClockType DEF TypeOK
    <2>2. startTime' = IF millis + DataTimeout < Wrap THEN millis + DataTimeout
                       ELSE millis + DataTimeout - Wrap
      BY <1>1, <2>1, ClockSum DEF Connect
    <2>3. pc' = "wait" /\ busy' = 0 /\ millis' = millis
      BY <1>1 DEF Connect
    <2>4. millis < startTime' => startTime' - millis <= DataTimeout
      BY <2>1, <2>2
    <2> QED
      BY <1>0, <2>1, <2>2, <2>3, <2>4 DEF TimeInv
  <1>2. CASE SendSome \/ Leave \/ UNCHANGED vars
    <2>1. UNCHANGED <<pc, millis, startTime, busy>>
      BY <1>2 DEF SendSome, Leave, vars
    <2>2. Elapsed' = Elapsed
      BY <2>1 DEF Elapsed
    <2> QED
      BY <2>1, <2>2 DEF TimeInv
  <1>3. CASE FirstData
    <2>1. Elapsed' = 0
      BY <1>0, <1>3, JustStarted DEF FirstData, reading
    <2> QED
      BY <1>0, <1>3, <2>1 DEF FirstData, reading, TimeInv
  <1>4. CASE NoData \/ BadRequestLine \/ Dispatch
    BY <1>0, <1>4 DEF NoData, BadRequestLine, Dispatch, Finish, reading, TimeInv
  <1>5. CASE ReadRequestLine
    <2>1. Elapsed' = 0
      BY <1>0, <1>5, JustStarted DEF ReadRequestLine, reading
    <2>2. pc' = "headers" /\ busy' = busy /\ busy <= DataTimeout + ReadTimeout
      BY <1>0, <1>5 DEF ReadRequestLine, reading, TimeInv
    <2> QED
      BY <1>0, <2>1, <2>2 DEF TimeInv
  <1>6. CASE ReadHeader \/ ReadRest
    <2>1. UNCHANGED <<pc, millis, startTime, busy>>
      BY <1>6 DEF ReadHeader, ReadRest, TimeOfHeaders, reading
    <2>2. Elapsed' = Elapsed
      BY <2>1 DEF Elapsed
    <2> QED
      BY <2>1, <2>2 DEF TimeInv
  <1>7. CASE EndHeaders
    <2>1. Elapsed' = 0
      BY <1>0, <1>7, JustStarted DEF EndHeaders, reading
    <2>2. pc' = "body" /\ busy' = busy /\ busy <= DataTimeout + 2 * ReadTimeout
      BY <1>0, <1>7 DEF EndHeaders, reading, TimeInv
    <2> QED
      BY <1>0, <2>1, <2>2 DEF TimeInv
  <1>8. CASE ReadBody
    BY <1>0, <1>8 DEF ReadBody, reading, TimeInv
  <1>9. CASE Tick
    <2>1. UNCHANGED <<pc, startTime>> /\ millis' = (millis + 1) % Wrap
      BY <1>9 DEF Tick
    <2>2. CASE pc = "idle"
      BY <1>0, <1>9, <2>1, <2>2 DEF Tick, TimeInv
    <2>3. CASE pc = "wait"
      <3>1. millis < startTime /\ millis + 1 < Wrap /\ millis \in Nat /\ startTime \in Nat
        BY <1>0, <1>9, <2>3, HTTPFrontAssumption DEF Tick, Waiting, DeadlinePassed, TypeOK
      <3>2. millis' = millis + 1
        <4>1. Wrap \in Nat \ {0}
          BY HTTPFrontAssumption
        <4>2. millis \in 0..(Wrap - 1) /\ 1 \in 0..(Wrap - 1)
          BY <3>1, <4>1
        <4> QED
          BY <2>1, <3>1, <4>1, <4>2, ClockSum
      <3>3. busy + (startTime - millis) <= DataTimeout
        BY <2>3, <3>1 DEF TimeInv
      <3>4. busy + 1 <= DataTimeout /\ busy + 1 <= BusyMax
        BY <1>0, <3>1, <3>3
      <3>5. busy' = busy + 1
        BY <1>0, <1>9, <2>3, <3>4 DEF Tick, Min2
      <3> QED
        BY <1>0, <2>1, <2>3, <3>1, <3>2, <3>3, <3>4, <3>5 DEF TimeInv
    <2>4. CASE pc \in {"line", "headers", "body"}
      <3>1. Elapsed < ReadTimeout
        BY <1>9, <2>4 DEF Tick, Waiting, InTime, BodyDone, Elapsed
      <3>2. Elapsed' = Elapsed + 1
        BY <1>0, <2>1, <3>1, TickLater
      <3>3. busy + 1 <= BusyMax
        BY <1>0, <2>4, <3>1 DEF TimeInv
      <3>4. busy' = busy + 1
        BY <1>0, <1>9, <2>4, <3>3 DEF Tick, Min2
      <3> QED
        BY <1>0, <2>1, <2>4, <3>1, <3>2, <3>3, <3>4 DEF TimeInv
    <2> QED
      BY <1>9, <2>2, <2>3, <2>4 DEF Tick, Waiting
  <1> QED
    BY <1>1, <1>2, <1>3, <1>4, <1>5, <1>6, <1>7, <1>8, <1>9 DEF Next, Handle

----------------------------------------------------------------------------
(* What was read *)

LEMMA InitAsk == Init => AskInv
  BY DEF Init, AskInv, Outcome

(* The last host is still the last when one that is not a host follows,    *)
(* and a host that follows is.                                             *)
LEMMA NextHost ==
  ASSUME TypeInv, pc = "headers", line > 0, line + 1 < Lines, HostRead(line), asked' = asked,
         req' = WithHeader(asked.headers[line], FALSE), line' = line + 1
  PROVE  HostRead(line)'
  <1> DEFINE h == asked.headers[line]
             before == HostsBefore(line)
             upto == {k \in AskedHosts : k < line + 1}
  <1>1. /\ line \in 1..Len(asked.headers) /\ h \in HeaderLines /\ Len(asked.headers) \in Nat
        /\ DOMAIN asked.headers = 1..Len(asked.headers)
    <2>1. TypeOK /\ asked.headers \in Seq(HeaderLines)
      BY Asked DEF TypeInv
    <2>2. Len(asked.headers) \in Nat /\ DOMAIN asked.headers = 1..Len(asked.headers)
      BY <2>1
    <2>3. line \in 1..Len(asked.headers)
      BY <2>1, <2>2, Asked DEF TypeInv
    <2> QED
      BY <2>1, <2>2, <2>3, Asked
  <1>2. AskedHosts' = AskedHosts /\ AskedHosts \subseteq Int /\ before \subseteq upto
    BY <1>1 DEF AskedHosts, HostsBefore
  <1>3. HostsBefore(line)' = upto
    BY <1>2 DEF HostsBefore
  <1>4. HostRead(line)' <=>
          \/ upto = {} /\ req'.host = NoHost
          \/ \E k \in upto : IsLast(k, upto) /\ req'.host = Stored(asked.headers[k], FALSE)
    BY <1>3 DEF HostRead, IsLast
  <1>5. CASE h.name = "host"
    <2>1. line \in upto
      BY <1>1, <1>5 DEF AskedHosts
    <2>2. IsLast(line, upto)
      <3>1. ASSUME NEW j \in upto PROVE j <= line
        <4>1. j \in Int /\ j < line + 1 /\ line \in Int
          BY <1>1, <1>2
        <4> QED
          BY <4>1
      <3> QED
        BY <2>1, <3>1 DEF IsLast
    <2>3. req'.host = Stored(asked.headers[line], FALSE)
      BY <1>5 DEF WithHeader, TypeInv, StoredRequests
    <2> QED
      BY <1>4, <2>1, <2>2, <2>3
  <1>6. CASE h.name # "host"
    <2>1. line \notin AskedHosts
      BY <1>6 DEF AskedHosts
    <2>2. upto = before
      <3>1. ASSUME NEW j \in upto PROVE j \in before
        <4>1. j \in AskedHosts /\ j \in Int /\ j < line + 1 /\ line \in Int /\ j # line
          BY <1>1, <1>2, <2>1
        <4>2. j < line
          BY <4>1
        <4> QED
          BY <4>1, <4>2 DEF HostsBefore
      <3> QED
        BY <1>2, <3>1
    <2>3. req'.host = req.host
      BY <1>6 DEF WithHeader, TypeInv, StoredRequests
    <2> QED
      BY <1>4, <2>2, <2>3 DEF HostRead
  <1> QED
    BY <1>5, <1>6

(* Nothing is forgotten of what was read. *)
LEMMA SameRead ==
  ASSUME asked' = asked, req' = req
  PROVE  /\ PathRead' <=> PathRead
         /\ Lines' = Lines
         /\ \A n : HostRead(n)' <=> HostRead(n)
  BY DEF PathRead, Lines, HostRead, HostsBefore, AskedHosts, IsLast

LEMMA StepAsk ==
  ASSUME TypeInv, AskInv, [Next]_vars
  PROVE  AskInv'
  <1>0. outcome.kind = "sent" => pc = "idle"
    BY DEF TypeInv
  <1>1. ASSUME NEW r \in Requests, Connect(r) PROVE AskInv'
    BY <1>1 DEF Connect, AskInv, Outcome
  <1>2. CASE SendSome \/ Leave \/ Tick \/ UNCHANGED vars
    <2>1. UNCHANGED <<pc, asked, line, req, outcome, cut>>
      BY <1>2 DEF SendSome, Leave, Tick, vars
    <2> QED
      BY <2>1, SameRead DEF AskInv
  <1>3. CASE FirstData
    BY <1>0, <1>3 DEF FirstData, reading, AskInv
  <1>4. CASE NoData \/ BadRequestLine
    <2>1. pc' = "idle" /\ outcome'.kind # "sent"
      BY <1>4 DEF NoData, BadRequestLine, Finish, Outcome
    <2> QED
      BY <2>1 DEF AskInv
  <1>5. CASE ReadRequestLine
    <2>1. pc' = "headers" /\ line' \in {0, 1} /\ asked' = asked /\ outcome'.kind # "sent"
      BY <1>0, <1>5 DEF ReadRequestLine, reading
    <2>2. PathRead'
      BY <1>5, <2>1 DEF ReadRequestLine, PathRead, TypeInv, StoredRequests
    <2>3. req'.host = NoHost
      BY <1>5 DEF ReadRequestLine, AskInv, EmptyRequest
    <2>4. \A k \in AskedHosts : k \in Nat \ {0}
      BY Asked DEF TypeInv, AskedHosts
    <2>5. {k \in AskedHosts : k < 0} = {} /\ {k \in AskedHosts : k < 1} = {}
      BY <2>4
    <2>6. HostsBefore(line)' = {}
      BY <2>1, <2>5 DEF HostsBefore, AskedHosts
    <2> QED
      BY <2>1, <2>2, <2>3, <2>6 DEF AskInv, HostRead
  <1>6. CASE ReadHeader
    <2>1. pc = "headers" /\ pc' = "headers" /\ asked' = asked /\ outcome'.kind # "sent"
      BY <1>0, <1>6 DEF ReadHeader, reading
    <2>2. HostRead(line)'
      BY <1>6, <2>1, NextHost DEF ReadHeader, AskInv
    <2>3. req'.path = req.path /\ req'.absHost = req.absHost
      BY <1>6 DEF ReadHeader, WithHeader, TypeInv, StoredRequests
    <2>4. PathRead'
      BY <2>1, <2>3 DEF AskInv, PathRead
    <2> QED
      BY <2>1, <2>2, <2>4 DEF AskInv
  <1>10. CASE ReadRest
    <2>1. pc = "headers" /\ pc' = "headers" /\ asked' = asked /\ req' = req
      BY <1>10 DEF ReadRest, reading
    <2>2. line = 0 /\ line' = 1 /\ outcome'.kind # "sent"
      BY <1>0, <1>10 DEF ReadRest
    <2>3. \A k \in AskedHosts : k \in Nat \ {0}
      BY Asked DEF TypeInv, AskedHosts
    <2>4. {k \in AskedHosts : k < 0} = {} /\ {k \in AskedHosts : k < 1} = {}
      BY <2>3
    <2>5. HostsBefore(0) = {} /\ HostsBefore(line)' = {}
      BY <2>1, <2>2, <2>4 DEF HostsBefore, AskedHosts
    <2>6. req'.host = NoHost /\ PathRead
      BY <2>1, <2>2, <2>5 DEF AskInv, HostRead
    <2> QED
      BY <2>1, <2>2, <2>5, <2>6, SameRead DEF AskInv, HostRead
  <1>7. CASE EndHeaders
    <2>1. pc = "headers" /\ pc' = "body" /\ asked' = asked /\ outcome'.kind # "sent"
      BY <1>0, <1>7 DEF EndHeaders, reading
    <2>2. CASE req' = req /\ line + 1 = Lines
      <3>1. line = Lines - 1
        BY <2>1, <2>2, Asked DEF TypeInv
      <3> QED
        BY <2>1, <2>2, <3>1, SameRead DEF AskInv
    <2>3. CASE cut'
      BY <2>1, <2>3 DEF AskInv
    <2>4. (req' = req /\ line + 1 = Lines) \/ cut'
      <3>1. \/ UNCHANGED <<req, cut>> /\ line + 1 = Lines
            \/ cut' = TRUE
            \/ NoMoreHeaders /\ cut' = GaveUp
        BY <1>7 DEF EndHeaders
      <3>2. ASSUME NoMoreHeaders, cut' = GaveUp PROVE cut'
        <4>1. GaveUp
          BY <3>2 DEF NoMoreHeaders
        <4>2. cut' \in BOOLEAN /\ GaveUp = TRUE
          BY <3>2, <4>1 DEF GaveUp
        <4> QED
          BY <3>2, <4>2
      <3> QED
        BY <3>1, <3>2
    <2> QED
      BY <2>2, <2>3, <2>4
  <1>8. CASE ReadBody
    <2>1. UNCHANGED <<asked, req, outcome, cut>> /\ pc = "body" /\ pc' = "dispatch"
      BY <1>8 DEF ReadBody, reading
    <2> QED
      BY <1>0, <2>1, SameRead DEF AskInv
  <1>9. CASE Dispatch
    <2>1. UNCHANGED <<asked, req, cut>> /\ pc = "dispatch" /\ pc' = "idle"
      BY <1>9 DEF Dispatch, Finish
    <2>2. outcome'.kind = "sent" => ~IsCheck(req.host)
      BY <1>9 DEF Dispatch, Finish, Outcome
    <2> QED
      BY <2>1, <2>2, SameRead DEF AskInv
  <1> QED
    BY <1>1, <1>2, <1>3, <1>4, <1>5, <1>6, <1>7, <1>8, <1>9, <1>10 DEF Next, Handle

----------------------------------------------------------------------------
(* The invariant and what it gives *)

LEMMA InitIInv == Init => IInv
  BY InitType, InitTime, InitAsk DEF IInv

LEMMA StepIInv == IInv /\ [Next]_vars => IInv'
  BY StepType, StepTime, StepAsk DEF IInv

(* The page asked for, from what was read of it. *)
LEMMA ReadIsAsked == IInv => AskedURL
  <1> SUFFICES ASSUME IInv, outcome.kind = "sent", ~cut
               PROVE  /\ AskedHost.check \notin 1..Min2(AskedHost.len, HostMax)
                      /\ ~TooLong => /\ outcome.uri.path = asked.path
                                     /\ outcome.uri.absHost = asked.absHost
                                     /\ outcome.uri.host = AskedHost
    BY DEF AskedURL
  <1>1. TypeOK /\ outcome.uri = req /\ PathRead /\ HostRead(Lines - 1)
        /\ req.host.check \notin 1..req.host.len
    BY DEF IInv, TypeInv, AskInv, IsCheck
  <1>2. /\ asked.path \in Nat /\ asked.headers \in Seq(HeaderLines)
        /\ \A n \in 1..Len(asked.headers) : asked.headers[n] \in HeaderLines
        /\ Lines = Len(asked.headers) + 2
    BY <1>1, Asked
  <1>3. \A k \in AskedHosts : k \in Int /\ k < Lines - 1 /\ asked.headers[k] \in HeaderLines
    <2>1. Len(asked.headers) \in Nat /\ DOMAIN asked.headers = 1..Len(asked.headers)
      BY <1>2
    <2> QED
      BY <1>2, <2>1 DEF AskedHosts
  <1>4. HostsBefore(Lines - 1) = AskedHosts
    BY <1>3 DEF HostsBefore
  <1>7. ~TooLong => StoredPath(asked.path) = asked.path
    BY <1>2 DEF TooLong, StoredPath, Min2, PathMax
  <1>5. CASE AskedHosts = {}
    <2>1. req.host = NoHost /\ AskedHost = NoHost
      BY <1>1, <1>4, <1>5 DEF HostRead, AskedHost
    <2>2. Min2(AskedHost.len, HostMax) = req.host.len
      BY <2>1 DEF NoHost, Min2, HostMax
    <2> QED
      BY <1>1, <1>7, <2>1, <2>2 DEF PathRead
  <1>6. CASE AskedHosts # {}
    <2>1. PICK k \in AskedHosts : IsLast(k, AskedHosts) /\ req.host = Stored(asked.headers[k], FALSE)
      BY <1>1, <1>4, <1>6 DEF HostRead
    <2> DEFINE c == CHOOSE n \in AskedHosts : \A j \in AskedHosts : j <= n
    <2>2. c \in AskedHosts /\ \A j \in AskedHosts : j <= c
      BY <2>1 DEF IsLast
    <2>3. c <= k /\ k <= c /\ c \in Int /\ k \in Int
      BY <1>3, <2>1, <2>2 DEF IsLast
    <2>4. AskedHost = asked.headers[c]
      BY <1>6 DEF AskedHost
    <2> HIDE DEF c
    <2>5. c = k
      BY <2>3
    <2> DEFINE h == asked.headers[k]
    <2>6. h \in [name : {"host"}, len : Nat, check : Nat]
      BY <1>3 DEF AskedHosts, HeaderLines
    <2>7. req.host.check = h.check /\ req.host.len = Min2(h.len, HostMax)
      BY <2>1, <2>6 DEF Stored
    <2>8. h.len <= HostMax => req.host = h
      BY <2>1, <2>6 DEF Stored, Min2, HostMax
    <2>9. ~TooLong => h.len <= HostMax
      BY <2>6 DEF TooLong, HostMax
    <2> QED
      BY <1>1, <1>7, <2>4, <2>5, <2>7, <2>8, <2>9 DEF PathRead
  <1> QED
    BY <1>5, <1>6

(* What was stored fits, so that what is sent of it does. *)
LEMMA StoredFits == IInv => RequestFits
  <1> SUFFICES ASSUME IInv PROVE RequestFits
    OBVIOUS
  <1>1. outcome.kind # "500" /\ (outcome.kind = "sent" => outcome.uri \in StoredRequests
                                                       /\ outcome.len = PduLen(outcome.uri))
    BY DEF IInv, TypeInv
  <1> QED
    BY <1>1, RequestSizes DEF RequestFits

(* Positions, sizes and counters keep their types, and the copies of host  *)
(* and path in HTTPRequest stay inside their arrays, for any request.      *)
THEOREM TypeCorrect == Spec => []TypeOK
  <1>1. IInv => TypeOK
    BY DEF IInv, TypeInv
  <1> QED
    BY <1>1, InitIInv, StepIInv, PTL DEF Spec

(* createGetRequest never runs out of http_wapRequest[512] or headers[128] *)
(* and writes a length of the URL that its reader reads as it was meant,   *)
(* whatever host, path and headers a browser sends.                        *)
THEOREM RequestsFit == Spec => []RequestFits
  BY StoredFits, InitIInv, StepIInv, PTL DEF Spec

(* However slowly and in however many pieces a request comes, the page     *)
(* that is fetched is the page that was asked for, unless its headers did  *)
(* not end with their own empty line or exceed the arrays, and a           *)
(* connectivity check that is named in the octets of the host that are     *)
(* kept is not forwarded.                                                  *)
THEOREM PageAskedFor == Spec => []AskedURL
  BY ReadIsAsked, InitIInv, StepIInv, PTL DEF Spec

(* parseHTTPRequest returns within its four limits, wherever millis()      *)
(* wraps and whatever the browser sends or leaves out.                     *)
THEOREM MeshNotBlocked == Spec => []BlockedAtMost
  <1>1. IInv => BlockedAtMost
    BY DEF IInv, TimeInv, BlockedAtMost
  <1> QED
    BY <1>1, InitIInv, StepIInv, PTL DEF Spec

============================================================================
