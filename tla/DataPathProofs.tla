--------------------------- MODULE DataPathProofs ---------------------------
(***************************************************************************)
(* Proofs about three parts the data pass through, which share no state:   *)
(* the requests of the SCGI servers (ScgiRequest), the sessions of the CGI *)
(* programs (WebSession) and the reports of the LLRP agent (LlrpReports).  *)
(***************************************************************************)
EXTENDS ScgiRequest, WebSession, LlrpReports, SequenceLemmas, FiniteSetTheorems

-----------------------------------------------------------------------------
(***************************************************************************)
(* Proofs about ScgiRequest, for any requests, any pieces they arrive in,  *)
(* any size of the buffer and both kinds of server: what the server makes  *)
(* of a connection is decided by the whole request alone.                  *)
(***************************************************************************)

-----------------------------------------------------------------------------
(* Numbers. *)

(* What the recursion of Number asks of the values of the first i digits. *)
Values(digits, f) ==
    f = [i \in 0 .. Len(digits) |->
            IF i = 0 THEN 0 ELSE 10 * f[i - 1] + Digit[digits[i]]]

LEMMA DigitValue ==
    /\ \A d \in DOMAIN Digit : Digit[d] \in Nat
    /\ ":" \notin DOMAIN Digit
BY DEF Digit

(* There are such values: were there none for some number of digits, there *)
(* would be a least such number.                                           *)
LEMMA ValuesExist ==
    ASSUME NEW digits \in Seq(DOMAIN Digit)
    PROVE  \E f : Values(digits, f)
<1> DEFINE Upto(n, g) ==
        g = [i \in 0 .. n |-> IF i = 0 THEN 0 ELSE 10 * g[i - 1] + Digit[digits[i]]]
           Bad == {n \in Nat : n <= Len(digits) /\ ~ \E g : Upto(n, g)}
<1>1. ASSUME Bad # {} PROVE FALSE
  <2>1. PICK n \in Bad : \A m \in Bad : n <= m
    BY <1>1, Least
  <2>2. n # 0
    <3>1. Upto(0, [i \in 0 .. 0 |-> 0])
      OBVIOUS
    <3> QED
      BY <3>1
  <2>3. n - 1 \in Nat /\ n - 1 \notin Bad
    <3> HIDE DEF Upto
    <3>1. n \in Nat /\ n - 1 \in Nat /\ ~ (n <= n - 1)
      BY <2>2
    <3> HIDE DEF Bad
    <3> QED
      BY <2>1, <3>1
  <2>4. PICK g : Upto(n - 1, g)
    BY <2>3
  <2> DEFINE h == [i \in 0 .. n |-> IF i = n THEN 10 * g[n - 1] + Digit[digits[n]] ELSE g[i]]
  <2>5. \A i \in 0 .. n - 1 : h[i] = g[i]
    BY <2>3
  <2>6. \A i \in 0 .. n : h[i] = IF i = 0 THEN 0 ELSE 10 * h[i - 1] + Digit[digits[i]]
    BY <2>2, <2>3, <2>4, <2>5
  <2>7. Upto(n, h)
    <3> HIDE DEF h
    <3>1. h = [i \in 0 .. n |-> h[i]]
      BY DEF h
    <3> QED
      BY <2>6, <3>1
  <2> QED
    BY <2>7
<1>2. Len(digits) \notin Bad
  BY <1>1
<1> QED
  BY <1>2 DEF Values

(* strtoul of a string yields no number or one natural number. *)
LEMMA NumberNat ==
    ASSUME NEW digits \in Seq(STRING), Number(digits) # << >>
    PROVE  /\ digits \in Seq(DOMAIN Digit)
           /\ \E n \in Nat : Number(digits) = <<n>>
<1> DEFINE f == CHOOSE g : Values(digits, g)
<1>1. digits # << >> /\ ToSet(digits) \subseteq DOMAIN Digit /\ Number(digits) = <<f[Len(digits)]>>
  BY DEF Number, Values
<1>2. digits \in Seq(DOMAIN Digit)
  BY <1>1 DEF ToSet
<1>3. Values(digits, f)
  BY <1>2, ValuesExist
<1> HIDE DEF f
<1> DEFINE Bad == {n \in Nat : n <= Len(digits) /\ f[n] \notin Nat}
<1>4. ASSUME Bad # {} PROVE FALSE
  <2>1. PICK n \in Bad : \A m \in Bad : n <= m
    BY <1>4, Least
  <2>2. n # 0
    BY <1>3 DEF Values
  <2>3. n - 1 \in Nat /\ n - 1 \notin Bad
    BY <2>1, <2>2
  <2>4. f[n - 1] \in Nat
    BY <2>3
  <2>5. Digit[digits[n]] \in Nat
    BY <1>2, <2>2, DigitValue
  <2>6. f[n] = 10 * f[n - 1] + Digit[digits[n]]
    BY <1>3, <2>2 DEF Values
  <2> QED
    BY <2>4, <2>5, <2>6
<1>5. f[Len(digits)] \in Nat
  BY <1>4
<1> QED
  BY <1>1, <1>2, <1>5

-----------------------------------------------------------------------------
(* The netstring. *)

LEMMA FirstColon ==
    ASSUME NEW b \in Seq(STRING), NEW n \in 0 .. Len(b), Colon(b, n) # {}
    PROVE  /\ Min(Colon(b, n)) \in 1 .. n
           /\ b[Min(Colon(b, n))] = ":"
           /\ \A i \in 1 .. n : b[i] = ":" => Min(Colon(b, n)) <= i
<1>1. Colon(b, n) \in SUBSET Nat
  BY DEF Colon
<1>2. Min(Colon(b, n)) \in Colon(b, n) /\ \A i \in Colon(b, n) : Min(Colon(b, n)) <= i
  BY <1>1, Least
<1> QED
  BY <1>2 DEF Colon

(* However much has come, the first colon is where it is. *)
LEMMA SameColon ==
    ASSUME NEW b \in Seq(STRING), NEW n \in 0 .. Len(b), NEW k \in 1 .. n,
           b[k] = ":", \A i \in 1 .. k - 1 : b[i] # ":"
    PROVE  Colon(b, n) # {} /\ Min(Colon(b, n)) = k
<1>1. k \in Colon(b, n)
  BY DEF Colon
<1>2. Min(Colon(b, n)) \in 1 .. n /\ b[Min(Colon(b, n))] = ":" /\ Min(Colon(b, n)) <= k
  BY <1>1, FirstColon
<1>3. ~ (Min(Colon(b, n)) < k)
  BY <1>2
<1> QED
  BY <1>1, <1>2, <1>3

LEMMA MoreCame ==
    ASSUME NEW b \in Seq(STRING), NEW n \in 0 .. Len(b), NEW m \in n .. Len(b), Colon(b, n) # {}
    PROVE  /\ Colon(b, m) # {} /\ Min(Colon(b, m)) = Min(Colon(b, n))
           /\ NetstringEnd(b, m) = NetstringEnd(b, n)
<1> DEFINE k == Min(Colon(b, n))
<1>1. k \in 1 .. n /\ b[k] = ":" /\ \A i \in 1 .. n : b[i] = ":" => k <= i
  BY FirstColon
<1> HIDE DEF k
<1>2. k \in 1 .. m /\ \A i \in 1 .. k - 1 : b[i] # ":"
  BY <1>1
<1>3. Colon(b, m) # {} /\ Min(Colon(b, m)) = k
  BY <1>1, <1>2, SameColon
<1> QED
  BY <1>3 DEF NetstringEnd, k

LEMMA EndIsNat ==
    ASSUME NEW b \in Seq(STRING), NEW n \in 0 .. Len(b), Colon(b, n) # {},
           NetstringEnd(b, n) # << >>
    PROVE  \E e \in Nat : /\ NetstringEnd(b, n) = <<e>> /\ e > Min(Colon(b, n))
                          /\ Number(SubSeq(b, 1, Min(Colon(b, n)) - 1)) = <<e - Min(Colon(b, n)) - 1>>
<1> DEFINE k == Min(Colon(b, n))
           len == Number(SubSeq(b, 1, k - 1))
<1>1. k \in 1 .. n
  BY FirstColon
<1>2. len # << >> /\ NetstringEnd(b, n) = <<len[1] + k + 1>>
  BY DEF NetstringEnd
<1> HIDE DEF k
<1>3. SubSeq(b, 1, k - 1) \in Seq(STRING)
  BY <1>1, SubSeqProperties
<1>4. PICK l \in Nat : len = <<l>>
  BY <1>2, <1>3, NumberNat
<1>5. l + k + 1 \in Nat /\ l + k + 1 > k /\ l = (l + k + 1) - k - 1
  BY <1>1, <1>4
<1> QED
  BY <1>2, <1>4, <1>5 DEF k

(* A well formed request is one whatever part of it has come. *)
LEMMA WellFormedSplit ==
    ASSUME ScgiAssumption, NEW b \in Seq(STRING), NEW k \in DOMAIN b, NEW e \in DOMAIN b,
           Netstring(b, k, e), NEW n \in k .. Len(b)
    PROVE  /\ Colon(b, n) # {} /\ Min(Colon(b, n)) = k
           /\ NetstringEnd(b, n) = <<e>>
<1> DEFINE digits == SubSeq(b, 1, k - 1)
<1>1. /\ digits \in Seq(STRING) /\ Len(digits) = k - 1
      /\ \A i \in 1 .. k - 1 : digits[i] = b[i]
  BY SubSeqProperties
<1>2. Number(digits) = <<e - k - 1>> /\ b[k] = ":" /\ e <= BufSize
  BY DEF Netstring
<1> HIDE DEF digits
<1>3. digits \in Seq(DOMAIN Digit)
  <2>1. <<e - k - 1>> # << >>
    OBVIOUS
  <2>2. Number(digits) # << >>
    BY <1>2, <2>1 DEF digits
  <2> QED
    BY <1>1, <2>2, NumberNat
<1>4. \A i \in 1 .. k - 1 : b[i] # ":"
  BY <1>1, <1>3, DigitValue
<1>5. Colon(b, n) # {} /\ Min(Colon(b, n)) = k
  BY <1>2, <1>4, SameColon
<1>6. ~ (e - k - 1 > BufSize - k - 1) /\ (e - k - 1) + k + 1 = e
  <2>1. k \in Int /\ e \in Int
    OBVIOUS
  <2>2. BufSize \in Int
    BY DEF ScgiAssumption
  <2>3. e <= BufSize
    BY <1>2
  <2> QED
    BY ONLY <2>1, <2>2, <2>3
<1> QED
  BY <1>2, <1>5, <1>6 DEF NetstringEnd, digits

(* The netstring the server has found is one of the whole request. *)
LEMMA FoundNetstring ==
    ASSUME ScgiAssumption, NEW b \in Seq(STRING), NEW n \in 0 .. Len(b), Colon(b, n) # {},
           NEW e \in 1 .. Len(b), NetstringEnd(b, n) = <<e>>
    PROVE  \E k \in DOMAIN b :
              /\ e \in DOMAIN b /\ b[k] = ":" /\ e <= BufSize /\ k < e
              /\ Number(SubSeq(b, 1, k - 1)) = <<e - k - 1>>
              /\ Headers(b, e) = SubSeq(b, k + 1, e - 1)
<1>1. PICK k \in 1 .. n : k = Min(Colon(b, n)) /\ b[k] = ":" /\ \A i \in 1 .. n : b[i] = ":" => k <= i
  BY FirstColon
<1>2. e > k /\ Number(SubSeq(b, 1, k - 1)) = <<e - k - 1>>
  <2>1. NetstringEnd(b, n) # << >>
    OBVIOUS
  <2>2. PICK x \in Nat :
            /\ NetstringEnd(b, n) = <<x>> /\ x > k
            /\ Number(SubSeq(b, 1, k - 1)) = <<x - k - 1>>
    BY <1>1, <2>1, EndIsNat
  <2>3. x = e
    BY <2>2
  <2> QED
    BY <2>2, <2>3
<1>3. e <= BufSize
  <2>1. ~ (Number(SubSeq(b, 1, k - 1))[1] > BufSize - k - 1)
    BY <1>1 DEF NetstringEnd
  <2>2. Number(SubSeq(b, 1, k - 1))[1] = e - k - 1
    BY <1>2
  <2>3. BufSize \in Nat
    BY DEF ScgiAssumption
  <2> QED
    BY <2>1, <2>2, <2>3
<1>4. k \in 1 .. e /\ \A i \in 1 .. k - 1 : b[i] # ":"
  <2>1. k \in Int /\ 1 <= k /\ k <= n /\ n \in Int /\ e \in Int
    OBVIOUS
  <2>2. k \in 1 .. e
    BY ONLY <1>2, <2>1
  <2>3. ASSUME NEW i \in 1 .. k - 1 PROVE i \in 1 .. n /\ ~ (k <= i)
    BY ONLY <2>1, <2>3
  <2> QED
    BY <1>1, <2>2, <2>3
<1>5. Min(Colon(b, e)) = k
  <2>1. e \in 0 .. Len(b) /\ b[k] = ":"
    BY <1>1
  <2> QED
    BY <1>4, <2>1, SameColon, Zenon
<1>6. Headers(b, e) = SubSeq(b, k + 1, e - 1)
  BY <1>5 DEF Headers
<1>7. k \in DOMAIN b /\ e \in DOMAIN b
  OBVIOUS
<1> QED
  BY <1>1, <1>2, <1>3, <1>6, <1>7

-----------------------------------------------------------------------------
(* The inductive invariant. *)

bytes == request.bytes

(* Where the server is in the bytes it has read. *)
Reading ==
    /\ server \in Servers /\ request \in Requests /\ peer \in {"open", "closed"}
    /\ sent \in 0 .. Len(bytes) /\ offset \in 0 .. sent /\ rlen \in Nat
    /\ pc = "length" =>
          command = << >> /\ rlen = 0 /\ Colon(bytes, offset) = {} /\ offset < NoColonMax
    /\ pc \in {"headers", "body"} =>
          Colon(bytes, offset) # {} /\ NetstringEnd(bytes, offset) = <<rlen>>
    /\ pc = "body" => rlen \in 1 .. offset

HeadersChecked == pc = "body" => bytes[rlen] = "," /\ HeadersGood(Headers(bytes, rlen))

(* What the web server may count on, and what a connection leaves behind. *)
CommandServed ==
    request.good /\ peer = "open" =>
        /\ pc = "failed" => server = "standalone" /\ (rlen = 0 \/ offset < rlen)
        /\ pc \in {"close", "closed"} /\ server = "agent" =>
              command # << >> \/ ToSet(request.query) \subseteq AnsweredAtOnce

HandlerTaken == registered \in BOOLEAN /\ HandlerTakenOff

ScgiInv == Reading /\ HeadersChecked /\ WholeOrNothing /\ CommandServed /\ HandlerTaken

LEMMA RequestBytes ==
    ASSUME ScgiAssumption, Reading
    PROVE  /\ bytes \in Seq(STRING) /\ bytes = request.bytes
           /\ offset \in 0 .. Len(bytes) /\ sent \in 0 .. Len(bytes)
           /\ server \in {"agent", "standalone"}
           /\ request.good <=> \E k, e \in DOMAIN bytes : Netstring(bytes, k, e)
           /\ \A k, e \in DOMAIN bytes : Netstring(bytes, k, e) =>
                /\ k <= NoColonMax
                /\ Value(SubSeq(bytes, k + 1, e - 1), "QUERY_STRING") = request.query
<1>1. /\ server \in {"agent", "standalone"}
      /\ sent \in 0 .. Len(bytes) /\ offset \in 0 .. sent
  BY DEF ScgiAssumption, Reading
<1>2. offset \in 0 .. Len(bytes)
  BY <1>1
<1> QED
  BY <1>1, <1>2, Zenon DEF ScgiAssumption, Reading, bytes

(* Of a well formed request nothing is refused. *)
LEMMA GoodNotRefused ==
    ASSUME ScgiAssumption, Reading, request.good, NEW n \in 0 .. Len(bytes)
    PROVE  /\ n >= NoColonMax => Colon(bytes, n) # {}
           /\ Colon(bytes, n) # {} =>
                 \E e \in DOMAIN bytes : /\ NetstringEnd(bytes, n) = <<e>> /\ bytes[e] = ","
                                         /\ HeadersGood(Headers(bytes, e))
<1>1. PICK k \in DOMAIN bytes, e \in DOMAIN bytes : Netstring(bytes, k, e)
  BY RequestBytes
<1>2. bytes \in Seq(STRING) /\ k <= NoColonMax /\ NoColonMax \in Nat
  BY <1>1, RequestBytes DEF ScgiAssumption
<1> HIDE DEF bytes
<1>3. k \in 1 .. Len(bytes) /\ e \in 1 .. Len(bytes)
  BY <1>2
<1>4. bytes[e] = ","
  BY <1>1 DEF Netstring
<1>10. k < e
  BY <1>1 DEF Netstring
<1>5. ASSUME n \in k .. Len(bytes) PROVE Colon(bytes, n) # {} /\ NetstringEnd(bytes, n) = <<e>>
  BY <1>1, <1>2, <1>5, WellFormedSplit
<1>6. Headers(bytes, e) = SubSeq(bytes, k + 1, e - 1)
  <2>1. e \in k .. Len(bytes)
    BY <1>3, <1>10
  <2>2. Min(Colon(bytes, e)) = k
    BY <1>1, <1>2, <2>1, WellFormedSplit
  <2> QED
    BY <2>2 DEF Headers
<1>7. HeadersGood(Headers(bytes, e))
  BY <1>1, <1>6, Zenon DEF Netstring
<1>8. ASSUME Colon(bytes, n) # {} PROVE n \in k .. Len(bytes)
  <2>1. Len(bytes) \in n .. Len(bytes) /\ Len(bytes) \in k .. Len(bytes)
    BY <1>3
  <2>2. Min(Colon(bytes, Len(bytes))) = k
    BY <1>1, <1>2, <2>1, WellFormedSplit
  <2>3. Min(Colon(bytes, Len(bytes))) = Min(Colon(bytes, n)) /\ Min(Colon(bytes, n)) \in 1 .. n
    BY <1>2, <1>8, <2>1, MoreCame, FirstColon
  <2> QED
    BY <2>2, <2>3
<1>9. n >= NoColonMax => n \in k .. Len(bytes)
  BY <1>2, <1>3
<1> QED
  BY <1>4, <1>5, <1>7, <1>8, <1>9

(* The query of a netstring in good order is the request's. *)
LEMMA CommandOfRequest ==
    ASSUME ScgiAssumption, Reading, HeadersChecked, pc = "body"
    PROVE  /\ request.good /\ Value(Headers(bytes, rlen), "QUERY_STRING") = request.query
           /\ sent >= rlen
<1>1. /\ bytes \in Seq(STRING) /\ offset \in 0 .. Len(bytes)
      /\ Colon(bytes, offset) # {} /\ NetstringEnd(bytes, offset) = <<rlen>>
      /\ rlen \in 1 .. offset
  BY RequestBytes DEF Reading
<1>2. bytes[rlen] = "," /\ HeadersGood(Headers(bytes, rlen))
  BY Zenon DEF HeadersChecked
<1>6. offset \in 0 .. Len(bytes) /\ rlen \in 1 .. offset
  BY <1>1
<1>3. PICK k \in DOMAIN bytes :
              /\ rlen \in DOMAIN bytes /\ bytes[k] = ":" /\ rlen <= BufSize /\ k < rlen
              /\ Number(SubSeq(bytes, 1, k - 1)) = <<rlen - k - 1>>
              /\ Headers(bytes, rlen) = SubSeq(bytes, k + 1, rlen - 1)
  <2> HIDE DEF bytes
  <2>1. rlen \in 1 .. Len(bytes)
    BY <1>6
  <2> QED
    BY <1>1, <2>1, FoundNetstring
<1>4. Netstring(bytes, k, rlen)
  BY <1>1, <1>2, <1>3, Zenon DEF Netstring
<1>5. rlen \in DOMAIN bytes
  BY <1>3
<1>7. sent >= rlen
  BY <1>6 DEF Reading
<1> QED
  BY <1>3, <1>4, <1>5, <1>7, RequestBytes, Zenon

(* Reading on does not change what has been found. *)
LEMMA ReadOn ==
    ASSUME ScgiAssumption, Reading, pc \in {"headers", "body"}, NEW n \in offset .. Len(bytes)
    PROVE  Colon(bytes, n) # {} /\ NetstringEnd(bytes, n) = <<rlen>>
<1>1. /\ bytes \in Seq(STRING) /\ offset \in 0 .. Len(bytes)
      /\ Colon(bytes, offset) # {} /\ NetstringEnd(bytes, offset) = <<rlen>>
  BY RequestBytes DEF Reading
<1> QED
  BY <1>1, MoreCame

-----------------------------------------------------------------------------
(* The steps. *)

LEMMA WebServerStep ==
    ASSUME ScgiAssumption, ScgiInv, Sends \/ PeerCloses PROVE ScgiInv'
<1>1. /\ UNCHANGED <<server, request, pc, offset, rlen, cl, command, registered>>
      /\ sent' \in sent .. Len(bytes) /\ peer' \in {peer, "closed"}
  <2>1. sent \in 0 .. Len(bytes)
    BY DEF ScgiInv, Reading
  <2> QED
    BY <2>1 DEF Sends, PeerCloses, readVars, bytes
<1>2. bytes' = bytes
  BY <1>1 DEF bytes
<1> HIDE DEF bytes
<1>3. sent' \in 0 .. Len(bytes) /\ offset \in 0 .. sent' /\ rlen \in Nat /\ sent' >= sent /\ sent \in Nat
  BY <1>1 DEF ScgiInv, Reading
<1>4. Reading'
  BY <1>1, <1>2, <1>3 DEF ScgiInv, Reading
<1>5. WholeOrNothing'
  BY <1>1, <1>3 DEF ScgiInv, WholeOrNothing
<1>6. CommandServed' /\ HandlerTaken'
  BY <1>1 DEF ScgiInv, CommandServed, HandlerTaken, HandlerTakenOff
<1>7. HeadersChecked'
  BY <1>1, <1>2, Zenon DEF ScgiInv, HeadersChecked
<1> QED
  BY <1>4, <1>5, <1>6, <1>7 DEF ScgiInv

LEMMA ReadLengthStep ==
    ASSUME ScgiAssumption, ScgiInv, ReadLength PROVE ScgiInv'
<1>1. /\ pc = "length" /\ UNCHANGED <<server, request, sent, peer, command, registered>>
      /\ command = << >> /\ bytes' = bytes
  BY DEF ReadLength, ScgiInv, Reading, bytes
<1>2. bytes \in Seq(STRING) /\ offset \in 0 .. Len(bytes) /\ sent \in 0 .. Len(bytes)
  BY RequestBytes DEF ScgiInv
<1>3. CASE AtEnd(offset) /\ Refuse
  <2>1. peer = "closed" /\ pc' = "failed" /\ UNCHANGED <<offset, rlen>>
    BY <1>3 DEF AtEnd, Refuse, Goto, readVars
  <2> HIDE DEF bytes
  <2>2. Reading'
    BY <1>1, <2>1 DEF ScgiInv, Reading
  <2>3. WholeOrNothing' /\ CommandServed' /\ HandlerTaken' /\ HeadersChecked'
    BY <1>1, <2>1 DEF ScgiInv, WholeOrNothing, CommandServed, HandlerTaken, HandlerTakenOff,
       HeadersChecked
  <2> QED
    BY <2>2, <2>3 DEF ScgiInv
<1>4. CASE ~ (AtEnd(offset) /\ Refuse)
  <2>1. PICK n \in Received(offset, BufSize - offset) :
            /\ IF Colon(request.bytes, n) # {}
               THEN IF NetstringEnd(request.bytes, n) = << >>
                    THEN Goto("failed") /\ UNCHANGED rlen
                    ELSE Goto("headers") /\ rlen' = NetstringEnd(request.bytes, n)[1]
               ELSE Goto(IF n < NoColonMax THEN "length" ELSE "failed") /\ UNCHANGED rlen
            /\ offset' = n
    BY <1>4 DEF ReadLength
  <2>2. n \in 0 .. sent /\ n \in 0 .. Len(bytes) /\ NoColonMax \in Nat
    BY <1>2, <2>1 DEF Received, ScgiAssumption
  <2>3. CASE Colon(bytes, n) # {} /\ NetstringEnd(bytes, n) # << >>
    <3>1. PICK e \in Nat : NetstringEnd(bytes, n) = <<e>>
      <4> HIDE DEF bytes
      <4> QED
        BY <1>2, <2>2, <2>3, EndIsNat
    <3>2. pc' = "headers" /\ offset' = n /\ rlen' = e
      BY <2>1, <2>3, <3>1 DEF Goto, bytes
    <3> HIDE DEF bytes
    <3>3. Reading'
      BY <1>1, <2>2, <2>3, <3>1, <3>2 DEF ScgiInv, Reading
    <3>4. WholeOrNothing' /\ CommandServed' /\ HandlerTaken' /\ HeadersChecked'
      BY <1>1, <3>2 DEF ScgiInv, WholeOrNothing, CommandServed, HandlerTaken, HandlerTakenOff,
         HeadersChecked
    <3> QED
      BY <3>3, <3>4 DEF ScgiInv
  <2>4. CASE Colon(bytes, n) = {} /\ n < NoColonMax
    <3>1. pc' = "length" /\ offset' = n /\ rlen' = rlen
      BY <2>1, <2>4 DEF Goto, bytes
    <3> HIDE DEF bytes
    <3>2. Reading'
      BY <1>1, <2>2, <2>4, <3>1 DEF ScgiInv, Reading
    <3>3. WholeOrNothing' /\ CommandServed' /\ HandlerTaken' /\ HeadersChecked'
      BY <1>1, <3>1 DEF ScgiInv, WholeOrNothing, CommandServed, HandlerTaken, HandlerTakenOff,
         HeadersChecked
    <3> QED
      BY <3>2, <3>3 DEF ScgiInv
  <2>5. CASE \/ Colon(bytes, n) # {} /\ NetstringEnd(bytes, n) = << >>
             \/ Colon(bytes, n) = {} /\ ~ (n < NoColonMax)
    <3>1. pc' = "failed" /\ offset' = n /\ rlen' = rlen
      BY <2>1, <2>5 DEF Goto, bytes
    <3>2. ~ request.good
      <4>1. Reading
        BY DEF ScgiInv
      <4>2. ASSUME request.good PROVE FALSE
        <5>1. Colon(bytes, n) # {}
          <6>1. n >= NoColonMax => Colon(bytes, n) # {}
            BY <2>2, <4>1, <4>2, GoodNotRefused
          <6>2. n < NoColonMax \/ n >= NoColonMax
            BY <2>2
          <6> QED
            BY <2>5, <6>1, <6>2, Zenon
        <5>2. PICK e \in DOMAIN bytes : NetstringEnd(bytes, n) = <<e>>
          BY <2>2, <4>1, <4>2, <5>1, GoodNotRefused
        <5>3. <<e>> # << >>
          OBVIOUS
        <5> QED
          BY <2>5, <5>1, <5>2, <5>3
      <4> QED
        BY <4>2
    <3> HIDE DEF bytes
    <3>3. Reading'
      BY <1>1, <2>2, <3>1 DEF ScgiInv, Reading
    <3>4. WholeOrNothing' /\ HandlerTaken' /\ HeadersChecked'
      BY <1>1, <3>1 DEF ScgiInv, WholeOrNothing, HandlerTaken, HandlerTakenOff, HeadersChecked
    <3>5. CommandServed'
      BY <1>1, <3>2 DEF CommandServed
    <3> QED
      BY <3>3, <3>4, <3>5 DEF ScgiInv
  <2> QED
    BY <2>3, <2>4, <2>5
<1> QED
  BY <1>3, <1>4

(* A step that reads on in the netstring or the body. *)
LEMMA ReadOnStep ==
    ASSUME ScgiAssumption, ScgiInv, pc \in {"headers", "body"},
           UNCHANGED <<server, request, sent, peer, pc, rlen, command, registered>>,
           offset' \in offset .. sent
    PROVE  ScgiInv'
<1>1. bytes' = bytes
  BY DEF bytes
<1>2. offset \in 0 .. sent /\ sent \in 0 .. Len(bytes) /\ Reading
  BY DEF ScgiInv, Reading
<1>3. offset' \in 0 .. sent /\ offset' \in offset .. Len(bytes)
  BY <1>2
<1>4. Colon(bytes, offset') # {} /\ NetstringEnd(bytes, offset') = <<rlen>>
  BY <1>2, <1>3, ReadOn
<1> HIDE DEF bytes
<1>5. pc = "body" => rlen \in 1 .. offset'
  <2>1. pc = "body" => rlen \in 1 .. offset
    BY DEF ScgiInv, Reading
  <2> QED
    BY <1>2, <1>3, <2>1
<1>6. Reading'
  BY <1>1, <1>3, <1>4, <1>5 DEF ScgiInv, Reading
<1>7. WholeOrNothing' /\ CommandServed' /\ HandlerTaken'
  BY DEF ScgiInv, WholeOrNothing, CommandServed, HandlerTaken, HandlerTakenOff
<1>8. HeadersChecked'
  BY <1>1, Zenon DEF ScgiInv, HeadersChecked
<1> QED
  BY <1>6, <1>7, <1>8 DEF ScgiInv

LEMMA CheckHeadersStep ==
    ASSUME ScgiAssumption, ScgiInv, CheckHeaders PROVE ScgiInv'
<1>1. /\ pc = "headers" /\ UNCHANGED <<server, request, sent, peer, offset, rlen, command, registered>>
      /\ bytes' = bytes /\ offset >= rlen /\ Reading
  BY DEF CheckHeaders, Refuse, readVars, bytes, ScgiInv
<1>2. /\ bytes \in Seq(STRING) /\ offset \in 0 .. Len(bytes) /\ rlen \in Nat
      /\ Colon(bytes, offset) # {} /\ NetstringEnd(bytes, offset) = <<rlen>>
  BY <1>1, RequestBytes DEF Reading
<1>3. rlen \in 1 .. offset
  <2>1. <<rlen>> # << >>
    OBVIOUS
  <2>2. NetstringEnd(bytes, offset) # << >>
    BY <1>2, <2>1
  <2> HIDE DEF bytes
  <2>3. PICK x \in Nat : NetstringEnd(bytes, offset) = <<x>> /\ x > Min(Colon(bytes, offset))
    BY <1>2, <2>2, EndIsNat
  <2>4. Min(Colon(bytes, offset)) \in 1 .. offset
    BY <1>2, FirstColon
  <2>5. x = rlen
    BY <1>2, <2>3
  <2> QED
    BY <1>1, <1>2, <2>3, <2>4, <2>5
<1>4. CASE bytes[rlen] = "," /\ HeadersGood(Headers(bytes, rlen))
  <2>1. pc' = "body"
    BY <1>4, Zenon DEF CheckHeaders, Goto, bytes
  <2> HIDE DEF bytes
  <2>2. /\ server' \in Servers /\ request' \in Requests /\ peer' \in {"open", "closed"}
        /\ sent' \in 0 .. Len(bytes') /\ offset' \in 0 .. sent' /\ rlen' \in Nat
        /\ Colon(bytes', offset') # {} /\ NetstringEnd(bytes', offset') = <<rlen'>>
    BY <1>1, <1>2 DEF Reading
  <2>3. rlen' \in 1 .. offset' /\ pc' # "length"
    BY <1>1, <1>3, <2>1
  <2>4. Reading'
    BY <2>2, <2>3, Zenon DEF Reading
  <2>5. HeadersChecked'
    BY <1>1, <1>4, Zenon DEF HeadersChecked
  <2>6. WholeOrNothing' /\ CommandServed' /\ HandlerTaken'
    BY <1>1, <2>1 DEF ScgiInv, WholeOrNothing, CommandServed, HandlerTaken, HandlerTakenOff
  <2> QED
    BY <2>4, <2>5, <2>6 DEF ScgiInv
<1>5. CASE ~ (bytes[rlen] = "," /\ HeadersGood(Headers(bytes, rlen)))
  <2>1. pc' = "failed"
    BY <1>5, Zenon DEF CheckHeaders, Refuse, Goto, bytes
  <2>2. ~ request.good
    <3>1. ASSUME request.good PROVE FALSE
      <4>1. PICK e \in DOMAIN bytes : /\ NetstringEnd(bytes, offset) = <<e>> /\ bytes[e] = ","
                                      /\ HeadersGood(Headers(bytes, e))
        BY <1>1, <1>2, <3>1, GoodNotRefused
      <4>2. e = rlen
        <5>1. NetstringEnd(bytes, offset) = <<e>>
          BY <4>1
        <5>2. NetstringEnd(bytes, offset) = <<rlen>>
          BY <1>2
        <5> HIDE DEF bytes
        <5> QED
          BY <5>1, <5>2
      <4> QED
        BY <1>5, <4>1, <4>2, Zenon
    <3> QED
      BY <3>1
  <2> HIDE DEF bytes
  <2>3. Reading'
    BY <1>1, <2>1 DEF Reading
  <2>4. WholeOrNothing' /\ HandlerTaken' /\ HeadersChecked'
    BY <1>1, <2>1 DEF ScgiInv, WholeOrNothing, HandlerTaken, HandlerTakenOff, HeadersChecked
  <2>5. CommandServed'
    BY <1>1, <2>2 DEF CommandServed
  <2> QED
    BY <2>3, <2>4, <2>5 DEF ScgiInv
<1> QED
  BY <1>4, <1>5, Zenon

(* The process ends on a request in good order that asks for nothing. *)
LEMMA NoQueryStringStep ==
    ASSUME ScgiAssumption, ScgiInv, NoQueryString PROVE ScgiInv'
<1>1. /\ pc = "body" /\ pc' = "crashed"
      /\ UNCHANGED <<server, request, sent, peer, offset, rlen, command, registered>>
      /\ bytes' = bytes /\ Reading /\ HeadersChecked
      /\ Value(Headers(bytes, rlen), "QUERY_STRING") = << >>
  BY DEF NoQueryString, Goto, readVars, bytes, ScgiInv
<1>2. request.good /\ request.query = << >> /\ sent >= rlen
  BY <1>1, CommandOfRequest
<1>3. registered = FALSE
  BY <1>1 DEF ScgiInv, HandlerTaken, HandlerTakenOff
<1> HIDE DEF bytes
<1>4. Reading'
  BY <1>1 DEF Reading
<1>5. WholeOrNothing'
  BY <1>1, <1>2 DEF ScgiInv, WholeOrNothing
<1>6. CommandServed' /\ HandlerTaken' /\ HeadersChecked'
  BY <1>1, <1>3 DEF CommandServed, HandlerTaken, HandlerTakenOff, HeadersChecked
<1> QED
  BY <1>4, <1>5, <1>6 DEF ScgiInv

LEMMA RunCommandStep ==
    ASSUME ScgiAssumption, ScgiInv, RunCommand PROVE ScgiInv'
<1>1. /\ pc = "body" /\ UNCHANGED <<server, request, sent, peer, offset, rlen>>
      /\ bytes' = bytes /\ Reading /\ HeadersChecked
  BY DEF RunCommand, readVars, bytes, ScgiInv
<1> DEFINE query == Value(Headers(bytes, rlen), "QUERY_STRING")
<1>2. PICK word \in ToSet(query) :
         \/ /\ server = "agent" /\ word \notin AnsweredAtOnce
            /\ command' = <<word>> /\ process_cli_command(word)
         \/ /\ server = "agent" /\ word \in AnsweredAtOnce
            /\ \E done \in BOOLEAN : Goto(IF done THEN "close" ELSE "next")
            /\ UNCHANGED <<command, registered>>
         \/ /\ server = "standalone"
            /\ command' = <<word>>
            /\ Goto(IF word \in {"path_info", "script_name", "var"} THEN "close" ELSE "linger")
            /\ UNCHANGED registered
  BY DEF RunCommand, bytes
<1>3. request.good /\ query = request.query /\ sent >= rlen
  BY <1>1, CommandOfRequest
<1>4. query = <<word>>
  <2>1. query = << >> \/ \E x : query = <<x>>
    BY DEF Value
  <2> HIDE DEF query
  <2>2. PICK x : query = <<x>>
    BY <1>2, <2>1 DEF ToSet
  <2>3. ToSet(<<x>>) = {x}
    BY DEF ToSet
  <2> QED
    BY <1>2, <2>2, <2>3
<1>5. request.query = <<word>> /\ ToSet(request.query) = {word}
  <2>1. ToSet(<<word>>) = {word}
    BY DEF ToSet
  <2> QED
    BY <1>3, <1>4, <2>1
<1> HIDE DEF bytes, query
<1>6. registered = FALSE
  BY <1>1 DEF ScgiInv, HandlerTaken, HandlerTakenOff
<1>7. /\ pc' \in {"close", "next", "linger", "turning", "crashed"}
      /\ pc' = "crashed" => word = "seltag-bare"
      /\ command' \in {command, <<word>>}
      /\ server = "agent" => command' = <<word>> \/ word \in AnsweredAtOnce
  BY <1>2, Zenon DEF process_cli_command, Goto
<1>8. HandlerTaken'
  <2>1. CASE UNCHANGED registered
    BY <1>6, <2>1 DEF HandlerTaken, HandlerTakenOff
  <2>2. CASE ~ UNCHANGED registered
    <3>1. /\ registered' = TRUE /\ command' = <<word>>
          /\ pc' = "next" \/ (pc' = "turning" /\ word \in {"seltag", "seltag-bare"})
      BY <1>2, <2>2 DEF process_cli_command, Goto
    <3> QED
      BY <3>1 DEF HandlerTaken, HandlerTakenOff
  <2> QED
    BY <2>1, <2>2
<1>9. Reading'
  BY <1>1, <1>7 DEF Reading
<1>10. WholeOrNothing'
  BY <1>1, <1>3, <1>5, <1>7 DEF ScgiInv, WholeOrNothing
<1>11. HeadersChecked'
  BY <1>7 DEF HeadersChecked
<1>12. CommandServed'
  <2>1. <<word>> # << >>
    OBVIOUS
  <2> QED
    BY <1>1, <1>5, <1>7, <2>1 DEF CommandServed
<1> QED
  BY <1>8, <1>9, <1>10, <1>11, <1>12 DEF ScgiInv

(* Every other step leaves the reading, or has left it. *)
LEMMA OtherStep ==
    ASSUME ScgiAssumption, ScgiInv,
           UNCHANGED <<server, request, sent, peer, offset, rlen, command>>,
           \/ /\ pc' = "failed" /\ UNCHANGED registered
              /\ peer = "open" => server = "standalone" /\ (rlen = 0 \/ offset < rlen)
           \/ pc = "failed" /\ pc' = "close" /\ registered' = FALSE
           \/ pc = "linger" /\ pc' = "close" /\ UNCHANGED registered /\ peer = "closed"
           \/ pc = "close" /\ pc' = "closed" /\ UNCHANGED registered
    PROVE  ScgiInv'
<1>1. bytes' = bytes
  BY DEF bytes
<1> HIDE DEF bytes
<1>2. pc' \in {"failed", "close", "closed"}
  OBVIOUS
<1>3. Reading'
  BY <1>1, <1>2 DEF ScgiInv, Reading
<1>4. WholeOrNothing'
  BY DEF ScgiInv, WholeOrNothing
<1>5. CommandServed'
  BY DEF ScgiInv, CommandServed
<1>6. HandlerTaken' /\ HeadersChecked'
  <2>1. HeadersChecked'
    BY <1>2 DEF HeadersChecked
  <2>2. HandlerTaken
    BY DEF ScgiInv
  <2>3. HandlerTaken'
    <3>1. CASE pc' = "failed" /\ UNCHANGED registered
      BY <2>2, <3>1 DEF HandlerTaken, HandlerTakenOff
    <3>2. CASE registered' = FALSE
      BY <3>2 DEF HandlerTaken, HandlerTakenOff
    <3>3. CASE pc \in {"linger", "close"} /\ UNCHANGED registered
      <4>1. pc \notin {"next", "failed", "turning"}
        BY <3>3
      <4>2. registered = FALSE
        BY <2>2, <4>1 DEF HandlerTaken, HandlerTakenOff
      <4> QED
        BY <3>3, <4>2 DEF HandlerTaken, HandlerTakenOff
    <3> QED
      BY <3>1, <3>2, <3>3
  <2> QED
    BY <2>1, <2>3
<1> QED
  BY <1>3, <1>4, <1>5, <1>6 DEF ScgiInv

LEMMA ScgiInvariant == ScgiAssumption => (ScgiSpec => []ScgiInv)
<1>1. ASSUME ScgiAssumption, ScgiInit PROVE ScgiInv
  <2>1. /\ server \in Servers /\ request \in Requests /\ sent = 0 /\ peer = "open" /\ pc = "length"
        /\ offset = 0 /\ rlen = 0 /\ command = << >> /\ registered = FALSE
    BY <1>1 DEF ScgiInit
  <2>2. bytes \in Seq(STRING)
    BY <1>1, <2>1 DEF ScgiAssumption, bytes
  <2> HIDE DEF bytes
  <2>3. Colon(bytes, 0) = {} /\ 0 \in 0 .. Len(bytes) /\ 0 < NoColonMax
    BY <1>1, <2>2 DEF Colon, ScgiAssumption
  <2>4. Reading
    BY <2>1, <2>3 DEF Reading
  <2>5. HeadersChecked
    BY <2>1 DEF HeadersChecked
  <2>6. WholeOrNothing
    BY <2>1 DEF WholeOrNothing
  <2>7. CommandServed
    BY <2>1 DEF CommandServed
  <2>8. HandlerTaken
    BY <2>1 DEF HandlerTaken, HandlerTakenOff
  <2> QED
    BY <2>4, <2>5, <2>6, <2>7, <2>8 DEF ScgiInv
<1>2. ASSUME ScgiAssumption, ScgiInv, [ScgiNext]_scgiVars PROVE ScgiInv'
  <2>0. offset \in 0 .. sent /\ sent \in Nat /\ server \in {"agent", "standalone"}
    BY <1>2, RequestBytes DEF ScgiInv, Reading
  <2>1. CASE Sends \/ PeerCloses
    BY <1>2, <2>1, WebServerStep
  <2>2. CASE ReadLength
    BY <1>2, <2>2, ReadLengthStep
  <2>3. CASE ReadHeaders
    <3>1. CASE AtEnd(offset) /\ Refuse
      <4>1. /\ UNCHANGED <<server, request, sent, peer, offset, rlen, command, registered>>
            /\ pc' = "failed" /\ peer = "closed"
        BY <2>3, <3>1 DEF ReadHeaders, AtEnd, Refuse, Goto, readVars
      <4> QED
        BY <1>2, <4>1, OtherStep
    <3>2. CASE ~ (AtEnd(offset) /\ Refuse)
      <4>1. /\ UNCHANGED <<server, request, sent, peer, pc, rlen, command, registered>>
            /\ pc = "headers"
            /\ \E n \in Received(offset, BufSize - offset) : offset' = n
        BY <2>3, <3>2 DEF ReadHeaders
      <4>2. offset' \in offset .. sent
        BY <2>0, <4>1 DEF Received
      <4> QED
        BY <1>2, <4>1, <4>2, ReadOnStep
    <3> QED
      BY <3>1, <3>2
  <2>4. CASE GivesUp
    <3>1. /\ UNCHANGED <<server, request, sent, peer, offset, rlen, command, registered>>
          /\ pc' = "failed" /\ server = "standalone" /\ (rlen = 0 \/ offset < rlen)
      BY <1>2, <2>4 DEF GivesUp, Refuse, Goto, readVars, ScgiInv, Reading
    <3> QED
      BY <1>2, <3>1, OtherStep
  <2>5. CASE ReadsBeyond
    <3>1. /\ UNCHANGED <<server, request, sent, peer, pc, rlen, command, registered>>
          /\ pc = "headers"
          /\ \E n \in Received(offset, BufSize - offset) : offset' = n
      BY <2>5 DEF ReadsBeyond
    <3>2. offset' \in offset .. sent
      BY <2>0, <3>1 DEF Received
    <3> QED
      BY <1>2, <3>1, <3>2, ReadOnStep
  <2>6. CASE CheckHeaders
    BY <1>2, <2>6, CheckHeadersStep
  <2>7. CASE ReadBody
    <3>1. /\ UNCHANGED <<server, request, sent, peer, pc, rlen, command, registered>>
          /\ pc = "body"
          /\ UNCHANGED offset \/ \E n \in Received(offset, cl) : offset' = n
      BY <2>7 DEF ReadBody
    <3>2. offset' \in offset .. sent
      BY <2>0, <3>1 DEF Received
    <3> QED
      BY <1>2, <3>1, <3>2, ReadOnStep
  <2>8. CASE NoQueryString \/ RunCommand
    BY <1>2, <2>8, NoQueryStringStep, RunCommandStep
  <2>9. CASE WaitEnd \/ Failed \/ Close
    <3>1. UNCHANGED <<server, request, sent, peer, offset, rlen, command>>
      BY <2>9 DEF WaitEnd, Failed, Close, readVars
    <3>2. \/ pc' = "failed" /\ peer = "closed" /\ UNCHANGED registered
          \/ pc = "failed" /\ pc' = "close" /\ registered' = FALSE
          \/ pc = "linger" /\ pc' = "close" /\ UNCHANGED registered /\ peer = "closed"
          \/ pc = "close" /\ pc' = "closed" /\ UNCHANGED registered
      BY <2>9 DEF WaitEnd, Failed, Close, Goto, AtEnd
    <3> QED
      BY <1>2, <3>1, <3>2, OtherStep
  <2>10. CASE UNCHANGED scgiVars
    <3>1. UNCHANGED <<server, request, sent, peer, pc, offset, rlen, command, registered>>
      BY <2>10 DEF scgiVars, readVars
    <3> QED
      BY <1>2, <3>1, Zenon DEF ScgiInv, Reading, HeadersChecked, WholeOrNothing, CommandServed,
         HandlerTaken, HandlerTakenOff, bytes
  <2> QED
    BY <1>2, <2>1, <2>2, <2>3, <2>4, <2>5, <2>6, <2>7, <2>8, <2>9, <2>10 DEF ScgiNext
<1>3. CASE ScgiAssumption
  <2>1. ScgiInv /\ [ScgiNext]_scgiVars => ScgiInv'
    BY <1>2, <1>3
  <2>2. ScgiInit => ScgiInv
    BY <1>1, <1>3
  <2> QED
    BY <2>1, <2>2, PTL DEF ScgiSpec
<1> QED
  BY <1>3

(* Whatever pieces a request arrives in, however often the server waits    *)
(* and whenever the peer closes: the command that runs is the one in the   *)
(* query string of a whole and well formed request, and only such a        *)
(* request without a query string, or with a bare seltag, ends the         *)
(* process; while the web server holds the connection a well formed        *)
(* request is refused only by a stand-alone server that does not wait for  *)
(* it; and no callback handler outlives its connection but that of a       *)
(* seltag (sAgent.cpp:61-96 and 170-354, CCLI.cpp:410-464).                *)
THEOREM CommandOfWholeRequest == ScgiAssumption => (ScgiSpec => []CommandWhole)
<1>1. ScgiInv => CommandWhole
  BY DEF ScgiInv, CommandServed, HandlerTaken, CommandWhole, RequestServed
<1> QED
  BY <1>1, ScgiInvariant, PTL

-----------------------------------------------------------------------------
(***************************************************************************)
(* Proofs about WebSession, for every run of the web programs, any tables, *)
(* any size of the second buffer and any way the frames are cut: what a    *)
(* program shows is true of the daemon, and a listing has rows of the page *)
(* asked for only, in their order.                                         *)
(***************************************************************************)

-----------------------------------------------------------------------------
(* The inductive invariant. *)

IsSeq(s) == s \in Seq(ToSet(s))

WebTyped ==
    /\ run \in Runs
    /\ inbox \in Seq({run.request}) /\ served \in Seq({run.request})
    /\ IsSeq(wire) /\ IsSeq(cache) /\ IsSeq(cache1)

(* A frame that passes for the answer is one to a request that was carried *)
(* out, and says what the daemon holds.                                    *)
Honest(m) == m.op = run.request.op =>
    /\ run.request \in ToSet(served)
    /\ run.kind = "value" => m.data[1] = Held[run.name]
    /\ run.kind = "tags" => Tail(m.data) \in {<<>>, <<Tag>>}

AnswersHonest == run.kind \notin {"rows", "stream"} =>
    /\ phase \in {"start", "answer", "end"}
    /\ \A p \in ToSet(wire) \cup ToSet(cache) : Honest(p[1])
    /\ phase # "end" => shown = <<>>
    /\ ShownTrue

(* The page a listing asks for, and the pieces of what is sent for it. *)
Page ==
    LET all == Table[run.request.data[3]]
        from == run.request.data[2]
    IN SubSeq(all, from + 1, IF Len(all) > from + 30 THEN from + 30 ELSE Len(all))
PageFrames == SelectFrames([i \in DOMAIN Page |-> Sqlite_callback(Page[i])])
All == Pieces(PageFrames)
Rest(i) == SubSeq(All, i + 1, Len(All))

(* s has rows of the page in their order, the last one before the n-th. *)
InOrder(s, page, n) ==
    /\ s \in Seq(ToSet(page))
    /\ \E at \in [DOMAIN s -> DOMAIN page] :
          \A k \in DOMAIN s :
             at[k] < n /\ s[k] = page[at[k]] /\ \A j \in 1 .. k - 1 : at[j] < at[k]

(* k frames have been read, and if h = 1 the beginning of the next. *)
Listing(k, h) ==
    /\ cache1 \o wire = Rest(2 * k + h)
    /\ mid = NoFrame \/ (h = 1 /\ mid = PageFrames[k + 1])
    /\ InOrder(shown, Page, k)
    /\ ~ spill /\ ~ cut =>
          /\ k <= Len(Page) + 1 /\ shown = SubSeq(Page, 1, k - 1)
          /\ h = 1 => mid = PageFrames[k + 1]

Answering ==
    /\ inbox = <<>> /\ served = <<run.request>>
    /\ \/ cache \o wire = Rest(0) /\ mid = NoFrame
       \/ cache \o wire = Rest(1) /\ mid = PageFrames[1]

Unsent == /\ wire = <<>> /\ cache = <<>> /\ mid = NoFrame /\ served = <<>>

PageInOrder ==
    /\ phase \in {"start", "answer", "rows", "end"}
    /\ daemon.tables = Table /\ daemon.subscribers = {}
    /\ phase \in {"start", "answer"} => cache1 = <<>> /\ shown = <<>> /\ ~ spill /\ ~ cut
    /\ phase = "start" => Unsent /\ inbox = <<>>
    /\ phase = "answer" => (Unsent /\ inbox = <<run.request>>) \/ Answering
    /\ phase = "rows" =>
          /\ inbox = <<>>
          /\ \E k \in 1 .. Len(Page) + 2, h \in {0, 1} :
                2 * k + h <= Len(All) /\ Listing(k, h)
    /\ phase = "end" => inbox = <<>> /\ ShownTrue
ListingOrdered == run.kind = "rows" => PageInOrder

WebInv == WebTyped /\ AnswersHonest /\ ListingOrdered
-----------------------------------------------------------------------------
(* Sequences and pieces. *)

LEMMA ElementsTyped ==
    ASSUME NEW S, NEW s \in Seq(S) PROVE IsSeq(s) /\ ToSet(s) \subseteq S
<1>1. ToSet(s) = {s[i] : i \in DOMAIN s}
  BY DEF ToSet
<1>2. Len(s) \in Nat /\ DOMAIN s = 1 .. Len(s) /\ s = [i \in 1 .. Len(s) |-> s[i]]
  OBVIOUS
<1>3. \A i \in 1 .. Len(s) : s[i] \in ToSet(s) /\ s[i] \in S
  BY <1>1, <1>2
<1>4. s \in Seq(ToSet(s))
  BY <1>2, <1>3, SeqDef
<1> QED
  BY <1>1, <1>2, <1>3, <1>4 DEF IsSeq

LEMMA Joined ==
    ASSUME NEW s, NEW t, IsSeq(s), IsSeq(t)
    PROVE  IsSeq(s \o t) /\ ToSet(s \o t) = ToSet(s) \cup ToSet(t)
<1> DEFINE S == ToSet(s) \cup ToSet(t)
<1>1. s \in Seq(S) /\ t \in Seq(S)
  BY DEF IsSeq
<1>2. s \o t \in Seq(S)
  BY <1>1
<1>3. IsSeq(s \o t)
  BY <1>2, ElementsTyped
<1>4. \A i \in DOMAIN s : (s \o t)[i] = s[i] /\ i \in DOMAIN (s \o t)
  BY <1>1
<1>5. \A i \in DOMAIN t : (s \o t)[i + Len(s)] = t[i] /\ i + Len(s) \in DOMAIN (s \o t)
  BY <1>1
<1>6. \A i \in DOMAIN (s \o t) : (s \o t)[i] \in S
  BY <1>2
<1> QED
  BY <1>3, <1>4, <1>5, <1>6 DEF ToSet

LEMMA NotEmpty ==
    ASSUME NEW S, NEW s \in Seq(S), Len(s) # 0 PROVE s # <<>>
OBVIOUS

LEMMA Window ==
    ASSUME NEW S, NEW s \in Seq(S), NEW from \in Nat, NEW last \in Nat, last <= Len(s)
    PROVE  SubSeq(s, from + 1, last) \in Seq(S)
<1>1. \A i \in from + 1 .. last : s[i] \in S
  OBVIOUS
<1> QED
  BY <1>1, SubSeqProperties

LEMMA Enclosed ==
    ASSUME NEW S, NEW a \in S, NEW s \in Seq(S), NEW z \in S
    PROVE  LET f == <<a>> \o s \o <<z>> IN
           /\ f \in Seq(S) /\ Len(f) = Len(s) + 2 /\ f[1] = a /\ f[Len(s) + 2] = z
           /\ \A k \in 1 .. Len(s) : f[k + 1] = s[k]
<1> DEFINE front == <<a>> \o s
<1>1. /\ front \in Seq(S) /\ Len(front) = Len(s) + 1 /\ front[1] = a
      /\ \A k \in 1 .. Len(s) : front[k + 1] = s[k]
  OBVIOUS
<1> HIDE DEF front
<1>2. /\ front \o <<z>> \in Seq(S) /\ Len(front \o <<z>>) = Len(s) + 2
      /\ (front \o <<z>>)[Len(s) + 2] = z
      /\ \A i \in 1 .. Len(s) + 1 : (front \o <<z>>)[i] = front[i]
  BY <1>1
<1> QED
  BY <1>1, <1>2 DEF front

(* recv() moves some pieces from the front of the wire to an empty buffer. *)
LEMMA Moved ==
    ASSUME NEW w, IsSeq(w), NEW n \in 1 .. Len(w)
    PROVE  /\ IsSeq(SubSeq(w, 1, n)) /\ IsSeq(SubSeq(w, n + 1, Len(w)))
           /\ SubSeq(w, 1, n) \o SubSeq(w, n + 1, Len(w)) = w
           /\ ToSet(SubSeq(w, 1, n)) \subseteq ToSet(w)
           /\ ToSet(SubSeq(w, n + 1, Len(w))) \subseteq ToSet(w)
<1>1. w \in Seq(ToSet(w))
  BY DEF IsSeq
<1>2. SubSeq(w, 1, n) \in Seq(ToSet(w)) /\ SubSeq(w, n + 1, Len(w)) \in Seq(ToSet(w))
  BY <1>1
<1>3. SubSeq(w, 1, n) \o SubSeq(w, n + 1, Len(w)) = w
  BY <1>1
<1> QED
  BY <1>2, <1>3, ElementsTyped

(* A piece is taken from a buffer that has one. *)
LEMMA Taken ==
    ASSUME NEW b, NEW w, IsSeq(b), IsSeq(w), b # <<>>
    PROVE  /\ Head(b) \in ToSet(b) /\ IsSeq(Tail(b)) /\ ToSet(Tail(b)) \subseteq ToSet(b)
           /\ b \o w # <<>> /\ Head(b \o w) = Head(b) /\ Tail(b) \o w = Tail(b \o w)
<1> DEFINE S == ToSet(b) \cup ToSet(w)
<1>1. b \in Seq(S) /\ w \in Seq(S) /\ b \in Seq(ToSet(b))
  BY DEF IsSeq
<1>2. Head(b) \in ToSet(b) /\ Tail(b) \in Seq(ToSet(b))
  BY <1>1
<1>3. b \o w # <<>> /\ Head(b \o w) = Head(b)
  BY <1>1
<1>4. Tail(b) \o w = Tail(b \o w)
  BY <1>1
<1> QED
  BY <1>2, <1>3, <1>4, ElementsTyped

LEMMA PiecesOfFrames ==
    ASSUME NEW S, NEW f \in Seq(S)
    PROVE  /\ Pieces(f) \in Seq(S \X {1, 2}) /\ Len(Pieces(f)) = 2 * Len(f)
           /\ \A k \in 0 .. Len(f) - 1 : /\ Pieces(f)[2 * k + 1] = <<f[k + 1], 1>>
                                         /\ Pieces(f)[2 * k + 2] = <<f[k + 1], 2>>
<1>1. \A i \in 1 .. 2 * Len(f) : (i + 1) \div 2 \in 1 .. Len(f)
  OBVIOUS
<1>2. \A i \in 1 .. 2 * Len(f) : Pieces(f)[i] \in S \X {1, 2}
  BY <1>1 DEF Pieces
<1>3. Pieces(f) \in [1 .. 2 * Len(f) -> S \X {1, 2}] /\ 2 * Len(f) \in Nat
  BY <1>1 DEF Pieces
<1>4. Pieces(f) \in Seq(S \X {1, 2}) /\ Len(Pieces(f)) = 2 * Len(f)
  BY <1>3
<1>5. ASSUME NEW k \in 0 .. Len(f) - 1
      PROVE  /\ Pieces(f)[2 * k + 1] = <<f[k + 1], 1>>
             /\ Pieces(f)[2 * k + 2] = <<f[k + 1], 2>>
  <2>1. /\ 2 * k + 1 \in 1 .. 2 * Len(f) /\ 2 * k + 2 \in 1 .. 2 * Len(f)
        /\ (2 * k + 2) \div 2 = k + 1 /\ (2 * k + 3) \div 2 = k + 1
        /\ (2 * k + 1) % 2 = 1 /\ (2 * k + 2) % 2 = 0
    OBVIOUS
  <2>2. (2 * k + 1) + 1 = 2 * k + 2 /\ (2 * k + 2) + 1 = 2 * k + 3
    OBVIOUS
  <2> QED
    BY <2>1, <2>2 DEF Pieces
<1> QED
  BY <1>4, <1>5
-----------------------------------------------------------------------------
(* The answers. *)

HeldBy(timeout) ==
    [getregion |-> Region, getmoduletemp |-> Temperature, getsearchtimeout |-> timeout,
     antmap |-> ConnectedAnts]

(* data answers the request of run r while the daemon is d. *)
Answers(r, d, data) ==
    /\ r.kind = "value" => data[1] = HeldBy(d.timeout)[r.name]
    /\ r.kind = "tags" => Tail(data) \in {<<>>, <<Tag>>}

LEMMA TagsOnly ==
    ASSUME NEW a PROVE Tail(<<a, Tag>>) = <<Tag>> /\ Tail(<<a>>) = <<>>
<1>1. <<a, Tag>> \in Seq({a, Tag}) /\ <<a>> \in Seq({a})
  OBVIOUS
<1> QED
  BY <1>1

(* A request that is not for a page is answered by one frame at most. *)
LEMMA OneReply ==
    ASSUME WebAssumption, NEW r \in Runs, r.kind # "rows", NEW d, NEW works \in BOOLEAN
    PROVE  LET s == iAgent_ProcessMsgObj(d, r.request, works) IN
           /\ r.kind = "value" => s.daemon = d
           /\ \/ s.frames = <<>>
              \/ \E data : s.frames = Reply(r.request.op, data) /\ Answers(r, d, data)
<1> DEFINE s == iAgent_ProcessMsgObj(d, r.request, works)
           op == r.request.op
           Good == /\ r.kind = "value" => s.daemon = d
                   /\ \/ s.frames = <<>>
                      \/ \E data : s.frames = Reply(op, data) /\ Answers(r, d, data)
<1>0. /\ op # "93"
      /\ r.kind = "value" =>
            <<r.name, op>> \in {<<"getregion", "91">>, <<"getmoduletemp", "97">>,
                                <<"getsearchtimeout", "92">>, <<"antmap", "8b">>}
      /\ r.kind = "tags" => op = "83"
  BY DEF WebAssumption
<1>1. ASSUME NEW data, s.frames = Reply(op, data), r.kind \notin {"value", "tags"} PROVE Good
  BY <1>1 DEF Answers
<1>2. CASE op = "8b"
  <2>1. s = [daemon |-> d, frames |-> Reply(op, <<ConnectedAnts, d.power>>)]
    BY <1>2 DEF iAgent_ProcessMsgObj, iAgent_GetAntBitMap, Served
  <2>2. Answers(r, d, <<ConnectedAnts, d.power>>)
    BY <1>0, <1>2 DEF Answers, HeldBy
  <2> QED
    BY <2>1, <2>2
<1>3. CASE op = "91"
  <2>1. s = [daemon |-> d, frames |-> Reply(op, <<Region>>)]
    BY <1>3 DEF iAgent_ProcessMsgObj, iAgent_GetRegion, Served
  <2>2. Answers(r, d, <<Region>>)
    BY <1>0, <1>3 DEF Answers, HeldBy
  <2> QED
    BY <2>1, <2>2
<1>4. CASE op = "92"
  <2>1. s = [daemon |-> d, frames |-> Reply(op, <<d.timeout>>)]
    BY <1>4 DEF iAgent_ProcessMsgObj, iAgent_GetSearchTimeout, Served
  <2>2. Answers(r, d, <<d.timeout>>)
    BY <1>0, <1>4 DEF Answers, HeldBy
  <2> QED
    BY <2>1, <2>2
<1>5. CASE op = "97"
  <2>1. s = [daemon |-> d, frames |-> Reply(op, <<Temperature>>)]
    BY <1>5 DEF iAgent_ProcessMsgObj, iAgent_ReadEquipTemp, Served
  <2>2. Answers(r, d, <<Temperature>>)
    BY <1>0, <1>5 DEF Answers, HeldBy
  <2> QED
    BY <2>1, <2>2
<1>6. CASE op = "83"
  <2> DEFINE a == r.request.data[1]
             data == IF a \in ConnectedAnts THEN <<a, Tag>> ELSE <<a>>
  <2>1. s = [daemon |-> d, frames |-> Reply(op, data)]
    BY <1>6 DEF iAgent_ProcessMsgObj, iAgent_ReadTagsRSSI, Served
  <2>2. Tail(data) \in {<<>>, <<Tag>>}
    BY TagsOnly
  <2>3. Answers(r, d, data)
    BY <1>0, <1>6, <2>2 DEF Answers
  <2> QED
    BY <2>1, <2>3
<1>7. CASE op \in {"88", "87", "94", "95", "96", "98"}
  <2>1. r.kind \notin {"value", "tags"}
    BY <1>0, <1>7
  <2>2. \E data : s.frames = Reply(op, data)
    <3>1. CASE op = "88"
      BY <3>1 DEF iAgent_ProcessMsgObj, iAgent_SetTxPower, Served
    <3>2. CASE op = "87"
      BY <3>2 DEF iAgent_ProcessMsgObj, iAgent_StartExecutor, Served
    <3>3. CASE op = "94"
      BY <3>3 DEF iAgent_ProcessMsgObj, iAgent_Sqlite_Insert, Served
    <3>4. CASE op = "95"
      BY <3>4 DEF iAgent_ProcessMsgObj, iAgent_Rescan_Salve, Served
    <3>5. CASE op = "96"
      BY <3>5 DEF iAgent_ProcessMsgObj, iAgent_SetSearchTimeout, Served
    <3>6. CASE op = "98"
      BY <3>6 DEF iAgent_ProcessMsgObj, iAgent_SetEquipTempProtect, Served
    <3> QED
      BY <1>7, <3>1, <3>2, <3>3, <3>4, <3>5, <3>6
  <2> QED
    BY <1>1, <2>1, <2>2
<1>8. CASE op \notin {"8b", "83", "88", "87", "91", "92", "93", "94", "95", "96", "97", "98"}
  <2>1. s = [daemon |-> d, frames |-> <<>>]
    BY <1>8 DEF iAgent_ProcessMsgObj, Served
  <2> QED
    BY <2>1
<1> QED
  BY <1>0, <1>2, <1>3, <1>4, <1>5, <1>6, <1>7, <1>8

(* What a page is sent as. *)
LEMMA PageSent ==
    ASSUME WebAssumption, run \in Runs, run.kind = "rows"
    PROVE  /\ Page \in Seq(ToSet(Table[run.request.data[3]])) /\ Done \notin ToSet(Page)
           /\ IsSeq(Page) /\ IsSeq(PageFrames) /\ Len(PageFrames) = Len(Page) + 2
           /\ PageFrames[1] = Frame("93", <<0>>)
           /\ \A k \in 1 .. Len(Page) : PageFrames[k + 1] = Frame("93", <<Page[k]>>)
           /\ PageFrames[Len(Page) + 2] = Frame("93", <<Done>>)
<1> DEFINE all == Table[run.request.data[3]]
           from == run.request.data[2]
           rowFrames == [i \in DOMAIN Page |-> Sqlite_callback(Page[i])]
           F == {Frame("93", <<x>>) : x \in ToSet(Page) \cup {0, Done}}
<1>1. /\ all \in Seq(ToSet(all)) /\ Done \notin ToSet(all) /\ from \in Nat
  BY DEF WebAssumption
<1>2. Page \in Seq(ToSet(all))
  <2> DEFINE last == IF Len(all) > from + 30 THEN from + 30 ELSE Len(all)
  <2> HIDE DEF all, from
  <2>1. last \in Nat /\ last <= Len(all)
    BY <1>1
  <2> HIDE DEF last
  <2>2. SubSeq(all, from + 1, last) \in Seq(ToSet(all))
    BY <1>1, <2>1, Window
  <2> QED
    BY <2>2 DEF Page, all, from, last
<1>3. IsSeq(Page) /\ ToSet(Page) \subseteq ToSet(all)
  BY <1>2, ElementsTyped
<1>4. DOMAIN Page = 1 .. Len(Page) /\ Len(Page) \in Nat
  BY <1>2
<1>5. /\ rowFrames \in Seq(F) /\ Len(rowFrames) = Len(Page)
      /\ \A k \in 1 .. Len(Page) : rowFrames[k] = Frame("93", <<Page[k]>>)
  <2>1. \A k \in 1 .. Len(Page) : Page[k] \in ToSet(Page)
    BY <1>3 DEF IsSeq
  <2>2. \A k \in 1 .. Len(Page) : Frame("93", <<Page[k]>>) \in F
    BY <2>1
  <2>3. rowFrames = [k \in 1 .. Len(Page) |-> Frame("93", <<Page[k]>>)]
    BY <1>4 DEF Sqlite_callback
  <2> HIDE DEF F, rowFrames
  <2>4. rowFrames \in [1 .. Len(Page) -> F]
    BY <2>2, <2>3
  <2>5. rowFrames \in Seq(F)
    BY <1>4, <2>4, SeqDef
  <2>6. Len(rowFrames) = Len(Page)
    BY <1>4, <2>4, <2>5
  <2> QED
    BY <2>3, <2>5, <2>6
<1>6. Frame("93", <<0>>) \in F /\ Frame("93", <<Done>>) \in F
  OBVIOUS
<1> HIDE DEF F
<1>7. PageFrames = Reply("93", <<0>>) \o rowFrames \o Reply("93", <<Done>>)
  BY DEF PageFrames, SelectFrames
<1> HIDE DEF rowFrames
<1>8. /\ PageFrames \in Seq(F) /\ Len(PageFrames) = Len(Page) + 2
      /\ PageFrames[1] = Frame("93", <<0>>)
      /\ \A k \in 1 .. Len(Page) : PageFrames[k + 1] = rowFrames[k]
      /\ PageFrames[Len(Page) + 2] = Frame("93", <<Done>>)
  <2>1. PageFrames = <<Frame("93", <<0>>)>> \o rowFrames \o <<Frame("93", <<Done>>)>>
    BY <1>7 DEF Reply
  <2> DEFINE ack == Frame("93", <<0>>)
             done == Frame("93", <<Done>>)
             f == <<ack>> \o rowFrames \o <<done>>
  <2> HIDE DEF ack, done
  <2>2. /\ f \in Seq(F) /\ Len(f) = Len(rowFrames) + 2 /\ f[1] = ack /\ f[Len(rowFrames) + 2] = done
        /\ \A k \in 1 .. Len(rowFrames) : f[k + 1] = rowFrames[k]
    <3>1. ack \in F /\ done \in F /\ rowFrames \in Seq(F)
      BY <1>5, <1>6 DEF ack, done
    <3> QED
      BY <3>1, Enclosed
  <2>3. PageFrames = f /\ Len(rowFrames) = Len(Page)
    BY <1>5, <2>1 DEF ack, done
  <2> HIDE DEF f
  <2> QED
    BY <2>2, <2>3, Zenon DEF ack, done
<1>9. IsSeq(PageFrames)
  BY <1>8, ElementsTyped
<1> QED
  BY <1>1, <1>2, <1>3, <1>5, <1>8, <1>9

LEMMA PagePieces ==
    ASSUME WebAssumption, run \in Runs, run.kind = "rows"
    PROVE  /\ IsSeq(All) /\ Len(All) = 2 * Len(Page) + 4 /\ Len(Page) \in Nat
           /\ \A k \in 0 .. Len(Page) + 1 : /\ All[2 * k + 1] = <<PageFrames[k + 1], 1>>
                                            /\ All[2 * k + 2] = <<PageFrames[k + 1], 2>>
<1>1. PageFrames \in Seq(ToSet(PageFrames)) /\ Len(PageFrames) = Len(Page) + 2 /\ Len(Page) \in Nat
  BY PageSent DEF IsSeq
<1> HIDE DEF PageFrames, Page
<1>2. /\ Pieces(PageFrames) \in Seq(ToSet(PageFrames) \X {1, 2})
      /\ Len(Pieces(PageFrames)) = 2 * Len(PageFrames)
      /\ \A k \in 0 .. Len(PageFrames) - 1 :
            /\ Pieces(PageFrames)[2 * k + 1] = <<PageFrames[k + 1], 1>>
            /\ Pieces(PageFrames)[2 * k + 2] = <<PageFrames[k + 1], 2>>
  BY <1>1, PiecesOfFrames
<1>3. IsSeq(Pieces(PageFrames))
  BY <1>2, ElementsTyped
<1> QED
  BY <1>1, <1>2, <1>3 DEF All

LEMMA PageServed ==
    ASSUME WebAssumption, run \in Runs, run.kind = "rows", NEW works \in BOOLEAN,
           NEW d, d.tables = Table
    PROVE  iAgent_ProcessMsgObj(d, run.request, works) = Served(d, PageFrames)
<1>1. /\ run.request.op = "93" /\ run.request.data[1] = 30
  <2> DEFINE a == run.request.data[2]
             b == run.request.data[3]
  <2>1. run.request = [op |-> "93", data |-> <<30, a, b>>]
    BY DEF WebAssumption, IReaderDBSelectAll, Frame
  <2> HIDE DEF a, b
  <2>2. run.request.op = "93" /\ run.request.data = <<30, a, b>>
    BY <2>1
  <2> QED
    BY <2>2
<1>2. /\ run.request.data[2] \in Nat /\ run.request.data[3] \in {0, 1}
      /\ Table[run.request.data[3]] \in Seq(ToSet(Table[run.request.data[3]]))
  BY DEF WebAssumption
<1>3. iAgent_ProcessMsgObj(d, run.request, works)
        = iAgent_Sqlite_Select(d, 30, run.request.data[2], run.request.data[3])
  BY <1>1 DEF iAgent_ProcessMsgObj
<1> DEFINE all == Table[run.request.data[3]]
           from == run.request.data[2]
<1>4. (IF from + 30 < Len(all) THEN from + 30 ELSE Len(all))
        = (IF Len(all) > from + 30 THEN from + 30 ELSE Len(all))
  BY <1>2
<1> QED
  BY <1>3, <1>4 DEF iAgent_Sqlite_Select, Page, PageFrames

LEMMA RestTaken ==
    ASSUME WebAssumption, run \in Runs, run.kind = "rows", NEW i \in 0 .. Len(All)
    PROVE  /\ Rest(i) = <<>> <=> i = Len(All)
           /\ i < Len(All) => Head(Rest(i)) = All[i + 1] /\ Tail(Rest(i)) = Rest(i + 1)
<1>1. All \in Seq(ToSet(All))
  BY PagePieces DEF IsSeq
<1> HIDE DEF All
<1>2. CASE i = Len(All)
  <2>1. SubSeq(All, i + 1, Len(All)) = <<>>
    BY <1>1, <1>2, SubSeqEmpty
  <2> QED
    BY <1>2, <2>1 DEF Rest
<1>3. CASE i < Len(All)
  <2>1. /\ i + 1 \in 1 .. Len(All) /\ Len(All) \in i + 1 .. Len(All)
        /\ SubSeq(All, i + 1, Len(All)) \in Seq(ToSet(All))
        /\ Len(SubSeq(All, i + 1, Len(All))) # 0
    BY <1>1, <1>3
  <2> DEFINE rest == SubSeq(All, i + 1, Len(All))
  <2>2. /\ Head(SubSeq(All, i + 1, Len(All))) = All[i + 1]
        /\ Tail(SubSeq(All, i + 1, Len(All))) = SubSeq(All, (i + 1) + 1, Len(All))
    BY <1>1, <2>1, HeadTailOfSubSeq
  <2>3. rest # <<>>
    BY <2>1, NotEmpty
  <2>4. Rest(i) # <<>>
    BY <2>3 DEF Rest
  <2>5. Head(Rest(i)) = All[i + 1] /\ Tail(Rest(i)) = Rest(i + 1)
    BY <2>2 DEF Rest
  <2> QED
    BY <1>3, <2>4, <2>5
<1> QED
  BY <1>1, <1>2, <1>3

LEMMA PiecesOfReply ==
    ASSUME NEW op, NEW data
    PROVE  /\ IsSeq(Pieces(Reply(op, data)))
           /\ \A p \in ToSet(Pieces(Reply(op, data))) : p[1] = Frame(op, data)
<1> DEFINE S == {Frame(op, data)}
<1>1. Reply(op, data) \in Seq(S)
  BY DEF Reply
<1> HIDE DEF S
<1>2. Pieces(Reply(op, data)) \in Seq(S \X {1, 2})
  BY <1>1, PiecesOfFrames
<1>3. /\ IsSeq(Pieces(Reply(op, data)))
      /\ ToSet(Pieces(Reply(op, data))) \subseteq S \X {1, 2}
  BY <1>2, ElementsTyped
<1> QED
  BY <1>3 DEF S

LEMMA PiecesOfNothing ==
    IsSeq(Pieces(<<>>)) /\ ToSet(Pieces(<<>>)) = {}
<1>1. <<>> \in Seq({})
  OBVIOUS
<1>2. Pieces(<<>>) \in Seq({} \X {1, 2})
  BY <1>1, PiecesOfFrames
<1>3. IsSeq(Pieces(<<>>)) /\ ToSet(Pieces(<<>>)) \subseteq {} \X {1, 2}
  BY <1>2, ElementsTyped
<1> QED
  BY <1>3

(* What the agent sends for the request of this run. *)
LEMMA AgentSends ==
    ASSUME WebAssumption, WebTyped, ListingOrdered, inbox # <<>>, NEW works \in BOOLEAN
    PROVE  LET s == iAgent_ProcessMsgObj(daemon, Head(inbox), works) IN
           /\ Head(inbox) = run.request
           /\ IsSeq(Pieces(s.frames))
           /\ run.kind = "value" => s.daemon = daemon
           /\ run.kind # "rows" =>
                 \A p \in ToSet(Pieces(s.frames)) :
                    \E data : p[1] = Frame(run.request.op, data) /\ Answers(run, daemon, data)
           /\ run.kind = "rows" => s = Served(daemon, PageFrames)
<1> DEFINE s == iAgent_ProcessMsgObj(daemon, run.request, works)
<1>1. Head(inbox) = run.request
  BY DEF WebTyped
<1>2. CASE run.kind = "rows"
  <2>1. s = Served(daemon, PageFrames)
    BY <1>2, PageServed DEF WebTyped, ListingOrdered, PageInOrder
  <2>2. s.frames = PageFrames
    BY <2>1 DEF Served
  <2>3. IsSeq(Pieces(PageFrames))
    BY <1>2, PagePieces DEF WebTyped, All
  <2> HIDE DEF s
  <2> QED
    BY <1>1, <1>2, <2>1, <2>2, <2>3 DEF s
<1>3. CASE run.kind # "rows"
  <2>1. /\ run.kind = "value" => s.daemon = daemon
        /\ \/ s.frames = <<>>
           \/ \E data : s.frames = Reply(run.request.op, data) /\ Answers(run, daemon, data)
    BY <1>3, OneReply DEF WebTyped
  <2> HIDE DEF s
  <2>2. /\ IsSeq(Pieces(s.frames))
        /\ \A p \in ToSet(Pieces(s.frames)) :
              \E data : p[1] = Frame(run.request.op, data) /\ Answers(run, daemon, data)
    <3>1. CASE s.frames = <<>>
      BY <3>1, PiecesOfNothing
    <3>2. CASE \E data : s.frames = Reply(run.request.op, data) /\ Answers(run, daemon, data)
      <4> PICK data : s.frames = Reply(run.request.op, data) /\ Answers(run, daemon, data)
        BY <3>2
      <4> QED
        BY PiecesOfReply
    <3> QED
      BY <2>1, <3>1, <3>2
  <2> QED
    BY <1>1, <1>3, <2>1, <2>2 DEF s
<1> QED
  BY <1>2, <1>3

-----------------------------------------------------------------------------
(* Types. *)

LEMMA StillSeq ==
    ASSUME NEW s, NEW t, IsSeq(s), t = s \/ t = <<>> PROVE IsSeq(t)
<1>1. IsSeq(<<>>)
  BY DEF IsSeq
<1> QED
  BY <1>1

LEMMA OneMore ==
    ASSUME NEW e, NEW s \in Seq({e}), NEW t, t = s \/ t = Append(s, e) PROVE t \in Seq({e})
<1>1. Append(s, e) \in Seq({e})
  OBVIOUS
<1> QED
  BY <1>1

LEMMA TypedStep ==
    ASSUME WebAssumption, WebTyped, ListingOrdered, [WebNext]_webVars PROVE WebTyped'
<1> USE DEF WebTyped
<1>1. CASE Start \/ AnswerTimeout
  <2>1. /\ UNCHANGED <<run, served, cache1>>
        /\ inbox' = inbox \/ inbox' = Append(inbox, run.request)
        /\ wire' = wire \/ wire' = <<>>
        /\ cache' = cache \/ cache' = <<>>
    BY <1>1 DEF Start, AnswerTimeout, SendRequest
  <2>2. inbox' \in Seq({run.request})
    BY <2>1, OneMore
  <2>3. IsSeq(wire') /\ IsSeq(cache') /\ IsSeq(cache1')
    BY <2>1, StillSeq
  <2> QED
    BY <2>1, <2>2, <2>3
<1>2. CASE AgentServes
  <2> PICK works \in BOOLEAN :
          LET s == iAgent_ProcessMsgObj(daemon, Head(inbox), works)
          IN  daemon' = s.daemon /\ wire' = wire \o Pieces(s.frames)
    BY <1>2 DEF AgentServes, WholeRequest
  <2> DEFINE pieces == Pieces(iAgent_ProcessMsgObj(daemon, Head(inbox), works).frames)
  <2>1. wire' = wire \o pieces /\ inbox # <<>> /\ inbox' = Tail(inbox)
        /\ served' = Append(served, Head(inbox)) /\ UNCHANGED <<run, cache, cache1>>
    BY <1>2 DEF AgentServes, WholeRequest
  <2>2. IsSeq(pieces) /\ Head(inbox) = run.request
    BY <2>1, AgentSends
  <2> HIDE DEF pieces
  <2>3. IsSeq(wire \o pieces)
    BY <2>2, Joined
  <2>4. IsSeq(wire')
    BY <2>1, <2>3
  <2> QED
    BY <2>1, <2>2, <2>4
<1>3. CASE iAgent_CallBack
  <2>1. wire' = wire \o Pieces(Reply("ab", <<1, Tag>>))
        /\ UNCHANGED <<run, inbox, served, cache, cache1>>
    BY <1>3 DEF iAgent_CallBack
  <2>2. IsSeq(wire')
    BY <2>1, PiecesOfReply, Joined
  <2> QED
    BY <2>1, <2>2
<1>4. CASE GetCharReceives
  <2> PICK n \in 1 .. Len(wire) :
          cache' = SubSeq(wire, 1, n) /\ wire' = SubSeq(wire, n + 1, Len(wire))
    BY <1>4 DEF GetCharReceives
  <2>1. IsSeq(cache') /\ IsSeq(wire')
    BY Moved
  <2> QED
    BY <1>4, <2>1 DEF GetCharReceives
<1>5. CASE ReadAnswer
  <2>1. cache # <<>> /\ cache' = Tail(cache) /\ UNCHANGED <<run, inbox, served, wire, cache1>>
    BY <1>5 DEF ReadAnswer
  <2>2. IsSeq(cache')
    BY <2>1, Taken
  <2> QED
    BY <2>1, <2>2
<1>7. CASE GetCharsReceives
  <2> PICK n \in 1 .. Len(wire) :
          cache1' = SubSeq(wire, 1, n) /\ wire' = SubSeq(wire, n + 1, Len(wire))
    BY <1>7 DEF GetCharsReceives
  <2>1. IsSeq(cache1') /\ IsSeq(wire')
    BY Moved
  <2> QED
    BY <1>7, <2>1 DEF GetCharsReceives
<1>8. CASE GetCharsFull
  BY <1>8 DEF GetCharsFull
<1>9. CASE ReadStream
  <2>1. cache1 # <<>> /\ cache1' = Tail(cache1) /\ UNCHANGED <<run, inbox, served, wire, cache>>
    BY <1>9 DEF ReadStream
  <2>2. IsSeq(cache1')
    BY <2>1, Taken
  <2> QED
    BY <2>1, <2>2
<1>10. CASE UNCHANGED webVars
  BY <1>10 DEF webVars
<1> QED
  BY <1>1, <1>2, <1>3, <1>4, <1>5, <1>7, <1>8, <1>9, <1>10 DEF WebNext
-----------------------------------------------------------------------------
(* Answers are honest. *)

LEMMA NothingIn == ToSet(<<>>) = {}
BY DEF ToSet

LEMMA OneServed ==
    ASSUME NEW S, NEW s \in Seq(S), NEW e \in S
    PROVE  ToSet(s) \subseteq ToSet(Append(s, e)) /\ e \in ToSet(Append(s, e))
<1>1. /\ Append(s, e) \in Seq(S) /\ Len(Append(s, e)) = Len(s) + 1 /\ Len(s) \in Nat
      /\ Append(s, e)[Len(s) + 1] = e /\ \A i \in 1 .. Len(s) : Append(s, e)[i] = s[i]
      /\ DOMAIN s = 1 .. Len(s) /\ DOMAIN Append(s, e) = 1 .. Len(s) + 1
  OBVIOUS
<1> QED
  BY <1>1 DEF ToSet

(* A request that has been served stays served, and a run that reads a     *)
(* value finds it unchanged.                                               *)
StillHolds == /\ ToSet(served) \subseteq ToSet(served')
              /\ run.kind = "value" => daemon' = daemon

LEMMA StillHonest ==
    ASSUME run' = run, StillHolds, NEW m, Honest(m) PROVE Honest(m)'
BY DEF StillHolds, Honest, Held

LEMMA StillTrue ==
    ASSUME run.kind \in {"text", "status", "value", "tags"}, run' = run, StillHolds,
           ShownTrue, phase' = phase, shown' = shown
    PROVE  ShownTrue'
BY DEF StillHolds, ShownTrue, Held

LEMMA FailsTrue ==
    ASSUME run.kind \in {"text", "status", "value", "tags"}, run' = run, shown = <<>>, Fails
    PROVE  phase' = "end" /\ ShownTrue'
<1>1. CASE run.kind = "tags"
  BY <1>1 DEF Fails, ShownTrue
<1>2. CASE run.kind # "tags"
  <2>1. phase' = "end" /\ shown' = <<run.failed>>
    BY <1>2 DEF Fails, Show
  <2>2. shown' = <<run.ok>> => run.ok = run.failed
    BY <2>1
  <2> QED
    BY <1>2, <2>1, <2>2 DEF ShownTrue
<1> QED
  BY <1>1, <1>2

LEMMA AcceptTrue ==
    ASSUME run.kind \in {"text", "status", "value", "tags"}, UNCHANGED <<run, served, daemon>>,
           shown = <<>>, NEW m, Honest(m), Accept(m)
    PROVE  phase' = "end" /\ ShownTrue'
<1>1. CASE m.op # run.request.op
  <2>1. Fails
    BY <1>1 DEF Accept
  <2> QED
    BY <2>1, FailsTrue
<1>2. CASE m.op = run.request.op /\ run.kind \in {"text", "status"}
  <2>1. phase' = "end" /\ run.request \in ToSet(served')
    BY <1>2 DEF Accept, Show, Honest
  <2> QED
    BY <1>2, <2>1 DEF ShownTrue
<1>3. CASE m.op = run.request.op /\ run.kind = "value"
  <2>1. phase' = "end" /\ shown' = <<m.data[1]>>
    BY <1>3 DEF Accept, Show
  <2>2. m.data[1] = Held'[run.name]
    BY <1>3 DEF Honest, Held
  <2> QED
    BY <1>3, <2>1, <2>2 DEF ShownTrue
<1>4. CASE m.op = run.request.op /\ run.kind = "tags"
  <2>1. phase' = "end" /\ shown' = <<Tail(m.data)>>
    BY <1>4 DEF Accept, Show
  <2>2. Tail(m.data) \in {<<>>, <<Tag>>}
    BY <1>4 DEF Honest
  <2>3. shown'[1] = Tail(m.data)
    BY <2>1
  <2> QED
    BY <1>4, <2>1, <2>2, <2>3 DEF ShownTrue
<1> QED
  BY <1>1, <1>2, <1>3, <1>4

LEMMA HonestStep ==
    ASSUME WebAssumption, WebInv, [WebNext]_webVars PROVE AnswersHonest'
<1> DEFINE AllHonest == \A p \in ToSet(wire) \cup ToSet(cache) : Honest(p[1])
           Kind == run.kind \in {"text", "status", "value", "tags"}
<1>1. run' = run
  BY DEF WebNext, webVars, Start, AgentServes, iAgent_CallBack, GetCharReceives, ReadAnswer,
         AnswerTimeout, GetCharsReceives, GetCharsFull, ReadStream
<1> SUFFICES ASSUME run.kind \notin {"rows", "stream"}
             PROVE  /\ phase' \in {"start", "answer", "end"} /\ AllHonest'
                    /\ phase' # "end" => shown' = <<>>
                    /\ ShownTrue'
  BY <1>1 DEF AnswersHonest
<1>2. Kind
  BY DEF WebInv, WebTyped, WebAssumption
<1>3. /\ phase \in {"start", "answer", "end"} /\ AllHonest
      /\ phase # "end" => shown = <<>>
      /\ ShownTrue
  BY DEF WebInv, AnswersHonest
<1>4. ASSUME StillHolds, ToSet(wire') \cup ToSet(cache') \subseteq ToSet(wire) \cup ToSet(cache)
      PROVE  AllHonest'
  BY <1>1, <1>3, <1>4, StillHonest
<1>5. ASSUME StillHolds, UNCHANGED <<phase, shown>>
      PROVE  /\ phase' \in {"start", "answer", "end"}
             /\ phase' # "end" => shown' = <<>>
             /\ ShownTrue'
  BY <1>1, <1>2, <1>3, <1>5, StillTrue
<1>6. ASSUME UNCHANGED <<served, daemon>> PROVE StillHolds
  BY <1>6 DEF StillHolds
<1>7. CASE Start \/ AnswerTimeout
  <2>1. /\ UNCHANGED <<run, served, daemon>> /\ phase \in {"start", "answer"}
        /\ wire' = wire \/ wire' = <<>>
        /\ cache' = cache \/ cache' = <<>>
    BY <1>7 DEF Start, AnswerTimeout, SendRequest
  <2>2. Fails \/ (phase' \in {"start", "answer"} /\ shown' = shown)
    BY <1>7 DEF Start, AnswerTimeout
  <2>3. ToSet(wire') \cup ToSet(cache') \subseteq ToSet(wire) \cup ToSet(cache)
    BY <2>1, NothingIn
  <2>4. shown = <<>>
    BY <1>3, <2>1
  <2>5. CASE Fails
    BY <1>1, <1>2, <1>4, <1>6, <2>1, <2>3, <2>4, <2>5, FailsTrue
  <2>6. CASE phase' \in {"start", "answer"} /\ shown' = shown
    <3>1. ShownTrue'
      BY <2>6 DEF ShownTrue
    <3> QED
      BY <1>4, <1>6, <2>1, <2>3, <2>4, <2>6, <3>1
  <2> QED
    BY <2>2, <2>5, <2>6
<1>8. CASE AgentServes
  <2> PICK works \in BOOLEAN :
          LET s == iAgent_ProcessMsgObj(daemon, Head(inbox), works)
          IN  daemon' = s.daemon /\ wire' = wire \o Pieces(s.frames)
    BY <1>8 DEF AgentServes, WholeRequest
  <2> DEFINE s == iAgent_ProcessMsgObj(daemon, Head(inbox), works)
             pieces == Pieces(s.frames)
  <2>1. /\ daemon' = s.daemon /\ wire' = wire \o pieces /\ inbox # <<>>
        /\ served' = Append(served, Head(inbox)) /\ UNCHANGED <<phase, cache, shown>>
    BY <1>8 DEF AgentServes, WholeRequest
  <2>2. /\ Head(inbox) = run.request /\ IsSeq(pieces)
        /\ run.kind = "value" => s.daemon = daemon
        /\ \A p \in ToSet(pieces) :
              \E data : p[1] = Frame(run.request.op, data) /\ Answers(run, daemon, data)
    BY <2>1, AgentSends DEF WebInv
  <2> HIDE DEF pieces, s
  <2>3. ToSet(served) \subseteq ToSet(served') /\ run.request \in ToSet(served')
    BY <2>1, <2>2, OneServed DEF WebInv, WebTyped
  <2>4. StillHolds
    BY <2>1, <2>2, <2>3 DEF StillHolds
  <2>5. ToSet(wire') = ToSet(wire) \cup ToSet(pieces)
    BY <2>1, <2>2, Joined DEF WebInv, WebTyped
  <2>6. ASSUME NEW p \in ToSet(pieces) PROVE Honest(p[1])'
    <3> PICK data : p[1] = Frame(run.request.op, data) /\ Answers(run, daemon, data)
      BY <2>2
    <3>1. p[1].data = data
      BY DEF Frame
    <3>2. run.kind = "value" => HeldBy(daemon.timeout) = Held'
      BY <2>1, <2>2 DEF HeldBy, Held
    <3> QED
      BY <1>1, <2>3, <3>1, <3>2 DEF Honest, Answers
  <2>7. ASSUME NEW p \in ToSet(wire) \cup ToSet(cache) PROVE Honest(p[1])'
    BY <1>1, <1>3, <2>4, StillHonest
  <2>8. AllHonest'
    BY <2>1, <2>5, <2>6, <2>7
  <2> QED
    BY <1>5, <2>1, <2>4, <2>8
<1>9. CASE iAgent_CallBack
  <2> DEFINE pieces == Pieces(Reply("ab", <<1, Tag>>))
  <2>1. wire' = wire \o pieces /\ UNCHANGED <<served, daemon, phase, cache, shown>>
    BY <1>9 DEF iAgent_CallBack
  <2>2. IsSeq(pieces) /\ \A p \in ToSet(pieces) : p[1] = Frame("ab", <<1, Tag>>)
    BY PiecesOfReply
  <2> HIDE DEF pieces
  <2>3. ToSet(wire') = ToSet(wire) \cup ToSet(pieces)
    BY <2>1, <2>2, Joined DEF WebInv, WebTyped
  <2>4. run.request.op # "ab"
    BY DEF WebInv, WebTyped, WebAssumption
  <2>5. ASSUME NEW p \in ToSet(pieces) PROVE Honest(p[1])'
    <3>1. p[1].op = "ab"
      BY <2>2 DEF Frame
    <3> QED
      BY <1>1, <2>4, <3>1 DEF Honest
  <2>6. ASSUME NEW p \in ToSet(wire) \cup ToSet(cache) PROVE Honest(p[1])'
    BY <1>1, <1>3, <1>6, <2>1, StillHonest
  <2>7. AllHonest'
    BY <2>1, <2>3, <2>5, <2>6
  <2> QED
    BY <1>5, <1>6, <2>1, <2>7
<1>10. CASE GetCharReceives
  <2> PICK n \in 1 .. Len(wire) :
          cache' = SubSeq(wire, 1, n) /\ wire' = SubSeq(wire, n + 1, Len(wire))
    BY <1>10 DEF GetCharReceives
  <2>1. ToSet(wire') \cup ToSet(cache') \subseteq ToSet(wire) \cup ToSet(cache)
    BY Moved DEF WebInv, WebTyped
  <2>2. UNCHANGED <<served, daemon, phase, shown>>
    BY <1>10 DEF GetCharReceives
  <2> QED
    BY <1>4, <1>5, <1>6, <2>1, <2>2
<1>11. CASE ReadAnswer
  <2>1. /\ cache # <<>> /\ cache' = Tail(cache) /\ UNCHANGED <<run, served, daemon, wire>>
        /\ phase = "answer"
        /\ Accept(Head(cache)[1]) \/ UNCHANGED <<phase, shown>>
    BY <1>11 DEF ReadAnswer
  <2>2. Head(cache) \in ToSet(cache) /\ ToSet(cache') \subseteq ToSet(cache)
    BY <2>1, Taken DEF WebInv, WebTyped
  <2>3. AllHonest'
    BY <1>4, <1>6, <2>1, <2>2
  <2>4. CASE Accept(Head(cache)[1])
    <3>1. Honest(Head(cache)[1]) /\ shown = <<>>
      BY <1>3, <2>1, <2>2
    <3>2. phase' = "end" /\ ShownTrue'
      BY <1>2, <2>1, <2>4, <3>1, AcceptTrue
    <3> QED
      BY <2>3, <3>2
  <2>5. CASE UNCHANGED <<phase, shown>>
    BY <1>5, <1>6, <2>1, <2>3, <2>5
  <2> QED
    BY <2>1, <2>4, <2>5
<1>12. CASE GetCharsReceives \/ GetCharsFull \/ ReadStream
  BY <1>3, <1>12 DEF GetCharsReceives, GetCharsFull, ReadStream
<1>13. CASE UNCHANGED webVars
  <2>1. UNCHANGED <<served, daemon, phase, shown, wire, cache>>
    BY <1>13 DEF webVars
  <2> QED
    BY <1>4, <1>5, <1>6, <2>1
<1> QED
  BY <1>7, <1>8, <1>9, <1>10, <1>11, <1>12, <1>13 DEF WebNext
-----------------------------------------------------------------------------
(* A listing shows rows of its page, in order. *)

LEMMA NoneShown ==
    ASSUME NEW page, NEW n PROVE InOrder(<<>>, page, n)
<1>1. <<>> \in Seq(ToSet(page)) /\ DOMAIN <<>> = {}
  OBVIOUS
<1>2. [k \in {} |-> k] \in [{} -> DOMAIN page]
  OBVIOUS
<1> QED
  BY <1>1, <1>2 DEF InOrder

LEMMA MoreRead ==
    ASSUME NEW page, IsSeq(page), NEW n \in Nat, NEW s, InOrder(s, page, n)
    PROVE  InOrder(s, page, n + 1)
<1>1. DOMAIN page \subseteq Nat
  BY DEF IsSeq
<1> PICK at \in [DOMAIN s -> DOMAIN page] :
        \A k \in DOMAIN s :
           at[k] < n /\ s[k] = page[at[k]] /\ \A j \in 1 .. k - 1 : at[j] < at[k]
  BY DEF InOrder
<1>2. \A k \in DOMAIN s : at[k] < n + 1
  BY <1>1
<1> QED
  BY <1>2 DEF InOrder

LEMMA RowAdded ==
    ASSUME NEW page, IsSeq(page), NEW n \in 1 .. Len(page), NEW s, InOrder(s, page, n)
    PROVE  InOrder(s \o <<page[n]>>, page, n + 1)
<1> DEFINE t == s \o <<page[n]>>
<1>1. page \in Seq(ToSet(page)) /\ DOMAIN page = 1 .. Len(page) /\ Len(page) \in Nat
  BY DEF IsSeq
<1>2. s \in Seq(ToSet(page)) /\ DOMAIN s = 1 .. Len(s) /\ Len(s) \in Nat
  BY DEF InOrder
<1>3. page[n] \in ToSet(page)
  BY <1>1
<1>4. /\ t \in Seq(ToSet(page)) /\ Len(t) = Len(s) + 1 /\ DOMAIN t = 1 .. Len(s) + 1
      /\ t[Len(s) + 1] = page[n] /\ \A k \in 1 .. Len(s) : t[k] = s[k]
  BY <1>2, <1>3
<1> PICK at \in [DOMAIN s -> DOMAIN page] :
        \A k \in DOMAIN s :
           at[k] < n /\ s[k] = page[at[k]] /\ \A j \in 1 .. k - 1 : at[j] < at[k]
  BY DEF InOrder
<1> DEFINE more == [k \in 1 .. Len(s) + 1 |-> IF k = Len(s) + 1 THEN n ELSE at[k]]
<1> HIDE DEF t
<1>5. more \in [DOMAIN t -> DOMAIN page]
  BY <1>1, <1>2, <1>4
<1>6. /\ more[Len(s) + 1] = n /\ \A k \in 1 .. Len(s) : more[k] = at[k]
  BY <1>2
<1> HIDE DEF more
<1>7. ASSUME NEW k \in DOMAIN t
      PROVE  more[k] < n + 1 /\ t[k] = page[more[k]] /\ \A j \in 1 .. k - 1 : more[j] < more[k]
  <2>1. CASE k = Len(s) + 1
    <3>1. n \in Nat /\ more[k] = n /\ t[k] = page[n]
      BY <1>1, <1>4, <1>6, <2>1
    <3>2. \A j \in 1 .. k - 1 : j \in 1 .. Len(s)
      BY <1>2, <2>1
    <3>3. \A j \in 1 .. k - 1 : more[j] < n
      BY <1>2, <1>6, <3>2
    <3> QED
      BY <3>1, <3>3
  <2>2. CASE k \in 1 .. Len(s)
    <3>1. \A j \in 1 .. k - 1 : j \in 1 .. Len(s)
      BY <1>2, <2>2
    <3>2. at[k] < n /\ at[k] \in Nat /\ s[k] = page[at[k]] /\ \A j \in 1 .. k - 1 : at[j] < at[k]
      BY <1>1, <1>2, <2>2
    <3> QED
      BY <1>4, <1>6, <2>2, <3>1, <3>2
  <2> QED
    BY <1>2, <1>4, <2>1, <2>2
<1>8. InOrder(t, page, n + 1)
  BY <1>4, <1>5, <1>7 DEF InOrder
<1> QED
  BY <1>8 DEF t

LEMMA FirstRows ==
    ASSUME NEW page, IsSeq(page)
    PROVE  /\ SubSeq(page, 1, 0) = <<>> /\ SubSeq(page, 1, Len(page)) = page
           /\ \A n \in 1 .. Len(page) : SubSeq(page, 1, n - 1) \o <<page[n]>> = SubSeq(page, 1, n)
<1>1. page \in Seq(ToSet(page)) /\ Len(page) \in Nat
  BY DEF IsSeq
<1>2. SubSeq(page, 1, 0) = <<>>
  BY <1>1, SubSeqEmpty
<1>3. SubSeq(page, 1, Len(page)) = page
  BY <1>1, SubSeqFull
<1>4. ASSUME NEW n \in 1 .. Len(page)
      PROVE  SubSeq(page, 1, n - 1) \o <<page[n]>> = SubSeq(page, 1, n)
  BY <1>1
<1> QED
  BY <1>2, <1>3, <1>4

LEMMA PageLimit ==
    ASSUME WebAssumption, run \in Runs, run.kind = "rows"
    PROVE  run.request.op = "93" /\ run.request.data[1] = 30
<1> DEFINE a == run.request.data[2]
           b == run.request.data[3]
<1>1. run.request = [op |-> "93", data |-> <<30, a, b>>]
  BY DEF WebAssumption, IReaderDBSelectAll, Frame
<1> HIDE DEF a, b
<1>2. run.request.op = "93" /\ run.request.data = <<30, a, b>>
  BY <1>1
<1> QED
  BY <1>2

(* A listing that ends is true if what it shows is in order, and complete  *)
(* when nothing was lost.                                                  *)
LEMMA EndTrue ==
    ASSUME WebAssumption, run \in Runs, run.kind = "rows", run' = run, daemon'.tables = Table,
           NEW n, InOrder(shown', Page, n), served' # <<>> /\ ~ spill' /\ ~ cut' => shown' = Page
    PROVE  ShownTrue'
<1>1. Rows' = Page
  BY PageLimit DEF Rows, Page
<1>2. \E at \in [DOMAIN shown' -> DOMAIN Rows'] :
         \A k \in DOMAIN shown' : /\ shown'[k] = Rows'[at[k]]
                                  /\ \A j \in 1 .. k - 1 : at[j] < at[k]
  BY <1>1 DEF InOrder
<1>3. served' # <<>> /\ ~ spill' /\ ~ cut' => shown' = Rows'
  BY <1>1
<1> HIDE DEF Rows
<1> QED
  BY <1>2, <1>3 DEF ShownTrue

LEMMA SamePage ==
    ASSUME run' = run
    PROVE  /\ Page' = Page /\ PageFrames' = PageFrames /\ All' = All
           /\ \A i : Rest(i)' = Rest(i)
<1>1. Page' = Page
  BY DEF Page
<1>2. PageFrames' = PageFrames
  BY <1>1 DEF PageFrames
<1>3. All' = All
  BY <1>2 DEF All
<1> QED
  BY <1>1, <1>2, <1>3 DEF Rest
(* What is behind the front part of a rest is a rest. *)
LEMMA Dropped ==
    ASSUME WebAssumption, run \in Runs, run.kind = "rows", NEW i \in 0 .. Len(All),
           NEW b, NEW w, IsSeq(b), IsSeq(w), b \o w = Rest(i)
    PROVE  i + Len(b) <= Len(All) /\ w = Rest(i + Len(b)) /\ Len(b) \in Nat
<1>1. All \in Seq(ToSet(All)) /\ Len(All) \in Nat
  BY PagePieces DEF IsSeq
<1> DEFINE S == ToSet(b) \cup ToSet(w)
<1>2. b \in Seq(S) /\ w \in Seq(S)
  BY DEF IsSeq
<1> HIDE DEF All, S
<1>3. /\ SubSeq(All, i + 1, Len(All)) \in Seq(ToSet(All))
      /\ Len(SubSeq(All, i + 1, Len(All))) = Len(All) - i
      /\ \A j \in 1 .. Len(All) - i : SubSeq(All, i + 1, Len(All))[j] = All[i + j]
  <2>1. CASE i = Len(All)
    <3>1. SubSeq(All, i + 1, Len(All)) = <<>>
      BY <1>1, <2>1, SubSeqEmpty
    <3> QED
      BY <1>1, <2>1, <3>1
  <2>2. CASE i < Len(All)
    BY <1>1, <2>2
  <2> QED
    BY <1>1, <2>1, <2>2
<1> DEFINE rest == SubSeq(All, i + 1, Len(All))
           k == i + Len(b)
<1>4. Len(b) \in Nat /\ Len(w) \in Nat /\ Len(b) + Len(w) = Len(All) - i
  <2>1. b \o w = rest
    BY DEF Rest
  <2> HIDE DEF rest
  <2>2. Len(b \o w) = Len(b) + Len(w) /\ Len(b) \in Nat /\ Len(w) \in Nat
    BY <1>2
  <2> QED
    BY <1>3, <2>1, <2>2 DEF rest
<1>5. \A j \in 1 .. Len(w) : w[j] = All[k + j]
  <2> SUFFICES ASSUME NEW j \in 1 .. Len(w) PROVE w[j] = All[k + j]
    OBVIOUS
  <2>1. (b \o w)[Len(b) + j] = w[j]
    BY <1>2
  <2>2. Len(b) + j \in 1 .. Len(All) - i /\ i + (Len(b) + j) = k + j
    BY <1>4, <1>1
  <2>3. (b \o w) = rest
    BY DEF Rest
  <2> QED
    BY <1>3, <2>1, <2>2, <2>3
<1>6. w = SubSeq(All, k + 1, Len(All))
  <2>1. CASE Len(w) = 0
    <3>1. SubSeq(All, k + 1, Len(All)) = <<>>
      BY <1>1, <1>4, <2>1, SubSeqEmpty
    <3>2. w = <<>>
      BY <1>2, <2>1
    <3> QED
      BY <3>1, <3>2
  <2>2. CASE Len(w) # 0
    <3>1. k + 1 \in 1 .. Len(All) + 1 /\ k < Len(All)
      BY <1>1, <1>4, <2>2
    <3> DEFINE last == SubSeq(All, k + 1, Len(All))
    <3>2. /\ last \in Seq(ToSet(All)) /\ Len(last) = Len(All) - k
          /\ \A j \in 1 .. Len(All) - k : last[j] = All[k + j]
      BY <1>1, <1>4, <3>1
    <3> HIDE DEF last
    <3>3. Len(last) = Len(w) /\ \A j \in 1 .. Len(w) : last[j] = w[j]
      BY <1>1, <1>4, <1>5, <3>2
    <3>4. last = w
      <4> DEFINE T == S \cup ToSet(All)
      <4>1. last \in Seq(T) /\ w \in Seq(T)
        BY <1>2, <3>2
      <4> HIDE DEF T
      <4> QED
        BY <3>3, <4>1, SeqEqual
    <3> QED
      BY <3>4 DEF last
  <2> QED
    BY <2>1, <2>2
<1> QED
  BY <1>1, <1>4, <1>6 DEF Rest

(* The frames of a page carry its rows, after an acknowledgement and before *)
(* the end.                                                                *)
LEMMA FrameRead ==
    ASSUME WebAssumption, run \in Runs, run.kind = "rows", NEW k \in 1 .. Len(Page) + 1
    PROVE  /\ PageFrames[k + 1].op = "93" /\ PageFrames[k + 1] # NoFrame
           /\ k <= Len(Page) => PageFrames[k + 1].data = <<Page[k]>> /\ Page[k] # Done
           /\ k = Len(Page) + 1 => PageFrames[k + 1].data = <<Done>>
<1>1. Len(Page) \in Nat /\ \A n \in 1 .. Len(Page) : Page[n] # Done
  <2>1. Page \in Seq(ToSet(Page)) /\ Done \notin ToSet(Page)
    BY PageSent DEF IsSeq
  <2> HIDE DEF Page
  <2> QED
    BY <2>1
<1>2. CASE k <= Len(Page)
  <2>1. PageFrames[k + 1] = Frame("93", <<Page[k]>>)
    BY <1>1, <1>2, PageSent
  <2> HIDE DEF Page, PageFrames
  <2>2. PageFrames[k + 1].op = "93" /\ PageFrames[k + 1].data = <<Page[k]>>
    BY <2>1 DEF Frame
  <2>3. PageFrames[k + 1] # NoFrame
    <3>1. NoFrame.op = "" /\ "" # "93"
      BY DEF NoFrame
    <3> QED
      BY <2>2, <3>1
  <2> QED
    BY <1>1, <1>2, <2>2, <2>3
<1>3. CASE k = Len(Page) + 1
  <2>1. PageFrames[k + 1] = Frame("93", <<Done>>)
    BY <1>1, <1>3, PageSent
  <2> HIDE DEF Page, PageFrames
  <2>2. PageFrames[k + 1].op = "93" /\ PageFrames[k + 1].data = <<Done>>
    BY <2>1 DEF Frame
  <2>3. PageFrames[k + 1] # NoFrame
    <3>1. NoFrame.op = "" /\ "" # "93"
      BY DEF NoFrame
    <3> QED
      BY <2>2, <3>1
  <2> QED
    BY <1>1, <1>3, <2>2, <2>3
<1> QED
  BY <1>1, <1>2, <1>3
(* The request for the page. *)
LEMMA PageAsked ==
    ASSUME WebAssumption, WebTyped, run.kind = "rows", PageInOrder, Start PROVE PageInOrder'
<1>1. /\ UNCHANGED <<run, cache1, daemon, served, spill, cut>> /\ phase = "start"
      /\ \/ SendRequest /\ phase' = "answer" /\ shown' = shown
         \/ Fails /\ UNCHANGED <<wire, cache, mid, inbox>>
  BY DEF Start
<1>2. /\ daemon.tables = Table /\ daemon.subscribers = {} /\ Unsent /\ inbox = <<>>
      /\ cache1 = <<>> /\ shown = <<>> /\ ~ spill /\ ~ cut
  BY <1>1 DEF PageInOrder
<1>3. CASE SendRequest /\ phase' = "answer" /\ shown' = shown
  <2>1. Unsent' /\ inbox' = <<run'.request>>
    BY <1>1, <1>2, <1>3 DEF Unsent, SendRequest
  <2> QED
    BY <1>1, <1>2, <1>3, <2>1 DEF PageInOrder
<1>4. CASE Fails /\ UNCHANGED <<wire, cache, mid, inbox>>
  <2>1. phase' = "end" /\ shown' = <<>>
    BY <1>2, <1>4 DEF Fails
  <2>2. served' = <<>>
    BY <1>1, <1>2 DEF Unsent
  <2>3. ShownTrue'
    BY <1>1, <1>2, <2>1, <2>2, NoneShown, EndTrue DEF WebTyped
  <2> QED
    BY <1>1, <1>2, <1>4, <2>1, <2>3 DEF PageInOrder
<1> QED
  BY <1>1, <1>3, <1>4

LEMMA WholePage ==
    ASSUME WebAssumption, run \in Runs, run.kind = "rows" PROVE Rest(0) = All
<1>1. All \in Seq(ToSet(All))
  BY PagePieces DEF IsSeq
<1> HIDE DEF All
<1> QED
  BY <1>1, SubSeqFull DEF Rest

LEMMA PageAnswered ==
    ASSUME WebAssumption, WebTyped, run.kind = "rows", PageInOrder, AgentServes
    PROVE  PageInOrder'
<1> PICK works \in BOOLEAN :
        LET s == iAgent_ProcessMsgObj(daemon, Head(inbox), works)
        IN  daemon' = s.daemon /\ wire' = wire \o Pieces(s.frames)
  BY DEF AgentServes, WholeRequest
<1> DEFINE s == iAgent_ProcessMsgObj(daemon, Head(inbox), works)
<1>1. /\ daemon' = s.daemon /\ wire' = wire \o Pieces(s.frames)
      /\ inbox # <<>> /\ inbox' = Tail(inbox) /\ served' = Append(served, Head(inbox))
      /\ UNCHANGED <<run, phase, cache, cache1, mid, spill, cut, shown>>
  BY DEF AgentServes, WholeRequest
<1>2. s = Served(daemon, PageFrames) /\ Head(inbox) = run.request
  BY <1>1, AgentSends DEF ListingOrdered
<1> HIDE DEF s
<1>3. s.daemon = daemon /\ s.frames = PageFrames
  BY <1>2 DEF Served
<1>4. phase = "answer" /\ Unsent /\ inbox = <<run.request>>
  BY <1>1 DEF PageInOrder, Answering
<1>5. IsSeq(All)
  BY PagePieces DEF WebTyped
<1>6. cache' \o wire' = Rest(0)
  <2>1. Rest(0) = All
    BY WholePage DEF WebTyped
  <2>2. wire' = <<>> \o All /\ cache' = <<>>
    BY <1>1, <1>3, <1>4 DEF Unsent, All
  <2> HIDE DEF All
  <2>3. <<>> \o All = All
    BY <1>5 DEF IsSeq
  <2> QED
    BY <2>1, <2>2, <2>3
<1>7. inbox' = <<>> /\ served' = <<run'.request>> /\ mid' = NoFrame
  BY <1>1, <1>2, <1>4 DEF Unsent
<1>8. Answering'
  BY <1>1, <1>6, <1>7, SamePage DEF Answering
<1> QED
  BY <1>1, <1>3, <1>4, <1>8 DEF PageInOrder

LEMMA PageArrives ==
    ASSUME WebAssumption, WebTyped, run.kind = "rows", PageInOrder, GetCharReceives
    PROVE  PageInOrder'
<1> PICK n \in 1 .. Len(wire) :
        cache' = SubSeq(wire, 1, n) /\ wire' = SubSeq(wire, n + 1, Len(wire))
  BY DEF GetCharReceives
<1>1. /\ phase = "answer" /\ cache = <<>> /\ wire # <<>>
      /\ UNCHANGED <<run, phase, cache1, daemon, inbox, mid, served, spill, cut, shown>>
  BY DEF GetCharReceives
<1>2. Answering
  BY <1>1 DEF PageInOrder, Unsent
<1>3. cache' \o wire' = cache \o wire
  <2>1. cache' \o wire' = wire
    BY Moved DEF WebTyped
  <2>2. <<>> \o wire = wire
    BY DEF WebTyped, IsSeq
  <2> QED
    BY <1>1, <2>1, <2>2
<1>4. Answering'
  BY <1>1, <1>2, <1>3, SamePage DEF Answering
<1> QED
  BY <1>1, <1>4 DEF PageInOrder

LEMMA Halves ==
    ASSUME NEW j \in Nat, NEW n \in Nat, 2 + j <= 2 * n + 4
    PROVE  \E k \in 1 .. n + 2, h \in {0, 1} : 2 * k + h = 2 + j /\ (j = 0 => k = 1 /\ h = 0)
<1>1. PICK k \in 1 .. n + 2 : k = (2 + j) \div 2
  OBVIOUS
<1>2. PICK h \in {0, 1} : h = (2 + j) % 2
  OBVIOUS
<1>3. 2 * k + h = 2 + j
  BY <1>1, <1>2
<1>4. j = 0 => k = 1 /\ h = 0
  BY <1>1, <1>2
<1> QED
  BY <1>3, <1>4

(* The answer is read; what came with it and is left in the first buffer   *)
(* is never read.                                                          *)
LEMMA AnswerRead ==
    ASSUME WebAssumption, WebTyped, run.kind = "rows", PageInOrder, ReadAnswer
    PROVE  PageInOrder'
<1> DEFINE p == Head(cache)
           whole == p[2] = 2 /\ mid = p[1]
<1>1. /\ phase = "answer" /\ cache # <<>> /\ cache' = Tail(cache)
      /\ whole => Accept(p[1]) /\ mid' = NoFrame /\ spill' = (Len(cache) > 1)
      /\ ~ whole => mid' = (IF p[2] = 1 THEN p[1] ELSE mid) /\ UNCHANGED <<phase, shown, spill>>
      /\ UNCHANGED <<run, cache1, inbox, wire, daemon, served, cut>>
  BY DEF ReadAnswer
<1>2. /\ Answering /\ cache1 = <<>> /\ shown = <<>> /\ ~ spill /\ ~ cut
      /\ daemon.tables = Table /\ daemon.subscribers = {}
  BY <1>1 DEF PageInOrder, Unsent
<1>3. /\ IsSeq(cache) /\ IsSeq(wire) /\ IsSeq(Tail(cache)) /\ run \in Runs
      /\ cache \o wire # <<>> /\ Head(cache \o wire) = p
      /\ Tail(cache) \o wire = Tail(cache \o wire)
  <2>1. IsSeq(cache) /\ IsSeq(wire) /\ run \in Runs
    BY DEF WebTyped
  <2>2. cache # <<>>
    BY <1>1
  <2> QED
    BY <2>1, <2>2, Taken
<1>4. /\ Len(All) = 2 * Len(Page) + 4 /\ Len(Page) \in Nat
      /\ All[1] = <<PageFrames[1], 1>> /\ All[2] = <<PageFrames[1], 2>>
  <2>1. \A k \in 0 .. Len(Page) + 1 : /\ All[2 * k + 1] = <<PageFrames[k + 1], 1>>
                                      /\ All[2 * k + 2] = <<PageFrames[k + 1], 2>>
    BY <1>3, PagePieces
  <2>2. Len(All) = 2 * Len(Page) + 4 /\ Len(Page) \in Nat
    BY <1>3, PagePieces
  <2> HIDE DEF All, Page, PageFrames
  <2>3. 0 \in 0 .. Len(Page) + 1
    BY <2>2
  <2>4. All[2 * 0 + 1] = <<PageFrames[0 + 1], 1>> /\ All[2 * 0 + 2] = <<PageFrames[0 + 1], 2>>
    BY <2>1, <2>3
  <2> QED
    BY <2>2, <2>4
<1>5. CASE cache \o wire = Rest(0) /\ mid = NoFrame
  <2>1. p = <<PageFrames[1], 1>> /\ cache' \o wire' = Rest(1)
    <3>1. 0 \in 0 .. Len(All) /\ 0 < Len(All)
      BY <1>4
    <3>2. Head(Rest(0)) = All[0 + 1] /\ Tail(Rest(0)) = Rest(0 + 1)
      BY <1>3, <3>1, RestTaken
    <3>3. 0 + 1 = 1
      OBVIOUS
    <3>4. Head(Rest(0)) = All[1] /\ Tail(Rest(0)) = Rest(1)
      BY <3>2, <3>3, Zenon
    <3> HIDE DEF p, whole
    <3> QED
      BY <1>1, <1>3, <1>4, <1>5, <3>4, Zenon
  <2>2. p[1] = PageFrames[1] /\ p[2] = 1
    BY <2>1
  <2>3. mid' = PageFrames[1] /\ UNCHANGED <<phase, shown, spill>>
    BY <1>1, <2>2
  <2>4. Answering'
    BY <1>1, <1>2, <2>1, <2>3, SamePage DEF Answering
  <2> QED
    BY <1>1, <1>2, <2>3, <2>4 DEF PageInOrder
<1>6. CASE cache \o wire = Rest(1) /\ mid = PageFrames[1]
  <2>1. p = <<PageFrames[1], 2>> /\ cache' \o wire' = Rest(2)
    <3>1. 1 \in 0 .. Len(All) /\ 1 < Len(All)
      BY <1>4
    <3>2. Head(Rest(1)) = All[1 + 1] /\ Tail(Rest(1)) = Rest(1 + 1)
      BY <1>3, <3>1, RestTaken
    <3>3. 1 + 1 = 2
      OBVIOUS
    <3>4. Head(Rest(1)) = All[2] /\ Tail(Rest(1)) = Rest(2)
      BY <3>2, <3>3, Zenon
    <3> HIDE DEF p, whole
    <3> QED
      BY <1>1, <1>3, <1>4, <1>6, <3>4, Zenon
  <2>2. p[1] = PageFrames[1] /\ p[2] = 2
    BY <2>1
  <2>3. PageFrames[1].op = run.request.op
    BY <1>3, PageSent, PageLimit DEF Frame
  <2>4. Accept(PageFrames[1]) /\ mid' = NoFrame /\ spill' = (Len(cache) > 1)
    BY <1>1, <1>6, <2>2
  <2>5. phase' = "rows" /\ shown' = <<>>
    BY <2>3, <2>4 DEF Accept
  <2> DEFINE j == Len(Tail(cache))
  <2>6. 2 + j <= Len(All) /\ wire = Rest(2 + j) /\ j \in Nat
    <3>1. 2 \in 0 .. Len(All)
      BY <1>4
    <3>2. Tail(cache) \o wire = Rest(2)
      BY <1>1, <2>1
    <3> QED
      BY <1>3, <3>1, <3>2, Dropped
  <2>7. Len(cache) = j + 1
    BY <1>1, <1>3 DEF IsSeq
  <2> HIDE DEF j
  <2>8. \E k \in 1 .. Len(Page) + 2, h \in {0, 1} : 2 * k + h = 2 + j /\ (j = 0 => k = 1 /\ h = 0)
    <3>1. 2 + j <= 2 * Len(Page) + 4
      BY <1>4, <2>6
    <3> QED
      BY <1>4, <2>6, <3>1, Halves
  <2> PICK k \in 1 .. Len(Page) + 2, h \in {0, 1} : 2 * k + h = 2 + j /\ (j = 0 => k = 1 /\ h = 0)
    BY <2>8
  <2>9. Listing(k, h)'
    <3>1. cache1' \o wire' = Rest(2 * k + h)
      <4>1. <<>> \o wire = wire
        BY <1>3 DEF IsSeq
      <4> QED
        BY <1>1, <1>2, <2>6, <2>8, <4>1
    <3>2. InOrder(shown', Page, k)
      BY <2>5, NoneShown
    <3>3. ~ spill' => j = 0
      <4>1. ~ (Len(cache) > 1) => j = 0
        BY <2>6, <2>7
      <4> QED
        BY <2>4, <4>1, Zenon
    <3>5. SubSeq(Page, 1, 0) = <<>>
      BY <1>3, PageSent, FirstRows
    <3>6. ~ spill' /\ ~ cut' =>
             /\ k <= Len(Page) + 1 /\ shown' = SubSeq(Page, 1, k - 1)
             /\ h = 1 => mid' = PageFrames[k + 1]
      <4> HIDE DEF Page, PageFrames
      <4> QED
        BY <1>4, <2>5, <3>3, <3>5
    <3>7. /\ Page' = Page /\ PageFrames' = PageFrames /\ Rest(2 * k + h)' = Rest(2 * k + h)
      BY <1>1, SamePage
    <3> QED
      BY <2>4, <3>1, <3>2, <3>6, <3>7, Zenon DEF Listing
  <2>10. inbox' = <<>>
    BY <1>1, <1>2 DEF Answering
  <2>11. 2 * k + h <= Len(All)
    BY <2>6
  <2>12. Page' = Page /\ All' = All
    BY <1>1, SamePage
  <2> QED
    BY <1>1, <1>2, <2>5, <2>9, <2>10, <2>11, <2>12 DEF PageInOrder
<1> QED
  BY <1>2, <1>5, <1>6 DEF Answering

(* The answer to a selection is never late. *)
LEMMA NeverLate ==
    ASSUME WebAssumption, WebTyped, run.kind = "rows", PageInOrder, AnswerTimeout PROVE FALSE
<1>1. /\ phase = "answer" /\ cache = <<>> /\ wire = <<>>
      /\ inbox # <<>> => Head(inbox).op \in Slow
  BY DEF AnswerTimeout
<1>2. run \in Runs
  BY DEF WebTyped
<1>3. CASE inbox = <<run.request>>
  <2>1. Head(inbox) = run.request /\ inbox # <<>>
    BY <1>3
  <2> QED
    BY <1>1, <1>2, <2>1, PageLimit DEF WebAssumption
<1>4. CASE Answering
  <2>1. Rest(0) = <<>> \/ Rest(1) = <<>>
    BY <1>1, <1>4 DEF Answering
  <2>2. Len(All) = 2 * Len(Page) + 4 /\ Len(Page) \in Nat
    BY <1>2, PagePieces
  <2>3. 0 \in 0 .. Len(All) /\ 1 \in 0 .. Len(All) /\ Len(All) # 0 /\ Len(All) # 1
    BY <2>2
  <2> QED
    BY <1>2, <2>1, <2>3, RestTaken
<1> QED
  BY <1>1, <1>3, <1>4 DEF PageInOrder
(* A step that changes only where the pieces are, or gives a frame up. *)
LEMMA RowsArrive ==
    ASSUME WebAssumption, WebTyped, run.kind = "rows", PageInOrder,
           GetCharsReceives \/ GetCharsFull
    PROVE  PageInOrder'
<1>1. /\ UNCHANGED <<run, phase, daemon, inbox, served, spill, shown>>
      /\ phase \in {"rows", "tags"} /\ cache1 = <<>>
      /\ mid' = mid \/ (mid' = NoFrame /\ cut')
      /\ cut' = cut \/ cut'
  BY DEF GetCharsReceives, GetCharsFull
<1>2. phase = "rows"
  BY <1>1 DEF PageInOrder
<1>3. cache1' \o wire' = cache1 \o wire
  <2>1. CASE GetCharsFull
    BY <2>1 DEF GetCharsFull
  <2>2. CASE GetCharsReceives
    <3> PICK n \in 1 .. Len(wire) :
            cache1' = SubSeq(wire, 1, n) /\ wire' = SubSeq(wire, n + 1, Len(wire))
      BY <2>2 DEF GetCharsReceives
    <3>1. cache1' \o wire' = wire
      BY Moved DEF WebTyped
    <3>2. <<>> \o wire = wire
      BY DEF WebTyped, IsSeq
    <3> QED
      BY <1>1, <3>1, <3>2
  <2> QED
    BY <2>1, <2>2
<1>4. ~ cut' => ~ cut /\ mid' = mid
  <2>1. CASE GetCharsFull
    BY <2>1 DEF GetCharsFull
  <2>2. CASE GetCharsReceives
    BY <2>2 DEF GetCharsReceives
  <2> QED
    BY <2>1, <2>2
<1>5. PICK k \in 1 .. Len(Page) + 2, h \in {0, 1} : 2 * k + h <= Len(All) /\ Listing(k, h)
  BY <1>2 DEF PageInOrder
<1>6. Page' = Page /\ PageFrames' = PageFrames /\ All' = All /\ Rest(2 * k + h)' = Rest(2 * k + h)
  BY <1>1, SamePage
<1>7. Listing(k, h)'
  <2>1. cache1' \o wire' = Rest(2 * k + h)
    BY <1>3, <1>5 DEF Listing
  <2>2. mid' = NoFrame \/ (h = 1 /\ mid' = PageFrames[k + 1])
    BY <1>1, <1>5 DEF Listing
  <2>3. InOrder(shown', Page, k)
    BY <1>1, <1>5 DEF Listing
  <2>4. ~ spill' /\ ~ cut' =>
           /\ k <= Len(Page) + 1 /\ shown' = SubSeq(Page, 1, k - 1)
           /\ h = 1 => mid' = PageFrames[k + 1]
    <3> HIDE DEF Page, PageFrames
    <3> QED
      BY <1>1, <1>4, <1>5, Zenon DEF Listing
  <2> QED
    BY <1>6, <2>1, <2>2, <2>3, <2>4, Zenon DEF Listing
<1> QED
  BY <1>1, <1>2, <1>5, <1>6, <1>7 DEF PageInOrder

(* One piece of a row's frame is read from the second buffer. *)
LEMMA RowRead ==
    ASSUME WebAssumption, WebTyped, run.kind = "rows", PageInOrder, ReadStream
    PROVE  PageInOrder'
<1> DEFINE p == Head(cache1)
           whole == p[2] = 2 /\ mid = p[1]
<1>1. /\ phase \in {"rows", "tags"} /\ cache1 # <<>> /\ cache1' = Tail(cache1)
      /\ whole => Streamed(p[1])
      /\ ~ whole => UNCHANGED <<phase, shown>>
      /\ mid' = IF p[2] = 1 THEN p[1] ELSE NoFrame
      /\ UNCHANGED <<run, cache, inbox, wire, daemon, served, spill, cut>>
  BY DEF ReadStream
<1>2. /\ phase = "rows" /\ inbox = <<>> /\ daemon.tables = Table /\ daemon.subscribers = {}
  BY <1>1 DEF PageInOrder
<1>3. /\ cache1 \o wire # <<>> /\ Head(cache1 \o wire) = p
      /\ Tail(cache1) \o wire = Tail(cache1 \o wire)
  <2>1. IsSeq(cache1) /\ IsSeq(wire)
    BY DEF WebTyped
  <2>2. cache1 # <<>>
    BY <1>1
  <2> QED
    BY <2>1, <2>2, Taken
<1> PICK k \in 1 .. Len(Page) + 2, h \in {0, 1} : 2 * k + h <= Len(All) /\ Listing(k, h)
  BY <1>2 DEF PageInOrder
<1> DEFINE i == 2 * k + h
<1>4. run \in Runs /\ Len(Page) \in Nat /\ Len(All) = 2 * Len(Page) + 4
  BY PagePieces DEF WebTyped
<1>5. /\ i < Len(All) /\ p = All[i + 1] /\ cache1' \o wire' = Rest(i + 1)
  <2>1. cache1 \o wire = Rest(i)
    BY DEF Listing
  <2>2. i \in 0 .. Len(All) /\ (i # Len(All) => i < Len(All))
    <3>1. i \in Nat
      OBVIOUS
    <3>2. i <= Len(All) /\ Len(All) \in Nat
      BY <1>4
    <3> HIDE DEF i
    <3> QED
      BY <3>1, <3>2
  <2> HIDE DEF i, p, whole
  <2>3. /\ Rest(i) = <<>> <=> i = Len(All)
        /\ i < Len(All) => Head(Rest(i)) = All[i + 1] /\ Tail(Rest(i)) = Rest(i + 1)
    BY <1>4, <2>2, RestTaken
  <2>4. i < Len(All)
    <3>1. i # Len(All)
      BY <1>3, <2>1, <2>3, Zenon
    <3> QED
      BY <2>2, <3>1
  <2> QED
    BY <1>1, <1>3, <2>1, <2>3, <2>4, Zenon
<1>6. k <= Len(Page) + 1
  BY <1>4, <1>5
<1>7. /\ All[2 * k + 1] = <<PageFrames[k + 1], 1>> /\ All[2 * k + 2] = <<PageFrames[k + 1], 2>>
  <2>1. k \in 0 .. Len(Page) + 1
    BY <1>4, <1>6
  <2> QED
    BY <1>4, <2>1, PagePieces
<1>8. Page' = Page /\ PageFrames' = PageFrames /\ All' = All /\ \A j : Rest(j)' = Rest(j)
  BY <1>1, SamePage
<1>9. /\ mid = NoFrame \/ (h = 1 /\ mid = PageFrames[k + 1])
      /\ InOrder(shown, Page, k)
      /\ ~ spill /\ ~ cut =>
            /\ shown = SubSeq(Page, 1, k - 1)
            /\ h = 1 => mid = PageFrames[k + 1]
  BY DEF Listing
<1> HIDE DEF Page, PageFrames, All
<1>10. CASE h = 0
  <2>1. p = <<PageFrames[k + 1], 1>> /\ cache1' \o wire' = Rest(2 * k + 1)
    <3>1. i = 2 * k
      BY <1>10
    <3> HIDE DEF i, p, whole
    <3> QED
      BY <1>5, <1>7, <3>1, Zenon
  <2>2. p[1] = PageFrames[k + 1] /\ p[2] = 1
    BY <2>1
  <2>3. mid' = PageFrames[k + 1] /\ UNCHANGED <<phase, shown>>
    BY <1>1, <2>2
  <2>4. Listing(k, 1)'
    <3>1. Rest(2 * k + 1)' = Rest(2 * k + 1)
      BY <1>8
    <3>2. ~ spill' /\ ~ cut' =>
             /\ k <= Len(Page) + 1 /\ shown' = SubSeq(Page, 1, k - 1) /\ mid' = PageFrames[k + 1]
      BY <1>1, <1>6, <1>9, <2>3
    <3>3. InOrder(shown', Page, k)
      BY <1>9, <2>3
    <3> QED
      BY <1>8, <2>1, <2>3, <3>1, <3>2, <3>3, Zenon DEF Listing
  <2>5. 2 * k + 1 <= Len(All)
    BY <1>5, <1>10
  <2> QED
    BY <1>1, <1>2, <1>8, <2>3, <2>4, <2>5 DEF PageInOrder
<1>11. CASE h = 1
  <2> DEFINE m == PageFrames[k + 1]
  <2>1. p = <<m, 2>> /\ cache1' \o wire' = Rest(2 * (k + 1) + 0)
    <3>1. i = 2 * k + 1 /\ i + 1 = 2 * k + 2 /\ i + 1 = 2 * (k + 1) + 0
      BY <1>11
    <3> HIDE DEF i, p, whole
    <3> QED
      BY <1>5, <1>7, <3>1, Zenon
  <2>2. p[1] = m /\ p[2] = 2
    BY <2>1
  <2>3. mid' = NoFrame
    BY <1>1, <2>2
  <2>4. /\ m.op = "93" /\ m # NoFrame
        /\ k <= Len(Page) => m.data = <<Page[k]>> /\ Page[k] # Done
        /\ k = Len(Page) + 1 => m.data = <<Done>>
    <3>1. k \in 1 .. Len(Page) + 1
      BY <1>4, <1>6
    <3> QED
      BY <1>4, <3>1, FrameRead
  <2>5. IsSeq(Page)
    BY <1>4, PageSent
  <2> HIDE DEF m
  <2>6. ASSUME phase' = "rows", InOrder(shown', Page, k + 1),
               ~ spill' /\ ~ cut' => k <= Len(Page) /\ shown' = SubSeq(Page, 1, k)
        PROVE  PageInOrder'
    <3>1. Listing(k + 1, 0)'
      <4>1. Rest(2 * (k + 1) + 0)' = Rest(2 * (k + 1) + 0)
        BY <1>8
      <4>2. ~ spill' /\ ~ cut' =>
               /\ k + 1 <= Len(Page) + 1 /\ shown' = SubSeq(Page, 1, (k + 1) - 1)
               /\ 0 = 1 => mid' = PageFrames[(k + 1) + 1]
        BY <1>4, <2>6
      <4> QED
        BY <1>8, <2>1, <2>3, <2>6, <4>1, <4>2, Zenon DEF Listing
    <3>2. 2 * (k + 1) + 0 <= Len(All) /\ k + 1 \in 1 .. Len(Page) + 2
      BY <1>4, <1>6
    <3>3. \E kk \in 1 .. Len(Page) + 2, hh \in {0, 1} :
             2 * kk + hh <= Len(All) /\ Listing(kk, hh)'
      <4>1. 0 \in {0, 1}
        OBVIOUS
      <4> QED
        BY <3>1, <3>2, <4>1, Zenon
    <3> QED
      BY <1>1, <1>2, <1>8, <2>6, <3>3 DEF PageInOrder
  <2>7. CASE mid = NoFrame
    <3>1. UNCHANGED <<phase, shown>>
      BY <1>1, <2>2, <2>4, <2>7
    <3>2. InOrder(shown', Page, k + 1)
      BY <1>9, <2>5, <3>1, MoreRead
    <3>3. spill' \/ cut'
      BY <1>1, <1>9, <1>11, <2>4, <2>7 DEF m
    <3> QED
      BY <1>2, <2>6, <3>1, <3>2, <3>3
  <2>8. CASE mid # NoFrame
    <3>1. mid = m
      BY <1>9, <2>8 DEF m
    <3>2. NextRow(m.data)
      <4>1. Streamed(m)
        BY <1>1, <2>2, <3>1
      <4> QED
        BY <1>2, <2>4, <4>1 DEF Streamed, IReaderGetTagDBRecord
    <3>3. CASE k <= Len(Page)
      <4>1. m.data = <<Page[k]>> /\ Page[k] # Done
        BY <2>4, <3>3
      <4>2. m.data # Error /\ m.data # <<Done>>
        BY <4>1 DEF Error
      <4>3. phase' = "rows" /\ shown' = shown \o <<Page[k]>>
        BY <1>2, <3>2, <4>1, <4>2 DEF NextRow
      <4>4. k \in 1 .. Len(Page)
        BY <1>4, <3>3
      <4>5. InOrder(shown', Page, k + 1)
        BY <1>9, <2>5, <4>3, <4>4, RowAdded
      <4>6. SubSeq(Page, 1, k - 1) \o <<Page[k]>> = SubSeq(Page, 1, k)
        BY <2>5, <4>4, FirstRows
      <4>7. ~ spill' /\ ~ cut' => k <= Len(Page) /\ shown' = SubSeq(Page, 1, k)
        BY <1>1, <1>9, <3>3, <4>3, <4>6
      <4> QED
        BY <2>6, <4>3, <4>5, <4>7
    <3>4. CASE k = Len(Page) + 1
      <4>1. m.data = <<Done>>
        BY <2>4, <3>4
      <4>2. m.data # Error
        BY <4>1 DEF Error
      <4>3. phase' = "end" /\ shown' = shown
        BY <3>2, <4>1, <4>2 DEF NextRow
      <4>4. k - 1 = Len(Page)
        BY <1>4, <3>4
      <4>5. ~ spill' /\ ~ cut' => shown' = Page
        BY <1>1, <1>9, <2>5, <4>3, <4>4, FirstRows
      <4>6. InOrder(shown', Page, k) /\ daemon'.tables = Table
        BY <1>1, <1>2, <1>9, <4>3
      <4>7. ShownTrue'
        BY <1>1, <1>4, <4>5, <4>6, EndTrue
      <4> QED
        BY <1>1, <1>2, <4>3, <4>7 DEF PageInOrder
    <3> QED
      BY <1>4, <1>6, <3>3, <3>4
  <2> QED
    BY <2>7, <2>8
<1> QED
  BY <1>10, <1>11
LEMMA ListingStep ==
    ASSUME WebAssumption, WebInv, [WebNext]_webVars PROVE ListingOrdered'
<1>1. run' = run
  BY DEF WebNext, webVars, Start, AgentServes, iAgent_CallBack, GetCharReceives, ReadAnswer,
         AnswerTimeout, GetCharsReceives, GetCharsFull, ReadStream
<1> SUFFICES ASSUME run.kind = "rows" PROVE PageInOrder'
  BY <1>1 DEF ListingOrdered
<1>2. WebTyped /\ PageInOrder
  BY DEF WebInv, ListingOrdered
<1>3. CASE Start
  BY <1>2, <1>3, PageAsked
<1>4. CASE AgentServes
  BY <1>2, <1>4, PageAnswered
<1>5. CASE iAgent_CallBack
  BY <1>2, <1>5 DEF iAgent_CallBack, PageInOrder
<1>6. CASE GetCharReceives
  BY <1>2, <1>6, PageArrives
<1>7. CASE ReadAnswer
  BY <1>2, <1>7, AnswerRead
<1>8. CASE AnswerTimeout
  BY <1>2, <1>8, NeverLate
<1>9. CASE GetCharsReceives \/ GetCharsFull
  BY <1>2, <1>9, RowsArrive
<1>10. CASE ReadStream
  BY <1>2, <1>10, RowRead
<1>11. CASE UNCHANGED webVars
  <2>1. UNCHANGED <<run, phase, cache, cache1, mid, inbox, wire, daemon, served, spill, cut, shown>>
    BY <1>11 DEF webVars
  <2>2. /\ Page' = Page /\ PageFrames' = PageFrames /\ All' = All
        /\ \A j : Rest(j)' = Rest(j)
    BY <1>1, SamePage
  <2>3. ShownTrue => ShownTrue'
    <3>1. Rows' = Rows
      BY <2>1 DEF Rows
    <3> HIDE DEF Rows
    <3> QED
      BY <2>1, <3>1 DEF ShownTrue
  <2>4. Unsent' = Unsent
    BY <2>1 DEF Unsent
  <2>5. Answering => Answering'
    BY <2>1, <2>2 DEF Answering
  <2>6. ASSUME NEW k, NEW h, Listing(k, h) PROVE Listing(k, h)'
    BY <2>1, <2>2, <2>6, Zenon DEF Listing
  <2> QED
    BY <1>2, <2>1, <2>2, <2>3, <2>4, <2>5, <2>6 DEF PageInOrder
<1> QED
  BY <1>3, <1>4, <1>5, <1>6, <1>7, <1>8, <1>9, <1>10, <1>11 DEF WebNext

-----------------------------------------------------------------------------
LEMMA WebInitial == ASSUME WebAssumption, WebInit PROVE WebInv
<1>1. /\ run \in Runs /\ phase = "start" /\ cache = <<>> /\ cache1 = <<>> /\ mid = NoFrame
      /\ inbox = <<>> /\ wire = <<>> /\ served = <<>> /\ ~ spill /\ ~ cut /\ shown = <<>>
      /\ daemon.tables = Table /\ daemon.subscribers = {}
  BY DEF WebInit
<1>2. WebTyped
  <2>1. IsSeq(<<>>) /\ <<>> \in Seq({run.request})
    BY DEF IsSeq
  <2> QED
    BY <1>1, <2>1 DEF WebTyped
<1>3. ShownTrue
  BY <1>1 DEF ShownTrue
<1>4. AnswersHonest
  BY <1>1, <1>3, NothingIn DEF AnswersHonest
<1>5. ListingOrdered
  BY <1>1 DEF ListingOrdered, PageInOrder, Unsent
<1> QED
  BY <1>2, <1>4, <1>5 DEF WebInv

LEMMA WebShows == ASSUME WebAssumption, WebInv PROVE ShownTrue
<1>1. CASE run.kind \notin {"rows", "stream"}
  BY <1>1 DEF WebInv, AnswersHonest
<1>2. CASE run.kind = "rows"
  BY <1>2 DEF WebInv, ListingOrdered, PageInOrder, ShownTrue
<1>3. CASE run.kind = "stream"
  BY <1>3 DEF ShownTrue
<1> QED
  BY <1>1, <1>2, <1>3

(* What a web program shows when it ends is true of the daemon: a success  *)
(* is shown for a request that was carried out, a value is the daemon's,   *)
(* and a listing is made of rows of the page asked for, in their order,    *)
(* all of them unless the first buffer kept some back or the second one    *)
(* was full (cgi-bin: CCLI.cpp, iReader.cpp, muxClient.cpp).               *)
THEOREM ShownIsTrue == WebAssumption => (WebSpec => []ShownTrue)
<1> SUFFICES ASSUME WebAssumption PROVE WebSpec => []ShownTrue
  OBVIOUS
<1>1. WebInit => WebInv
  BY WebInitial
<1>2. WebInv /\ [WebNext]_webVars => WebInv'
  <2> SUFFICES ASSUME WebInv, [WebNext]_webVars PROVE WebInv'
    OBVIOUS
  <2>1. WebTyped'
    BY TypedStep DEF WebInv
  <2>2. AnswersHonest'
    BY HonestStep
  <2>3. ListingOrdered'
    BY ListingStep
  <2> QED
    BY <2>1, <2>2, <2>3 DEF WebInv
<1>3. WebInv => ShownTrue
  BY WebShows
<1> QED
  BY <1>1, <1>2, <1>3, PTL DEF WebSpec

-----------------------------------------------------------------------------
(***************************************************************************)
(* Proofs about LlrpReports, for any tags, antennas and ROSpecs, any sizes *)
(* of the table and of the send buffer and any bounds: where the reads of  *)
(* tags are, and that the copy of a ROSpec works as the original.          *)
(***************************************************************************)

-----------------------------------------------------------------------------
(* The copy of a ROSpec.  What a parameter, an inventory and a             *)
(* configuration stand for, as functions.                                  *)

AISpecOf  == [p \in Parameters |-> IF p.kind = "AISpec" THEN <<p>> ELSE << >>]
EpcOf     == [v \in Inventories |-> IF v.protocol = "EPC" THEN v.configs ELSE << >>]
ConfigsOf == [p \in Parameters |-> InventoryConfigs(p)]
CopyOf    == [c \in AntConfigs |-> CopyConfig(c)]

LEMMA ConfigsTyped ==
    /\ AISpecOf \in [Parameters -> Seq(Parameters)]
    /\ EpcOf \in [Inventories -> Seq(AntConfigs)]
    /\ ConfigsOf \in [Parameters -> Seq(AntConfigs)]
    /\ Maps(CopyOf, AntConfigs, AntConfigs)
<1>1. ASSUME NEW p \in Parameters
      PROVE  (IF p.kind = "AISpec" THEN <<p>> ELSE << >>) \in Seq(Parameters)
  OBVIOUS
<1>2. ASSUME NEW v \in Inventories
      PROVE  (IF v.protocol = "EPC" THEN v.configs ELSE << >>) \in Seq(AntConfigs)
  BY DEF Inventories
<1>3. EpcOf \in [Inventories -> Seq(AntConfigs)]
  BY <1>2 DEF EpcOf
<1>4. ASSUME NEW p \in Parameters
      PROVE  /\ InventoryConfigs(p) = Through(EpcOf, p.inv)
             /\ InventoryConfigs(p) \in Seq(AntConfigs)
  <2>1. p.inv \in Seq(Inventories)
    BY DEF Parameters
  <2>2. \A i \in DOMAIN p.inv : p.inv[i] \in Inventories
    BY <2>1
  <2>3. InventoryConfigs(p) = Through(EpcOf, p.inv)
    BY <2>2 DEF InventoryConfigs, Through, EpcOf
  <2> QED
    BY <2>1, <2>3, <1>3, ThroughType
<1>5. ASSUME NEW c \in AntConfigs PROVE CopyConfig(c) \in AntConfigs
  BY DEF AntConfigs, CopyConfig
<1>6. AISpecOf \in [Parameters -> Seq(Parameters)]
  BY <1>1 DEF AISpecOf
<1>7. ConfigsOf \in [Parameters -> Seq(AntConfigs)]
  BY <1>4 DEF ConfigsOf
<1>8. CopyOf \in [AntConfigs -> AntConfigs]
  BY <1>5 DEF CopyOf
<1> QED
  BY <1>3, <1>6, <1>7, <1>8 DEF Maps

LEMMA AISpecsTyped ==
    ASSUME NEW spec \in AllRospecs
    PROVE  AISpecs(spec) \in Seq(Parameters)
<1>1. spec.params \in Seq(Parameters)
  BY DEF AllRospecs
<1>2. \A i \in DOMAIN spec.params : spec.params[i] \in Parameters
  BY <1>1
<1>3. AISpecs(spec) = Through(AISpecOf, spec.params)
  BY <1>2 DEF AISpecs, Through, AISpecOf
<1> QED
  <2>1. AISpecOf \in [Parameters -> Seq(Parameters)]
    BY ConfigsTyped
  <2>2. Through(AISpecOf, spec.params) \in Seq(Parameters)
    BY <1>1, <2>1, ThroughType
  <2> QED
    BY <1>3, <2>2

LEMMA CopyConfigs ==
    ASSUME NEW cs \in Seq(AntConfigs)
    PROVE  [j \in DOMAIN cs |-> CopyConfig(cs[j])] = Mapped(CopyOf, cs)
<1>1. \A j \in DOMAIN cs : cs[j] \in AntConfigs
  OBVIOUS
<1> QED
  BY <1>1 DEF Mapped, CopyOf

LEMMA CopyTyped ==
    ASSUME NEW p \in Parameters
    PROVE  /\ CopyParam(p) \in Parameters /\ CopyParam(p).kind = "AISpec"
           /\ CopyParam(p).ants = p.ants
           /\ Len(CopyParam(p).inv) = Len(p.inv)
           /\ \A i \in DOMAIN p.inv :
                /\ CopyParam(p).inv[i].protocol = p.inv[i].protocol
                /\ CopyParam(p).inv[i].configs = Mapped(CopyOf, p.inv[i].configs)
<1>1. p.inv \in Seq(Inventories) /\ p.ants \in Seq(Antennas)
  BY DEF Parameters
<1>2. \A i \in DOMAIN p.inv : p.inv[i].protocol \in STRING /\ p.inv[i].configs \in Seq(AntConfigs)
  <2>1. \A v \in Inventories : v.protocol \in STRING /\ v.configs \in Seq(AntConfigs)
    BY DEF Inventories
  <2>2. \A i \in DOMAIN p.inv : p.inv[i] \in Inventories
    BY <1>1
  <2> QED
    BY <2>1, <2>2
<1> DEFINE c(i) == [protocol |-> p.inv[i].protocol,
                    configs |-> [j \in DOMAIN p.inv[i].configs |->
                                   CopyConfig(p.inv[i].configs[j])]]
           d == [i \in DOMAIN p.inv |-> c(i)]
<1>3. ASSUME NEW i \in DOMAIN p.inv
      PROVE  c(i).configs = Mapped(CopyOf, p.inv[i].configs)
  BY <1>2, CopyConfigs
<1>4. ASSUME NEW i \in DOMAIN p.inv
      PROVE  c(i) \in Inventories
  <2>1. Mapped(CopyOf, p.inv[i].configs) \in Seq(AntConfigs)
    BY <1>2, ConfigsTyped, MappedType
  <2>2. c(i).configs \in Seq(AntConfigs)
    BY <1>3, <2>1
  <2>3. c(i) = [protocol |-> p.inv[i].protocol, configs |-> c(i).configs]
    OBVIOUS
  <2> HIDE DEF c
  <2> QED
    BY <1>2, <2>2, <2>3 DEF Inventories
<1>5. CopyParam(p) = [kind |-> "AISpec", ants |-> p.ants, inv |-> d]
  BY DEF CopyParam
<1>6. \A i \in DOMAIN p.inv : c(i).protocol = p.inv[i].protocol
  OBVIOUS
<1> HIDE DEF c
<1>7. DOMAIN p.inv = 1 .. Len(p.inv) /\ Len(p.inv) \in Nat
  BY <1>1
<1>8. d \in Seq(Inventories) /\ Len(d) = Len(p.inv) /\ \A i \in DOMAIN p.inv : d[i] = c(i)
  BY <1>4, <1>7
<1> HIDE DEF d
<1>9. CopyParam(p) \in Parameters
  BY <1>1, <1>5, <1>8 DEF Parameters
<1> QED
  BY <1>3, <1>5, <1>6, <1>8, <1>9

LEMMA RospecCopyTyped ==
    ASSUME NEW spec \in AllRospecs
    PROVE  /\ RospecCopy(spec) \in AllRospecs /\ RospecCopy(spec).stop = spec.stop
           /\ Len(RospecCopy(spec).params) = Len(AISpecs(spec))
           /\ \A i \in 1 .. Len(AISpecs(spec)) :
                RospecCopy(spec).params[i] = CopyParam(AISpecs(spec)[i])
           /\ Len(RospecCopy(spec).report) = Len(spec.report)
           /\ \A i \in 1 .. Len(spec.report) :
                RospecCopy(spec).report[i] = CopyReport(spec.report[i])
<1> DEFINE ai == AISpecs(spec)
           ps == [i \in DOMAIN ai |-> CopyParam(ai[i])]
           rs == [i \in DOMAIN spec.report |-> CopyReport(spec.report[i])]
<1>1. ai \in Seq(Parameters) /\ spec.report \in Seq(ReportSpecs) /\ spec.id \in Nat /\ spec.stop \in STRING
  BY AISpecsTyped DEF AllRospecs
<1>2. RospecCopy(spec) = [id |-> spec.id, stop |-> spec.stop, params |-> ps, report |-> rs]
  BY DEF RospecCopy
<1>3. ASSUME NEW r \in ReportSpecs PROVE CopyReport(r) \in ReportSpecs
  <2>1. r.selectors \in Seq(Selectors) /\ DOMAIN r.selectors = 1 .. Len(r.selectors)
        /\ Len(r.selectors) \in Nat
    BY DEF ReportSpecs
  <2>2. \A i \in 1 .. Len(r.selectors) :
            [pc |-> r.selectors[i].pc, crc |-> r.selectors[i].crc] \in Selectors
    <3>1. \A s \in Selectors : [pc |-> s.pc, crc |-> s.crc] \in Selectors
      BY DEF Selectors
    <3>2. \A i \in 1 .. Len(r.selectors) : r.selectors[i] \in Selectors
      BY <2>1
    <3> QED
      BY <3>1, <3>2
  <2>3. [i \in DOMAIN r.selectors |-> [pc |-> r.selectors[i].pc, crc |-> r.selectors[i].crc]]
          \in Seq(Selectors)
    BY <2>1, <2>2
  <2> QED
    BY <2>3 DEF CopyReport, ReportSpecs
<1> HIDE DEF ai
<1>4. /\ DOMAIN ai = 1 .. Len(ai) /\ Len(ai) \in Nat
      /\ \A i \in 1 .. Len(ai) : ai[i] \in Parameters
      /\ DOMAIN spec.report = 1 .. Len(spec.report) /\ Len(spec.report) \in Nat
      /\ \A i \in 1 .. Len(spec.report) : spec.report[i] \in ReportSpecs
  BY <1>1
<1>5. \A i \in 1 .. Len(ai) : CopyParam(ai[i]) \in Parameters
  BY <1>4, CopyTyped
<1>6. ps \in Seq(Parameters) /\ Len(ps) = Len(ai) /\ \A i \in 1 .. Len(ai) : ps[i] = CopyParam(ai[i])
  BY <1>4, <1>5
<1>7. /\ rs \in Seq(ReportSpecs) /\ Len(rs) = Len(spec.report)
      /\ \A i \in 1 .. Len(spec.report) : rs[i] = CopyReport(spec.report[i])
  BY <1>3, <1>4
<1> HIDE DEF ps, rs
<1>8. RospecCopy(spec) \in AllRospecs
  BY <1>1, <1>2, <1>6, <1>7 DEF AllRospecs
<1> QED
  BY <1>2, <1>6, <1>7, <1>8 DEF ai

LEMMA AISpecsOfCopy ==
    ASSUME NEW spec \in AllRospecs
    PROVE  AISpecs(RospecCopy(spec)) = RospecCopy(spec).params
<1> DEFINE ps == RospecCopy(spec).params
           ss == [i \in DOMAIN ps |-> IF ps[i].kind = "AISpec" THEN <<ps[i]>> ELSE << >>]
<1>1. ps \in Seq(Parameters)
  BY RospecCopyTyped DEF AllRospecs
<1>2. \A i \in 1 .. Len(ps) : ps[i] \in Parameters /\ ps[i].kind = "AISpec"
  <2>1. AISpecs(spec) \in Seq(Parameters)
    BY AISpecsTyped
  <2>2. Len(ps) = Len(AISpecs(spec)) /\ \A i \in 1 .. Len(ps) : ps[i] = CopyParam(AISpecs(spec)[i])
    BY RospecCopyTyped
  <2>3. \A i \in 1 .. Len(ps) : AISpecs(spec)[i] \in Parameters
    BY <2>1, <2>2
  <2> QED
    BY <2>2, <2>3, CopyTyped
<1>3. AISpecs(RospecCopy(spec)) = FlattenSeq(ss)
  BY DEF AISpecs
<1> HIDE DEF ps
<1>4. DOMAIN ps = 1 .. Len(ps) /\ Len(ps) \in Nat
  BY <1>1
<1>5. ss \in Seq(Seq(Parameters)) /\ Len(ss) = Len(ps) /\ \A i \in 1 .. Len(ps) : ss[i] = << ps[i] >>
  <2>1. \A i \in 1 .. Len(ps) : << ps[i] >> \in Seq(Parameters)
    BY <1>2
  <2>2. ss = [i \in 1 .. Len(ps) |-> << ps[i] >>]
    BY <1>2, <1>4
  <2> QED
    BY <1>4, <2>1, <2>2
<1> HIDE DEF ss
<1>6. FlattenSeq(ss) = ps
  BY <1>1, <1>5, FlattenSingles
<1> QED
  BY <1>3, <1>6 DEF ps

LEMMA InventoryConfigsOfCopy ==
    ASSUME NEW p \in Parameters
    PROVE  /\ InventoryConfigs(p) \in Seq(AntConfigs)
           /\ InventoryConfigs(CopyParam(p)) = Mapped(CopyOf, InventoryConfigs(p))
<1> DEFINE q == CopyParam(p)
           ss == [i \in DOMAIN p.inv |-> IF p.inv[i].protocol = "EPC" THEN p.inv[i].configs ELSE << >>]
           tt == [i \in DOMAIN q.inv |-> IF q.inv[i].protocol = "EPC" THEN q.inv[i].configs ELSE << >>]
<1>1. p.inv \in Seq(Inventories) /\ q.inv \in Seq(Inventories)
  BY CopyTyped DEF Parameters
<1>2. /\ Len(q.inv) = Len(p.inv)
      /\ \A i \in DOMAIN p.inv : /\ q.inv[i].protocol = p.inv[i].protocol
                                 /\ q.inv[i].configs = Mapped(CopyOf, p.inv[i].configs)
  BY CopyTyped
<1> HIDE DEF q
<1>3. /\ DOMAIN p.inv = 1 .. Len(p.inv) /\ DOMAIN q.inv = 1 .. Len(p.inv) /\ Len(p.inv) \in Nat
      /\ \A i \in 1 .. Len(p.inv) : p.inv[i] \in Inventories /\ q.inv[i] \in Inventories
  BY <1>1, <1>2
<1>4. \A v \in Inventories : (IF v.protocol = "EPC" THEN v.configs ELSE << >>) \in Seq(AntConfigs)
  BY DEF Inventories
<1>5. ss \in Seq(Seq(AntConfigs)) /\ Len(ss) = Len(p.inv)
  BY <1>3, <1>4
<1>6. tt \in Seq(Seq(AntConfigs)) /\ Len(tt) = Len(p.inv)
  BY <1>3, <1>4
<1>7. ASSUME NEW i \in 1 .. Len(ss) PROVE tt[i] = Mapped(CopyOf, ss[i])
  <2>1. Mapped(CopyOf, << >>) = << >>
    BY DEF Mapped
  <2> QED
    BY <1>2, <1>3, <1>5, <2>1
<1>8. InventoryConfigs(p) = FlattenSeq(ss) /\ InventoryConfigs(q) = FlattenSeq(tt)
  BY DEF InventoryConfigs
<1> HIDE DEF ss, tt
<1>9. Maps(CopyOf, AntConfigs, AntConfigs)
  BY ConfigsTyped
<1>10. FlattenSeq(tt) = Mapped(CopyOf, FlattenSeq(ss))
  BY <1>5, <1>6, <1>7, <1>9, FlattenMapped
<1>11. FlattenSeq(ss) \in Seq(AntConfigs)
  BY <1>5, FlattenType
<1> QED
  BY <1>8, <1>10, <1>11 DEF q

LEMMA RospecConfigsOfCopy ==
    ASSUME NEW spec \in AllRospecs
    PROVE  /\ RospecConfigs(spec) \in Seq(AntConfigs)
           /\ RospecConfigs(RospecCopy(spec)) = Mapped(CopyOf, RospecConfigs(spec))
<1> DEFINE ai == AISpecs(spec)
           ps == RospecCopy(spec).params
           ss == [i \in DOMAIN ai |-> InventoryConfigs(ai[i])]
           tt == [i \in DOMAIN ps |-> InventoryConfigs(ps[i])]
<1>1. ai \in Seq(Parameters)
  BY AISpecsTyped
<1>2. ps \in Seq(Parameters) /\ Len(ps) = Len(ai) /\ \A i \in 1 .. Len(ai) : ps[i] = CopyParam(ai[i])
  BY RospecCopyTyped DEF AllRospecs
<1>3. RospecConfigs(spec) = FlattenSeq(ss) /\ RospecConfigs(RospecCopy(spec)) = FlattenSeq(tt)
  BY AISpecsOfCopy DEF RospecConfigs
<1> HIDE DEF ai, ps
<1>4. /\ DOMAIN ai = 1 .. Len(ai) /\ DOMAIN ps = 1 .. Len(ai) /\ Len(ai) \in Nat
      /\ \A i \in 1 .. Len(ai) : ai[i] \in Parameters /\ ps[i] \in Parameters
  BY <1>1, <1>2
<1>5. /\ \A i \in 1 .. Len(ai) : InventoryConfigs(ai[i]) \in Seq(AntConfigs)
      /\ \A i \in 1 .. Len(ai) : InventoryConfigs(ps[i]) \in Seq(AntConfigs)
      /\ \A i \in 1 .. Len(ai) : InventoryConfigs(ps[i]) = Mapped(CopyOf, InventoryConfigs(ai[i]))
  BY <1>2, <1>4, InventoryConfigsOfCopy
<1>6. ss \in Seq(Seq(AntConfigs)) /\ Len(ss) = Len(ai)
  BY <1>4, <1>5
<1>7. tt \in Seq(Seq(AntConfigs)) /\ Len(tt) = Len(ai)
  BY <1>4, <1>5
<1>8. ASSUME NEW i \in 1 .. Len(ss) PROVE tt[i] = Mapped(CopyOf, ss[i])
  BY <1>4, <1>5, <1>6
<1> HIDE DEF ss, tt
<1>9. Maps(CopyOf, AntConfigs, AntConfigs)
  BY ConfigsTyped
<1>10. FlattenSeq(tt) = Mapped(CopyOf, FlattenSeq(ss))
  BY <1>6, <1>7, <1>8, <1>9, FlattenMapped
<1>11. FlattenSeq(ss) \in Seq(AntConfigs)
  BY <1>6, FlattenType
<1> QED
  BY <1>3, <1>10, <1>11

(* A non-empty set of indices has a greatest one. *)
LEMMA Greatest ==
    ASSUME NEW n \in Nat, NEW S \in SUBSET (1 .. n), S # {}
    PROVE  Max(S) \in S
<1> DEFINE T == {i \in Nat : n - i \in S}
<1>1. T \in SUBSET Nat /\ T # {}
  <2>1. PICK x \in S : TRUE
    OBVIOUS
  <2>2. x \in 1 .. n
    BY <2>1
  <2>3. n - x \in Nat /\ n - (n - x) = x
    BY <2>2
  <2>4. n - x \in T
    BY <2>1, <2>3
  <2> QED
    BY <2>4
<1>2. Min(T) \in T /\ \A y \in T : Min(T) <= y
  <2> HIDE DEF T
  <2> QED
    BY <1>1, Least
<1> DEFINE m == n - Min(T)
<1>3. m \in S /\ Min(T) \in Nat
  BY <1>2
<1>4. ASSUME NEW y \in S PROVE m >= y
  <2>1. y \in 1 .. n
    OBVIOUS
  <2>2. n - y \in T
    <3>1. n - y \in Nat /\ n - (n - y) = y
      BY <2>1
    <3> QED
      BY <3>1
  <2>3. Min(T) <= n - y
    BY <1>2, <2>2
  <2> HIDE DEF T
  <2> QED
    BY <1>3, <2>1, <2>3
<1> HIDE DEF m
<1> QED
  BY <1>3, <1>4 DEF Max

(* The antenna settings look at antenna and transmit power alone.          *)
LEMMA SameSettings ==
    ASSUME NEW p, NEW cs \in Seq(AntConfigs)
    PROVE  AntennasSettings(p, Mapped(CopyOf, cs)) = AntennasSettings(p, cs)
<1> DEFINE ds == Mapped(CopyOf, cs)
           settle(c, a) == {i \in DOMAIN c : c[i].tx # << >> /\ c[i].ant \in {0, a}}
<1>1. DOMAIN cs = 1 .. Len(cs) /\ Len(cs) \in Nat /\ \A i \in 1 .. Len(cs) : cs[i] \in AntConfigs
  OBVIOUS
<1>2. /\ DOMAIN ds = 1 .. Len(cs)
      /\ \A i \in 1 .. Len(cs) : ds[i].ant = cs[i].ant /\ ds[i].tx = cs[i].tx
  BY <1>1 DEF Mapped, CopyOf, CopyConfig
<1> HIDE DEF ds
<1>3. ASSUME NEW a PROVE settle(ds, a) = settle(cs, a)
  BY <1>1, <1>2
<1>4. ASSUME NEW a, settle(cs, a) # {}
      PROVE  ds[Max(settle(ds, a))].tx[1] = cs[Max(settle(cs, a))].tx[1]
  <2>1. settle(cs, a) \in SUBSET (1 .. Len(cs))
    BY <1>1
  <2>2. settle(ds, a) = settle(cs, a)
    BY <1>3
  <2> HIDE DEF settle
  <2>3. Max(settle(cs, a)) \in 1 .. Len(cs)
    BY <1>1, <1>4, <2>1, Greatest
  <2> QED
    BY <1>2, <2>2, <2>3
<1>5. /\ AntennasSettings(p, ds) = [a \in DOMAIN p |->
            IF settle(ds, a) = {} THEN p[a] ELSE ds[Max(settle(ds, a))].tx[1]]
      /\ AntennasSettings(p, cs) = [a \in DOMAIN p |->
            IF settle(cs, a) = {} THEN p[a] ELSE cs[Max(settle(cs, a))].tx[1]]
  BY DEF AntennasSettings
<1>6. ASSUME NEW a
      PROVE (IF settle(ds, a) = {} THEN p[a] ELSE ds[Max(settle(ds, a))].tx[1])
              = (IF settle(cs, a) = {} THEN p[a] ELSE cs[Max(settle(cs, a))].tx[1])
  <2> HIDE DEF settle
  <2> QED
    BY <1>3, <1>4, Zenon
<1> HIDE DEF settle
<1> QED
  BY <1>5, <1>6 DEF ds

LEMMA CopyWorks ==
    ASSUME NEW spec \in AllRospecs
    PROVE  /\ Walk(RospecCopy(spec)) = Walk(spec)
           /\ AntennasSettings(power, RospecConfigs(RospecCopy(spec)))
                = AntennasSettings(power, RospecConfigs(spec))
           /\ ReportSettings(set, RospecCopy(spec).report) = ReportSettings(set, spec.report)
<1>1. AISpecs(spec) \in Seq(Parameters)
  BY AISpecsTyped
<1>2. Walk(RospecCopy(spec)) = Walk(spec)
  <2>1. /\ AISpecs(RospecCopy(spec)) = RospecCopy(spec).params
        /\ Len(RospecCopy(spec).params) = Len(AISpecs(spec))
        /\ RospecCopy(spec).params \in Seq(Parameters)
    BY AISpecsOfCopy, RospecCopyTyped DEF AllRospecs
  <2>2. CASE AISpecs(spec) = << >>
    <3>1. AISpecs(RospecCopy(spec)) = << >>
      BY <2>1, <2>2
    <3> QED
      BY <2>2, <3>1 DEF Walk
  <2>3. CASE AISpecs(spec) # << >>
    <3>1. 1 \in 1 .. Len(AISpecs(spec)) /\ AISpecs(spec)[1] \in Parameters
      BY <1>1, <2>3
    <3>2. RospecCopy(spec).params[1] = CopyParam(AISpecs(spec)[1])
      BY <3>1, RospecCopyTyped
    <3>3. CopyParam(AISpecs(spec)[1]).ants = AISpecs(spec)[1].ants
      BY <3>1, CopyTyped
    <3>4. AISpecs(RospecCopy(spec)) # << >>
      BY <1>1, <2>1, <3>1
    <3> QED
      BY <2>1, <2>3, <3>2, <3>3, <3>4 DEF Walk
  <2> QED
    BY <2>2, <2>3
<1>3. AntennasSettings(power, RospecConfigs(RospecCopy(spec)))
        = AntennasSettings(power, RospecConfigs(spec))
  BY RospecConfigsOfCopy, SameSettings
<1>4. ReportSettings(set, RospecCopy(spec).report) = ReportSettings(set, spec.report)
  <2>1. /\ spec.report \in Seq(ReportSpecs) /\ RospecCopy(spec).report \in Seq(ReportSpecs)
        /\ Len(RospecCopy(spec).report) = Len(spec.report)
        /\ \A i \in 1 .. Len(spec.report) :
             RospecCopy(spec).report[i] = CopyReport(spec.report[i])
    BY RospecCopyTyped DEF AllRospecs
  <2>2. CASE spec.report = << >>
    <3>1. RospecCopy(spec).report = << >>
      BY <2>1, <2>2
    <3> QED
      BY <2>2, <3>1
  <2>3. CASE spec.report # << >>
    <3> DEFINE r == spec.report[1]
               c == RospecCopy(spec).report[1]
    <3>1. r \in ReportSpecs /\ RospecCopy(spec).report # << >> /\ c = CopyReport(r)
      BY <2>1, <2>3
    <3> HIDE DEF r, c
    <3>2. /\ r.selectors \in Seq(Selectors)
          /\ r.selectors # << >> => Last(r.selectors) \in Selectors
      <4>1. r.selectors \in Seq(Selectors)
        BY <3>1 DEF ReportSpecs
      <4>2. ASSUME r.selectors # << >> PROVE Len(r.selectors) \in 1 .. Len(r.selectors)
        BY <4>1, <4>2
      <4> QED
        BY <4>1, <4>2 DEF Last
    <3>3. /\ c.trigger = r.trigger /\ c.n = r.n /\ c.rssi = r.rssi
          /\ c.selectors = [i \in DOMAIN r.selectors |->
                              [pc |-> r.selectors[i].pc, crc |-> r.selectors[i].crc]]
      BY <3>1 DEF CopyReport
    <3>4. r.selectors = << >> <=> c.selectors = << >>
      BY <3>2, <3>3
    <3>5. ASSUME r.selectors # << >>
          PROVE  /\ Last(c.selectors).pc = Last(r.selectors).pc
                 /\ Last(c.selectors).crc = Last(r.selectors).crc
      <4>1. /\ Len(r.selectors) \in 1 .. Len(r.selectors)
            /\ DOMAIN r.selectors = 1 .. Len(r.selectors) /\ Len(r.selectors) \in Nat
        BY <3>2, <3>5
      <4>2. Len(c.selectors) = Len(r.selectors)
        BY <3>3, <4>1
      <4> QED
        BY <3>3, <4>1, <4>2 DEF Last
    <3>6. CASE r.selectors = << >>
      BY <2>3, <3>1, <3>3, <3>4, <3>6 DEF ReportSettings, r, c
    <3>7. CASE r.selectors # << >>
      BY <2>3, <3>1, <3>3, <3>4, <3>5, <3>7 DEF ReportSettings, r, c
    <3> QED
      BY <3>6, <3>7
  <2> QED
    BY <2>2, <2>3
<1> QED
  BY <1>2, <1>3, <1>4

-----------------------------------------------------------------------------
(* The table.                                                              *)

Keys == Tags \X Antennas
TagRows == [tag : Tags, ant : Antennas, count : Nat]
Tables == {t \in Seq(TagRows) : /\ Len(t) <= MaxRows
                             /\ \A i, j \in DOMAIN t : Key(t[i]) = Key(t[j]) => i = j}

HasRow(t, k) == \E j \in DOMAIN t : Key(t[j]) = k

LEMMA CountOfRow ==
    ASSUME NEW t \in Tables
    PROVE  /\ \A j \in DOMAIN t : RowCount(t, Key(t[j])) = t[j].count
           /\ \A k : ~ HasRow(t, k) => RowCount(t, k) = 0
           /\ \A k : RowCount(t, k) \in Nat
<1>1. t \in Seq(TagRows) /\ \A i, j \in DOMAIN t : Key(t[i]) = Key(t[j]) => i = j
  BY DEF Tables
<1>2. \A j \in DOMAIN t : t[j].count \in Nat
  <2>1. \A r \in TagRows : r.count \in Nat
    BY DEF TagRows
  <2>2. \A j \in DOMAIN t : t[j] \in TagRows
    BY <1>1
  <2> QED
    BY <2>1, <2>2
<1>3. ASSUME NEW j \in DOMAIN t
      PROVE  RowCount(t, Key(t[j])) = t[j].count
  <2> DEFINE found == {i \in DOMAIN t : Key(t[i]) = Key(t[j])}
  <2>1. found = {j}
    BY <1>1
  <2>2. (CHOOSE i \in found : TRUE) = j
    BY <2>1
  <2> QED
    BY <2>1, <2>2 DEF RowCount
<1>4. \A k : ~ HasRow(t, k) => RowCount(t, k) = 0
  BY DEF RowCount, HasRow
<1>5. ASSUME NEW k PROVE RowCount(t, k) \in Nat
  <2>1. CASE HasRow(t, k)
    <3>1. PICK j \in DOMAIN t : Key(t[j]) = k
      BY <2>1 DEF HasRow
    <3> QED
      BY <1>2, <1>3, <3>1
  <2>2. CASE ~ HasRow(t, k)
    BY <1>4, <2>2
  <2> QED
    BY <2>1, <2>2
<1> QED
  BY <1>3, <1>4, <1>5

(* One read: the row of this tag at this antenna counts one more, or a row *)
(* is made for it, or the table is full and stays as it is.                *)
LEMMA OneRead ==
    ASSUME NEW t \in Tables, NEW tag \in Tags, NEW a \in Antennas
    PROVE  LET u == AddRead(t, tag, a)  x == <<tag, a>>
           IN /\ u \in Tables
              /\ Len(t) = MaxRows => Len(u) = MaxRows
              /\ \A k : HasRow(t, k) => HasRow(u, k)
              /\ \A k : k # x => (HasRow(u, k) <=> HasRow(t, k)) /\ RowCount(u, k) = RowCount(t, k)
              /\ HasRow(u, x) => RowCount(u, x) = RowCount(t, x) + 1
              /\ ~ HasRow(u, x) => Len(u) = MaxRows
              /\ Len(t) = MaxRows /\ ~ HasRow(t, x) => ~ HasRow(u, x)
<1> DEFINE u == AddRead(t, tag, a)
           x == <<tag, a>>
<1>1. /\ t \in Seq(TagRows) /\ Len(t) \in Nat /\ Len(t) <= MaxRows /\ MaxRows \in Nat
      /\ DOMAIN t = 1 .. Len(t) /\ \A j \in DOMAIN t : t[j] \in TagRows
      /\ \A i, j \in DOMAIN t : Key(t[i]) = Key(t[j]) => i = j
  BY ReportsAssumption DEF Tables
<1> DEFINE found == {j \in DOMAIN t : Key(t[j]) = x}
<1>2. found # {} <=> HasRow(t, x)
  BY DEF HasRow
<1>3. CASE found # {}
  <2> DEFINE j == CHOOSE i \in found : TRUE
  <2>1. j \in DOMAIN t /\ Key(t[j]) = x
    BY <1>3
  <2>2. u = [t EXCEPT ![j].count = @ + 1]
    BY <1>3 DEF AddRead
  <2> HIDE DEF j, u, found
  <2> DEFINE r == [t[j] EXCEPT !.count = @ + 1]
  <2>3. t[j] \in TagRows /\ t[j].count \in Nat
    BY <1>1, <2>1 DEF TagRows
  <2>4. r \in TagRows /\ Key(r) = x /\ r.count = t[j].count + 1
    BY <2>1, <2>3 DEF TagRows, Key
  <2>5. u = [t EXCEPT ![j] = r]
    BY <2>2
  <2> HIDE DEF r
  <2>6. /\ u \in Seq(TagRows) /\ Len(u) = Len(t) /\ DOMAIN u = DOMAIN t
        /\ u[j] = r /\ \A i \in DOMAIN t : i # j => u[i] = t[i]
    BY <1>1, <2>1, <2>4, <2>5
  <2>7. \A i \in DOMAIN t : Key(u[i]) = Key(t[i])
    BY <2>1, <2>4, <2>6
  <2>8. u \in Tables
    BY <1>1, <2>6, <2>7 DEF Tables
  <2>9. \A k : HasRow(u, k) <=> HasRow(t, k)
    BY <2>6, <2>7 DEF HasRow
  <2>10. ASSUME NEW k, k # x PROVE RowCount(u, k) = RowCount(t, k)
    <3>1. CASE HasRow(t, k)
      <4>1. PICK i \in DOMAIN t : Key(t[i]) = k
        BY <3>1 DEF HasRow
      <4>2. i # j /\ u[i] = t[i] /\ Key(u[i]) = k /\ i \in DOMAIN u
        BY <2>1, <2>6, <2>10, <4>1
      <4>3. RowCount(t, k) = t[i].count
        BY <4>1, CountOfRow
      <4>4. RowCount(u, k) = u[i].count
        BY <2>8, <4>2, CountOfRow
      <4> QED
        BY <4>2, <4>3, <4>4
    <3>2. CASE ~ HasRow(t, k)
      BY <2>8, <2>9, <3>2, CountOfRow
    <3> QED
      BY <3>1, <3>2
  <2>11. RowCount(u, x) = RowCount(t, x) + 1
    <3>1. RowCount(t, x) = t[j].count
      BY <2>1, CountOfRow
    <3>2. j \in DOMAIN u /\ Key(u[j]) = x
      BY <2>1, <2>4, <2>6
    <3>3. RowCount(u, x) = u[j].count
      BY <2>8, <3>2, CountOfRow
    <3> QED
      BY <2>4, <2>6, <3>1, <3>3
  <2>12. HasRow(u, x) /\ HasRow(t, x)
    BY <1>2, <1>3, <2>9
  <2> QED
    BY <2>6, <2>8, <2>9, <2>10, <2>11, <2>12 DEF u
<1>4. CASE found = {} /\ Len(t) < MaxRows
  <2> DEFINE r == [tag |-> tag, ant |-> a, count |-> 1]
  <2>1. u = Append(t, r)
    BY <1>4 DEF AddRead
  <2>2. r \in TagRows /\ Key(r) = x /\ r.count = 1
    BY DEF TagRows, Key
  <2> HIDE DEF u, r, found
  <2>3. /\ u \in Seq(TagRows) /\ Len(u) = Len(t) + 1 /\ DOMAIN u = 1 .. Len(t) + 1
        /\ u[Len(t) + 1] = r /\ \A i \in DOMAIN t : u[i] = t[i] /\ i \in DOMAIN u
        /\ Len(t) + 1 \in DOMAIN u
        /\ \A i \in DOMAIN u : i \in DOMAIN t \/ i = Len(t) + 1
    BY <1>1, <2>1, <2>2
  <2>4. ~ HasRow(t, x)
    BY <1>2, <1>4
  <2>5. \A i \in DOMAIN t : Key(t[i]) # x
    BY <2>4 DEF HasRow
  <2>6. \A i, j \in DOMAIN u : Key(u[i]) = Key(u[j]) => i = j
    BY <1>1, <2>2, <2>3, <2>5
  <2>7. u \in Tables
    BY <1>1, <1>4, <2>3, <2>6 DEF Tables
  <2>8. \A k : k # x => (HasRow(u, k) <=> HasRow(t, k))
    BY <2>2, <2>3 DEF HasRow
  <2>9. HasRow(u, x) /\ RowCount(u, x) = 1
    <3>1. RowCount(u, x) = u[Len(t) + 1].count
      BY <2>2, <2>3, <2>7, CountOfRow
    <3> QED
      BY <2>2, <2>3, <3>1 DEF HasRow
  <2>10. ASSUME NEW k, k # x PROVE RowCount(u, k) = RowCount(t, k)
    <3>1. CASE HasRow(t, k)
      <4>1. PICK i \in DOMAIN t : Key(t[i]) = k
        BY <3>1 DEF HasRow
      <4>2. u[i] = t[i] /\ Key(u[i]) = k /\ i \in DOMAIN u
        BY <2>3, <4>1
      <4>3. RowCount(t, k) = t[i].count
        BY <4>1, CountOfRow
      <4>4. RowCount(u, k) = u[i].count
        BY <2>7, <4>2, CountOfRow
      <4> QED
        BY <4>2, <4>3, <4>4
    <3>2. CASE ~ HasRow(t, k)
      BY <2>7, <2>8, <2>10, <3>2, CountOfRow
    <3> QED
      BY <3>1, <3>2
  <2>11. RowCount(t, x) = 0
    BY <2>4, CountOfRow
  <2>12. Len(t) # MaxRows
    <3>1. Len(t) < MaxRows /\ Len(t) \in Nat /\ MaxRows \in Nat
      BY <1>1, <1>4
    <3> QED
      BY ONLY <3>1
  <2>13. \A k : HasRow(t, k) => HasRow(u, k)
    BY <2>8, <2>9
  <2>14. RowCount(u, x) = RowCount(t, x) + 1
    BY <2>9, <2>11
  <2> QED
    BY <2>7, <2>8, <2>9, <2>10, <2>12, <2>13, <2>14 DEF u
<1>5. CASE found = {} /\ ~ (Len(t) < MaxRows)
  <2>1. u = t
    BY <1>5 DEF AddRead
  <2>2. Len(t) = MaxRows
    <3>1. ~ (Len(t) < MaxRows) /\ Len(t) <= MaxRows /\ Len(t) \in Nat /\ MaxRows \in Nat
      BY <1>1, <1>5
    <3> QED
      BY ONLY <3>1
  <2>3. ~ HasRow(t, x)
    BY <1>2, <1>5
  <2> HIDE DEF u, found
  <2> QED
    BY <2>1, <2>2, <2>3 DEF u
<1> QED
  BY <1>3, <1>4, <1>5

(* The table after n tags of a read.                                       *)
After(t, read, a, f) ==
    f = [n \in 0 .. Len(read) |-> IF n = 0 THEN t ELSE AddRead(f[n - 1], read[n], a)]

LEMMA AfterExists ==
    ASSUME NEW t, NEW read, NEW a, Len(read) \in Nat
    PROVE  \E f : After(t, read, a, f)
<1> DEFINE Upto(n, g) == g = [i \in 0 .. n |-> IF i = 0 THEN t ELSE AddRead(g[i - 1], read[i], a)]
           Good == {n \in Nat : \E g : Upto(n, g)}
<1>1. 0 \in Good
  <2>1. Upto(0, [i \in 0 .. 0 |-> t])
    OBVIOUS
  <2> QED
    BY <2>1
<1>2. ASSUME NEW n \in Nat, n \in Good PROVE n + 1 \in Good
  <2>1. PICK g : Upto(n, g)
    BY <1>2
  <2> DEFINE h == [i \in 0 .. n + 1 |-> IF i = n + 1 THEN AddRead(g[n], read[n + 1], a) ELSE g[i]]
  <2> HIDE DEF Good
  <2>2. \A i \in 0 .. n : h[i] = g[i] /\ g[i] = IF i = 0 THEN t ELSE AddRead(g[i - 1], read[i], a)
    <3>1. \A i \in 0 .. n : g[i] = IF i = 0 THEN t ELSE AddRead(g[i - 1], read[i], a)
      BY <2>1
    <3>2. \A i \in 0 .. n : i # n + 1 /\ i \in 0 .. n + 1
      OBVIOUS
    <3>3. \A i \in 0 .. n : h[i] = g[i]
      BY <3>2
    <3> QED
      BY <3>1, <3>3
  <2>3. \A i \in 0 .. n + 1 : h[i] = IF i = 0 THEN t ELSE AddRead(h[i - 1], read[i], a)
    <3> SUFFICES ASSUME NEW i \in 0 .. n + 1
                 PROVE  h[i] = IF i = 0 THEN t ELSE AddRead(h[i - 1], read[i], a)
      OBVIOUS
    <3>1. CASE i = n + 1
      <4>1. i # 0 /\ i - 1 = n /\ n \in 0 .. n
        BY <3>1
      <4>2. h[i] = AddRead(g[n], read[i], a)
        BY <3>1
      <4>3. h[n] = g[n]
        BY <4>1, <2>2
      <4> HIDE DEF h
      <4> QED
        BY <4>1, <4>2, <4>3
    <3>2. CASE i # n + 1
      <4>1. i \in 0 .. n /\ (i # 0 => i - 1 \in 0 .. n)
        BY <3>2
      <4> HIDE DEF h
      <4>2. h[i] = g[i] /\ g[i] = IF i = 0 THEN t ELSE AddRead(g[i - 1], read[i], a)
        BY <2>2, <4>1
      <4>3. i # 0 => h[i - 1] = g[i - 1]
        BY <2>2, <4>1
      <4> QED
        BY <4>2, <4>3
    <3> QED
      BY <3>1, <3>2
  <2>4. Upto(n + 1, h)
    <3>1. h = [i \in 0 .. n + 1 |-> h[i]]
      OBVIOUS
    <3> HIDE DEF h
    <3> QED
      BY <2>3, <3>1
  <2> HIDE DEF h, Upto
  <2> QED
    BY <2>4 DEF Good
<1> HIDE DEF Good
<1>3. Len(read) \in Good
  <2>1. \A i \in 0 .. Len(read) : i + 1 \in 0 .. Len(read) /\ i \in Good => i + 1 \in Good
    BY <1>2
  <2>2. \A i \in 0 .. Len(read) : i \in Good
    BY <1>1, <2>1, FromZero
  <2> QED
    BY <2>2
<1>4. PICK g : Upto(Len(read), g)
  BY <1>3 DEF Good
<1>5. After(t, read, a, g)
  BY <1>4 DEF After
<1> QED
  BY <1>5

LEMMA AddReadsIs ==
    ASSUME NEW t, NEW read, NEW a, Len(read) \in Nat
    PROVE  \E f : /\ f[0] = t /\ AddReads(t, read, a) = f[Len(read)]
                  /\ \A n \in 0 .. Len(read) :
                        n + 1 \in 0 .. Len(read) => f[n + 1] = AddRead(f[n], read[n + 1], a)
<1> DEFINE f == CHOOSE g : After(t, read, a, g)
<1>1. After(t, read, a, f)
  BY AfterExists, Zenon
<1>2. AddReads(t, read, a) = f[Len(read)]
  BY DEF AddReads, After
<1> HIDE DEF f
<1>3. \A n \in 0 .. Len(read) : f[n] = IF n = 0 THEN t ELSE AddRead(f[n - 1], read[n], a)
  BY <1>1 DEF After
<1>4. f[0] = t
  <2>1. 0 \in 0 .. Len(read)
    OBVIOUS
  <2> QED
    BY <1>3, <2>1
<1>5. ASSUME NEW n \in 0 .. Len(read), n + 1 \in 0 .. Len(read)
      PROVE  f[n + 1] = AddRead(f[n], read[n + 1], a)
  <2>1. n + 1 # 0 /\ (n + 1) - 1 = n
    OBVIOUS
  <2> QED
    BY <1>3, <1>5, <2>1
<1> QED
  BY <1>2, <1>4, <1>5

(* How many of the first n tags read at antenna a make k.                  *)
Times(read, a, k, n) == Cardinality({i \in 1 .. n : <<read[i], a>> = k})

LEMMA OneMoreTime ==
    ASSUME NEW read, NEW a, NEW k, NEW n \in Nat
    PROVE  /\ Times(read, a, k, 0) = 0 /\ Times(read, a, k, n) \in Nat
           /\ <<read[n + 1], a>> = k => Times(read, a, k, n + 1) = Times(read, a, k, n) + 1
           /\ <<read[n + 1], a>> # k => Times(read, a, k, n + 1) = Times(read, a, k, n)
           /\ Times(read, a, k, n) # 0 <=> \E i \in 1 .. n : <<read[i], a>> = k
<1> DEFINE S(m) == {i \in 1 .. m : <<read[i], a>> = k}
<1>1. IsFiniteSet(S(n)) /\ Cardinality(S(n)) \in Nat
  <2>1. IsFiniteSet(1 .. n)
    BY FS_Interval
  <2>2. S(n) \subseteq 1 .. n
    OBVIOUS
  <2> HIDE DEF S
  <2> QED
    BY <2>1, <2>2, FS_Subset, FS_CardinalityType
<1>2. Cardinality(S(0)) = 0
  <2>1. S(0) = {}
    OBVIOUS
  <2> QED
    BY <2>1, FS_EmptySet
<1>3. ASSUME <<read[n + 1], a>> = k PROVE Cardinality(S(n + 1)) = Cardinality(S(n)) + 1
  <2>1. \A i \in 1 .. n + 1 : i \in 1 .. n \/ i = n + 1
    OBVIOUS
  <2>2. S(n + 1) = S(n) \cup {n + 1} /\ n + 1 \notin S(n)
    BY <1>3, <2>1
  <2> HIDE DEF S
  <2> QED
    BY <1>1, <2>2, FS_AddElement
<1>4. ASSUME <<read[n + 1], a>> # k PROVE Cardinality(S(n + 1)) = Cardinality(S(n))
  <2>1. \A i \in 1 .. n + 1 : i \in 1 .. n \/ i = n + 1
    OBVIOUS
  <2>2. S(n + 1) = S(n)
    BY <1>4, <2>1
  <2> QED
    BY <2>2
<1>5. Cardinality(S(n)) # 0 <=> \E i \in 1 .. n : <<read[i], a>> = k
  <2>1. S(n) # {} <=> \E i \in 1 .. n : <<read[i], a>> = k
    OBVIOUS
  <2> HIDE DEF S
  <2> QED
    BY <1>1, <2>1, FS_EmptySet
<1> QED
  BY <1>1, <1>2, <1>3, <1>4, <1>5 DEF Times

(* A whole read.                                                           *)
LEMMA WholeRead ==
    ASSUME NEW t \in Tables, NEW read \in Seq(Tags), NEW a \in Antennas
    PROVE  LET u == AddReads(t, read, a)
           IN /\ u \in Tables
              /\ Len(t) = MaxRows => Len(u) = MaxRows
              /\ \A k : HasRow(u, k) \/ Times(read, a, k, Len(read)) = 0
                          => RowCount(u, k) = RowCount(t, k) + Times(read, a, k, Len(read))
              /\ \A k : ~ HasRow(u, k) /\ Times(read, a, k, Len(read)) # 0 => Len(u) = MaxRows
<1>1. Len(read) \in Nat
  OBVIOUS
<1>2. PICK f : /\ f[0] = t /\ AddReads(t, read, a) = f[Len(read)]
               /\ \A n \in 0 .. Len(read) :
                    n + 1 \in 0 .. Len(read) => f[n + 1] = AddRead(f[n], read[n + 1], a)
  BY <1>1, AddReadsIs
<1> DEFINE c(k, n) == Times(read, a, k, n)
           Counted(n) == \A k : HasRow(f[n], k) \/ c(k, n) = 0
                                  => RowCount(f[n], k) = RowCount(t, k) + c(k, n)
           Refused(n) == \A k : ~ HasRow(f[n], k) /\ c(k, n) # 0 => Len(f[n]) = MaxRows
           Good == {n \in 0 .. Len(read) :
                      /\ f[n] \in Tables
                      /\ Len(t) = MaxRows => Len(f[n]) = MaxRows
                      /\ Counted(n) /\ Refused(n)}
<1>3. 0 \in Good
  <2>1. \A k : c(k, 0) = 0 /\ RowCount(t, k) + 0 = RowCount(t, k)
    BY OneMoreTime, CountOfRow
  <2>2. Counted(0) /\ Refused(0)
    BY <1>2, <2>1
  <2>3. 0 \in 0 .. Len(read)
    BY <1>1
  <2> QED
    BY <1>2, <2>2, <2>3
<1>4. ASSUME NEW n \in 0 .. Len(read), n + 1 \in 0 .. Len(read), n \in Good
      PROVE  n + 1 \in Good
  <2>1. /\ f[n] \in Tables /\ (Len(t) = MaxRows => Len(f[n]) = MaxRows)
        /\ Counted(n) /\ Refused(n)
    BY <1>4
  <2> DEFINE u == f[n + 1]
             x == <<read[n + 1], a>>
  <2>2. read[n + 1] \in Tags
    <3>1. n + 1 \in 1 .. Len(read)
      BY <1>1, <1>4
    <3> QED
      BY <3>1
  <2>3. u = AddRead(f[n], read[n + 1], a)
    BY <1>2, <1>4
  <2>4. /\ u \in Tables
        /\ Len(f[n]) = MaxRows => Len(u) = MaxRows
        /\ \A k : HasRow(f[n], k) => HasRow(u, k)
        /\ \A k : k # x => (HasRow(u, k) <=> HasRow(f[n], k)) /\ RowCount(u, k) = RowCount(f[n], k)
        /\ HasRow(u, x) => RowCount(u, x) = RowCount(f[n], x) + 1
        /\ ~ HasRow(u, x) => Len(u) = MaxRows
        /\ Len(f[n]) = MaxRows /\ ~ HasRow(f[n], x) => ~ HasRow(u, x)
    <3> HIDE DEF Good, u
    <3> QED
      BY <2>1, <2>2, <2>3, OneRead
  <2>5. /\ c(x, n + 1) = c(x, n) + 1
        /\ \A k : k # x => c(k, n + 1) = c(k, n)
        /\ \A k : c(k, n) \in Nat
    <3>1. n \in Nat
      BY <1>1, <1>4
    <3> HIDE DEF Good, u
    <3> QED
      BY <3>1, OneMoreTime
  <2>6. \A k : RowCount(t, k) \in Nat /\ RowCount(f[n], k) \in Nat
    BY <2>1, CountOfRow
  <2> HIDE DEF c, u, x
  <2>7. ASSUME NEW k, HasRow(u, k) \/ c(k, n + 1) = 0
        PROVE  RowCount(u, k) = RowCount(t, k) + c(k, n + 1)
    <3>1. CASE k # x
      <4>1. HasRow(f[n], k) \/ c(k, n) = 0
        BY <2>4, <2>5, <2>7, <3>1
      <4>2. RowCount(f[n], k) = RowCount(t, k) + c(k, n)
        BY <2>1, <4>1
      <4> QED
        BY <2>4, <2>5, <3>1, <4>2
    <3>2. CASE k = x
      <4>1. c(x, n + 1) # 0
        BY <2>5
      <4>2. HasRow(u, x)
        BY <2>7, <3>2, <4>1
      <4>3. HasRow(f[n], x) \/ c(x, n) = 0
        <5>1. ~ (Len(f[n]) = MaxRows /\ ~ HasRow(f[n], x))
          BY <2>4, <4>2
        <5> QED
          BY <2>1, <5>1
      <4>4. RowCount(f[n], x) = RowCount(t, x) + c(x, n)
        BY <2>1, <4>3
      <4>5. RowCount(u, x) = RowCount(f[n], x) + 1
        BY <2>4, <4>2
      <4> QED
        BY <2>5, <2>6, <3>2, <4>4, <4>5
    <3> QED
      BY <3>1, <3>2
  <2>8. ASSUME NEW k, ~ HasRow(u, k), c(k, n + 1) # 0
        PROVE  Len(u) = MaxRows
    <3>1. CASE k # x
      <4>1. ~ HasRow(f[n], k) /\ c(k, n) # 0
        BY <2>4, <2>5, <2>8, <3>1
      <4>2. Len(f[n]) = MaxRows
        BY <2>1, <4>1
      <4> QED
        BY <2>4, <4>2
    <3>2. CASE k = x
      BY <2>4, <2>8, <3>2
    <3> QED
      BY <3>1, <3>2
  <2>9. Len(t) = MaxRows => Len(u) = MaxRows
    BY <2>1, <2>4
  <2> QED
    BY <1>4, <2>4, <2>7, <2>8, <2>9 DEF u
<1> HIDE DEF Good
<1>5. \A n \in 0 .. Len(read) : n + 1 \in 0 .. Len(read) /\ n \in Good => n + 1 \in Good
  BY <1>4
<1>6. \A n \in 0 .. Len(read) : n \in Good
  BY <1>1, <1>3, <1>5, FromZero
<1>7. Len(read) \in Good
  BY <1>1, <1>6
<1> QED
  BY <1>2, <1>7 DEF Good

-----------------------------------------------------------------------------
(* The reads that are owed.                                                *)

Reads(o) == UNION {{k} \X (1 .. o[k]) : k \in DOMAIN o}

LEMMA OneMoreOwed ==
    ASSUME NEW o \in [Keys -> Nat], NEW x \in Keys, IsFiniteSet(Reads(o))
    PROVE  LET p == [o EXCEPT ![x] = @ + 1]
           IN /\ p \in [Keys -> Nat] /\ IsFiniteSet(Reads(p))
              /\ Cardinality(Reads(p)) = Cardinality(Reads(o)) + 1
<1> DEFINE p == [o EXCEPT ![x] = @ + 1]
           e == <<x, o[x] + 1>>
<1>1. p \in [Keys -> Nat] /\ p[x] = o[x] + 1 /\ \A k \in Keys : k # x => p[k] = o[k]
  OBVIOUS
<1> HIDE DEF p
<1>2. \A q, f : f \in [Keys -> Nat] =>
        (q \in Reads(f) <=> \E k \in Keys : \E i \in 1 .. f[k] : q = <<k, i>>)
  BY DEF Reads
<1>3. o[x] \in Nat
  OBVIOUS
<1>4. e \notin Reads(o)
  <2> SUFFICES ASSUME e \in Reads(o) PROVE FALSE
    OBVIOUS
  <2>1. PICK k \in Keys : \E i \in 1 .. o[k] : e = <<k, i>>
    BY <1>2
  <2>2. k = x /\ o[x] + 1 \in 1 .. o[x]
    BY <2>1
  <2> QED
    BY <1>3, <2>2
<1>5. ASSUME NEW q PROVE q \in Reads(p) <=> q \in Reads(o) \/ q = e
  <2>1. ASSUME q \in Reads(p) PROVE q \in Reads(o) \/ q = e
    <3>1. PICK k \in Keys : \E i \in 1 .. p[k] : q = <<k, i>>
      BY <1>1, <1>2, <2>1
    <3>i. PICK i \in 1 .. p[k] : q = <<k, i>>
      BY <3>1
    <3>2. CASE k # x
      <4>1. i \in 1 .. o[k]
        BY <1>1, <3>2
      <4> QED
        BY <1>2, <3>i, <4>1
    <3>3. CASE k = x
      <4>1. i \in 1 .. o[x] \/ i = o[x] + 1
        BY <1>1, <1>3, <3>3
      <4>2. CASE i \in 1 .. o[x]
        BY <1>2, <3>i, <3>3, <4>2
      <4>3. CASE i = o[x] + 1
        BY <3>i, <3>3, <4>3
      <4> QED
        BY <4>1, <4>2, <4>3
    <3> QED
      BY <3>2, <3>3
  <2>2. ASSUME q \in Reads(o) PROVE q \in Reads(p)
    <3>1. PICK k \in Keys : \E i \in 1 .. o[k] : q = <<k, i>>
      BY <1>2, <2>2
    <3>i. PICK i \in 1 .. o[k] : q = <<k, i>>
      BY <3>1
    <3>2. i \in 1 .. p[k]
      <4>1. o[k] \in Nat /\ (p[k] = o[k] \/ p[k] = o[k] + 1)
        BY <1>1
      <4> QED
        BY <4>1
    <3> QED
      BY <1>1, <1>2, <3>i, <3>2
  <2>3. e \in Reads(p)
    <3>1. o[x] + 1 \in 1 .. p[x]
      BY <1>1, <1>3
    <3> QED
      BY <1>1, <1>2, <3>1
  <2> QED
    BY <2>1, <2>2, <2>3
<1>6. Reads(p) = Reads(o) \cup {e}
  BY <1>5
<1>7. IsFiniteSet(Reads(p)) /\ Cardinality(Reads(p)) = Cardinality(Reads(o)) + 1
  <2> HIDE DEF e
  <2> QED
    BY <1>4, <1>6, FS_AddElement
<1> QED
  BY <1>1, <1>7 DEF p

(* A read of so many tags is owed so many times more.                      *)
LEMMA WholeReadOwed ==
    ASSUME NEW o \in [Keys -> Nat], NEW read \in Seq(Tags), NEW a \in Antennas,
           IsFiniteSet(Reads(o))
    PROVE  LET p == [k \in DOMAIN o |-> o[k] + Times(read, a, k, Len(read))]
           IN /\ p \in [Keys -> Nat] /\ IsFiniteSet(Reads(p))
              /\ Cardinality(Reads(p)) = Cardinality(Reads(o)) + Len(read)
<1> DEFINE p(n) == [k \in Keys |-> o[k] + Times(read, a, k, n)]
           Good == {n \in 0 .. Len(read) :
                      /\ p(n) \in [Keys -> Nat] /\ IsFiniteSet(Reads(p(n)))
                      /\ Cardinality(Reads(p(n))) = Cardinality(Reads(o)) + n}
<1>1. Len(read) \in Nat /\ DOMAIN o = Keys /\ Cardinality(Reads(o)) \in Nat
  BY FS_CardinalityType
<1>2. 0 \in Good
  <2>1. \A k \in Keys : Times(read, a, k, 0) = 0 /\ o[k] \in Nat
    BY OneMoreTime
  <2>2. p(0) = o
    BY <2>1
  <2> HIDE DEF p
  <2> QED
    BY <1>1, <2>2
<1>3. ASSUME NEW n \in 0 .. Len(read), n + 1 \in 0 .. Len(read), n \in Good
      PROVE  n + 1 \in Good
  <2> DEFINE x == <<read[n + 1], a>>
  <2>1. n \in Nat /\ x \in Keys
    <3>1. n + 1 \in 1 .. Len(read) /\ n \in Nat
      BY <1>1, <1>3
    <3> QED
      BY <3>1 DEF Keys
  <2>2. \A k \in Keys : /\ Times(read, a, k, n) \in Nat /\ o[k] \in Nat
                        /\ x = k => Times(read, a, k, n + 1) = Times(read, a, k, n) + 1
                        /\ x # k => Times(read, a, k, n + 1) = Times(read, a, k, n)
    BY <2>1, OneMoreTime
  <2> HIDE DEF x
  <2> DEFINE q == p(n)  r == p(n + 1)
  <2>3. r = [q EXCEPT ![x] = @ + 1]
    <3>1. DOMAIN q = Keys /\ DOMAIN r = Keys
      OBVIOUS
    <3>2. ASSUME NEW k \in Keys
          PROVE  r[k] = IF k = x THEN q[x] + 1 ELSE q[k]
      <4>1. q[k] = o[k] + Times(read, a, k, n) /\ r[k] = o[k] + Times(read, a, k, n + 1)
        OBVIOUS
      <4>2. q[x] = o[x] + Times(read, a, x, n)
        BY <2>1
      <4> HIDE DEF q, r, p, Good
      <4>3. CASE k = x
        BY <2>2, <4>1, <4>2, <4>3
      <4>4. CASE k # x
        BY <2>2, <4>1, <4>4
      <4> QED
        BY <4>3, <4>4
    <3>3. q = [k \in Keys |-> q[k]] /\ r = [k \in Keys |-> r[k]]
      OBVIOUS
    <3> HIDE DEF q, r, p, Good
    <3>4. [q EXCEPT ![x] = @ + 1] = [k \in Keys |-> IF k = x THEN q[x] + 1 ELSE q[k]]
      BY <3>1
    <3> QED
      BY <3>2, <3>3, <3>4
  <2>4. /\ p(n) \in [Keys -> Nat] /\ IsFiniteSet(Reads(p(n)))
        /\ Cardinality(Reads(p(n))) = Cardinality(Reads(o)) + n
    BY <1>3
  <2>5. /\ r \in [Keys -> Nat] /\ IsFiniteSet(Reads(r))
        /\ Cardinality(Reads(r)) = Cardinality(Reads(q)) + 1
    <3>1. q \in [Keys -> Nat] /\ IsFiniteSet(Reads(q))
      BY <2>4
    <3> HIDE DEF q, r, p, Good
    <3>2. /\ [q EXCEPT ![x] = @ + 1] \in [Keys -> Nat]
          /\ IsFiniteSet(Reads([q EXCEPT ![x] = @ + 1]))
          /\ Cardinality(Reads([q EXCEPT ![x] = @ + 1])) = Cardinality(Reads(q)) + 1
      BY <2>1, <3>1, OneMoreOwed
    <3> QED
      BY <2>3, <3>2
  <2>6. Cardinality(Reads(r)) = Cardinality(Reads(o)) + (n + 1)
    <3>1. Cardinality(Reads(q)) = Cardinality(Reads(o)) + n
      BY <2>4
    <3> HIDE DEF q, r, p, Good
    <3> QED
      BY <1>1, <2>1, <2>5, <3>1
  <2> HIDE DEF p
  <2> QED
    BY <1>3, <2>5, <2>6
<1> HIDE DEF Good
<1>4. \A n \in 0 .. Len(read) : n + 1 \in 0 .. Len(read) /\ n \in Good => n + 1 \in Good
  BY <1>3
<1>5. \A n \in 0 .. Len(read) : n \in Good
  BY <1>1, <1>2, <1>4, FromZero
<1>6. Len(read) \in Good
  BY <1>1, <1>5
<1> QED
  BY <1>1, <1>6 DEF Good

-----------------------------------------------------------------------------
(* The inductive invariant.                                                *)

Entries == [spec : AllRospecs, st : {"Disabled", "Inactive", "Active"}]

(* The ROSpecs, those of the list and those the client got back, are made  *)
(* of what ROSpecs are made of; while the executor thread runs, its ROSpec *)
(* stays in the list.                                                      *)
ListsTyped ==
    /\ list \in Seq(Entries) /\ saved \in Seq(AllRospecs)
    /\ thread # "idle" => rospec[1] \in DOMAIN list

(* The table, what is owed from it and the count.                          *)
TableCounts ==
    /\ rows \in Tables /\ owed \in [Keys -> Nat]
    /\ IsFiniteSet(Reads(owed)) /\ total = Cardinality(Reads(owed))
    /\ ~ full => OwedIsHeld
    /\ full => Len(rows) = MaxRows

(* What the client was not told of, and the report in the send buffer.     *)
ClientTold ==
    /\ untold \in [Keys -> Int] /\ sendBuf.rows \in Tables
    /\ ToldOnce

ReportsInv == ListsTyped /\ TableCounts /\ ClientTold

LEMMA InvAccounts == ASSUME ReportsInv PROVE ReadsAccounted
<1>1. list \in Seq(Entries) /\ rows \in Tables
  BY DEF ReportsInv, ListsTyped, TableCounts
<1>2. CopyWorksAlike
  <2> SUFFICES ASSUME NEW i \in DOMAIN list
               PROVE  LET spec == list[i].spec  copy == RospecCopy(spec)
                      IN /\ Walk(copy) = Walk(spec) /\ copy.stop = spec.stop
                         /\ AntennasSettings(power, RospecConfigs(copy))
                              = AntennasSettings(power, RospecConfigs(spec))
                         /\ ReportSettings(set, copy.report) = ReportSettings(set, spec.report)
    BY DEF CopyWorksAlike
  <2>1. list[i] \in Entries
    BY <1>1
  <2>2. list[i].spec \in AllRospecs
    BY <2>1 DEF Entries
  <2> QED
    BY <2>2, CopyWorks, RospecCopyTyped
<1>3. OneRowPerTag
  BY <1>1 DEF OneRowPerTag, Tables
<1>4. TotalIsOwed
  BY DEF ReportsInv, TableCounts, TotalIsOwed, Unreported, Reads
<1> QED
  BY <1>2, <1>3, <1>4 DEF ReadsAccounted, ReportsInv, TableCounts, ClientTold

LEMMA EmptyTable ==
    /\ << >> \in Tables
    /\ Nothing \in [Keys -> Nat] /\ DOMAIN Nothing = Keys /\ \A k \in Keys : Nothing[k] = 0
    /\ IsFiniteSet(Reads(Nothing)) /\ Cardinality(Reads(Nothing)) = 0
    /\ \A k : RowCount(<< >>, k) = 0
<1>1. << >> \in Tables
  BY ReportsAssumption DEF Tables
<1>2. Nothing \in [Keys -> Nat] /\ DOMAIN Nothing = Keys /\ \A k \in Keys : Nothing[k] = 0
  BY DEF Nothing, Keys
<1>3. Reads(Nothing) = {}
  <2>1. \A k \in Keys : {k} \X (1 .. Nothing[k]) = {}
    BY <1>2
  <2> QED
    BY <1>2, <2>1 DEF Reads
<1>4. IsFiniteSet(Reads(Nothing)) /\ Cardinality(Reads(Nothing)) = 0
  BY <1>3, FS_EmptySet
<1>5. \A k : RowCount(<< >>, k) = 0
  BY DEF RowCount
<1> QED
  BY <1>1, <1>2, <1>4, <1>5

LEMMA Emptied ==
    ASSUME rows' = << >>, total' = 0, owed' = Nothing, full' = FALSE
    PROVE  TableCounts'
BY EmptyTable DEF TableCounts, OwedIsHeld

LEMMA WalkTyped ==
    ASSUME NEW spec \in AllRospecs, NEW n \in DOMAIN Walk(spec)
    PROVE  Walk(spec)[n] \in Antennas
<1>1. AISpecs(spec) \in Seq(Parameters)
  BY AISpecsTyped
<1>2. Walk(spec) \in Seq(Antennas)
  <2>1. CASE AISpecs(spec) = << >>
    BY <2>1 DEF Walk
  <2>2. CASE AISpecs(spec) # << >>
    <3>1. AISpecs(spec)[1] \in Parameters
      BY <1>1, <2>2
    <3>2. AISpecs(spec)[1].ants \in Seq(Antennas)
      BY <3>1 DEF Parameters
    <3> QED
      BY <2>2, <3>2, ReportsAssumption DEF Walk
  <2> QED
    BY <2>1, <2>2
<1> QED
  BY <1>2

LEMMA ReadTagsCounts ==
    ASSUME ReportsInv, ReadTags
    PROVE  TableCounts' /\ ClientTold'
<1> DEFINE a == Walk(Running.spec)[ant]
<1>1. a \in Antennas
  <2>1. rospec[1] \in DOMAIN list /\ list \in Seq(Entries)
    BY DEF ReportsInv, ListsTyped, ReadTags, At
  <2>2. list[rospec[1]] \in Entries
    BY <2>1
  <2>3. Running.spec \in AllRospecs
    BY <2>2 DEF Running, Entries
  <2> QED
    BY <2>3, WalkTyped DEF ReadTags
<1> DEFINE times(read, k) == Cardinality({i \in DOMAIN read : <<read[i], a>> = k})
           refused(read) == \E i \in DOMAIN read :
                               \A j \in DOMAIN rows' : Key(rows'[j]) # <<read[i], a>>
<1>2. PICK read \in UNION {[1 .. n -> Tags] : n \in 1 .. MaxPerRead} :
        /\ rows' = AddReads(rows, read, a)
        /\ owed' = [k \in DOMAIN owed |-> owed[k] + times(read, k)]
        /\ untold' = [k \in DOMAIN untold |-> untold[k] + times(read, k)]
        /\ full' = (full \/ refused(read))
        /\ lost' = IF refused(read) THEN lost \union {"full"} ELSE lost
        /\ total' = total + Len(read)
  BY DEF ReadTags
<1>3. read \in Seq(Tags) /\ DOMAIN read = 1 .. Len(read) /\ Len(read) \in Nat
  <2>1. PICK n \in 1 .. MaxPerRead : read \in [1 .. n -> Tags]
    BY <1>2
  <2>2. n \in Nat
    BY ReportsAssumption
  <2>3. read \in Seq(Tags)
    BY <2>1, <2>2
  <2> QED
    BY <2>3
<1> HIDE DEF a
<1>4. /\ rows \in Tables /\ owed \in [Keys -> Nat]
      /\ IsFiniteSet(Reads(owed)) /\ total = Cardinality(Reads(owed))
      /\ ~ full => OwedIsHeld
      /\ full => Len(rows) = MaxRows
      /\ untold \in [Keys -> Int] /\ sendBuf.rows \in Tables
      /\ ToldOnce
  BY DEF ReportsInv, TableCounts, ClientTold
<1> DEFINE c(k) == Times(read, a, k, Len(read))
<1>5. /\ owed' = [k \in DOMAIN owed |-> owed[k] + c(k)]
      /\ untold' = [k \in DOMAIN untold |-> untold[k] + c(k)]
  BY <1>2, <1>3 DEF Times
<1>6. /\ owed' \in [Keys -> Nat] /\ IsFiniteSet(Reads(owed'))
      /\ Cardinality(Reads(owed')) = Cardinality(Reads(owed)) + Len(read)
  BY <1>1, <1>3, <1>4, <1>5, WholeReadOwed
<1>7. /\ rows' \in Tables
      /\ Len(rows) = MaxRows => Len(rows') = MaxRows
      /\ \A k : HasRow(rows', k) \/ c(k) = 0 => RowCount(rows', k) = RowCount(rows, k) + c(k)
      /\ \A k : ~ HasRow(rows', k) /\ c(k) # 0 => Len(rows') = MaxRows
  <2>1. rows' = AddReads(rows, read, a)
    BY <1>2
  <2> QED
    BY <1>1, <1>3, <1>4, <2>1, WholeRead
<1>8. \A k : c(k) \in Nat /\ (c(k) # 0 <=> \E i \in DOMAIN read : <<read[i], a>> = k)
  BY <1>3, OneMoreTime
<1> HIDE DEF c
<1>9. refused(read) <=> \E i \in DOMAIN read : ~ HasRow(rows', <<read[i], a>>)
  BY DEF HasRow
<1> HIDE DEF refused
<1>10. ASSUME full' PROVE Len(rows') = MaxRows
  BY <1>2, <1>4, <1>7, <1>8, <1>9, <1>10
<1>11. ASSUME ~ refused(read), NEW k PROVE RowCount(rows', k) = RowCount(rows, k) + c(k)
  <2>1. HasRow(rows', k) \/ c(k) = 0
    BY <1>8, <1>9, <1>11
  <2> QED
    BY <1>7, <2>1
<1>12. ASSUME ~ full' PROVE OwedIsHeld'
  <2>1. \A k \in DOMAIN owed : owed[k] = RowCount(rows, k)
    BY <1>2, <1>4, <1>12 DEF OwedIsHeld
  <2>2. ASSUME NEW k \in DOMAIN owed PROVE owed'[k] = RowCount(rows', k)
    <3>1. RowCount(rows', k) = RowCount(rows, k) + c(k)
      BY <1>2, <1>11, <1>12
    <3> QED
      BY <1>5, <2>1, <2>2, <3>1
  <2>3. DOMAIN owed' = DOMAIN owed
    BY <1>5
  <2> QED
    BY <2>2, <2>3 DEF OwedIsHeld
<1>13. total' = Cardinality(Reads(owed'))
  BY <1>2, <1>4, <1>6
<1>14. untold' \in [Keys -> Int] /\ DOMAIN untold' = DOMAIN untold
       /\ \A k \in DOMAIN untold : untold[k] \in Int /\ untold'[k] = untold[k] + c(k)
  BY <1>4, <1>5, <1>8
<1>15. \A k : RowCount(rows, k) \in Nat /\ RowCount(rows', k) \in Nat
  BY <1>4, <1>7, CountOfRow
<1>16. ASSUME NEW k PROVE RowCount(rows', k) <= RowCount(rows, k) + c(k)
  <2>1. CASE HasRow(rows', k) \/ c(k) = 0
    <3>1. RowCount(rows', k) = RowCount(rows, k) + c(k)
      BY <1>7, <2>1
    <3> QED
      BY <1>15, <3>1
  <2>2. CASE ~ HasRow(rows', k)
    <3>1. RowCount(rows', k) = 0
      BY <1>7, <2>2, CountOfRow
    <3> QED
      BY <1>8, <1>15, <3>1
  <2> QED
    BY <2>1, <2>2
<1>17. ASSUME lost' = {}, NEW k \in DOMAIN untold' PROVE untold'[k] = RowCount(rows', k)
  <2>1. ~ refused(read) /\ lost = {}
    BY <1>2, <1>17
  <2>2. untold[k] = RowCount(rows, k)
    BY <1>4, <1>14, <1>17, <2>1 DEF ToldOnce
  <2>3. RowCount(rows', k) = RowCount(rows, k) + c(k)
    BY <1>11, <2>1
  <2> QED
    BY <1>14, <1>17, <2>2, <2>3
<1>18. ASSUME "overwritten" \notin lost', NEW k \in DOMAIN untold'
       PROVE  untold'[k] >= RowCount(rows', k)
  <2>1. "overwritten" \notin lost
    BY <1>2, <1>18
  <2>2. untold[k] >= RowCount(rows, k)
    BY <1>4, <1>14, <1>18, <2>1 DEF ToldOnce
  <2>3. /\ untold[k] \in Int /\ untold'[k] = untold[k] + c(k) /\ c(k) \in Nat
        /\ RowCount(rows, k) \in Nat /\ RowCount(rows', k) \in Nat
        /\ RowCount(rows', k) <= RowCount(rows, k) + c(k)
    BY <1>8, <1>14, <1>15, <1>16, <1>18
  <2> QED
    BY ONLY <2>2, <2>3
<1>19. ToldOnce'
  BY <1>17, <1>18 DEF ToldOnce
<1>20. sendBuf' = sendBuf
  BY DEF ReadTags, sendVars
<1>21. TableCounts'
  BY <1>6, <1>7, <1>10, <1>12, <1>13 DEF TableCounts
<1>22. ClientTold'
  BY <1>4, <1>14, <1>19, <1>20 DEF ClientTold
<1> QED
  BY <1>21, <1>22

(* The send buffer holds a report of rows, or a message that tells of none. *)
LEMMA EncodeTyped ==
    ASSUME TableCounts, ClientTold, NEW s, NEW kind, NEW frame \in {OtherFrame, ReportOf(rows)},
           Encode(s, kind, frame)
    PROVE  sendBuf'.rows \in Tables
<1>1. rows \in Tables /\ << >> \in Tables
  BY EmptyTable DEF TableCounts
<1>2. sendBuf' \in {OtherFrame, ReportOf(rows), Torn}
  BY DEF Encode
<1> QED
  BY <1>1, <1>2 DEF OtherFrame, ReportOf, Torn

(* Sending leaves as much untold as the table holds afterwards, if that is *)
(* the table before without what it sends of it.                           *)
LEMMA SendTells ==
    ASSUME TableCounts, ClientTold, NEW s, NEW own, NEW ok \in BOOLEAN, Send(s, own, ok),
           \/ own = OtherFrame /\ UNCHANGED rows
           \/ own = ReportOf(rows) /\ rows' = << >>
    PROVE  ClientTold'
<1> DEFINE arrives == ok /\ stream /\ sendBuf.whole
           out(k) == RowCount(sendBuf.rows, k)
<1>1. /\ rows \in Tables /\ untold \in [Keys -> Int] /\ sendBuf.rows \in Tables
      /\ ToldOnce
  BY DEF TableCounts, ClientTold
<1>2. /\ untold' = [k \in DOMAIN untold |-> IF arrives THEN untold[k] - out(k) ELSE untold[k]]
      /\ lost' = lost \union (IF ok /\ stream THEN {} ELSE {"send"})
                      \union (IF sendBuf = own THEN {} ELSE {"overwritten"})
      /\ UNCHANGED sendBuf
  BY DEF Send
<1>3. \A k : out(k) \in Nat /\ RowCount(rows, k) \in Nat
  BY <1>1, CountOfRow
<1>4. \A k : RowCount(<< >>, k) = 0
  BY EmptyTable
<1>5. ASSUME sendBuf = own
      PROVE  sendBuf.whole /\ \A k : RowCount(rows', k) = RowCount(rows, k) - out(k)
  BY <1>3, <1>4, <1>5 DEF OtherFrame, ReportOf
<1> HIDE DEF out
<1>6. /\ untold' \in [Keys -> Int] /\ DOMAIN untold' = DOMAIN untold
      /\ \A k \in DOMAIN untold : untold[k] \in Int
      /\ \A k \in DOMAIN untold :
            untold'[k] = IF arrives THEN untold[k] - out(k) ELSE untold[k]
  BY <1>1, <1>2, <1>3
<1>7. ASSUME lost' = {}, NEW k \in DOMAIN untold' PROVE untold'[k] = RowCount(rows', k)
  <2>1. ok /\ stream /\ sendBuf = own /\ lost = {}
    BY <1>2, <1>7
  <2>2. arrives /\ RowCount(rows', k) = RowCount(rows, k) - out(k)
    BY <1>5, <2>1
  <2>3. untold[k] = RowCount(rows, k)
    BY <1>1, <1>6, <1>7, <2>1 DEF ToldOnce
  <2> QED
    BY <1>6, <1>7, <2>2, <2>3
<1>8. ASSUME "overwritten" \notin lost', NEW k \in DOMAIN untold'
      PROVE  untold'[k] >= RowCount(rows', k)
  <2>1. sendBuf = own /\ "overwritten" \notin lost
    BY <1>2, <1>8
  <2>2. RowCount(rows', k) = RowCount(rows, k) - out(k)
    BY <1>5, <2>1
  <2>3. untold[k] >= RowCount(rows, k)
    BY <1>1, <1>6, <1>8, <2>1 DEF ToldOnce
  <2>4. /\ untold[k] \in Int /\ out(k) \in Nat /\ RowCount(rows, k) \in Nat
        /\ untold'[k] = untold[k] - out(k) \/ untold'[k] = untold[k]
    BY <1>3, <1>6, <1>8 DEF out
  <2> QED
    BY ONLY <2>2, <2>3, <2>4
<1>9. ToldOnce'
  BY <1>7, <1>8 DEF ToldOnce
<1> QED
  BY <1>1, <1>2, <1>6, <1>9 DEF ClientTold

LEMMA SendReportCounts ==
    ASSUME TableCounts, ClientTold, NEW s, SendReport(s)
    PROVE  TableCounts' /\ ClientTold'
<1>1. TableCounts'
  BY Emptied DEF SendReport
<1>2. PICK ok \in BOOLEAN : Send(s, ReportOf(rows), ok)
  BY DEF SendReport
<1>3. rows' = << >>
  BY DEF SendReport
<1>4. ClientTold'
  BY <1>2, <1>3, SendTells
<1> QED
  BY <1>1, <1>4

LEMMA BeginReportCounts ==
    ASSUME TableCounts, ClientTold, NEW s, BeginReport(s)
    PROVE  TableCounts' /\ ClientTold'
<1>1. CASE Fits /\ Encode(s, "report", ReportOf(rows)) /\ UNCHANGED <<stream, tableVars>>
  <2>1. sendBuf'.rows \in Tables
    BY <1>1, EncodeTyped
  <2>2. UNCHANGED tableVars
    BY <1>1
  <2> QED
    BY <2>1, <2>2 DEF TableCounts, ClientTold, ToldOnce, OwedIsHeld, tableVars
<1>2. CASE ~ Fits /\ sendBuf' = Torn /\ lost' = lost \union {"large"} /\ UNCHANGED untold
           /\ rows' = << >> /\ total' = 0 /\ owed' = Nothing /\ full' = FALSE
  <2>1. TableCounts'
    BY <1>2, Emptied
  <2>2. sendBuf'.rows \in Tables
    BY <1>2, EmptyTable DEF Torn
  <2>3. ASSUME "overwritten" \notin lost', NEW k \in DOMAIN untold'
        PROVE  untold'[k] >= RowCount(rows', k)
    <3>1. untold[k] >= RowCount(rows, k) /\ untold'[k] = untold[k]
      BY <1>2, <2>3 DEF ClientTold, ToldOnce
    <3>2. untold[k] \in Int /\ RowCount(rows, k) \in Nat
      BY <1>2, <2>3, CountOfRow DEF ClientTold, TableCounts
    <3>3. RowCount(rows', k) = 0
      BY <1>2, EmptyTable
    <3> QED
      BY ONLY <3>1, <3>2, <3>3
  <2>4. lost' # {}
    BY <1>2
  <2>5. ToldOnce'
    BY <2>3, <2>4 DEF ToldOnce
  <2> QED
    BY <1>2, <2>1, <2>2, <2>5 DEF ClientTold
<1> QED
  BY <1>1, <1>2 DEF BeginReport

LEMMA TableStep ==
    ASSUME ReportsInv, [ReportsNext]_reportsVars
    PROVE  TableCounts' /\ ClientTold'
<1> USE DEF ReportsInv
<1>1. ASSUME UNCHANGED tableVars, sendBuf'.rows \in Tables PROVE TableCounts' /\ ClientTold'
  BY <1>1 DEF TableCounts, ClientTold, ToldOnce, tableVars, OwedIsHeld
<1>2. ASSUME NEW s, Others(s), UNCHANGED tableVars PROVE TableCounts' /\ ClientTold'
  <2>1. Encode(s, "other", OtherFrame)
    BY <1>2 DEF Others
  <2>2. sendBuf'.rows \in Tables
    BY <2>1, EncodeTyped
  <2> QED
    BY <1>1, <1>2, <2>2
<1>3. ASSUME UNCHANGED sendVars, UNCHANGED tableVars PROVE TableCounts' /\ ClientTold'
  BY <1>1, <1>3 DEF sendVars, ClientTold
<1>4. ASSUME NextAntenna, UNCHANGED tableVars PROVE TableCounts' /\ ClientTold'
  BY <1>2, <1>3, <1>4 DEF NextAntenna
<1>5. CASE SetReaderConfig
  BY <1>2, <1>5 DEF SetReaderConfig
<1>6. CASE AddRospec
  BY <1>2, <1>6 DEF AddRospec
<1>7. CASE GetRospecs
  <2>1. UNCHANGED tableVars /\ (Others("agent") \/ sendBuf' = Torn)
    BY <1>7 DEF GetRospecs
  <2>2. Torn.rows \in Tables
    BY EmptyTable DEF Torn
  <2> QED
    BY <1>1, <1>2, <2>1, <2>2
<1>8. CASE GetReport
  <2>1. CASE BeginReport("agent")
    BY <2>1, BeginReportCounts
  <2>2. CASE UNCHANGED <<sendVars, tableVars>>
    BY <1>3, <2>2
  <2> QED
    BY <1>8, <2>1, <2>2 DEF GetReport
<1>9. CASE NewSession
  <2>1. Encode("agent", "other", OtherFrame) /\ UNCHANGED tableVars
    BY <1>9 DEF NewSession
  <2>2. sendBuf'.rows \in Tables
    BY <2>1, EncodeTyped
  <2> QED
    BY <1>1, <2>1, <2>2
<1>10. CASE KeepAlive
  BY <1>2, <1>10 DEF KeepAlive
<1>11. CASE \E i \in DOMAIN list : EnableRospec(i) \/ StartRospec(i) \/ StopRospec(i)
  BY <1>2, <1>11 DEF EnableRospec, StartRospec, StopRospec
<1>12. CASE SendOther
  <2>1. PICK s \in Senders, ok \in BOOLEAN : Send(s, OtherFrame, ok)
    BY <1>12 DEF SendOther
  <2>2. UNCHANGED <<rows, total, owed, full>>
    BY <1>12 DEF SendOther
  <2>3. ClientTold'
    BY <2>1, <2>2, SendTells
  <2>4. TableCounts'
    BY <2>2 DEF TableCounts, OwedIsHeld
  <2> QED
    BY <2>3, <2>4
<1>13. CASE \E s \in Senders : SendReport(s)
  BY <1>13, SendReportCounts
<1>14. CASE ThreadInit
  <2>1. TableCounts'
    BY <1>14, Emptied DEF ThreadInit
  <2>2. sendBuf'.rows \in Tables
    <3>1. Encode("executor", "other", OtherFrame)
      BY <1>14 DEF ThreadInit, Others
    <3> QED
      BY <3>1, EncodeTyped
  <2>3. untold' = Nothing /\ rows' = << >>
    BY <1>14 DEF ThreadInit
  <2>4. ToldOnce' /\ untold' \in [Keys -> Int]
    BY <2>3, EmptyTable DEF ToldOnce
  <2> QED
    BY <2>1, <2>2, <2>4 DEF ClientTold
<1>15. CASE ReadTags
  BY <1>15, ReadTagsCounts
<1>16. CASE ReadNothing
  BY <1>4, <1>16 DEF ReadNothing
<1>17. CASE SendTagsReport
  <2>1. CASE BeginReport("executor")
    BY <2>1, BeginReportCounts
  <2>2. CASE UNCHANGED <<sendVars, tableVars>>
    BY <1>3, <2>2
  <2> QED
    BY <1>17, <2>1, <2>2 DEF SendTagsReport
<1>18. CASE CheckStop
  BY <1>4, <1>18 DEF CheckStop
<1>19. CASE ThreadExit
  BY <1>3, <1>19 DEF ThreadExit
<1>20. CASE ReadFails
  BY <1>3, <1>20 DEF ReadFails
<1>21. CASE UNCHANGED reportsVars
  BY <1>3, <1>21 DEF reportsVars
<1> QED
  BY <1>5, <1>6, <1>7, <1>8, <1>9, <1>10, <1>11, <1>12, <1>13, <1>14, <1>15, <1>16,
     <1>17, <1>18, <1>19, <1>20, <1>21
     DEF ReportsNext

(* A list that grows or whose entries change their state keeps its entries. *)
LEMMA ListKept ==
    ASSUME list \in Seq(Entries)
    PROVE  /\ \A spec \in AllRospecs :
                LET next == Append(list, [spec |-> spec, st |-> "Disabled"])
                IN next \in Seq(Entries) /\ DOMAIN list \subseteq DOMAIN next
           /\ \A i \in DOMAIN list : \A s \in {"Disabled", "Inactive", "Active"} :
                LET next == [list EXCEPT ![i].st = s]
                IN next \in Seq(Entries) /\ DOMAIN next = DOMAIN list
<1>1. ASSUME NEW spec \in AllRospecs
      PROVE  LET next == Append(list, [spec |-> spec, st |-> "Disabled"])
             IN next \in Seq(Entries) /\ DOMAIN list \subseteq DOMAIN next
  <2> DEFINE e == [spec |-> spec, st |-> "Disabled"]
  <2>1. e \in Entries
    BY DEF Entries
  <2> HIDE DEF e
  <2>2. Append(list, e) \in Seq(Entries) /\ DOMAIN list \subseteq DOMAIN Append(list, e)
    BY <2>1
  <2> QED
    BY <2>2 DEF e
<1>2. ASSUME NEW i \in DOMAIN list, NEW s \in {"Disabled", "Inactive", "Active"}
      PROVE  LET next == [list EXCEPT ![i].st = s]
             IN next \in Seq(Entries) /\ DOMAIN next = DOMAIN list
  <2> DEFINE e == [list[i] EXCEPT !.st = s]
  <2>1. list[i] \in Entries
    OBVIOUS
  <2>2. e \in Entries
    BY <2>1 DEF Entries
  <2>3. [list EXCEPT ![i].st = s] = [list EXCEPT ![i] = e]
    OBVIOUS
  <2> HIDE DEF e
  <2>4. [list EXCEPT ![i] = e] \in Seq(Entries) /\ DOMAIN [list EXCEPT ![i] = e] = DOMAIN list
    BY <2>2
  <2> QED
    BY <2>3, <2>4
<1> QED
  BY <1>1, <1>2

LEMMA ListsStep ==
    ASSUME ListsTyped, [ReportsNext]_reportsVars
    PROVE  ListsTyped'
<1>1. /\ list \in Seq(Entries) /\ saved \in Seq(AllRospecs)
      /\ thread # "idle" => rospec[1] \in DOMAIN list
  BY DEF ListsTyped
<1>2. ASSUME UNCHANGED listVars, thread # "idle" \/ thread' = "idle" \/ UNCHANGED thread
      PROVE  ListsTyped'
  BY <1>1, <1>2 DEF ListsTyped, listVars
<1>3. CASE SetReaderConfig
  BY <1>2, <1>3 DEF SetReaderConfig
<1>4. CASE AddRospec
  <2>1. PICK spec \in Rospecs \union ToSet(saved) :
            \/ UNCHANGED list
            \/ list' = Append(list, [spec |-> spec, st |-> "Disabled"])
    BY <1>4 DEF AddRospec
  <2>2. spec \in AllRospecs
    <3>1. \A s \in ToSet(saved) : s \in AllRospecs
      BY <1>1 DEF ToSet
    <3> QED
      BY <3>1, ReportsAssumption
  <2>3. list' \in Seq(Entries) /\ DOMAIN list \subseteq DOMAIN list'
    BY <1>1, <2>1, <2>2, ListKept
  <2>4. UNCHANGED <<saved, rospec, thread>>
    BY <1>4 DEF AddRospec
  <2> QED
    BY <1>1, <2>3, <2>4 DEF ListsTyped
<1>5. CASE GetRospecs
  <2>1. UNCHANGED <<list, rospec, thread>>
    BY <1>5 DEF GetRospecs
  <2>2. saved' \in Seq(AllRospecs)
    <3>1. CASE UNCHANGED saved
      BY <1>1, <3>1
    <3>2. CASE saved' = [i \in DOMAIN list |-> RospecCopy(list[i].spec)]
      <4>1. \A e \in Entries : RospecCopy(e.spec) \in AllRospecs
        BY RospecCopyTyped DEF Entries
      <4>2. /\ DOMAIN list = 1 .. Len(list) /\ Len(list) \in Nat
            /\ \A i \in DOMAIN list : list[i] \in Entries
        BY <1>1
      <4>3. \A i \in DOMAIN list : RospecCopy(list[i].spec) \in AllRospecs
        BY <4>1, <4>2
      <4> QED
        BY <3>2, <4>2, <4>3
    <3> QED
      BY <1>5, <3>1, <3>2 DEF GetRospecs
  <2> QED
    BY <1>1, <2>1, <2>2 DEF ListsTyped
<1>6. CASE GetReport
  BY <1>2, <1>6 DEF GetReport
<1>7. CASE NewSession
  BY <1>1, <1>7 DEF NewSession, ListsTyped
<1>8. CASE \E i \in DOMAIN list : EnableRospec(i) \/ StartRospec(i) \/ StopRospec(i)
  <2>1. PICK i \in DOMAIN list : EnableRospec(i) \/ StartRospec(i) \/ StopRospec(i)
    BY <1>8
  <2>2. PICK s \in {"Disabled", "Inactive", "Active"} : list' = [list EXCEPT ![i].st = s]
    BY <2>1 DEF EnableRospec, StartRospec, StopRospec
  <2>3. list' \in Seq(Entries) /\ DOMAIN list' = DOMAIN list
    BY <1>1, <2>2, ListKept
  <2>4. UNCHANGED saved /\ (UNCHANGED <<rospec, thread>> \/ rospec' = <<i>>)
    BY <2>1 DEF EnableRospec, StartRospec, StopRospec
  <2>5. thread' # "idle" => rospec'[1] \in DOMAIN list
    BY <1>1, <2>1, <2>4
  <2> QED
    BY <1>1, <2>3, <2>4, <2>5 DEF ListsTyped
<1>9. CASE ThreadInit
  BY <1>2, <1>9 DEF ThreadInit, At
<1>10. CASE ReadTags
  BY <1>2, <1>10 DEF ReadTags, At
<1>11. CASE ReadNothing
  BY <1>2, <1>11 DEF ReadNothing, At
<1>12. CASE SendTagsReport
  BY <1>2, <1>12 DEF SendTagsReport, At
<1>13. CASE ReadFails
  BY <1>2, <1>13 DEF ReadFails
<1>14. CASE KeepAlive
  BY <1>2, <1>14 DEF KeepAlive
<1>15. CASE SendOther
  BY <1>2, <1>15 DEF SendOther
<1>16. CASE \E s \in Senders : SendReport(s)
  BY <1>2, <1>16 DEF SendReport
<1>17. CASE CheckStop
  BY <1>2, <1>17 DEF CheckStop, At
<1>18. CASE ThreadExit
  BY <1>2, <1>18 DEF ThreadExit
<1>19. CASE UNCHANGED reportsVars
  BY <1>2, <1>19 DEF reportsVars
<1> QED
  BY <1>3, <1>4, <1>5, <1>6, <1>7, <1>8, <1>9, <1>10, <1>11, <1>12, <1>13, <1>14,
     <1>15, <1>16, <1>17, <1>18, <1>19
     DEF ReportsNext

LEMMA ReportsInitial == ASSUME ReportsInit PROVE ReportsInv
<1>1. TableCounts
  BY EmptyTable DEF ReportsInit, TableCounts, OwedIsHeld
<1>2. ListsTyped
  BY DEF ReportsInit, ListsTyped
<1>3. ClientTold
  BY EmptyTable DEF ReportsInit, ClientTold, ToldOnce, OtherFrame
<1> QED
  BY <1>1, <1>2, <1>3 DEF ReportsInv

(* Every read of a tag since the start is in exactly one report that has   *)
(* reached the client or still in the table, under its own tag and         *)
(* antenna, unless the table was full when it came, its report did not fit *)
(* the send buffer, a send failed or was short, or the agent and the       *)
(* executor thread met in the send buffer; only the last can report a read *)
(* twice.  The count that decides when a report is due is the number of    *)
(* reads since the table was last emptied; and a ROSpec restored from      *)
(* GET_ROSPECS does what the original did (llrp_ROSpecExecutor.cpp,        *)
(* llrp_MntAgent.cpp): for any tags, antennas, ROSpecs and settings, any   *)
(* sizes of the table and of the buffer, and any interleaving of the       *)
(* client, the agent and the executor.                                     *)
THEOREM ReadsAllAccounted == ReportsSpec => []ReadsAccounted
<1>1. ReportsInit => ReportsInv
  BY ReportsInitial
<1>2. ReportsInv /\ [ReportsNext]_reportsVars => ReportsInv'
  <2> SUFFICES ASSUME ReportsInv, [ReportsNext]_reportsVars PROVE ReportsInv'
    OBVIOUS
  <2>1. TableCounts' /\ ClientTold'
    BY TableStep
  <2>2. ListsTyped'
    BY ListsStep DEF ReportsInv
  <2> QED
    BY <2>1, <2>2 DEF ReportsInv
<1>3. ReportsInv => ReadsAccounted
  BY InvAccounts
<1> QED
  BY <1>1, <1>2, <1>3, PTL DEF ReportsSpec
=============================================================================
