--------------------------- MODULE NetworkProofs ----------------------------
(***************************************************************************)
(* The network, as MicAgent sees it: one request of jnh_get(), for any     *)
(* timeouts, answers and buffers, and NetworkMonitor, which makes them,    *)
(* with its observer.                                                      *)
(***************************************************************************)
EXTENDS HttpGet, NetworkMonitor, WellFoundedInduction, SequenceTheorems, TLAPS

-----------------------------------------------------------------------------
(* The timeouts of a request.                                              *)

Deadline == IF TimeoutAll <= startConnect + TimeoutAfterDNS
            THEN TimeoutAll ELSE startConnect + TimeoutAfterDNS

(***************************************************************************)
(* DeadlineKept is not inductive: time passes in select(), so its end must *)
(* not lie behind the deadline either.                                     *)
(***************************************************************************)
IInv ==
  /\ now \in Nat /\ startConnect \in Nat \cup {Never} /\ until \in Nat \cup {Never}
  /\ pc \in {"socket", "dns"} => startConnect = Never /\ until = Never
  /\ until # Never => startConnect # Never /\ now <= until /\ until <= Deadline
  /\ startConnect # Never => now = startConnect \/ now <= Deadline
  /\ pc \in {"connect", "connecting", "write", "header", "body"} => startConnect # Never

LEMMA MinOfTwo ==
  ASSUME NEW a \in Int, NEW b \in Int
  PROVE  Min({a, b}) = IF a <= b THEN a ELSE b
BY DEF Min

LEMMA StepInv == IInv /\ [Next]_vars => IInv'
<1> SUFFICES ASSUME IInv, [Next]_vars PROVE IInv'
  OBVIOUS
<1> USE HttpAssumption
<1> USE DEF IInv, Deadline, Never, Return
<1>1. CASE OpenSocket
  BY <1>1 DEF OpenSocket
<1>2. CASE Resolve
  BY <1>2 DEF Resolve
<1>3. CASE Connect
  BY <1>3 DEF Connect
<1>4. CASE Select
  <2>1. startConnect \in Nat /\ now' = now /\ startConnect' = startConnect
    BY <1>4 DEF Select
  <2>2. CASE until' = Never /\ pc' = "done"
    BY <2>1, <2>2
  <2>3. CASE /\ pc' = pc
             /\ until' = now + Min({TimeoutAll - now, TimeoutAfterDNS - (now - startConnect)})
             /\ TimeoutAll - now > 0 /\ TimeoutAfterDNS - (now - startConnect) > 0
    <3>1. /\ until' \in Nat /\ now <= until'
          /\ until' <= TimeoutAll /\ until' <= startConnect + TimeoutAfterDNS
      BY <2>1, <2>3, MinOfTwo
    <3> QED BY <1>4, <2>1, <2>3, <3>1 DEF Select
  <2> QED BY <1>4, <2>1, <2>2, <2>3 DEF Select
<1>5. CASE ClockFails
  BY <1>5 DEF ClockFails
<1>6. CASE SelectExpires
  BY <1>6 DEF SelectExpires
<1>7. CASE Connected
  BY <1>7 DEF Connected
<1>8. CASE Write
  BY <1>8 DEF Write
<1>9. CASE RecvHeader
  <2>1. now' = now /\ startConnect' = startConnect /\ startConnect # Never
    BY <1>9 DEF RecvHeader
  <2>2. until' = Never /\ pc' \in {"header", "body", "done"}
    BY <1>9 DEF RecvHeader
  <2> QED BY <2>1, <2>2
<1>10. CASE RecvBody
  BY <1>10 DEF RecvBody
<1>11. CASE Tick
  BY <1>11 DEF Tick
<1>12. CASE Deliver \/ Close \/ UNCHANGED vars
  BY <1>12 DEF Deliver, Close, vars, callVars
<1> QED
  BY <1>1, <1>2, <1>3, <1>4, <1>5, <1>6, <1>7, <1>8, <1>9, <1>10, <1>11, <1>12
  DEF Next, Call

(* Once the resolver has answered, the call never lasts longer than the    *)
(* shorter rest of the two timeouts.                                       *)
THEOREM TimeoutsKept == Spec => []DeadlineKept
<1>1. Init => IInv
  BY DEF Init, IInv, Never
<1>2. IInv => DeadlineKept
  <2> SUFFICES ASSUME IInv, startConnect # Never
               PROVE  now = startConnect
                        \/ now <= Min({TimeoutAll, startConnect + TimeoutAfterDNS})
    BY DEF DeadlineKept
  <2>1. Min({TimeoutAll, startConnect + TimeoutAfterDNS}) = Deadline
    BY HttpAssumption, MinOfTwo DEF Deadline, IInv
  <2> QED BY <2>1 DEF IInv
<1> QED BY <1>1, <1>2, StepInv, PTL DEF Spec

-----------------------------------------------------------------------------
(* Least and greatest numbers, and what the parser's operators return.     *)

NatLess == OpToRel(<, Nat)

LEMMA NatLessIs ==
  /\ IsWellFoundedOn(NatLess, Nat)
  /\ \A k, m \in Nat : <<k, m>> \in NatLess <=> k < m
<1>1. IsWellFoundedOn(NatLess, Nat)
  BY NatLessThanWellFounded, Zenon DEF NatLess
<1>2. NatLess = {ss \in Nat \X Nat : ss[1] < ss[2]}
  BY Zenon DEF NatLess, OpToRel
<1>3. \A k, m \in Nat : <<k, m>> \in NatLess <=> k < m
  BY <1>2
<1> QED BY <1>1, <1>3

LEMMA LeastExists ==
  ASSUME NEW S \in SUBSET Nat, S # {}
  PROVE  \E m \in S : \A k \in S : m <= k
<1>1. IsWellFoundedOn(NatLess, Nat) /\ S \subseteq Nat
  BY NatLessIs
<1>2. PICK m \in S : \A k \in S : <<k, m>> \notin NatLess
  BY <1>1, WFMin
<1>3. SUFFICES ASSUME NEW k \in S PROVE m <= k
  OBVIOUS
<1>4. m \in Nat /\ k \in Nat
  OBVIOUS
<1>5. ~ (k < m)
  BY <1>2, <1>4, NatLessIs
<1> QED BY <1>4, <1>5

LEMMA MinIs ==
  ASSUME NEW S \in SUBSET Nat, S # {}
  PROVE  Min(S) \in S /\ \A k \in S : Min(S) <= k
<1>1. \E m \in S : \A k \in S : m <= k
  BY LeastExists
<1> QED BY <1>1 DEF Min

LEMMA MaxIn ==
  ASSUME NEW e \in Nat, NEW S \in SUBSET (0..e), S # {}
  PROVE  Max(S) \in S
<1> DEFINE T == {m \in 0..e : e - m \in S}
<1>1. T \in SUBSET Nat /\ T # {}
  <2>1. PICK k \in S : TRUE
    OBVIOUS
  <2>2. e - k \in T /\ T \subseteq Nat
    BY <2>1
  <2> HIDE DEF T
  <2> QED BY <2>2
<1>2. PICK m \in T : \A k \in T : m <= k
  BY <1>1, LeastExists
<1>3. e - m \in S /\ \A k \in S : e - m >= k
  <2>1. \A k \in S : e - k \in T
    OBVIOUS
  <2> QED BY <1>2, <2>1
<1>4. \E x \in S : \A y \in S : x >= y
  BY <1>3
<1> QED BY <1>4 DEF Max

LEMMA LineEndsType ==
  ASSUME NEW b, NEW e \in Nat
  PROVE  LineEndsBefore(b, e) \in 0..e + 1
<1> DEFINE S == {n \in 0..e + 1 : \A i \in e + 2 - n..e + 1 : b[i] \in {"r", "n"}}
<1>1. 0 \in S
  OBVIOUS
<1>2. S \in SUBSET (0..e + 1) /\ e + 1 \in Nat
  OBVIOUS
<1>3. LineEndsBefore(b, e) = Max(S)
  BY DEF LineEndsBefore
<1> HIDE DEF S
<1> QED BY <1>1, <1>2, <1>3, MaxIn

\* Where b holds the bytes of `what`, in front of its first NUL.
Hit(b, what, i) ==
  /\ i \in DOMAIN b /\ \A j \in 1..i : b[j] # "0"
  /\ \A k \in DOMAIN what :
       /\ i + k - 1 \in DOMAIN b
       /\ \A j \in 1..i + k - 1 : b[j] # "0"
       /\ b[i + k - 1] = what[k]

LEMMA StrstrIs ==
  ASSUME NEW b, NEW n \in Nat, DOMAIN b = 1..n, NEW what
  PROVE  \/ Strstr(b, what) = 0 /\ \A i : ~Hit(b, what, i)
         \/ /\ Strstr(b, what) \in 1..n /\ Hit(b, what, Strstr(b, what))
            /\ \A i : Hit(b, what, i) => Strstr(b, what) <= i
<1> DEFINE text == {i \in DOMAIN b : \A j \in 1..i : b[j] # "0"}
           hits == {i \in text : \A k \in DOMAIN what :
                      i + k - 1 \in text /\ b[i + k - 1] = what[k]}
<1>1. \A i : i \in hits <=> Hit(b, what, i)
  BY DEF Hit
<1>2. Strstr(b, what) = IF hits = {} THEN 0 ELSE Min(hits)
  BY DEF Strstr
<1>3. hits \in SUBSET Nat /\ hits \subseteq 1..n
  OBVIOUS
<1> HIDE DEF hits
<1>4. hits # {} => Min(hits) \in hits /\ \A k \in hits : Min(hits) <= k
  BY <1>3, MinIs
<1> QED BY <1>1, <1>2, <1>3, <1>4

LEMMA ReceivedIs ==
  ASSUME TypeOK, NEW n \in Int
  PROVE  /\ Received(n) \in Seq(Bytes) /\ Len(Received(n)) \in Nat
         /\ taken + Len(Received(n)) <= arrived
         /\ n >= 0 => Len(Received(n)) = IF taken + n <= arrived THEN n ELSE arrived - taken
         /\ n < 0 => Len(Received(n)) = 0
         /\ Received(n) = SubSeq(answer, taken + 1, taken + Len(Received(n)))
         /\ \A i \in 1..Len(Received(n)) : Received(n)[i] = answer[taken + i]
<1> DEFINE m == Min({taken + n, arrived})
<1>1. /\ answer \in Seq(Bytes) /\ taken \in Nat /\ arrived \in Nat /\ taken <= arrived
      /\ arrived <= Len(answer) /\ Len(answer) \in Nat
  BY AnswersAssumption, LenProperties DEF TypeOK
<1>2. m = IF taken + n <= arrived THEN taken + n ELSE arrived
  BY <1>1, MinOfTwo
<1>3. Received(n) = SubSeq(answer, taken + 1, m)
  BY DEF Received
<1> HIDE DEF m
<1>4. m \in Int /\ \A i \in taken + 1..m : answer[i] \in Bytes
  <2> SUFFICES ASSUME NEW i \in taken + 1..m PROVE answer[i] \in Bytes
    BY <1>1, <1>2
  <2>1. i \in 1..Len(answer)
    BY <1>1, <1>2
  <2> QED BY <1>1, <2>1, ElementOfSeq
<1>5. /\ Received(n) \in Seq(Bytes)
      /\ Len(Received(n)) = IF taken + 1 <= m THEN m - taken ELSE 0
      /\ \A i \in 1..m - taken : Received(n)[i] = answer[taken + i]
  BY <1>1, <1>3, <1>4, SubSeqProperties
<1>6. Received(n) = SubSeq(answer, taken + 1, taken + Len(Received(n)))
  <2>1. CASE taken + 1 <= m
    <3>1. taken + Len(Received(n)) = m
      BY <1>1, <1>4, <1>5, <2>1
    <3> QED BY <1>3, <3>1
  <2>2. CASE ~ (taken + 1 <= m)
    <3>1. Len(Received(n)) = 0
      BY <1>5, <2>2
    <3>2. m < taken + 1 /\ taken + Len(Received(n)) < taken + 1
      BY <1>1, <1>4, <2>2, <3>1
    <3> QED BY <1>1, <1>3, <1>4, <3>1, <3>2, SubSeqEmpty
  <2> QED BY <2>1, <2>2
<1>7. /\ Len(Received(n)) \in Nat
      /\ taken + Len(Received(n)) <= arrived
      /\ n >= 0 => Len(Received(n)) = IF taken + n <= arrived THEN n ELSE arrived - taken
      /\ n < 0 => Len(Received(n)) = 0
  BY <1>1, <1>2, <1>4, <1>5
<1> QED BY <1>1, <1>4, <1>5, <1>6, <1>7

-----------------------------------------------------------------------------
(* Types of a request.                                                     *)

\* A piece of the header in the buffer: it fits.
LEMMA FilledIs ==
  ASSUME TypeOK, NEW got, got = Received(BufLen - idx)
  PROVE  /\ got \in Seq(Bytes) /\ Len(got) \in Nat /\ idx + Len(got) <= BufLen
         /\ taken + Len(got) <= arrived
         /\ \A i \in 1..Len(got) : got[i] = answer[taken + i]
         /\ Filled(got) \in [1..BufLen + 1 -> Bytes]
<1>1. BufLen \in Nat /\ idx \in Nat /\ BufLen - idx \in Nat
  BY HttpAssumption DEF TypeOK, TailLen
<1>2. /\ got \in Seq(Bytes) /\ Len(got) \in Nat /\ idx + Len(got) <= BufLen
      /\ taken + Len(got) <= arrived
      /\ \A i \in 1..Len(got) : got[i] = answer[taken + i]
  <2>1. /\ got \in Seq(Bytes) /\ Len(got) \in Nat /\ taken + Len(got) <= arrived
        /\ Len(got) = IF taken + (BufLen - idx) <= arrived THEN BufLen - idx ELSE arrived - taken
        /\ \A i \in 1..Len(got) : got[i] = answer[taken + i]
    BY <1>1, ReceivedIs
  <2>2. taken \in Nat /\ arrived \in Nat
    BY AnswersAssumption, LenProperties DEF TypeOK
  <2> QED BY <1>1, <2>1, <2>2
<1>3. \A i \in idx + 1..idx + Len(got) : got[i - idx] \in Bytes
  <2> SUFFICES ASSUME NEW i \in idx + 1..idx + Len(got) PROVE got[i - idx] \in Bytes
    OBVIOUS
  <2>1. i - idx \in 1..Len(got)
    BY <1>1, <1>2
  <2> QED BY <1>2, <2>1, ElementOfSeq
<1>4. buf \in [1..BufLen + 1 -> Bytes]
  BY DEF TypeOK
<1>5. Filled(got) \in [1..BufLen + 1 -> Bytes]
  BY <1>3, <1>4 DEF Filled
<1> QED BY <1>2, <1>5

LEMMA HeaderTypes == TypeOK /\ RecvHeader => TypeOK'
<1> SUFFICES ASSUME TypeOK, RecvHeader PROVE TypeOK'
  OBVIOUS
<1> DEFINE got == Received(BufLen - idx)
           rd  == Len(got)
           b   == Filled(got)
           end == Strstr(b, <<"n", "r", "n">>)
           len == rd - (end + 2)
           carry == LineEndsBefore(b, idx + rd)
<1>1. /\ got \in Seq(Bytes) /\ rd \in Nat /\ idx + rd <= BufLen /\ taken + rd <= arrived
      /\ b \in [1..BufLen + 1 -> Bytes] /\ idx \in Nat
  BY FilledIs DEF TypeOK
<1>2. carry \in 0..idx + rd + 1
  BY <1>1, LineEndsType
<1>3. end \in 0..BufLen + 1
  BY <1>1, StrstrIs, HttpAssumption
<1>4. pc = "header" /\ UNCHANGED <<now, startConnect, netVars>>
  BY DEF RecvHeader
<1>5. pc' \in {"header", "body", "done"} /\ result' \in Results \cup {"none"}
      /\ until' \in Nat \cup {Never}
  BY <1>4 DEF RecvHeader, Return, Results, TypeOK, parseVars
<1>6. sock' = (pc' \notin {"socket", "done"})
  BY <1>4 DEF RecvHeader, Return, TypeOK
<1>7. whole' \in BOOLEAN
  BY DEF RecvHeader, ReadsEmptyLine, TypeOK, parseVars
<1>8. rspCode' \in {"unset", "none", "200"}
  BY DEF RecvHeader, TypeOK, parseVars
<1>9. taken' \in 0..arrived' /\ bodyLen' \in Nat
  BY <1>1, <1>4 DEF RecvHeader, TypeOK, parseVars, netVars
<1>10. idx' \in 0..TailLen
  <2>1. \/ idx' = idx
        \/ idx' = carry /\ carry <= TailLen
    BY DEF RecvHeader, parseVars
  <2> HIDE DEF carry
  <2> QED BY <1>1, <1>2, <2>1 DEF TypeOK, TailLen
<1>11. buf' \in [1..BufLen + 1 -> Bytes]
  <2>1. \/ buf' = buf
        \/ buf' = b
        \/ buf' = CarryOver(b, carry, idx + rd)
    BY DEF RecvHeader, parseVars
  <2> HIDE DEF carry, b, rd
  <2>2. CarryOver(b, carry, idx + rd) \in [1..BufLen + 1 -> Bytes]
    <3>1. \A i \in 1..BufLen + 1 : i <= carry => idx + rd + 1 - carry + i \in 1..BufLen + 1
      BY <1>1, <1>2, HttpAssumption
    <3> QED BY <1>1, <3>1 DEF CarryOver
  <2> QED BY <1>1, <2>1, <2>2 DEF TypeOK
<1>12. body' \in Seq(Bytes)
  <2>1. \/ body' = body
        \/ body' = SubSeq(b, end + 3, end + 2 + Min({len, bodyLen}))
    BY DEF RecvHeader, parseVars
  <2>2. len \in Int /\ bodyLen \in Nat /\ Min({len, bodyLen}) <= len /\ Min({len, bodyLen}) \in Int
    <3>1. len \in Int /\ bodyLen \in Nat
      BY <1>1, <1>3 DEF TypeOK
    <3> HIDE DEF len
    <3> QED BY <3>1, MinOfTwo
  <2> DEFINE last == end + 2 + Min({len, bodyLen})
  <2>3. last \in Int /\ last <= BufLen
    BY <1>1, <1>3, <2>2, HttpAssumption
  <2> HIDE DEF last, end, b
  <2>4. \A i \in end + 3..last : b[i] \in Bytes
    BY <1>1, <1>3, <2>3, HttpAssumption
  <2>5. SubSeq(b, end + 3, last) \in Seq(Bytes)
    BY <1>3, <2>3, <2>4, SubSeqProperties
  <2> QED BY <2>1, <2>5 DEF TypeOK, last
<1> QED BY <1>4, <1>5, <1>6, <1>7, <1>8, <1>9, <1>10, <1>11, <1>12 DEF TypeOK, netVars

LEMMA BodyTypes == TypeOK /\ RecvBody => TypeOK'
<1> SUFFICES ASSUME TypeOK, RecvBody PROVE TypeOK'
  OBVIOUS
<1> DEFINE got == Received(bodyLen - Len(body))
<1>1. got \in Seq(Bytes) /\ Len(got) \in Nat /\ taken + Len(got) <= arrived /\ Len(body) \in Nat
  <2>1. Len(body) \in Nat /\ bodyLen \in Nat
    BY LenProperties DEF TypeOK
  <2>2. bodyLen - Len(body) \in Int
    BY <2>1
  <2> QED BY <2>1, <2>2, ReceivedIs
<1>2. body \o got \in Seq(Bytes)
  BY <1>1, ConcatProperties DEF TypeOK
<1>3. pc = "body" /\ UNCHANGED <<now, startConnect, buf, idx, rspCode, whole, netVars>>
  BY DEF RecvBody
<1>4. /\ pc' \in {"body", "done"} /\ result' \in Results \cup {"none"}
      /\ until' \in Nat \cup {Never}
  BY <1>3 DEF RecvBody, Return, Results, TypeOK
<1>5. sock' = (pc' \notin {"socket", "done"})
  BY <1>3 DEF RecvBody, Return, TypeOK
<1>6. body' \in Seq(Bytes) /\ bodyLen' \in Nat
  BY <1>1, <1>2 DEF RecvBody, TypeOK
<1>7. taken' \in 0..arrived'
  BY <1>1, <1>3 DEF RecvBody, TypeOK, netVars
<1> QED BY <1>3, <1>4, <1>5, <1>6, <1>7 DEF TypeOK, netVars

\* The steps that leave the buffer, the body and the answer alone.
LEMMA CallTypes ==
  ASSUME TypeOK,
         OpenSocket \/ Resolve \/ Connect \/ Select \/ ClockFails \/ SelectExpires \/ Connected
           \/ Write \/ Tick
  PROVE  TypeOK'
<1> USE DEF Return, Results
<1>1. UNCHANGED <<buf, body, bodyLen, taken, whole, netVars>>
  BY DEF OpenSocket, Resolve, Connect, Select, ClockFails, SelectExpires, Connected, Write, Tick,
         parseVars
<1>2. idx' \in 0..TailLen /\ rspCode' \in {"unset", "none", "200"}
  BY DEF OpenSocket, Resolve, Connect, Select, ClockFails, SelectExpires, Connected, Write, Tick,
         parseVars, TypeOK, TailLen
<1>3. now' \in Nat /\ startConnect' \in Nat \cup {Never}
  BY DEF OpenSocket, Resolve, Connect, Select, ClockFails, SelectExpires, Connected, Write, Tick,
         TypeOK, Never
<1>4. until' \in Nat \cup {Never}
  <2>1. CASE Select
    <3> DEFINE t1 == TimeoutAll - now
               t2 == TimeoutAfterDNS - (now - startConnect)
    <3>1. t1 \in Int /\ t2 \in Int /\ now \in Nat
      BY HttpAssumption DEF TypeOK, Never
    <3>2. until' = Never \/ (t1 > 0 /\ t2 > 0 /\ until' = now + Min({t1, t2}))
      BY <2>1, <3>1 DEF Select
    <3> HIDE DEF t1, t2
    <3> QED BY <3>1, <3>2, MinOfTwo
  <2>2. CASE ~Select
    BY <2>2 DEF OpenSocket, Resolve, Connect, ClockFails, SelectExpires, Connected, Write, Tick,
                TypeOK
  <2> QED BY <2>1, <2>2
<1>5. /\ pc' \in {"socket", "dns", "connect", "connecting", "write", "header", "body", "done"}
      /\ result' \in Results \cup {"none"}
  BY DEF OpenSocket, Resolve, Connect, Select, ClockFails, SelectExpires, Connected, Write, Tick,
         TypeOK
<1>6. sock' = (pc' \notin {"socket", "done"})
  <2>1. CASE pc' = "done" /\ sock' = FALSE
    BY <2>1
  <2>2. CASE pc' \notin {"socket", "done"} /\ sock' = TRUE
    BY <2>2
  <2>3. CASE pc' = pc /\ sock' = sock
    BY <2>3 DEF TypeOK
  <2>4. pc \notin {"socket", "done"} => sock = TRUE
    BY DEF TypeOK
  <2> QED BY <2>1, <2>2, <2>3, <2>4
          DEF OpenSocket, Resolve, Connect, Select, ClockFails, SelectExpires, Connected, Write,
              Tick
<1> QED BY <1>1, <1>2, <1>3, <1>4, <1>5, <1>6 DEF TypeOK, netVars

LEMMA NetTypes == TypeOK /\ (Deliver \/ Close \/ UNCHANGED vars) => TypeOK'
<1> SUFFICES ASSUME TypeOK, Deliver \/ Close \/ UNCHANGED vars PROVE TypeOK'
  OBVIOUS
<1>1. UNCHANGED callVars /\ answer' = answer
  BY DEF Deliver, Close, vars, netVars
<1>2. arrived' \in 0..Len(answer) /\ taken \in 0..arrived' /\ peer' \in {"open", "closed", "reset"}
  <2>1. Len(answer) \in Nat
    BY AnswersAssumption, LenProperties DEF TypeOK
  <2> QED BY <2>1 DEF Deliver, Close, vars, netVars, TypeOK
<1> QED BY <1>1, <1>2 DEF TypeOK, callVars, parseVars

LEMMA TypesFirst == Init => TypeOK
<1> SUFFICES ASSUME Init PROVE TypeOK
  OBVIOUS
<1>1. buf \in [1..BufLen + 1 -> Bytes]
  BY DEF Init, Bytes
<1>2. body \in Seq(Bytes) /\ bodyLen \in Nat
  BY HttpAssumption, EmptySeq DEF Init
<1>3. sock = (pc \notin {"socket", "done"})
  BY DEF Init
<1>4. whole \in BOOLEAN
  BY DEF Init
<1>5. arrived \in 0..Len(answer) /\ taken \in 0..arrived /\ answer \in Answers
  BY AnswersAssumption, LenProperties DEF Init
<1>6. idx \in 0..TailLen /\ now \in Nat
  BY DEF Init, TailLen
<1> QED BY <1>1, <1>2, <1>3, <1>4, <1>5, <1>6 DEF Init, TypeOK

LEMMA TypesKept == TypeOK /\ [Next]_vars => TypeOK'
BY HeaderTypes, BodyTypes, CallTypes, NetTypes DEF Next, Call

\* The state of a request has its types: what is carried over fits its four
\* bytes, and the socket is open exactly while the call runs.
THEOREM TypeCorrect == Spec => []TypeOK
BY TypesFirst, TypesKept, PTL DEF Spec

-----------------------------------------------------------------------------
(* What the answer of a request means.                                     *)

EmptyLine == <<"n", "r", "n">>
HeaderLen == Strstr(answer, EmptyLine) + 2

(***************************************************************************)
(* OkIsAnswer speaks of the end only.  On the way, the body is what was    *)
(* read of the answer behind its header, a caller that has read nothing    *)
(* writes at the start of the buffer, and the status line is there as soon *)
(* as anything was read.                                                   *)
(***************************************************************************)
BodySoFar ==
  /\ HeaderLen <= taken /\ Strstr(answer, EmptyLine) # 0
  /\ body = SubSeq(answer, HeaderLen + 1, taken) /\ Len(body) <= bodyLen

AnswerInv ==
  /\ OkIsAnswer
  /\ pc # "done" => result = "none" /\ bodyLen \in BodyLens
  /\ pc \notin {"body", "done"} => ~whole
  /\ pc \in {"socket", "dns", "connect", "connecting", "write"} => taken = 0
  /\ pc = "header" /\ taken = 0 => idx = 0
  /\ pc = "header" => rspCode = "200" \/ (rspCode = "none" /\ taken = 0)
  /\ pc = "body" => rspCode = "200"
  /\ peer = "closed" => arrived = Len(answer)
  /\ pc = "body" /\ whole => BodySoFar

LEMMA SliceIs ==
  ASSUME TypeOK, NEW m \in Nat, NEW n \in Nat, n <= Len(answer)
  PROVE  /\ SubSeq(answer, m + 1, n) \in Seq(Bytes)
         /\ Len(SubSeq(answer, m + 1, n)) = IF m <= n THEN n - m ELSE 0
         /\ \A i \in 1..n - m : SubSeq(answer, m + 1, n)[i] = answer[m + i]
<1>1. answer \in Seq(Bytes) /\ Len(answer) \in Nat
  BY AnswersAssumption, LenProperties DEF TypeOK
<1>2. \A i \in m + 1..n : answer[i] \in Bytes
  <2> SUFFICES ASSUME NEW i \in m + 1..n PROVE answer[i] \in Bytes
    OBVIOUS
  <2>1. i \in 1..Len(answer)
    BY <1>1
  <2> QED BY <1>1, <2>1, ElementOfSeq
<1> QED BY <1>2, SubSeqProperties

LEMMA SameSlice ==
  ASSUME NEW s, NEW t, NEW m \in Nat, NEW n \in Nat,
         \A i \in m + 1..m + n : s[i] = t[i] /\ s[i] \in Bytes
  PROVE  /\ SubSeq(s, m + 1, m + n) = SubSeq(t, m + 1, m + n)
         /\ Len(SubSeq(t, m + 1, m + n)) = n
<1>1. /\ m + 1 \in Int /\ m + n \in Int /\ m + n - (m + 1) + 1 = n
      /\ (IF m + 1 <= m + n THEN m + n - (m + 1) + 1 ELSE 0) = n
      /\ \A i \in 1..n : m + 1 + i - 1 \in m + 1..m + n
  OBVIOUS
<1>2. /\ SubSeq(s, m + 1, m + n) \in Seq(Bytes) /\ Len(SubSeq(s, m + 1, m + n)) = n
      /\ \A i \in 1..n : SubSeq(s, m + 1, m + n)[i] = s[m + 1 + i - 1]
  BY <1>1, SubSeqProperties
<1>3. /\ SubSeq(t, m + 1, m + n) \in Seq(Bytes) /\ Len(SubSeq(t, m + 1, m + n)) = n
      /\ \A i \in 1..n : SubSeq(t, m + 1, m + n)[i] = t[m + 1 + i - 1]
  <2>1. \A i \in m + 1..m + n : t[i] \in Bytes
    OBVIOUS
  <2> QED BY <1>1, <2>1, SubSeqProperties
<1>4. \A i \in 1..n : SubSeq(s, m + 1, m + n)[i] = SubSeq(t, m + 1, m + n)[i]
  BY <1>1, <1>2, <1>3
<1> QED BY <1>2, <1>3, <1>4, SeqEqual

\* The first n bytes of the body that was sent.
LEMMA SentBodyIs ==
  ASSUME TypeOK, NEW n \in Nat, HeaderLen \in Nat, HeaderLen + n <= Len(answer)
  PROVE  /\ SubSeq(SentBody, 1, n) = SubSeq(answer, HeaderLen + 1, HeaderLen + n)
         /\ HeaderLen + n = Len(answer) =>
              SubSeq(answer, HeaderLen + 1, HeaderLen + n) = SentBody
<1> DEFINE h == HeaderLen
<1>1. Len(answer) \in Nat /\ Strstr(answer, EmptyLine) + 3 = h + 1
  <2>1. Strstr(answer, EmptyLine) \in Int
    <3>1. Len(answer) \in Nat /\ DOMAIN answer = 1..Len(answer)
      BY AnswersAssumption, LenProperties DEF TypeOK
    <3> QED BY <3>1, StrstrIs
  <2>2. Len(answer) \in Nat
    BY AnswersAssumption, LenProperties DEF TypeOK
  <2> QED BY <2>1, <2>2 DEF HeaderLen
<1>2. SentBody = SubSeq(answer, h + 1, Len(answer))
  BY <1>1 DEF SentBody, EmptyLine
<1> HIDE DEF h
<1>3. h \in Nat /\ h + n <= Len(answer)
  BY DEF h
<1>4. /\ SentBody \in Seq(Bytes) /\ Len(SentBody) = Len(answer) - h
      /\ \A i \in 1..Len(answer) - h : SentBody[i] = answer[h + i]
  <2> DEFINE l == Len(answer)
  <2>1. l \in Nat /\ h <= l /\ l <= Len(answer)
    BY <1>1, <1>3
  <2> HIDE DEF l
  <2>2. /\ SubSeq(answer, h + 1, l) \in Seq(Bytes) /\ Len(SubSeq(answer, h + 1, l)) = l - h
        /\ \A i \in 1..l - h : SubSeq(answer, h + 1, l)[i] = answer[h + i]
    BY <1>3, <2>1, SliceIs
  <2> QED BY <1>2, <2>2 DEF l
<1>5. /\ SubSeq(answer, h + 1, h + n) \in Seq(Bytes) /\ Len(SubSeq(answer, h + 1, h + n)) = n
      /\ \A i \in 1..n : SubSeq(answer, h + 1, h + n)[i] = answer[h + i]
  <2> DEFINE m == h + n
  <2>1. m \in Nat /\ h <= m /\ m <= Len(answer) /\ m - h = n
    BY <1>3
  <2> HIDE DEF m
  <2>2. /\ SubSeq(answer, h + 1, m) \in Seq(Bytes) /\ Len(SubSeq(answer, h + 1, m)) = n
        /\ \A i \in 1..m - h : SubSeq(answer, h + 1, m)[i] = answer[h + i]
    BY <1>3, <2>1, SliceIs
  <2> QED BY <2>1, <2>2 DEF m
<1>6. /\ SubSeq(SentBody, 1, n) \in Seq(Bytes) /\ Len(SubSeq(SentBody, 1, n)) = n
      /\ \A i \in 1..n : SubSeq(SentBody, 1, n)[i] = SentBody[i]
  <2>1. \A i \in 1..n : SentBody[i] \in Bytes
    <3> SUFFICES ASSUME NEW i \in 1..n PROVE SentBody[i] \in Bytes
      OBVIOUS
    <3>1. i \in 1..Len(SentBody)
      BY <1>1, <1>3, <1>4
    <3> QED BY <1>4, <3>1, ElementOfSeq
  <2>2. /\ SubSeq(SentBody, 1, n) \in Seq(Bytes)
        /\ Len(SubSeq(SentBody, 1, n)) = IF 1 <= n THEN n - 1 + 1 ELSE 0
        /\ \A i \in 1..n - 1 + 1 : SubSeq(SentBody, 1, n)[i] = SentBody[1 + i - 1]
    BY <2>1, SubSeqProperties
  <2>3. n - 1 + 1 = n /\ \A i \in 1..n : 1 + i - 1 = i
    OBVIOUS
  <2> QED BY <2>2, <2>3
<1>7. \A i \in 1..n : SubSeq(SentBody, 1, n)[i] = SubSeq(answer, h + 1, h + n)[i]
  <2> SUFFICES ASSUME NEW i \in 1..n
               PROVE  SubSeq(SentBody, 1, n)[i] = SubSeq(answer, h + 1, h + n)[i]
    OBVIOUS
  <2>1. i \in 1..Len(answer) - h
    BY <1>1, <1>3
  <2>2. SentBody[i] = answer[h + i]
    BY <1>4, <2>1
  <2> QED BY <1>5, <1>6, <2>2
<1>8. SubSeq(SentBody, 1, n) = SubSeq(answer, h + 1, h + n)
  BY <1>5, <1>6, <1>7, SeqEqual
<1> QED BY <1>2, <1>8 DEF h

\* A piece that holds the first empty line of the answer, at the start of the
\* buffer: the search in the buffer finds it.
LEMMA EmptyLineFound ==
  ASSUME TypeOK, NEW got, got = Received(BufLen - idx), ReadsEmptyLine(Len(got))
  PROVE  /\ Strstr(answer, EmptyLine) = taken + Strstr(Filled(got), EmptyLine)
         /\ Strstr(Filled(got), EmptyLine) \in Nat \ {0}
         /\ Strstr(Filled(got), EmptyLine) + 2 < Len(got)
         /\ \A i \in 1..Len(got) : Filled(got)[i] = answer[taken + i]
<1> DEFINE b   == Filled(got)
           rd  == Len(got)
           end == Strstr(b, EmptyLine)
           s   == Strstr(answer, EmptyLine)
           at  == s - taken
<1>1. /\ Len(answer) \in Nat /\ DOMAIN answer = 1..Len(answer) /\ arrived <= Len(answer)
      /\ arrived \in Nat /\ taken \in Nat
  BY AnswersAssumption, LenProperties DEF TypeOK
<1>2. /\ rd \in Nat /\ rd <= BufLen /\ taken + rd <= Len(answer) /\ BufLen + 1 \in Nat
      /\ DOMAIN b = 1..BufLen + 1
      /\ \A i \in 1..rd : b[i] = answer[taken + i]
  <2>1. /\ rd \in Nat /\ idx + rd <= BufLen /\ taken + rd <= arrived
        /\ b \in [1..BufLen + 1 -> Bytes]
        /\ \A i \in 1..rd : got[i] = answer[taken + i]
    BY FilledIs
  <2>2. idx = 0
    BY DEF ReadsEmptyLine
  <2>3. \A i \in 1..rd : b[i] = got[i]
    <3> SUFFICES ASSUME NEW i \in 1..rd PROVE b[i] = got[i]
      OBVIOUS
    <3>1. i \in idx + 1..idx + rd /\ i - idx = i /\ i \in 1..BufLen + 1
      BY <2>1, <2>2, HttpAssumption
    <3>2. buf \in [1..BufLen + 1 -> Bytes]
      BY DEF TypeOK
    <3> QED BY <3>1, <3>2 DEF Filled
  <2> QED BY <1>1, <2>1, <2>2, <2>3, HttpAssumption
<1>3. taken < s /\ s + 2 < taken + rd
  BY DEF ReadsEmptyLine, EmptyLine
<1> HIDE DEF b, rd
<1>4. s \in Nat /\ Hit(answer, EmptyLine, s) /\ \A i : Hit(answer, EmptyLine, i) => s <= i
  <2>1. s # 0
    BY <1>1, <1>3
  <2> QED BY <1>1, <2>1, StrstrIs
<1> HIDE DEF s
<1>5. at \in Nat \ {0} /\ at + 2 < rd /\ taken + at = s
  BY <1>1, <1>2, <1>3, <1>4
<1>6. \A j \in 1..s + 2 : answer[j] # "0"
  <2>1. 3 \in DOMAIN EmptyLine
    BY DEF EmptyLine
  <2>2. \A j \in 1..s + 3 - 1 : answer[j] # "0"
    BY <1>4, <2>1 DEF Hit
  <2> QED BY <1>4, <2>2
<1> HIDE DEF at
<1>7. \A j \in 1..at + 2 : /\ j \in 1..rd /\ taken + j \in 1..s + 2 /\ b[j] = answer[taken + j]
                           /\ b[j] # "0"
  <2>1. \A j \in 1..at + 2 : j \in 1..rd /\ taken + j \in 1..s + 2
    BY <1>1, <1>2, <1>4, <1>5
  <2> QED BY <1>2, <1>6, <2>1
<1>8. Hit(b, EmptyLine, at)
  <2>1. \A j \in 1..at : j \in 1..at + 2
    BY <1>5
  <2>2. at \in 1..BufLen + 1 /\ BufLen \in Nat
    BY <1>2, <1>5, HttpAssumption
  <2>4. DOMAIN EmptyLine = 1..3
    BY DEF EmptyLine
  <2>3. ASSUME NEW k \in 1..3
        PROVE  /\ at + k - 1 \in DOMAIN b /\ \A j \in 1..at + k - 1 : b[j] # "0"
               /\ b[at + k - 1] = EmptyLine[k]
    <3> DEFINE p == at + k - 1
    <3>4. at \in Nat /\ s \in Nat /\ taken \in Nat /\ at + 2 <= BufLen /\ taken + at = s
      BY <1>1, <1>2, <1>4, <1>5, <2>2
    <3>1. p \in 1..at + 2 /\ p \in 1..BufLen + 1 /\ taken + p = s + k - 1
          /\ \A j \in 1..p : j \in 1..at + 2
      BY <1>5, <2>2, <3>4
    <3> HIDE DEF p
    <3>5. Hit(answer, EmptyLine, s)
      BY <1>4
    <3>2. answer[s + k - 1] = EmptyLine[k]
      BY <2>4, <3>5 DEF Hit
    <3>3. p \in DOMAIN b /\ (\A j \in 1..p : b[j] # "0") /\ b[p] = EmptyLine[k]
      BY <1>2, <1>7, <3>1, <3>2
    <3> QED BY <3>3 DEF p
  <2> QED BY <1>2, <1>7, <2>1, <2>2, <2>3, <2>4 DEF Hit
<1>9. end \in Nat \ {0} /\ Hit(b, EmptyLine, end) /\ end <= at
  BY <1>2, <1>8, StrstrIs
<1> HIDE DEF end
<1>10. Hit(answer, EmptyLine, taken + end)
  <2>1. DOMAIN EmptyLine = 1..3
    BY DEF EmptyLine
  <2>2. /\ taken + end \in 1..Len(answer)
        /\ \A j \in 1..taken + end : answer[j] # "0"
    <3>1. taken + end \in 1..Len(answer) /\ \A j \in 1..taken + end : j \in 1..s + 2
      BY <1>1, <1>2, <1>4, <1>5, <1>9
    <3> QED BY <1>6, <3>1
  <2>3. ASSUME NEW k \in 1..3
        PROVE  /\ taken + end + k - 1 \in DOMAIN answer
               /\ \A j \in 1..taken + end + k - 1 : answer[j] # "0"
               /\ answer[taken + end + k - 1] = EmptyLine[k]
    <3> DEFINE p == end + k - 1
               q == taken + end + k - 1
    <3>1. p \in 1..at + 2 /\ q = taken + p /\ q \in 1..Len(answer)
          /\ \A j \in 1..q : j \in 1..s + 2
      BY <1>1, <1>2, <1>4, <1>5, <1>9
    <3>2. b[p] = EmptyLine[k]
      BY <1>9, <2>1 DEF Hit
    <3> HIDE DEF p, q
    <3>3. q \in DOMAIN answer /\ (\A j \in 1..q : answer[j] # "0") /\ answer[q] = EmptyLine[k]
      BY <1>1, <1>6, <1>7, <3>1, <3>2
    <3> QED BY <3>3 DEF q
  <2> QED BY <1>1, <2>1, <2>2, <2>3 DEF Hit
<1>11. s = taken + end
  <2>1. s <= taken + end
    BY <1>4, <1>10
  <2> QED BY <1>1, <1>4, <1>5, <1>9, <2>1
<1>12. end + 2 < rd
  BY <1>2, <1>5, <1>9
<1> QED BY <1>2, <1>9, <1>11, <1>12 DEF s, end, b, rd

\* Where the body begins, once the empty line was read in one piece.
LEMMA WholeHeader ==
  ASSUME TypeOK, NEW got, got = Received(BufLen - idx), ReadsEmptyLine(Len(got)),
         NEW end, end = Strstr(Filled(got), EmptyLine),
         NEW n \in Nat, end + 2 + n <= Len(got)
  PROVE  /\ taken + Len(got) <= arrived
         /\ HeaderLen = taken + end + 2 /\ HeaderLen + n <= Len(answer)
         /\ SubSeq(Filled(got), end + 3, end + 2 + n)
              = SubSeq(answer, HeaderLen + 1, HeaderLen + n)
         /\ Len(SubSeq(answer, HeaderLen + 1, HeaderLen + n)) = n
<1> DEFINE b  == Filled(got)
           rd == Len(got)
<1>1. /\ rd \in Nat /\ rd <= BufLen /\ taken + rd <= arrived /\ arrived <= Len(answer)
      /\ Len(answer) \in Nat /\ arrived \in Nat /\ taken \in Nat
      /\ b \in [1..BufLen + 1 -> Bytes]
  <2>1. /\ rd \in Nat /\ idx + rd <= BufLen /\ taken + rd <= arrived
        /\ b \in [1..BufLen + 1 -> Bytes]
    BY FilledIs
  <2>2. Len(answer) \in Nat /\ arrived \in 0..Len(answer) /\ taken \in Nat /\ idx \in Nat
    BY AnswersAssumption, LenProperties DEF TypeOK
  <2>3. BufLen \in Nat
    BY HttpAssumption
  <2> QED BY <2>1, <2>2, <2>3
<1>2. /\ Strstr(answer, EmptyLine) = taken + end /\ end \in Nat \ {0} /\ end + 2 < rd
      /\ \A i \in 1..rd : b[i] = answer[taken + i]
  BY EmptyLineFound
<1>3. HeaderLen = taken + end + 2
  BY <1>2 DEF HeaderLen
<1> HIDE DEF rd, b
<1> DEFINE h == taken + end + 2
<1>4. /\ SubSeq(b, end + 3, end + 2 + n) \in Seq(Bytes)
      /\ Len(SubSeq(b, end + 3, end + 2 + n)) = n
      /\ \A i \in 1..n : SubSeq(b, end + 3, end + 2 + n)[i] = b[end + 3 + i - 1]
  <2> DEFINE from == end + 3
             to   == end + 2 + n
  <2>1. end \in Nat /\ end + 2 + n <= rd
    BY <1>2 DEF rd
  <2>5. rd \in Nat /\ rd <= BufLen /\ BufLen \in Nat
    BY <1>1, HttpAssumption
  <2>6. from \in Int /\ to \in Int /\ 1 <= from /\ to <= BufLen /\ to - from + 1 = n
        /\ (from <= to \/ n = 0)
    <3>1. from \in Int /\ to \in Int
      BY <2>1
    <3>2. 1 <= from
      BY <2>1
    <3>3. to <= BufLen
      BY <2>1, <2>5
    <3>4. to - from + 1 = n
      BY <2>1
    <3>5. (from <= to \/ n = 0)
      BY <2>1
    <3> QED BY <3>1, <3>2, <3>3, <3>4, <3>5
  <2>4. from \in Int /\ to \in Int /\ (IF from <= to THEN to - from + 1 ELSE 0) = n
        /\ to - from + 1 = n /\ \A i \in from..to : i \in 1..BufLen + 1
    <3> HIDE DEF from, to
    <3> QED BY <2>5, <2>6
  <2>2. \A i \in from..to : b[i] \in Bytes
    BY <1>1, <2>4
  <2> HIDE DEF from, to
  <2>3. /\ SubSeq(b, from, to) \in Seq(Bytes) /\ Len(SubSeq(b, from, to)) = n
        /\ \A i \in 1..n : SubSeq(b, from, to)[i] = b[from + i - 1]
    BY <2>2, <2>4, SubSeqProperties
  <2> QED BY <2>3 DEF from, to
<1>5. h \in Nat /\ h + n <= Len(answer)
  <2>1. /\ end \in Nat /\ taken \in Nat /\ rd \in Nat /\ end + 2 + n <= rd
        /\ taken + rd <= Len(answer) /\ Len(answer) \in Nat
    BY <1>1, <1>2 DEF rd
  <2> QED BY <2>1
<1>6. /\ SubSeq(answer, h + 1, h + n) \in Seq(Bytes)
      /\ Len(SubSeq(answer, h + 1, h + n)) = n
      /\ \A i \in 1..n : SubSeq(answer, h + 1, h + n)[i] = answer[h + i]
  <2> DEFINE l == h + n
  <2>1. h \in Nat /\ l \in Nat /\ l <= Len(answer) /\ h <= l /\ l - h = n
    BY <1>5
  <2> HIDE DEF l, h
  <2>3. /\ SubSeq(answer, h + 1, l) \in Seq(Bytes)
        /\ Len(SubSeq(answer, h + 1, l)) = IF h <= l THEN l - h ELSE 0
        /\ \A i \in 1..l - h : SubSeq(answer, h + 1, l)[i] = answer[h + i]
    BY <2>1, SliceIs
  <2>2. /\ SubSeq(answer, h + 1, l) \in Seq(Bytes) /\ Len(SubSeq(answer, h + 1, l)) = n
        /\ \A i \in 1..n : SubSeq(answer, h + 1, l)[i] = answer[h + i]
    BY <2>1, <2>3
  <2> QED BY <2>2 DEF l
<1>7. \A i \in 1..n : SubSeq(b, end + 3, end + 2 + n)[i] = SubSeq(answer, h + 1, h + n)[i]
  <2> SUFFICES ASSUME NEW i \in 1..n
               PROVE  SubSeq(b, end + 3, end + 2 + n)[i] = SubSeq(answer, h + 1, h + n)[i]
    OBVIOUS
  <2>3. end \in Nat /\ end + 2 + n <= rd /\ rd \in Nat /\ taken \in Nat
    BY <1>1, <1>2 DEF rd
  <2>1. end + 3 + i - 1 \in 1..rd /\ taken + (end + 3 + i - 1) = h + i
    BY <2>3
  <2>2. b[end + 3 + i - 1] = answer[h + i]
    BY <1>2, <2>1
  <2> QED BY <1>4, <1>6, <2>2
<1>8. SubSeq(b, end + 3, end + 2 + n) = SubSeq(answer, h + 1, h + n)
  <2> DEFINE piece == SubSeq(b, end + 3, end + 2 + n)
             slice == SubSeq(answer, h + 1, h + n)
  <2>1. /\ piece \in Seq(Bytes) /\ slice \in Seq(Bytes) /\ Len(piece) = n /\ Len(slice) = n
        /\ \A i \in 1..n : piece[i] = slice[i]
    BY <1>4, <1>6, <1>7, Zenon
  <2> HIDE DEF piece, slice
  <2>2. piece = slice
    BY <2>1, SeqEqual
  <2> QED BY <2>2 DEF piece, slice
<1> QED BY <1>1, <1>3, <1>5, <1>6, <1>8 DEF b, rd

LEMMA HeaderAnswer == TypeOK /\ AnswerInv /\ RecvHeader => AnswerInv'
<1> SUFFICES ASSUME TypeOK, AnswerInv, RecvHeader PROVE AnswerInv'
  OBVIOUS
<1> DEFINE got == Received(BufLen - idx)
           rd  == Len(got)
           b   == Filled(got)
           end == Strstr(b, EmptyLine)
           len == rd - (end + 2)
           noLine == rspCode = "none" /\ Strstr(b, <<"r", "n">>) = 0
<1>1. /\ pc = "header" /\ result = "none" /\ bodyLen \in BodyLens /\ ~whole
      /\ UNCHANGED <<now, startConnect, netVars>>
  BY DEF RecvHeader, AnswerInv
<1>2. CASE rd = 0 /\ Return("READ") /\ UNCHANGED parseVars
  BY <1>1, <1>2 DEF AnswerInv, OkIsAnswer, Return, parseVars, netVars
<1>3. ASSUME rd # 0, taken' = taken + rd,
             rspCode' = IF rspCode = "none" /\ ~noLine /\ b[1] = "S" THEN "200" ELSE rspCode,
             whole' = ReadsEmptyLine(rd)
      PROVE  /\ taken' \in Nat \ {0}
             /\ rspCode' = "200" \/ noLine
  <2>1. rd \in Nat /\ taken \in Nat /\ idx + rd <= BufLen /\ b \in [1..BufLen + 1 -> Bytes]
        /\ taken + rd <= arrived /\ \A i \in 1..rd : got[i] = answer[taken + i]
    <3>1. arrived \in Nat
      BY AnswersAssumption, LenProperties DEF TypeOK
    <3> QED BY <3>1, FilledIs DEF TypeOK
  <2>2. taken' \in Nat \ {0}
    BY <1>3, <2>1
  <2>3. ASSUME rspCode # "200" PROVE b[1] = "S" /\ rspCode = "none"
    <3>1. rspCode = "none" /\ taken = 0 /\ idx = 0
      BY <1>1, <2>3 DEF AnswerInv
    <3>2. 1 \in 1..rd /\ 1 \in idx + 1..idx + rd /\ 1 - idx = 1 /\ 1 \in 1..BufLen + 1
      BY <1>3, <2>1, <3>1, HttpAssumption
    <3>3. buf \in [1..BufLen + 1 -> Bytes]
      BY DEF TypeOK
    <3>4. b[1] = got[1]
      BY <3>2, <3>3 DEF Filled
    <3>5. answer \in Answers /\ answer # <<>>
      <4>1. answer \in Answers /\ Len(answer) \in Nat /\ rd <= Len(answer)
        BY <2>1, <3>1, AnswersAssumption, LenProperties DEF TypeOK
      <4>2. answer = <<>> => Len(answer) = 0
        BY EmptySeq
      <4> QED BY <1>3, <2>1, <4>1, <4>2
    <3> QED BY <2>1, <3>1, <3>2, <3>4, <3>5, AnswersAssumption
  <2> QED BY <1>3, <2>2, <2>3
<1>4. CASE /\ rd # 0 /\ taken' = taken + rd
           /\ rspCode' = IF rspCode = "none" /\ ~noLine /\ b[1] = "S" THEN "200" ELSE rspCode
           /\ whole' = ReadsEmptyLine(rd)
           /\ \/ noLine /\ Return("HTTP") /\ UNCHANGED bodyLen
              \/ /\ ~noLine /\ end = 0 /\ UNCHANGED <<pc, result, bodyLen>>
              \/ Return("undefined") /\ UNCHANGED bodyLen
  <2>1. taken' # 0 /\ (rspCode' = "200" \/ noLine)
    BY <1>3, <1>4
  <2>6. whole' => end # 0
    BY <1>4, EmptyLineFound
  <2>2. UNCHANGED <<answer, arrived, peer>>
    BY <1>1 DEF netVars
  <2> HIDE DEF noLine, end, len, b, rd
  <2>3. result' # "OK" /\ pc' # "body"
    BY <1>1, <1>4 DEF Return
  <2>4. pc' = "header" => rspCode' = "200" /\ ~whole' /\ result' = "none" /\ bodyLen' \in BodyLens
    BY <1>1, <1>4, <2>1, <2>6 DEF Return
  <2>5. pc' \in {"header", "done"}
    BY <1>1, <1>4 DEF Return
  <2> QED BY <1>1, <2>1, <2>2, <2>3, <2>4, <2>5 DEF AnswerInv, OkIsAnswer
<1>5. CASE /\ rd # 0 /\ taken' = taken + rd
           /\ rspCode' = IF rspCode = "none" /\ ~noLine /\ b[1] = "S" THEN "200" ELSE rspCode
           /\ whole' = ReadsEmptyLine(rd)
           /\ ~noLine /\ end # 0
           /\ body' = SubSeq(b, end + 3, end + 2 + Min({len, bodyLen}))
           /\ \/ len >= 0 /\ len >= bodyLen /\ Return("OK") /\ UNCHANGED bodyLen
              \/ len = 0 /\ len < bodyLen /\ Return("OK") /\ bodyLen' = 0
              \/ /\ len > 0 /\ len < bodyLen /\ pc' = "body" /\ until' = Never
                 /\ UNCHANGED <<result, sock, bodyLen>>
  <2>1. taken' \in Nat \ {0} /\ rspCode' = "200"
    BY <1>3, <1>5
  <2>2. UNCHANGED <<answer, arrived, peer>>
    BY <1>1 DEF netVars
  <2>3. pc' \in {"body", "done"} /\ (pc' # "done" => result' = "none" /\ bodyLen' \in BodyLens)
    BY <1>1, <1>5 DEF Return
  <2>4. ASSUME whole'
        PROVE  /\ result' = "OK" => /\ body' = SubSeq(SentBody, 1, bodyLen')
                                    /\ bodyLen' \in BodyLens
               /\ pc' = "body" => BodySoFar'
    <3>1. ReadsEmptyLine(rd)
      BY <1>5, <2>4
    <3>2. rd \in Nat /\ end \in Nat /\ bodyLen \in Nat /\ rd > end + 2 /\ len \in Nat
          /\ end + 2 + len = rd /\ len > 0 /\ taken \in Nat
      <4>1. rd \in Nat /\ end \in Nat /\ end + 2 < rd /\ bodyLen \in Nat /\ taken \in Nat
        BY <3>1, FilledIs, EmptyLineFound DEF TypeOK
      <4> HIDE DEF rd, end
      <4> QED BY <4>1
    <3> DEFINE n == Min({len, bodyLen})
    <3>3. n = (IF len <= bodyLen THEN len ELSE bodyLen) /\ n \in Nat /\ end + 2 + n <= rd
      <4> HIDE DEF len, rd, end
      <4> QED BY <3>2, MinOfTwo
    <3> HIDE DEF n
    <3>4. /\ taken + rd <= arrived
          /\ HeaderLen = taken + end + 2 /\ HeaderLen + n <= Len(answer)
          /\ SubSeq(b, end + 3, end + 2 + n) = SubSeq(answer, HeaderLen + 1, HeaderLen + n)
          /\ Len(SubSeq(answer, HeaderLen + 1, HeaderLen + n)) = n
      <4> DEFINE e == end
      <4>1. e + 2 + n <= Len(got) /\ ReadsEmptyLine(Len(got))
        BY <3>1, <3>2, <3>3
      <4>2. e = Strstr(Filled(got), EmptyLine)
        OBVIOUS
      <4>3. b = Filled(got) /\ rd = Len(got) /\ got = Received(BufLen - idx)
        OBVIOUS
      <4> HIDE DEF e, b, rd, got
      <4>4. /\ taken + Len(got) <= arrived
            /\ HeaderLen = taken + e + 2 /\ HeaderLen + n <= Len(answer)
            /\ SubSeq(Filled(got), e + 3, e + 2 + n)
                 = SubSeq(answer, HeaderLen + 1, HeaderLen + n)
            /\ Len(SubSeq(answer, HeaderLen + 1, HeaderLen + n)) = n
        <5>1. TypeOK /\ n \in Nat /\ got = Received(BufLen - idx)
          BY <3>3, <4>3
        <5> QED BY <4>1, <4>2, <5>1, WholeHeader, Zenon
      <4> QED BY <4>3, <4>4 DEF e
    <3>5. body' = SubSeq(answer, HeaderLen + 1, HeaderLen + n) /\ Len(body') = n
      BY <1>5, <3>4 DEF n
    <3> HIDE DEF rd, b, end, len, noLine
    <3>6. ASSUME len >= bodyLen, UNCHANGED bodyLen
          PROVE  body' = SubSeq(SentBody, 1, bodyLen') /\ bodyLen' \in BodyLens
      <4>1. n = bodyLen
        BY <3>2, <3>3, <3>6
      <4>2. HeaderLen \in Nat
        BY <3>2, <3>4
      <4>3. SubSeq(SentBody, 1, n) = SubSeq(answer, HeaderLen + 1, HeaderLen + n)
        BY <3>3, <3>4, <4>2, SentBodyIs
      <4> QED BY <1>1, <3>5, <3>6, <4>1, <4>3
    <3>7. ASSUME len < bodyLen, UNCHANGED bodyLen PROVE BodySoFar'
      <4>1. n = len /\ taken' = taken + rd /\ HeaderLen + n = taken + rd
        BY <1>5, <3>2, <3>3, <3>4, <3>7
      <4>2. HeaderLen' = HeaderLen /\ Strstr(answer, EmptyLine)' = Strstr(answer, EmptyLine)
        BY <2>2 DEF HeaderLen
      <4>3. Strstr(answer, EmptyLine) # 0
        <5>1. Strstr(answer, EmptyLine) \in Int
          <6>1. Len(answer) \in Nat /\ DOMAIN answer = 1..Len(answer)
            BY AnswersAssumption, LenProperties DEF TypeOK
          <6> QED BY <6>1, StrstrIs
        <5> QED BY <3>1, <5>1 DEF ReadsEmptyLine, EmptyLine, TypeOK
      <4>4. body' = SubSeq(answer', HeaderLen' + 1, taken')
        BY <2>2, <3>5, <4>1, <4>2
      <4>5. HeaderLen' <= taken' /\ Len(body') <= bodyLen'
        BY <3>2, <3>4, <3>5, <3>7, <4>1, <4>2
      <4> QED BY <4>2, <4>3, <4>4, <4>5 DEF BodySoFar
    <3>8. result' = "OK" => len >= bodyLen /\ UNCHANGED bodyLen
      BY <1>1, <1>5, <3>2
    <3>9. pc' = "body" => len < bodyLen /\ UNCHANGED bodyLen
      BY <1>5 DEF Return
    <3>10. SentBody' = SentBody
      BY <2>2 DEF SentBody
    <3> QED BY <3>6, <3>7, <3>8, <3>9
  <2>5. SentBody' = SentBody
    BY <2>2 DEF SentBody
  <2>6. OkIsAnswer'
    BY <2>1, <2>4, <2>5 DEF OkIsAnswer
  <2> HIDE DEF noLine, end, len, b, rd
  <2> QED BY <1>1, <2>1, <2>2, <2>3, <2>4, <2>6 DEF AnswerInv
<1>6. CASE /\ rd # 0 /\ taken' = taken + rd
           /\ rspCode' = IF rspCode = "none" /\ ~noLine /\ b[1] = "S" THEN "200" ELSE rspCode
           /\ whole' = ReadsEmptyLine(rd)
           /\ ~noLine /\ end # 0 /\ len < 0 /\ Return("undefined") /\ UNCHANGED bodyLen
  BY <1>4, <1>6
<1> QED BY <1>2, <1>4, <1>5, <1>6 DEF RecvHeader, EmptyLine

LEMMA BodyAnswer == TypeOK /\ AnswerInv /\ RecvBody => AnswerInv'
<1> SUFFICES ASSUME TypeOK, AnswerInv, RecvBody PROVE AnswerInv'
  OBVIOUS
<1> DEFINE room == bodyLen - Len(body)
           got  == Received(room)
<1>1. /\ pc = "body" /\ result = "none" /\ bodyLen \in BodyLens /\ rspCode = "200"
      /\ UNCHANGED <<rspCode, whole, answer, arrived, peer>>
  BY DEF RecvBody, AnswerInv, netVars
<1>2. /\ Len(body) \in Nat /\ bodyLen \in Nat /\ room \in Int /\ taken \in Nat /\ arrived \in Nat
      /\ taken <= arrived /\ arrived <= Len(answer) /\ Len(answer) \in Nat
      /\ answer \in Seq(Bytes) /\ body \in Seq(Bytes)
  <2>1. /\ Len(body) \in Nat /\ bodyLen \in Nat /\ Len(answer) \in Nat /\ answer \in Seq(Bytes)
        /\ body \in Seq(Bytes)
    BY AnswersAssumption, LenProperties DEF TypeOK
  <2> QED BY <2>1 DEF TypeOK
<1> HIDE DEF room
<1>3. /\ got \in Seq(Bytes) /\ Len(got) \in Nat /\ taken + Len(got) <= arrived
      /\ room >= 0 => Len(got) = IF taken + room <= arrived THEN room ELSE arrived - taken
      /\ got = SubSeq(answer, taken + 1, taken + Len(got))
  BY <1>2, ReceivedIs
<1> HIDE DEF got
<1>4. CASE Return("READ") /\ UNCHANGED <<body, bodyLen, taken>>
  BY <1>1, <1>4 DEF AnswerInv, OkIsAnswer, Return
<1>5. HeaderLen \in Nat /\ HeaderLen' = HeaderLen
  <2>1. DOMAIN answer = 1..Len(answer)
    BY <1>2, LenProperties
  <2>2. Strstr(answer, EmptyLine) \in Nat
    BY <1>2, <2>1, StrstrIs
  <2> QED BY <1>1, <2>2 DEF HeaderLen
<1>6. CASE /\ got = <<>> /\ ~(peer = "reset" /\ Len(body) < bodyLen)
           /\ (taken < arrived \/ peer # "open")
           /\ Return("OK") /\ bodyLen' = Len(body) /\ UNCHANGED <<body, taken>>
  <2>1. ASSUME whole
        PROVE  /\ body = SubSeq(SentBody, 1, Len(body))
               /\ body = SentBody \/ Len(body) \in BodyLens
    <3>1. /\ HeaderLen <= taken /\ body = SubSeq(answer, HeaderLen + 1, taken)
          /\ Len(body) <= bodyLen
      BY <1>1, <2>1 DEF AnswerInv, BodySoFar
    <3>2. Len(body) = taken - HeaderLen /\ HeaderLen + Len(body) = taken
      <4>1. taken <= Len(answer)
        BY <1>2
      <4>2. Len(body) = IF HeaderLen <= taken THEN taken - HeaderLen ELSE 0
        BY <1>2, <1>5, <3>1, <4>1, SliceIs
      <4> QED BY <1>2, <1>5, <3>1, <4>2
    <3> DEFINE n == Len(body)
    <3>3. n \in Nat /\ HeaderLen + n <= Len(answer) /\ HeaderLen + n = taken
      BY <1>2, <1>5, <3>2
    <3> HIDE DEF n
    <3>4. /\ SubSeq(SentBody, 1, n) = SubSeq(answer, HeaderLen + 1, HeaderLen + n)
          /\ HeaderLen + n = Len(answer) =>
               SubSeq(answer, HeaderLen + 1, HeaderLen + n) = SentBody
      BY <1>5, <3>3, SentBodyIs
    <3>5. CASE Len(body) = bodyLen
      BY <1>1, <3>1, <3>3, <3>4, <3>5 DEF n
    <3>6. CASE Len(body) # bodyLen
      <4>1. room > 0 /\ Len(got) = 0
        BY <1>2, <1>6, <3>1, <3>6, EmptySeq DEF room
      <4>2. taken = arrived
        BY <1>2, <1>3, <4>1
      <4>3. Len(body) < bodyLen
        BY <1>2, <3>1, <3>6
      <4>4. peer = "closed"
        BY <1>2, <1>6, <4>2, <4>3 DEF TypeOK
      <4>5. arrived = Len(answer)
        BY <4>4 DEF AnswerInv
      <4> QED BY <3>1, <3>3, <3>4, <4>2, <4>5 DEF n
    <3> QED BY <3>5, <3>6
  <2>2. SentBody' = SentBody
    BY <1>1 DEF SentBody
  <2>3. OkIsAnswer'
    BY <1>1, <1>6, <2>1, <2>2 DEF OkIsAnswer
  <2> QED BY <1>1, <1>6, <2>3 DEF AnswerInv, Return
<1>7. CASE /\ got # <<>> /\ body' = body \o got /\ taken' = taken + Len(got)
           /\ UNCHANGED <<pc, result, bodyLen>>
  <2>1. ASSUME whole PROVE BodySoFar'
    <3>1. /\ HeaderLen <= taken /\ body = SubSeq(answer, HeaderLen + 1, taken)
          /\ Len(body) <= bodyLen /\ Strstr(answer, EmptyLine) # 0
      BY <1>1, <2>1 DEF AnswerInv, BodySoFar
    <3>2. taken' <= Len(answer) /\ taken <= taken'
      BY <1>2, <1>3, <1>7
    <3>3. SubSeq(answer, HeaderLen + 1, taken) \o SubSeq(answer, taken + 1, taken')
            = SubSeq(answer, HeaderLen + 1, taken')
      <4>1. /\ HeaderLen + 1 \in 1..Len(answer) + 1 /\ taken \in HeaderLen + 1 - 1..Len(answer)
            /\ taken' \in taken..Len(answer)
        BY <1>2, <1>3, <1>5, <1>7, <3>1, <3>2
      <4> DEFINE from == HeaderLen + 1
                 mid  == taken
                 to   == taken'
      <4>2. from \in 1..Len(answer) + 1 /\ mid \in from - 1..Len(answer) /\ to \in mid..Len(answer)
        BY <1>5, <4>1
      <4> HIDE DEF from, mid, to
      <4>3. SubSeq(answer, from, mid) \o SubSeq(answer, mid + 1, to) = SubSeq(answer, from, to)
        BY <1>2, <4>2, ConcatAdjacentSubSeq
      <4> QED BY <4>3 DEF from, mid, to
    <3>4. body' = SubSeq(answer, HeaderLen + 1, taken')
      BY <1>3, <1>7, <3>1, <3>3
    <3>5. Len(body') <= bodyLen
      <4>1. Len(body') = Len(body) + Len(got)
        BY <1>2, <1>3, <1>7, ConcatProperties
      <4>2. room >= 0
        BY <1>2, <3>1 DEF room
      <4>3. Len(got) <= room
        BY <1>2, <1>3, <4>2
      <4> QED BY <1>2, <1>3, <4>1, <4>3 DEF room
    <3>6. HeaderLen <= taken'
      BY <1>2, <1>3, <1>5, <1>7, <3>1
    <3> QED BY <1>1, <1>5, <1>7, <3>1, <3>4, <3>5, <3>6 DEF BodySoFar
  <2> QED BY <1>1, <1>7, <2>1 DEF AnswerInv, OkIsAnswer
<1> QED BY <1>4, <1>6, <1>7 DEF RecvBody, Readable, got, room

LEMMA OtherAnswer ==
  ASSUME TypeOK, AnswerInv, [Next]_vars, ~RecvHeader, ~RecvBody
  PROVE  AnswerInv'
<1>1. CASE Deliver \/ Close \/ UNCHANGED vars
  <2>1. UNCHANGED callVars /\ answer' = answer
    BY <1>1 DEF Deliver, Close, vars, netVars
  <2>2. peer' = "closed" => arrived' = Len(answer')
    BY <1>1 DEF Deliver, Close, vars, netVars, AnswerInv
  <2>3. SentBody' = SentBody /\ HeaderLen' = HeaderLen
    BY <2>1 DEF SentBody, HeaderLen
  <2> QED BY <2>1, <2>2, <2>3 DEF AnswerInv, OkIsAnswer, BodySoFar, callVars, parseVars
<1>2. CASE \/ OpenSocket \/ Resolve \/ Connect \/ Select \/ ClockFails \/ SelectExpires
           \/ Connected \/ Write \/ Tick
  <2> DEFINE early == {"socket", "dns", "connect", "connecting", "write"}
  <2>1. UNCHANGED <<body, bodyLen, taken, whole, answer, arrived, peer>>
    BY <1>2 DEF OpenSocket, Resolve, Connect, Select, ClockFails, SelectExpires, Connected, Write,
                Tick, parseVars, netVars
  <2>2. SentBody' = SentBody /\ HeaderLen' = HeaderLen
    BY <2>1 DEF SentBody, HeaderLen
  <2>3. \/ pc' = "done" /\ result' \notin {"OK", "none"}
        \/ pc' = pc /\ result' = result /\ UNCHANGED <<idx, rspCode>>
        \/ pc \in early /\ pc' \in early /\ result' = result
        \/ pc = "write" /\ pc' = "header" /\ result' = result /\ idx' = 0 /\ rspCode' = "none"
    BY <1>2 DEF OpenSocket, Resolve, Connect, Select, ClockFails, SelectExpires, Connected, Write,
                Tick, parseVars, Return
  <2> QED BY <2>1, <2>2, <2>3 DEF AnswerInv, OkIsAnswer, BodySoFar
<1> QED BY <1>1, <1>2 DEF Next, Call

\* A request that ends well has read the status line; when the recv() that brought
\* the empty line brought some of the body and had no line end carried over, its
\* body is the one that was sent, whole or cut at the size of the caller's buffer.
THEOREM OkMeansAnswer == Spec => []OkIsAnswer
<1>1. Init => AnswerInv
  BY DEF Init, AnswerInv, OkIsAnswer
<1>2. TypeOK /\ AnswerInv /\ [Next]_vars => AnswerInv'
  BY HeaderAnswer, BodyAnswer, OtherAnswer
<1>3. AnswerInv => OkIsAnswer
  BY DEF AnswerInv
<1> QED BY <1>1, <1>2, <1>3, TypesFirst, TypesKept, PTL DEF Spec

-----------------------------------------------------------------------------
(***************************************************************************)
(* The monitor.  FlagMatchesCommand is not inductive: a found network only *)
(* starts the app correctly because the flag cannot be up while the status *)
(* is down.                                                                *)
(***************************************************************************)
Commands ==
  /\ FlagMatchesCommand
  /\ hasNetwork => m_observers /\ m_status = "HTTPS_OK"
  /\ stage = "starting" => ret /\ hasNetwork /\ lastCommand # "START"
  /\ lastCommand = "STOP" => m_observers
  /\ lastCommand = "STOP" /\ m_status = "HTTPS_OK" => stage = "starting"

\* failTimes is one behind the probe's result until the worker settles.
Counting ==
  /\ stage \in {"time", "probe"} => failTimes = lost
  /\ stage \in {"report", "starting", "settle"} =>
       lost = IF ret THEN 0 ELSE UpTo3(failTimes + 1)

MonitorInv == MonitorTypeOK /\ Commands /\ Counting

-----------------------------------------------------------------------------
LEMMA MonitorFirst == MonitorInit => MonitorInv
<1> SUFFICES ASSUME MonitorInit PROVE MonitorInv
  OBVIOUS
<1>1. MonitorTypeOK
  <2>1. /\ m_timeSet \in BOOLEAN /\ m_observers \in BOOLEAN
        /\ hasNetwork \in BOOLEAN /\ ret \in BOOLEAN
        /\ netUp \in BOOLEAN /\ clockSettable \in BOOLEAN
    BY DEF MonitorInit
  <2>2. failTimes \in 0..3 /\ lost \in 0..3
    BY DEF MonitorInit
  <2> QED BY <2>1, <2>2 DEF MonitorInit, MonitorTypeOK
<1>2. Commands /\ Counting
  BY DEF MonitorInit, Commands, FlagMatchesCommand, Counting
<1> QED BY <1>1, <1>2 DEF MonitorInv

LEMMA UpTo3Type == \A n \in 0..3 : UpTo3(n + 1) \in 0..3
BY DEF UpTo3

(* Every step of the worker, of main() and of the network keeps IInv.      *)
LEMMA MonitorStep == MonitorInv /\ [MonitorNext]_monitorVars => MonitorInv'
<1> SUFFICES ASSUME MonitorInv, [MonitorNext]_monitorVars PROVE MonitorInv'
  OBVIOUS
<1> USE DEF MonitorInv, MonitorTypeOK, Commands, FlagMatchesCommand, Counting
<1>1. CASE TimeFails
  BY <1>1 DEF TimeFails
<1>2. CASE Probe
  <2>1. lost' \in 0..3
    BY <1>2, UpTo3Type DEF Probe
  <2>2. MonitorTypeOK'
    BY <1>2, <2>1 DEF Probe
  <2>3. Commands'
    BY <1>2 DEF Probe
  <2>4. Counting'
    BY <1>2 DEF Probe
  <2> QED BY <2>2, <2>3, <2>4
<1>3. CASE ReportLost
  <2>1. hasNetwork' \in BOOLEAN
    BY <1>3 DEF ReportLost
  <2>2. MonitorTypeOK'
    BY <1>3, <2>1 DEF ReportLost
  <2>3. ~hasNetwork' /\ stage' = "settle" /\ lastCommand' # "START"
    BY <1>3 DEF ReportLost, IsLost
  <2>4. Commands'
    BY <1>3, <2>3 DEF ReportLost
  <2>5. Counting'
    BY <1>3 DEF ReportLost
  <2> QED BY <2>2, <2>4, <2>5
<1>4. CASE ReportFound
  <2>1. hasNetwork' \in BOOLEAN
    BY <1>4 DEF ReportFound
  <2>2. MonitorTypeOK'
    BY <1>4, <2>1 DEF ReportFound
  <2>3. ret /\ ~hasNetwork /\ lastCommand # "START"
    BY <1>4 DEF ReportFound, IsFound
  <2>4. Commands'
    <3>1. CASE m_observers
      <4>1. hasNetwork' /\ stage' = "starting" /\ m_status' = "HTTPS_OK"
        BY <1>4, <3>1 DEF ReportFound
      <4> QED BY <1>4, <2>3, <3>1, <4>1 DEF ReportFound
    <3>2. CASE ~m_observers
      <4>1. ~hasNetwork' /\ stage' = "settle" /\ lastCommand # "STOP"
        BY <1>4, <2>3, <3>2 DEF ReportFound
      <4> QED BY <1>4, <2>3, <3>2, <4>1 DEF ReportFound
    <3> QED BY <3>1, <3>2
  <2>5. Counting'
    BY <1>4 DEF ReportFound
  <2> QED BY <2>2, <2>4, <2>5
<1>5. CASE SendStart
  BY <1>5 DEF SendStart
<1>6. CASE ReportNothing
  BY <1>6 DEF ReportNothing
<1>7. CASE Settle
  <2>1. failTimes' \in 0..3
    BY <1>7, UpTo3Type DEF Settle
  <2>2. MonitorTypeOK'
    BY <1>7, <2>1 DEF Settle
  <2>3. Commands'
    BY <1>7 DEF Settle
  <2>4. Counting'
    BY <1>7 DEF Settle
  <2> QED BY <2>2, <2>3, <2>4
<1>8. CASE AddObserver
  BY <1>8 DEF AddObserver
<1>9. CASE NetworkChanges
  <2>1. netUp' \in BOOLEAN
    BY <1>9 DEF NetworkChanges
  <2> QED BY <1>9, <2>1 DEF NetworkChanges
<1>10. CASE UNCHANGED monitorVars
  BY <1>10 DEF monitorVars
<1> QED
  BY <1>1, <1>2, <1>3, <1>4, <1>5, <1>6, <1>7, <1>8, <1>9, <1>10
     DEF MonitorNext, Worker, TimeIsSet

LEMMA MonitorAlways == MonitorSafety => []MonitorInv
BY MonitorFirst, MonitorStep, PTL DEF MonitorSafety

-----------------------------------------------------------------------------
\* Every variable of the monitor and of its observer keeps its type.
THEOREM MonitorTypeCorrect == MonitorSafety => []MonitorTypeOK
<1>1. MonitorInv => MonitorTypeOK
  BY DEF MonitorInv
<1> QED BY <1>1, MonitorAlways, PTL

\* The wake-word gate agrees with the last command sent to the umbrella
\* whenever the observer is not asleep in its callback.
THEOREM FlagFollowsCommands == MonitorSafety => []FlagMatchesCommand
<1>1. MonitorInv => FlagMatchesCommand
  BY DEF MonitorInv, Commands
<1> QED BY <1>1, MonitorAlways, PTL

\* The status falls only on the third lost probe in a row.
THEOREM LostAfterThree == MonitorSafety => LostOnlyAfterThree
<1>1. ASSUME MonitorInv, [MonitorNext]_monitorVars,
             m_status = "HTTPS_OK", m_status' = "NETWORK_FAIL"
      PROVE  lost = 3
  <2>1. ReportLost
    BY <1>1 DEF MonitorNext, Worker, TimeIsSet, TimeFails, Probe, ReportFound, SendStart,
                ReportNothing, Settle, AddObserver, NetworkChanges, monitorVars
  <2>2. lost = UpTo3(failTimes + 1) /\ failTimes \in 0..3 /\ failTimes >= 2
    BY <1>1, <2>1 DEF ReportLost, IsLost, MonitorInv, Counting, MonitorTypeOK
  <2> QED BY <2>2 DEF UpTo3
<1>2. MonitorInv /\ [MonitorNext]_monitorVars =>
        [m_status = "HTTPS_OK" /\ m_status' = "NETWORK_FAIL" => lost = 3]_monitorVars
  BY <1>1
<1> QED BY <1>2, MonitorAlways, PTL DEF MonitorSafety, LostOnlyAfterThree

\* DO_START and DO_STOP strictly alternate: the umbrella never gets the same
\* command twice in a row from the monitor.
THEOREM CommandsAlternate == MonitorSafety => NoCommandTwice
<1>1. MonitorInv /\ [MonitorNext]_monitorVars =>
        [/\ SendStart => lastCommand # "START"
         /\ ReportLost /\ m_observers => lastCommand # "STOP"]_monitorVars
  BY DEF MonitorInv, MonitorTypeOK, Commands, SendStart, ReportLost, IsLost
<1> QED BY <1>1, MonitorAlways, PTL DEF MonitorSafety, NoCommandTwice
=============================================================================
