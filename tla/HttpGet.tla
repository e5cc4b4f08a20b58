------------------------------ MODULE HttpGet -------------------------------
(***************************************************************************)
(* One call of jnh_get() (MicAgent/jnh.h), the HTTP client that decides    *)
(* whether there is a network and what time it is.  Times are counted from *)
(* startDNS.  Bytes are the classes the parser tells apart: the status     *)
(* line "S", "r" and "n" of a line end, the NUL "0", a header byte "h" and *)
(* the bytes of the body; the status line stands for "HTTP/1.1 200 OK".    *)
(*                                                                         *)
(* The resolver, the server and the network are external: a well-formed    *)
(* answer arrives in pieces of any size, late, not at all or cut off.      *)
(***************************************************************************)
EXTENDS Naturals, Integers, Sequences, FiniteSetsExt

CONSTANTS Answers,   \* what the server may answer, byte classes
          BodyLens,  \* *bodyLen of the callers: 0 and the size of a buffer
          BufLen,    \* sizeof(beforeBodyLine)
          TimeoutAll, TimeoutAfterDNS,
          MaxDNS     \* bound: how long gethostbyname() takes

Bytes == {"S", "r", "n", "0", "h", "b", "c"}
TailLen == 4   \* sizeof(buf), which takes the line ends carried over

ASSUME HttpAssumption ==
  /\ BufLen \in Nat /\ BufLen > TailLen /\ BodyLens \subseteq Nat
  /\ TimeoutAll \in Nat \ {0} /\ TimeoutAfterDNS \in Nat \ {0} /\ MaxDNS \in Nat

\* An answer begins with its status line.
ASSUME AnswersAssumption ==
  \A a \in Answers : a \in Seq(Bytes) /\ (a # <<>> => a[1] = "S")

\* "SIGPIPE": the process ends.
Results == {"OK", "FD_FAIL", "DNS", "CLOCK", "TIMEOUT", "CONNECT", "WRITE", "READ",
            "HTTP", "SIGPIPE", "undefined"}
Never == -1

VARIABLES
  pc, result,
  now, startConnect,
  until,    \* when the select() that runs gives up
  sock,     \* the socket is open
  buf,      \* beforeBodyLine and the byte behind it
  idx, rspCode,
  body, bodyLen,
  answer, arrived, taken,  \* the answer, how much arrived, how much was read
  peer,     \* the server's end of the connection
  whole     \* history: one recv() read the empty line and some body

parseVars == <<buf, idx, rspCode, body, bodyLen, taken, whole>>
callVars == <<pc, result, now, startConnect, until, sock, parseVars>>
netVars == <<answer, arrived, peer>>
vars == <<callVars, netVars>>

TypeOK ==
  /\ pc \in {"socket", "dns", "connect", "connecting", "write", "header", "body", "done"}
  /\ result \in Results \cup {"none"}
  /\ now \in Nat /\ startConnect \in Nat \cup {Never} /\ until \in Nat \cup {Never}
  /\ sock = (pc \notin {"socket", "done"})
  /\ buf \in [1..BufLen + 1 -> Bytes] /\ idx \in 0..TailLen
  /\ rspCode \in {"unset", "none", "200"}
  /\ body \in Seq(Bytes) /\ bodyLen \in Nat
  /\ answer \in Answers /\ arrived \in 0..Len(answer) /\ taken \in 0..arrived
  /\ peer \in {"open", "closed", "reset"} /\ whole \in BOOLEAN

\* beforeBodyLine is zeroed; the byte behind it is not its own.
Init ==
  /\ pc = "socket" /\ result = "none"
  /\ now = 0 /\ startConnect = Never /\ until = Never /\ sock = FALSE
  /\ \E b \in {"0", "n"} : buf = [i \in 1..BufLen + 1 |-> IF i <= BufLen THEN "0" ELSE b]
  /\ idx = 0 /\ rspCode = "unset" /\ body = <<>> /\ bodyLen \in BodyLens
  /\ answer \in Answers /\ arrived = 0 /\ taken = 0 /\ peer = "open" /\ whole = FALSE

-----------------------------------------------------------------------------
\* The macro ERROR, which ends every path once there is a socket.
Return(r) == /\ pc' = "done" /\ result' = r /\ sock' = FALSE /\ until' = Never

\* The clock is read, for startDNS, and a socket is made.
OpenSocket ==
  /\ pc = "socket"
  /\ \/ pc' = "dns" /\ sock' = TRUE /\ UNCHANGED <<result, until>>
     \/ Return("FD_FAIL")
     \/ Return("CLOCK")
  /\ UNCHANGED <<now, startConnect, parseVars, netVars>>

\* gethostbyname() returns: the time is tested before the answer.
Resolve ==
  /\ pc = "dns" /\ startConnect' = now
  /\ IF now >= TimeoutAll THEN Return("TIMEOUT")
     ELSE \/ Return("DNS")
          \/ pc' = "connect" /\ UNCHANGED <<result, until, sock>>
  /\ UNCHANGED <<now, parseVars, netVars>>

\* Mutant: `return` instead of ERROR.
ConnectLeaks ==
  /\ pc = "connect"
  /\ \/ pc' \in {"write", "connecting"} /\ UNCHANGED result
     \/ pc' = "done" /\ result' = "CONNECT"
  /\ UNCHANGED <<now, startConnect, until, sock, parseVars, netVars>>

\* connect() on a non-blocking socket: done, refused or in progress.
Connect ==
  /\ pc = "connect"
  /\ \/ pc' \in {"write", "connecting"} /\ UNCHANGED <<result, until, sock>>
     \/ Return("CONNECT")
  /\ UNCHANGED <<now, startConnect, parseVars, netVars>>

\* Mutant of Select: the second timeout is not applied.
SelectOneTimeout ==
  /\ pc \in {"connecting", "header", "body"} /\ until = Never
  /\ LET timeout1 == TimeoutAll - now
     IN  IF timeout1 <= 0
         THEN Return("TIMEOUT")
         ELSE /\ until' = now + timeout1
              /\ UNCHANGED <<pc, result, sock>>
  /\ UNCHANGED <<now, startConnect, parseVars, netVars>>

\* Before each select() the rest of both timeouts is computed.
Select ==
  /\ pc \in {"connecting", "header", "body"} /\ until = Never
  /\ LET timeout1 == TimeoutAll - now
         timeout2 == TimeoutAfterDNS - (now - startConnect)
     IN  IF timeout1 <= 0 \/ timeout2 <= 0
         THEN Return("TIMEOUT")
         ELSE /\ until' = now + Min({timeout1, timeout2})
              /\ UNCHANGED <<pc, result, sock>>
  /\ UNCHANGED <<now, startConnect, parseVars, netVars>>

\* clock_gettime() fails, before a select() or behind gethostbyname().
ClockFails ==
  /\ pc \in {"dns", "connecting", "header", "body"} /\ until = Never
  /\ Return("CLOCK")
  /\ UNCHANGED <<now, startConnect, parseVars, netVars>>

\* select() gives up, or fails before that.
SelectExpires ==
  /\ until # Never /\ Return("TIMEOUT")
  /\ UNCHANGED <<now, startConnect, parseVars, netVars>>

Connected ==
  /\ pc = "connecting" /\ until # Never
  /\ \/ pc' = "write" /\ until' = Never /\ UNCHANGED <<result, sock>>
     \/ Return("CONNECT")
  /\ UNCHANGED <<now, startConnect, parseVars, netVars>>

\* The request: eight writes, each tested.  A connection that was reset ends the
\* process.
Write ==
  /\ pc = "write"
  /\ \/ /\ pc' = "header" /\ idx' = 0 /\ rspCode' = "none"
        /\ UNCHANGED <<result, until, sock>>
     \/ \E r \in {"WRITE", "SIGPIPE"} : Return(r) /\ UNCHANGED <<idx, rspCode>>
  /\ UNCHANGED <<now, startConnect, buf, body, bodyLen, taken, whole, netVars>>

-----------------------------------------------------------------------------
Readable == until # Never /\ (taken < arrived \/ peer # "open")

\* What recv() with room for n bytes returns; nothing at the end or after a
\* reset.
Received(n) == SubSeq(answer, taken + 1, Min({taken + n, arrived}))

\* strstr() in the buffer, which ends at a NUL: where `what` starts, or 0.
Strstr(b, what) ==
  LET text == {i \in DOMAIN b : \A j \in 1..i : b[j] # "0"}
      hits == {i \in text : \A k \in DOMAIN what :
                 i + k - 1 \in text /\ b[i + k - 1] = what[k]}
  IN  IF hits = {} THEN 0 ELSE Min(hits)

\* How many bytes the loop on line 195 walks back over, from the byte behind
\* the last one received.
LineEndsBefore(b, e) ==
  Max({n \in 0..e + 1 : \A i \in e + 2 - n..e + 1 : b[i] \in {"r", "n"}})

CarryOver(b, n, e) == [i \in DOMAIN b |-> IF i <= n THEN b[e + 1 - n + i] ELSE b[i]]

\* The buffer with the piece received at its end.
Filled(got) ==
  [i \in DOMAIN buf |-> IF i \in idx + 1..idx + Len(got) THEN got[i - idx] ELSE buf[i]]

\* History: a recv() of n bytes with no line end carried over reads the first
\* empty line of the answer and some of the body behind it.
ReadsEmptyLine(n) ==
  LET line == Strstr(answer, <<"n", "r", "n">>)
  IN  idx = 0 /\ taken < line /\ line + 2 < taken + n

\* recv() into the header buffer and the search for the body.  The behaviour is
\* undefined when the line ends do not fit buf (line 193), when the walk leaves
\* the buffer (what lies in front of it may also end it), and when the length
\* of the body is negative.
RecvHeader ==
  /\ pc = "header" /\ Readable
  /\ LET got == Received(BufLen - idx)
         rd  == Len(got)
         b   == Filled(got)
         end == Strstr(b, <<"n", "r", "n">>)
         len == rd - (end + 2)
         carry == LineEndsBefore(b, idx + rd)
         noLine == rspCode = "none" /\ Strstr(b, <<"r", "n">>) = 0
     IN
     \/ rd = 0 /\ Return("READ") /\ UNCHANGED parseVars
     \/ /\ rd # 0 /\ taken' = taken + rd
        /\ rspCode' = IF rspCode = "none" /\ ~noLine /\ b[1] = "S" THEN "200" ELSE rspCode
        /\ whole' = ReadsEmptyLine(rd)
        /\ \/ noLine /\ Return("HTTP") /\ buf' = b /\ UNCHANGED <<idx, body, bodyLen>>
           \/ /\ ~noLine /\ end = 0 /\ carry <= TailLen
              /\ idx' = carry /\ buf' = CarryOver(b, carry, idx + rd) /\ until' = Never
              /\ UNCHANGED <<pc, result, sock, body, bodyLen>>
           \/ /\ ~noLine /\ end = 0 /\ (carry > TailLen \/ carry = idx + rd + 1)
              /\ Return("undefined") /\ buf' = b /\ UNCHANGED <<idx, body, bodyLen>>
           \/ /\ ~noLine /\ end # 0 /\ buf' = b /\ UNCHANGED idx
              /\ body' = SubSeq(b, end + 3, end + 2 + Min({len, bodyLen}))
              /\ \/ len < 0 /\ Return("undefined") /\ UNCHANGED bodyLen
                 \/ len >= 0 /\ len >= bodyLen /\ Return("OK") /\ UNCHANGED bodyLen
                 \/ len = 0 /\ len < bodyLen /\ Return("OK") /\ bodyLen' = 0
                 \/ /\ len > 0 /\ len < bodyLen /\ pc' = "body" /\ until' = Never
                    /\ UNCHANGED <<result, sock, bodyLen>>
  /\ UNCHANGED <<now, startConnect, netVars>>

\* Mutant of RecvBody: line 229 is missing, an error counts as the end.
RecvBodyLenient ==
  /\ pc = "body" /\ Readable
  /\ LET got == Received(bodyLen - Len(body))
     IN  IF got = <<>>
         THEN Return("OK") /\ bodyLen' = Len(body) /\ UNCHANGED <<body, taken>>
         ELSE /\ body' = body \o got /\ taken' = taken + Len(got) /\ until' = Never
              /\ UNCHANGED <<pc, result, sock, bodyLen>>
  /\ UNCHANGED <<now, startConnect, buf, idx, rspCode, whole, netVars>>

\* recv() into the body, to the end of file or to the end of the buffer.
RecvBody ==
  /\ pc = "body" /\ Readable
  /\ LET got == Received(bodyLen - Len(body))
     IN  IF got = <<>> /\ peer = "reset" /\ Len(body) < bodyLen
         THEN Return("READ") /\ UNCHANGED <<body, bodyLen, taken>>
         ELSE IF got = <<>>
         THEN Return("OK") /\ bodyLen' = Len(body) /\ UNCHANGED <<body, taken>>
         ELSE /\ body' = body \o got /\ taken' = taken + Len(got) /\ until' = Never
              /\ UNCHANGED <<pc, result, sock, bodyLen>>
  /\ UNCHANGED <<now, startConnect, buf, idx, rspCode, whole, netVars>>

Call == \/ OpenSocket \/ Resolve \/ Connect \/ Select \/ ClockFails \/ SelectExpires
        \/ Connected \/ Write \/ RecvHeader \/ RecvBody
-----------------------------------------------------------------------------
\* External: time passes in gethostbyname() and in select().
Tick ==
  /\ \/ pc = "dns" /\ now < MaxDNS
     \/ until # Never /\ now < until
  /\ now' = now + 1
  /\ UNCHANGED <<pc, result, startConnect, until, sock, parseVars, netVars>>

Deliver ==
  /\ pc \in {"header", "body"} /\ peer = "open"
  /\ \E n \in arrived + 1..Len(answer) : arrived' = n
  /\ UNCHANGED <<callVars, answer, peer>>

Close ==
  /\ pc \in {"header", "body"} /\ peer = "open"
  /\ peer' \in (IF arrived = Len(answer) THEN {"closed"} ELSE {}) \cup {"reset"}
  /\ UNCHANGED <<callVars, answer, arrived>>

Next == Call \/ Tick \/ Deliver \/ Close

\* Time passes and the call goes on; the server is bound to nothing.
Spec == Init /\ [][Next]_vars /\ WF_vars(Call) /\ WF_vars(Tick)

-----------------------------------------------------------------------------
\* What follows the first empty line of the answer.
SentBody == SubSeq(answer, Strstr(answer, <<"n", "r", "n">>) + 3, Len(answer))

\* From the answer of the resolver on, no path lasts longer than the shorter
\* rest of the two timeouts, through connect and any number of recv() calls
\* (lines 70, 98 to 109, 147 to 158, 213 to 224).
DeadlineKept ==
  startConnect # Never =>
    now = startConnect \/ now <= Min({TimeoutAll, startConnect + TimeoutAfterDNS})

\* JNHE_OK means that the status line was read; it means the body that was sent,
\* cut only at *bodyLen, however many recv() calls brought header and body, if
\* the one that brought the empty line brought some of the body and had no line
\* end carried over (lines 167 to 201, 227 to 237).
OkIsAnswer ==
  result = "OK" =>
    /\ rspCode = "200"
    /\ whole => /\ body = SubSeq(SentBody, 1, bodyLen)
                /\ body = SentBody \/ bodyLen \in BodyLens
=============================================================================
