------------------------- MODULE ProcProtocolProofs -------------------------
(***************************************************************************)
(* Proofs about ProcProtocol and AuthProtocol for requests of any kind and *)
(* number, buffers and limits of any size. That a login is told to the     *)
(* client exactly once rests on the parser: a text that is swallowed as    *)
(* "just a line feed" is never a login. That requests are executed whole   *)
(* rests on what is left in the read buffer (StreamInv), and what is       *)
(* answered to a well-formed request on where its parts are in the text.   *)
(***************************************************************************)
EXTENDS AuthProtocol, SequenceTheorems, WellFoundedInduction, TLAPS

\* A nonempty set of natural numbers has a least element.
LEMMA LeastNatural ==
    ASSUME NEW T, T \subseteq Nat, T # {}
    PROVE  \E x \in T : \A y \in T : x <= y
<1> DEFINE R == {ss \in Nat \X Nat : ss[1] < ss[2]}
<1>1. IsWellFoundedOn(R, Nat)
  BY NatLessThanWellFounded DEF OpToRel
<1> HIDE DEF R
<1>2. \E x \in T : \A y \in T : ~(<<y, x>> \in R)
  BY <1>1, WFMin
<1>3. PICK x \in T : \A y \in T : ~(<<y, x>> \in R)
  BY <1>2
<1>4. ASSUME NEW y \in T PROVE x <= y
  <2>1. x \in Nat /\ y \in Nat
    OBVIOUS
  <2>2. y < x => <<y, x>> \in R
    BY <2>1 DEF R
  <2> QED BY <1>3, <2>1, <2>2
<1> QED BY <1>3, <1>4

\* find_first_of yields a position of the character, or npos.
LEMMA FindRange ==
    ASSUME NEW s \in Seq(Bytes), NEW c
    PROVE  /\ Find(s, c) \in 0 .. Len(s)
           /\ Find(s, c) # 0 => s[Find(s, c)] = c
           /\ Has(s, c) <=> Find(s, c) # 0
<1>1. CASE ~(\E i \in DOMAIN s : s[i] = c)
  BY <1>1 DEF Find, Has
<1>2. CASE \E i \in DOMAIN s : s[i] = c
  <2> DEFINE T == {i \in DOMAIN s : s[i] = c}
  <2>1. T \subseteq Nat /\ T # {}
    BY <1>2
  <2>2. PICK x \in T : \A y \in T : x <= y
    BY <2>1, LeastNatural
  <2>3. x \in DOMAIN s /\ s[x] = c /\ \A j \in 1 .. x - 1 : s[j] # c
    BY <2>2
  <2>4. Find(s, c) \in DOMAIN s /\ s[Find(s, c)] = c
    BY <1>2, <2>3 DEF Find
  <2> QED BY <1>2, <2>4 DEF Has
<1> QED BY <1>1, <1>2

\* A part of a text is a text.
LEMMA SubText ==
    ASSUME NEW s \in Seq(Bytes), NEW m \in Nat \ {0}, NEW n \in Int, n <= Len(s)
    PROVE  /\ SubSeq(s, m, n) \in Seq(Bytes)
           /\ Len(SubSeq(s, m, n)) = IF m <= n THEN n - m + 1 ELSE 0
           /\ \A i \in 1 .. n - m + 1 : SubSeq(s, m, n)[i] = s[m + i - 1]
  OBVIOUS

\* parse_command takes a text apart at its first blank, if the token before it
\* is within the limit.
LEMMA ParseSplits ==
    ASSUME NEW text, NEW tok, NEW i, i = Find(text, SP),
           i # 0, ~(i > MaxTokenLength + 1)
    PROVE  Parse(text, tok) =
             [error |-> IF i = Len(text) THEN "peInvalidSyntax" ELSE "peNoPacketError",
              token |-> SubSeq(text, 1, i - 1), rest |-> SubSeq(text, i + 1, Len(text))]
  BY Zenon DEF Parse

\* parse_command yields a text within the limit for a token, if the token was
\* one before, and one of its errors.
LEMMA ParseTyped ==
    ASSUME NEW text \in Seq(Bytes), NEW tok \in Seq(Bytes),
           Len(tok) <= MaxTokenLength, MaxTokenLength \in Nat \ {0}
    PROVE  /\ Parse(text, tok).token \in Seq(Bytes)
           /\ Len(Parse(text, tok).token) <= MaxTokenLength
           /\ Parse(text, tok).error \in
                {"peTokenTooLong", "peNoCommand", "peInvalidSyntax", "peNoPacketError"}
           /\ Parse(text, tok).rest \in Seq(Bytes)
<1> DEFINE i == Find(text, SP)
<1>1. i \in 0 .. Len(text)
  BY FindRange
<1>2. CASE i = 0 \/ i > MaxTokenLength + 1
  BY <1>1, <1>2 DEF Parse
<1>3. CASE i # 0 /\ i <= MaxTokenLength + 1
  <2>1. /\ SubSeq(text, 1, i - 1) \in Seq(Bytes)
        /\ Len(SubSeq(text, 1, i - 1)) <= MaxTokenLength
    BY <1>1, <1>3, SubText
  <2>2. SubSeq(text, i + 1, Len(text)) \in Seq(Bytes)
    BY <1>1, SubText
  <2>3. /\ Parse(text, tok).token = SubSeq(text, 1, i - 1)
        /\ Parse(text, tok).rest = SubSeq(text, i + 1, Len(text))
        /\ Parse(text, tok).error \in {"peInvalidSyntax", "peNoPacketError"}
    BY <1>1, <1>3, ParseSplits
  <2> QED BY <2>1, <2>2, <2>3
<1> QED BY <1>1, <1>2, <1>3

\* What recv() left in the buffer reads as a text, and longer pieces too.
LEMMA CStringTyped ==
    ASSUME NEW b \in [1 .. BufLen -> Bytes \union {NUL}], BufLen \in Nat \ {0},
           NEW read \in CString(b)
    PROVE  read \in Seq(Bytes)
<1>1. CASE \E i \in 1 .. BufLen : b[i] = NUL
  <2> DEFINE T == {i \in 1 .. BufLen : b[i] = NUL}
  <2>0. T \subseteq Nat /\ T # {}
    BY <1>1
  <2>1. PICK x \in T : \A y \in T : x <= y
    BY <2>0, LeastNatural
  <2>2. \E n \in 0 .. BufLen - 1 : b[n + 1] = NUL /\ \A j \in 1 .. n : b[j] # NUL
    <3>1. /\ x - 1 \in 0 .. BufLen - 1 /\ b[x - 1 + 1] = NUL
          /\ \A j \in 1 .. x - 1 : b[j] # NUL
      BY <2>1
    <3> QED BY <3>1
  <2> DEFINE n == CHOOSE n \in 0 .. BufLen - 1 : b[n + 1] = NUL /\ \A j \in 1 .. n : b[j] # NUL
  <2>3. n \in 0 .. BufLen - 1 /\ \A j \in 1 .. n : b[j] # NUL
    BY <2>2
  <2>4. read = [i \in 1 .. n |-> b[i]]
    BY <1>1 DEF CString
  <2> HIDE DEF n
  <2>5. read \in [1 .. n -> Bytes]
    BY <2>3, <2>4
  <2> QED BY <2>3, <2>5
<1>2. CASE ~(\E i \in 1 .. BufLen : b[i] = NUL)
  <2>1. b \in Seq(Bytes)
    BY <1>2
  <2>2. Append(b, "a") \in Seq(Bytes)
    BY <2>1 DEF Bytes, Letters
  <2> QED BY <1>2, <2>1, <2>2 DEF CString
<1> QED BY <1>1, <1>2

\* perform's outcome; it grants a login only to a client that is not yet
\* authenticated, and turns one away only if it is.
LEMMA OutcomeTyped ==
    ASSUME NEW p, p.error \in {"peTokenTooLong", "peNoCommand", "peInvalidSyntax", "peNoPacketError"}
    PROVE  /\ Outcome(p) \in Outcomes
           /\ Outcome(p) = "OK" => "oesAuthenticated" \notin states
           /\ Outcome(p) = "peAlreadyAuthenticated" => "oesAuthenticated" \in states
  BY DEF Outcome, Outcomes, OnLogin

\* A text that process() swallows as just a line feed is not a login: of a blank
\* and a line feed, rtrimlast leaves the line feed, which is no command.
LEMMA SwallowedIsNoLogin ==
    ASSUME NEW text \in Seq(Bytes), NEW tok, Ignored(text),
           MaxTokenLength \in Nat \ {0}
    PROVE  Outcome(Parse(text, tok)) # "OK"
<1> DEFINE i == Find(text, SP)
<1>1. i \in 0 .. 2 /\ (i # 0 => text[i] = SP) /\ Len(text) = 2
  BY FindRange DEF Ignored
<1>2. CASE i = 0
  BY <1>2 DEF Parse, Outcome
<1>3. CASE i = 2
  BY <1>1, <1>3 DEF Parse, Outcome
<1>4. CASE i = 1
  <2> DEFINE rest == SubSeq(text, 2, 2)
  <2>1. text[1] # LF /\ text[2] = LF
    BY <1>1, <1>4 DEF Ignored, Has, SP, LF
  <2>2. rest \in Seq(Bytes) /\ Len(rest) = 1 /\ rest[1] = LF
    BY <1>1, <2>1
  <2>3. Parse(text, tok).rest = rest /\ Parse(text, tok).error = "peNoPacketError"
    BY <1>1, <1>4 DEF Parse
  <2> HIDE DEF rest
  <2>4. ~Has(rest, SP)
    BY <2>2 DEF Has, SP, LF
  <2>5. Command(rest) = rest
    BY <2>2, <2>4 DEF Command, RtrimLast, UpToBefore
  <2>6. Lcase(rest)[1] = LF
    BY <2>2 DEF Lcase, LF
  <2>7. Lcase(rest) \notin Commands
    BY <2>6 DEF Commands, LF
  <2> QED BY <2>3, <2>5, <2>7 DEF Outcome
<1> QED BY <1>1, <1>2, <1>3, <1>4

Inv == TypeOK /\ LoginToldOnce

LEMMA InitInv == Init => Inv
<1> SUFFICES ASSUME Init PROVE Inv
  OBVIOUS
<1>1. rdbuf \in [1 .. BufLen -> Bytes \union {NUL}]
  BY DEF Init, Zeroed
<1>2. token \in Seq(Bytes) /\ Len(token) <= MaxTokenLength
  BY ProtocolAssumption DEF Init
<1>3. TypeOK
  <2>1. \A S : <<>> \in Seq(S)
    OBVIOUS
  <2>2. /\ wire \in Seq(Bytes) /\ ostr \in Seq(Bytes) /\ got \in Seq(Bytes)
        /\ replies \in Seq([token : Seq(Bytes), outcome : Outcomes])
        /\ sends \in Seq(Lines) /\ pieces \in Seq(1 .. BufLen)
    BY <2>1, Zenon DEF Init
  <2>3. /\ hungup \in BOOLEAN /\ intact \in BOOLEAN /\ pc \in {"recv", "perform", "closed"}
        /\ states \in SUBSET {"oesNonAuthenticated", "oesAuthenticated"}
    BY DEF Init
  <2> QED BY <1>1, <1>2, <2>2, <2>3, Zenon DEF TypeOK
<1>4. \A o : Told(o) = {}
  BY DEF Init, Told
<1>5. "oesAuthenticated" \notin states
  BY DEF Init
<1> QED BY <1>3, <1>4, <1>5 DEF Inv, LoginToldOnce

\* Process() being entered leaves a zeroed buffer and an empty text.
LEMMA EnterTyped ==
    ASSUME BufLen \in Nat \ {0}, Enter
    PROVE  /\ rdbuf' \in [1 .. BufLen -> Bytes \union {NUL}]
           /\ ostr' \in Seq(Bytes) /\ got' \in Seq(Bytes) /\ pieces' \in Seq(1 .. BufLen)
  BY DEF Enter, Zeroed

LEMMA PerformInv == ASSUME Inv, Perform PROVE Inv'
<1> DEFINE p == Parse(ostr, token)
<1> USE DEF Inv
<1>1. /\ p.token \in Seq(Bytes) /\ Len(p.token) <= MaxTokenLength
      /\ p.error \in {"peTokenTooLong", "peNoCommand", "peInvalidSyntax", "peNoPacketError"}
  BY ParseTyped, ProtocolAssumption DEF TypeOK
<1>2. /\ Outcome(p) \in Outcomes
      /\ Outcome(p) = "OK" => "oesAuthenticated" \notin states
      /\ Outcome(p) = "peAlreadyAuthenticated" => "oesAuthenticated" \in states
  BY <1>1, OutcomeTyped
<1>3. Ignored(ostr) => Outcome(p) # "OK"
  BY SwallowedIsNoLogin, ProtocolAssumption DEF TypeOK
<1> DEFINE reply == [token |-> p.token, outcome |-> Outcome(p)]
<1>4. /\ token' = p.token
      /\ states' = IF Outcome(p) = "OK" THEN states \union {"oesAuthenticated"} ELSE states
      /\ replies' = IF Ignored(ostr) THEN replies ELSE Append(replies, reply)
  BY DEF Perform
<1> HIDE DEF p
<1>5. TypeOK'
  <2>1. reply \in [token : Seq(Bytes), outcome : Outcomes]
    BY <1>1, <1>2
  <2>2. replies' \in Seq([token : Seq(Bytes), outcome : Outcomes])
    <3> DEFINE R == [token : Seq(Bytes), outcome : Outcomes]
    <3>1. replies \in Seq(R) /\ reply \in R
      BY <2>1 DEF TypeOK
    <3> HIDE DEF R, reply
    <3>2. Append(replies, reply) \in Seq(R)
      BY <3>1
    <3> QED BY <1>4, <3>1, <3>2 DEF R
  <2>3. states' \in SUBSET {"oesNonAuthenticated", "oesAuthenticated"}
    BY <1>4 DEF TypeOK
  <2>4. pc' = "recv" /\ Enter /\ UNCHANGED client /\ intact' = (intact /\ wire = <<>>)
    BY DEF Perform
  <2>5. intact' \in BOOLEAN
    BY <2>4
  <2> QED BY <1>1, <1>4, <2>2, <2>3, <2>4, <2>5, EnterTyped, ProtocolAssumption DEF TypeOK, client
<1>6. LoginToldOnce'
  <2>1. CASE Ignored(ostr)
    <3>1. replies' = replies /\ states' = states
      BY <1>3, <1>4, <2>1
    <3> QED BY <3>1 DEF LoginToldOnce, Told
  <2>2. CASE ~Ignored(ostr)
    <3> DEFINE n == Len(replies) + 1
    <3>1. /\ replies' = Append(replies, reply)
          /\ replies \in Seq([token : Seq(Bytes), outcome : Outcomes])
      BY <1>4, <2>2 DEF TypeOK
    <3>2. /\ DOMAIN replies' = DOMAIN replies \union {n}
          /\ n \notin DOMAIN replies
          /\ \A i \in DOMAIN replies : replies'[i] = replies[i] /\ i < n
          /\ replies'[n] = reply
      BY <3>1
    <3>3. reply.outcome = Outcome(p)
      OBVIOUS
    <3> HIDE DEF reply, n
    <3>4. \A o : Told(o)' = IF Outcome(p) = o THEN Told(o) \union {n} ELSE Told(o)
      BY <3>2, <3>3 DEF Told
    <3>5. \A o : Told(o) \subseteq DOMAIN replies
      BY DEF Told
    <3>6. CASE Outcome(p) = "OK"
      <4>1. Told("OK") = {} /\ states' = states \union {"oesAuthenticated"}
        BY <1>2, <1>4, <3>6 DEF LoginToldOnce
      <4>2. Told("OK")' = {n} /\ Told("peAlreadyAuthenticated")' = {}
        BY <3>4, <3>6, <4>1 DEF LoginToldOnce
      <4> QED BY <3>2, <4>1, <4>2 DEF LoginToldOnce
    <3>7. CASE Outcome(p) = "peAlreadyAuthenticated"
      <4>1. states' = states /\ "oesAuthenticated" \in states
        BY <1>2, <1>4, <3>7
      <4>2. /\ Told("OK")' = Told("OK")
            /\ Told("peAlreadyAuthenticated")' = Told("peAlreadyAuthenticated") \union {n}
        BY <3>4, <3>7
      <4>3. PICK i \in DOMAIN replies : Told("OK") = {i}
        BY <4>1 DEF LoginToldOnce
      <4> QED BY <3>2, <4>1, <4>2, <4>3 DEF LoginToldOnce
    <3>8. CASE Outcome(p) \notin {"OK", "peAlreadyAuthenticated"}
      <4>1. states' = states
        BY <1>4, <3>8
      <4>2. Told("OK")' = Told("OK") /\ Told("peAlreadyAuthenticated")' = Told("peAlreadyAuthenticated")
        BY <3>4, <3>8
      <4> QED BY <3>2, <4>1, <4>2 DEF LoginToldOnce
    <3> QED BY <3>6, <3>7, <3>8
  <2> QED BY <2>1, <2>2
<1> QED BY <1>5, <1>6

\* A step that leaves the session alone keeps what the client was told.
LEMMA SessionKept == ASSUME LoginToldOnce, UNCHANGED session PROVE LoginToldOnce'
  BY DEF LoginToldOnce, Told, session

LEMMA RecvInv == ASSUME Inv, NEW n \in 1 .. BufLen, Recv(n) PROVE Inv'
<1> DEFINE chunk == SubSeq(wire, 1, n)
<1> USE DEF Inv
<1>0. BufLen \in Nat \ {0}
  BY ProtocolAssumption
<1>1. /\ chunk \in Seq(Bytes) /\ Len(chunk) = n
      /\ SubSeq(wire, n + 1, Len(wire)) \in Seq(Bytes)
  <2>1. wire \in Seq(Bytes) /\ n \in Nat \ {0} /\ n <= Len(wire)
    BY <1>0 DEF Recv, TypeOK
  <2>2. chunk \in Seq(Bytes) /\ Len(chunk) = n
    BY <2>1, SubText
  <2>3. SubSeq(wire, n + 1, Len(wire)) \in Seq(Bytes)
    BY <2>1, SubText
  <2> QED BY <2>2, <2>3
<1>2. Filled(chunk) \in [1 .. BufLen -> Bytes \union {NUL}]
  BY <1>0, <1>1 DEF Filled, TypeOK
<1>3. rdbuf' \in [1 .. BufLen -> Bytes \union {NUL}]
  BY <1>0, <1>2 DEF Recv, ZeroStart
<1>4. PICK read \in CString(Filled(chunk)) : ostr' = ostr \o read
  BY DEF Recv
<1>5. ostr' \in Seq(Bytes)
  <2>1. read \in Seq(Bytes)
    BY <1>0, <1>2, <1>4, CStringTyped
  <2> QED BY <1>4, <2>1 DEF TypeOK
<1>6. got' \in Seq(Bytes) /\ pieces' \in Seq(1 .. BufLen)
  BY <1>1 DEF Recv, TypeOK
<1>7. /\ pc' \in {"recv", "perform", "closed"} /\ wire' \in Seq(Bytes)
      /\ UNCHANGED <<hungup, session, sends, intact>>
  BY <1>1 DEF Recv
<1>8. TypeOK'
  BY <1>3, <1>5, <1>6, <1>7 DEF TypeOK, session
<1> QED BY <1>7, <1>8, SessionKept

LEMMA NextInv == ASSUME Inv, [Next]_vars PROVE Inv'
<1> USE DEF Inv
<1>1. CASE \E n \in 1 .. BufLen : Recv(n)
  BY <1>1, RecvInv
<1>2. CASE Perform
  BY <1>2, PerformInv
<1>3. CASE RecvNothing
  <2>1. Enter /\ UNCHANGED <<client, pc, session>> /\ intact' = (intact /\ ostr = <<>>)
    BY <1>3 DEF RecvNothing
  <2>2. intact' \in BOOLEAN
    BY <2>1
  <2>3. TypeOK'
    BY <2>1, <2>2, EnterTyped, ProtocolAssumption DEF TypeOK, client, session
  <2> QED BY <2>1, <2>3, SessionKept
<1>4. ASSUME NEW line \in Lines, Send(line) PROVE Inv'
  <2>1. /\ wire' = wire \o line /\ sends' = Append(sends, line)
        /\ UNCHANGED <<hungup, pc, rdbuf, ostr, session, got, pieces>>
        /\ intact' = (intact /\ wire = <<>> /\ ostr = <<>>)
    BY <1>4 DEF Send
  <2>2. intact' \in BOOLEAN
    BY <2>1
  <2>3. line \in Seq(Bytes)
    BY ProtocolAssumption
  <2>4. wire' \in Seq(Bytes) /\ sends' \in Seq(Lines)
    BY <2>1, <2>3 DEF TypeOK
  <2>5. TypeOK'
    BY <2>1, <2>2, <2>4 DEF TypeOK, session
  <2> QED BY <2>1, <2>5, SessionKept
<1>5. CASE HangUp
  <2>1. TypeOK' /\ UNCHANGED session
    BY <1>5 DEF HangUp, TypeOK, session
  <2> QED BY <2>1, SessionKept
<1>6. CASE UNCHANGED vars
  <2>1. TypeOK' /\ UNCHANGED session
    BY <1>6 DEF vars, TypeOK, session
  <2> QED BY <2>1, SessionKept
<1> QED BY <1>1, <1>2, <1>3, <1>4, <1>5, <1>6 DEF Next

-----------------------------------------------------------------------------
(* The stream: from the wire through the read buffer to the text.          *)

\* Beyond what memset clears, the buffer is zero past the longest piece.
BufferClean ==
    \A i \in 1 .. BufLen : rdbuf[i] # NUL =>
        i > IntSize /\ \E k \in DOMAIN pieces : i <= pieces[k]

\* Pieces that do not shrink are read as they came.
TextClean == Growing /\ Len(got) < BufLen => ostr = got

\* Something was received exactly if there is a text.
TextStarted == (ostr = <<>>) <=> (got = <<>>)

\* One request at a time: what was received and what is to come make the last.
OneRequest ==
    intact => \/ got = <<>> /\ wire = <<>>
              \/ sends # <<>> /\ got \o wire = sends[Len(sends)]

\* Only a text that is complete, or too long, is executed.
LineEnded == pc = "perform" => ~Incomplete(ostr)

StreamInv == BufferClean /\ TextClean /\ TextStarted /\ OneRequest /\ LineEnded

\* Texts can be joined in any order.
LEMMA ConcatBytes ==
    ASSUME NEW a \in Seq(Bytes), NEW b \in Seq(Bytes), NEW c \in Seq(Bytes)
    PROVE  (a \o b) \o c = a \o (b \o c)
  BY ConcatAssociative

\* What is appended is the last.
LEMMA LastAppended ==
    ASSUME NEW S, NEW s \in Seq(S), NEW x \in S
    PROVE  Append(s, x) # <<>> /\ Append(s, x)[Len(Append(s, x))] = x
  BY AppendProperties

\* A buffer with its first NUL after m bytes reads as these.
LEMMA CStringExact ==
    ASSUME NEW b, BufLen \in Nat \ {0}, NEW m \in 0 .. BufLen - 1,
           b[m + 1] = NUL, \A j \in 1 .. m : b[j] # NUL
    PROVE  CString(b) = {[i \in 1 .. m |-> b[i]]}
<1> DEFINE First(n) == b[n + 1] = NUL /\ \A j \in 1 .. n : b[j] # NUL
<1>1. \E i \in 1 .. BufLen : b[i] = NUL
  BY m + 1 \in 1 .. BufLen
<1>2. ASSUME NEW n \in 0 .. BufLen - 1, First(n) PROVE n = m
  <2>1. ~(n < m)
    BY <1>2, n < m => n + 1 \in 1 .. m
  <2>2. ~(m < n)
    BY <1>2, m < n => m + 1 \in 1 .. n
  <2> QED BY <2>1, <2>2
<1>3. (CHOOSE n \in 0 .. BufLen - 1 : First(n)) = m
  BY <1>2
<1> QED BY <1>1, <1>3, Zenon DEF CString

\* A buffer that starts with m bytes reads as a text of m bytes at least.
LEMMA CStringAtLeast ==
    ASSUME NEW b \in [1 .. BufLen -> Bytes \union {NUL}], BufLen \in Nat \ {0},
           NEW m \in 1 .. BufLen, \A i \in 1 .. m : b[i] # NUL, NEW read \in CString(b)
    PROVE  Len(read) \in Nat /\ Len(read) >= m
<1>1. CASE \E i \in 1 .. BufLen : b[i] = NUL
  <2> DEFINE T == {i \in 1 .. BufLen : b[i] = NUL}
  <2>1. PICK x \in T : \A y \in T : x <= y
    BY <1>1, LeastNatural, T \subseteq Nat /\ T # {}
  <2>2. x \in 1 .. BufLen /\ x > m
    BY <2>1
  <2>3. x - 1 \in 0 .. BufLen - 1 /\ b[(x - 1) + 1] = NUL /\ \A j \in 1 .. x - 1 : b[j] # NUL
    BY <2>1, <2>2
  <2>4. PICK l : l = x - 1
    OBVIOUS
  <2>5. l \in 0 .. BufLen - 1 /\ b[l + 1] = NUL /\ \A j \in 1 .. l : b[j] # NUL
    BY ONLY <2>3, <2>4
  <2>6. read = [i \in 1 .. l |-> b[i]]
    <3>1. CString(b) = {[i \in 1 .. l |-> b[i]]}
      BY ONLY <2>5, BufLen \in Nat \ {0}, CStringExact
    <3> QED BY ONLY <3>1, read \in CString(b)
  <2>7. l \in Nat /\ l >= m
    BY ONLY <2>2, <2>4, <2>5, m \in 1 .. BufLen, BufLen \in Nat \ {0}
  <2>8. Len(read) = l
    BY ONLY <2>6, <2>7
  <2> QED BY ONLY <2>7, <2>8
<1>2. CASE ~(\E i \in 1 .. BufLen : b[i] = NUL)
  <2>1. b \in Seq(Bytes) /\ Len(b) = BufLen
    BY <1>2
  <2>2. "a" \in Bytes
    BY DEF Bytes, Letters
  <2>3. Len(Append(b, "a")) = BufLen + 1
    BY ONLY <2>1, <2>2
  <2>4. read = b \/ read = Append(b, "a")
    BY <1>2 DEF CString
  <2> QED BY ONLY <2>1, <2>3, <2>4, m \in 1 .. BufLen, BufLen \in Nat \ {0}
<1> QED BY <1>1, <1>2

\* A buffer that starts with a byte reads as more than nothing.
LEMMA CStringStarted ==
    ASSUME NEW b \in [1 .. BufLen -> Bytes \union {NUL}], BufLen \in Nat \ {0},
           b[1] # NUL, NEW read \in CString(b)
    PROVE  read # <<>>
<1>1. 1 \in 1 .. BufLen /\ \A i \in 1 .. 1 : b[i] # NUL
  OBVIOUS
<1>2. Len(read) \in Nat /\ Len(read) >= 1
  BY <1>1, CStringAtLeast
<1>3. Len(<<>>) = 0
  OBVIOUS
<1> QED BY ONLY <1>2, <1>3

\* process() starts with nothing received, nothing read and nothing left over.
LEMMA EnterStream ==
    ASSUME Enter, pc' = "recv", intact' => wire' = <<>> PROVE StreamInv'
<1>1. ostr' = <<>> /\ got' = <<>> /\ rdbuf' = Zeroed
  BY DEF Enter
<1>2. BufferClean'
  BY <1>1 DEF BufferClean, Zeroed
<1> QED BY <1>1, <1>2 DEF StreamInv, TextClean, TextStarted, OneRequest, LineEnded

\* What recv() takes off the wire and what it leaves there make what was on it.
LEMMA RecvChunk ==
    ASSUME TypeOK, NEW n \in 1 .. BufLen, Recv(n)
    PROVE  LET chunk == SubSeq(wire, 1, n) IN
           /\ n \in Nat \ {0} /\ BufLen \in Nat \ {0}
           /\ chunk \in Seq(Bytes) /\ Len(chunk) = n /\ wire' \in Seq(Bytes)
           /\ chunk \o wire' = wire
<1>1. wire \in Seq(Bytes) /\ n \in Nat \ {0} /\ n <= Len(wire) /\ BufLen \in Nat \ {0}
  BY ProtocolAssumption DEF Recv, TypeOK
<1>2. wire' = SubSeq(wire, n + 1, Len(wire))
  BY DEF Recv
<1> QED BY <1>1, <1>2

\* recv() adds what arrived to the text: exactly that, if no piece shrank.
LEMMA RecvStream ==
    ASSUME TypeOK, StreamInv, NEW n \in 1 .. BufLen, Recv(n) PROVE StreamInv'
<1> DEFINE chunk == SubSeq(wire, 1, n)
           full == Filled(chunk)
<1>1. /\ n \in Nat \ {0} /\ BufLen \in Nat \ {0}
      /\ chunk \in Seq(Bytes) /\ Len(chunk) = n /\ wire' \in Seq(Bytes)
      /\ chunk \o wire' = wire
  BY RecvChunk
<1>2. /\ got' = got \o chunk /\ pieces' = Append(pieces, n)
      /\ rdbuf' = ZeroStart(full) /\ UNCHANGED <<sends, intact>>
      /\ pc = "recv" /\ pc' \in {"recv", "perform", "closed"}
      /\ pc' = "perform" => ~Incomplete(ostr')
  BY DEF Recv
<1>3. PICK read \in CString(full) : ostr' = ostr \o read
  BY DEF Recv
<1>4. /\ got \in Seq(Bytes) /\ ostr \in Seq(Bytes) /\ pieces \in Seq(1 .. BufLen)
      /\ sends \in Seq(Lines) /\ rdbuf \in [1 .. BufLen -> Bytes \union {NUL}]
      /\ IntSize \in Nat
  BY ProtocolAssumption DEF TypeOK
<1> HIDE DEF chunk
<1>5. \A i \in 1 .. BufLen : full[i] = IF i <= n THEN chunk[i] ELSE rdbuf[i]
  BY <1>1 DEF Filled
<1>6. full \in [1 .. BufLen -> Bytes \union {NUL}]
  BY <1>1, <1>4 DEF Filled
<1>7. \A i \in 1 .. n : chunk[i] # NUL
  BY <1>1 DEF NUL, Bytes, Letters, SP, CR, LF, CtrlC
<1>8. \A i \in 1 .. BufLen : rdbuf'[i] = IF i <= IntSize THEN NUL ELSE full[i]
  BY <1>2 DEF ZeroStart
<1> HIDE DEF full
<1>9. /\ Len(pieces) + 1 \in DOMAIN pieces' /\ pieces'[Len(pieces) + 1] = n
      /\ \A k \in DOMAIN pieces : k \in DOMAIN pieces' /\ pieces'[k] = pieces[k]
                                  /\ k < Len(pieces) + 1 /\ pieces[k] \in Nat
  BY <1>1, <1>2, <1>4
<1>10. BufferClean'
  <2> SUFFICES ASSUME NEW i \in 1 .. BufLen, rdbuf'[i] # NUL
               PROVE  i > IntSize /\ \E k \in DOMAIN pieces' : i <= pieces'[k]
    BY DEF BufferClean
  <2>1. i > IntSize /\ full[i] # NUL
    BY <1>4, <1>8
  <2>2. CASE i <= n
    BY <1>9, <2>1, <2>2
  <2>3. CASE ~(i <= n)
    <3>1. PICK k \in DOMAIN pieces : i <= pieces[k]
      BY <1>5, <2>1, <2>3 DEF StreamInv, BufferClean
    <3> QED BY <1>9, <2>1, <3>1
  <2> QED BY <2>2, <2>3
<1>11. TextClean'
  <2> SUFFICES ASSUME Growing', Len(got') < BufLen PROVE ostr' = got'
    BY DEF TextClean
  <2>1. Len(got) < BufLen /\ n < BufLen
    BY <1>1, <1>2, <1>4
  <2>2. Growing
    BY <1>9 DEF Growing
  <2>3. ostr = got
    BY <2>1, <2>2 DEF StreamInv, TextClean
  <2>4. rdbuf[n + 1] = NUL
    <3> SUFFICES ASSUME rdbuf[n + 1] # NUL PROVE FALSE
      OBVIOUS
    <3>1. n + 1 \in 1 .. BufLen
      BY <1>1, <2>1
    <3>2. PICK k \in DOMAIN pieces : n + 1 <= pieces[k] /\ n + 1 > IntSize
      BY <3>1 DEF StreamInv, BufferClean
    <3>3. pieces[k] <= n \/ n < IntSize
      BY <1>9 DEF Growing
    <3> QED BY <1>1, <1>4, <1>9, <3>2, <3>3
  <2>5. n \in 0 .. BufLen - 1 /\ full[n + 1] = NUL /\ \A j \in 1 .. n : full[j] # NUL
    BY <1>1, <1>5, <1>7, <2>1, <2>4
  <2>6. read = [i \in 1 .. n |-> full[i]]
    BY <1>1, <1>3, <2>5, CStringExact
  <2>7. read = chunk
    BY <1>1, <1>5, <2>6
  <2> QED BY <1>2, <1>3, <2>3, <2>7
<1>12. TextStarted'
  <2>1. full[1] # NUL
    BY <1>1, <1>5, <1>7
  <2>2. read # <<>>
    BY <1>1, <1>3, <1>6, <2>1, CStringStarted
  <2>3. read \in Seq(Bytes)
    BY <1>1, <1>3, <1>6, CStringTyped
  <2>4. ostr' # <<>>
    BY <1>3, <1>4, <2>2, <2>3
  <2>5. got' # <<>>
    BY <1>1, <1>2, <1>4
  <2> QED BY <2>4, <2>5 DEF TextStarted
<1>13. OneRequest'
  <2> SUFFICES ASSUME intact PROVE sends # <<>> /\ got' \o wire' = sends[Len(sends)]
    BY <1>2 DEF OneRequest
  <2>1. wire # <<>>
    BY <1>1
  <2>2. sends # <<>> /\ got \o wire = sends[Len(sends)]
    BY <2>1 DEF StreamInv, OneRequest
  <2>3. (got \o chunk) \o wire' = got \o (chunk \o wire')
    <3>1. got \in Seq(Bytes) /\ chunk \in Seq(Bytes) /\ wire' \in Seq(Bytes)
      BY <1>1, <1>4
    <3> HIDE DEF chunk
    <3> QED BY ONLY <3>1, ConcatBytes
  <2> QED BY <1>1, <1>2, <2>2, <2>3
<1> QED BY <1>2, <1>10, <1>11, <1>12, <1>13 DEF StreamInv, LineEnded

\* Every step of the process manager's connection, and the other server's
\* perform, keeps the text and the stream together.
LEMMA StreamStep ==
    ASSUME TypeOK, StreamInv, [Next]_vars \/ AuthPerform PROVE StreamInv'
<1>1. CASE \E n \in 1 .. BufLen : Recv(n)
  BY <1>1, RecvStream
<1>2. CASE Perform \/ AuthPerform
  <2>1. Enter /\ pc' = "recv" /\ UNCHANGED client /\ intact' = (intact /\ wire = <<>>)
    BY <1>2 DEF Perform, AuthPerform
  <2> QED BY <2>1, EnterStream DEF client
<1>3. CASE RecvNothing
  <2>1. Enter /\ pc' = "recv" /\ UNCHANGED client /\ intact' = (intact /\ ostr = <<>>)
    BY <1>3 DEF RecvNothing
  <2>2. BufferClean' /\ TextClean' /\ TextStarted' /\ LineEnded'
    BY <2>1 DEF Enter, Zeroed, BufferClean, TextClean, TextStarted, LineEnded
  <2>3. OneRequest'
    <3> SUFFICES ASSUME intact' PROVE OneRequest'
      BY DEF OneRequest
    <3>1. intact /\ got = <<>> /\ got' = got /\ UNCHANGED <<wire, sends>>
      BY <2>1 DEF Enter, StreamInv, TextStarted, client
    <3> QED BY <3>1 DEF StreamInv, OneRequest
  <2> QED BY <2>2, <2>3 DEF StreamInv
<1>4. ASSUME NEW line \in Lines, Send(line) PROVE StreamInv'
  <2>1. /\ wire' = wire \o line /\ sends' = Append(sends, line)
        /\ UNCHANGED <<pc, rdbuf, ostr, got, pieces>>
        /\ intact' = (intact /\ wire = <<>> /\ ostr = <<>>)
    BY <1>4 DEF Send
  <2>2. BufferClean' /\ TextClean' /\ TextStarted' /\ LineEnded'
    BY <2>1 DEF StreamInv, BufferClean, TextClean, Growing, TextStarted, LineEnded
  <2>3. OneRequest'
    <3> SUFFICES ASSUME intact' PROVE sends' # <<>> /\ got' \o wire' = sends'[Len(sends')]
      BY DEF OneRequest
    <3>1. wire = <<>> /\ got = <<>>
      BY <2>1 DEF StreamInv, TextStarted
    <3>2. line \in Seq(Bytes) /\ sends \in Seq(Lines)
      BY ProtocolAssumption DEF TypeOK
    <3>3. got' \o wire' = line
      BY <2>1, <3>1, <3>2
    <3>4. sends' # <<>> /\ sends'[Len(sends')] = line
      BY <2>1, <3>2, LastAppended
    <3> QED BY <3>3, <3>4
  <2> QED BY <2>2, <2>3 DEF StreamInv
<1>5. CASE HangUp \/ UNCHANGED vars
  <2>1. UNCHANGED <<wire, pc, rdbuf, ostr, sends, got, pieces, intact>>
    BY <1>5 DEF HangUp, vars
  <2> QED
    BY <2>1 DEF StreamInv, BufferClean, TextClean, Growing, TextStarted, OneRequest, LineEnded
<1> QED BY <1>1, <1>2, <1>3, <1>4, <1>5 DEF Next

\* What memset does not clear keeps the longest piece.
BufferKept ==
    \A i \in 1 .. BufLen, k \in DOMAIN pieces : i > IntSize /\ i <= pieces[k] => rdbuf[i] # NUL

\* A piece that shrinks brings more into the text than was received.
TextLonger == Len(got) < BufLen /\ ~Growing => Len(ostr) > Len(got)

StaleInv == BufferKept /\ TextLonger

\* That is so after every recv().
LEMMA RecvStale ==
    ASSUME TypeOK, StreamInv, StaleInv, NEW n \in 1 .. BufLen, Recv(n) PROVE StaleInv'
<1> DEFINE chunk == SubSeq(wire, 1, n)
           full == Filled(chunk)
<1>1. /\ n \in Nat \ {0} /\ BufLen \in Nat \ {0}
      /\ chunk \in Seq(Bytes) /\ Len(chunk) = n
  BY RecvChunk
<1>2. got' = got \o chunk /\ pieces' = Append(pieces, n) /\ rdbuf' = ZeroStart(full)
  BY DEF Recv
<1>3. PICK read \in CString(full) : ostr' = ostr \o read
  BY DEF Recv
<1>4. /\ got \in Seq(Bytes) /\ ostr \in Seq(Bytes) /\ pieces \in Seq(1 .. BufLen)
      /\ rdbuf \in [1 .. BufLen -> Bytes \union {NUL}] /\ IntSize \in Nat
  BY ProtocolAssumption DEF TypeOK
<1> HIDE DEF chunk
<1>5. \A i \in 1 .. BufLen : full[i] = IF i <= n THEN chunk[i] ELSE rdbuf[i]
  BY <1>1 DEF Filled
<1>6. full \in [1 .. BufLen -> Bytes \union {NUL}]
  BY <1>1, <1>4 DEF Filled
<1>7. \A i \in 1 .. n : chunk[i] # NUL
  BY <1>1 DEF NUL, Bytes, Letters, SP, CR, LF, CtrlC
<1>8. \A i \in 1 .. BufLen : rdbuf'[i] = IF i <= IntSize THEN NUL ELSE full[i]
  BY <1>2 DEF ZeroStart
<1> HIDE DEF full
<1>9. /\ DOMAIN pieces' = DOMAIN pieces \union {Len(pieces) + 1}
      /\ pieces'[Len(pieces) + 1] = n
      /\ \A k \in DOMAIN pieces : pieces'[k] = pieces[k] /\ pieces[k] \in 1 .. BufLen
  BY <1>1, <1>2, <1>4
<1>10. BufferKept'
  <2> SUFFICES ASSUME NEW i \in 1 .. BufLen, NEW k \in DOMAIN pieces', i > IntSize, i <= pieces'[k]
               PROVE  full[i] # NUL
    BY <1>4, <1>8 DEF BufferKept
  <2>1. CASE i <= n
    BY <1>1, <1>5, <1>7, <2>1
  <2>2. CASE ~(i <= n)
    <3>1. k \in DOMAIN pieces /\ pieces'[k] = pieces[k]
      BY <1>9, <2>2
    <3>2. rdbuf[i] # NUL
      BY <3>1 DEF StaleInv, BufferKept
    <3> QED BY <1>5, <2>2, <3>2
  <2> QED BY <2>1, <2>2
<1>11. TextLonger'
  <2> SUFFICES ASSUME Len(got') < BufLen, ~Growing' PROVE Len(ostr') > Len(got')
    BY DEF TextLonger
  <2>1. \A i \in 1 .. n : full[i] # NUL
    BY <1>1, <1>5, <1>7
  <2>2. Len(read) \in Nat /\ Len(read) >= n /\ read \in Seq(Bytes)
    <3>1. Len(read) \in Nat /\ Len(read) >= n
      BY ONLY <1>1, <1>3, <1>6, <2>1, n \in 1 .. BufLen, CStringAtLeast
    <3> QED BY <1>1, <1>3, <1>6, <3>1, CStringTyped
  <2>3. Len(ostr') = Len(ostr) + Len(read) /\ Len(ostr) \in Nat
    BY ONLY <1>3, <1>4, <2>2
  <2>4. Len(got') = Len(got) + n /\ Len(got) \in Nat
    <3>1. got' = got \o chunk /\ got \in Seq(Bytes) /\ chunk \in Seq(Bytes)
      BY <1>1, <1>2, <1>4
    <3>2. Len(got') = Len(got) + Len(chunk) /\ Len(got) \in Nat
      BY ONLY <3>1
    <3> QED BY <1>1, <3>2
  <2>5. CASE ~Growing
    <3>1. Len(got) < BufLen
      BY ONLY <1>1, <2>4, Len(got') < BufLen
    <3>2. Len(ostr) > Len(got)
      BY <2>5, <3>1 DEF StaleInv, TextLonger
    <3> QED BY ONLY <1>1, <2>2, <2>3, <2>4, <3>2
  <2>6. CASE Growing
    <3>1. Len(got) < BufLen /\ n < BufLen
      BY ONLY <1>1, <2>4, Len(got') < BufLen
    <3>2. ostr = got
      BY <2>6, <3>1 DEF StreamInv, TextClean
    <3>3. PICK k \in DOMAIN pieces : ~(pieces[k] <= n) /\ ~(n < IntSize)
      <4>1. PICK i \in DOMAIN pieces', j \in DOMAIN pieces' :
              i < j /\ ~(pieces'[i] <= pieces'[j]) /\ ~(pieces'[j] < IntSize)
        BY DEF Growing
      <4>2. PICK len \in Nat : len = Len(pieces) /\ DOMAIN pieces = 1 .. len
        BY <1>4
      <4>3. ~(i \in DOMAIN pieces /\ j \in DOMAIN pieces)
        BY <1>9, <2>6, <4>1 DEF Growing
      <4>4. i \in 1 .. len + 1 /\ j \in 1 .. len + 1
        BY ONLY <1>9, <4>1, <4>2
      <4>5. i \in DOMAIN pieces /\ j = Len(pieces) + 1
        BY ONLY <4>1, <4>2, <4>3, <4>4
      <4>6. pieces'[i] = pieces[i] /\ pieces'[j] = n
        BY <1>9, <4>5
      <4> QED BY ONLY <4>1, <4>5, <4>6
    <3>4. n + 1 \in 1 .. BufLen /\ n + 1 > IntSize /\ n + 1 <= pieces[k]
      BY ONLY <1>1, <1>4, <1>9, <3>1, <3>3
    <3>5. full[n + 1] # NUL
      <4>1. rdbuf[n + 1] # NUL
        BY <3>4 DEF StaleInv, BufferKept
      <4> QED BY <1>1, <1>5, <3>4, <4>1
    <3>6. \A i \in 1 .. n + 1 : full[i] # NUL
      BY <1>1, <2>1, <3>5
    <3>7. Len(read) >= n + 1
      BY ONLY <1>1, <1>3, <1>6, <3>4, <3>6, CStringAtLeast
    <3> QED BY ONLY <1>1, <2>2, <2>3, <2>4, <3>2, <3>7
  <2> QED BY <2>5, <2>6
<1> QED BY <1>10, <1>11 DEF StaleInv

\* Where nothing is received, or process() is entered, there is nothing to keep.
LEMMA StaleStep ==
    ASSUME TypeOK, StreamInv, StaleInv, [Next]_vars \/ AuthPerform PROVE StaleInv'
<1>1. CASE \E n \in 1 .. BufLen : Recv(n)
  BY <1>1, RecvStale
<1>2. CASE Enter
  <2>1. pieces' = <<>> /\ DOMAIN <<>> = {}
    BY <1>2 DEF Enter
  <2>2. Growing'
    BY <2>1 DEF Growing
  <2> QED BY <2>1, <2>2 DEF StaleInv, BufferKept, TextLonger
<1>3. CASE UNCHANGED <<rdbuf, ostr, got, pieces>>
  BY <1>3 DEF StaleInv, BufferKept, TextLonger, Growing
<1> QED BY <1>1, <1>2, <1>3 DEF Next, Perform, AuthPerform, RecvNothing, Send, HangUp, vars

\* A text with a line end is all of the one request it was received from,
\* because a line feed can only be a request's last byte.
LEMMA StreamWhole == TypeOK /\ StreamInv => WholeRequests
<1> SUFFICES ASSUME TypeOK, StreamInv, pc = "perform", intact, Growing, Len(got) < BufLen
             PROVE  LET request == sends[Len(sends)] IN
                    /\ Len(ostr) <= Len(request) /\ ostr = SubSeq(request, 1, Len(ostr))
                    /\ ostr = request \/ (~Has(ostr, LF) /\ Len(ostr) > CommandBufferLength)
  BY DEF WholeRequests
<1> DEFINE request == sends[Len(sends)]
<1>1. ostr = got /\ ostr \in Seq(Bytes) /\ wire \in Seq(Bytes) /\ sends \in Seq(Lines)
  BY DEF StreamInv, TextClean, TypeOK
<1>2. Has(ostr, LF) \/ Len(ostr) > CommandBufferLength
  BY <1>1, ProtocolAssumption DEF StreamInv, LineEnded, Incomplete
<1>3. got # <<>>
  BY <1>1, <1>2, ProtocolAssumption DEF Has
<1>4. sends # <<>> /\ ostr \o wire = request
  BY <1>1, <1>3 DEF StreamInv, OneRequest
<1>5. request \in Lines
  BY <1>1, <1>4
<1> HIDE DEF request
<1>6. request \in Seq(Bytes) /\ \A i \in 1 .. Len(request) - 1 : request[i] # LF
  BY <1>5, ProtocolAssumption
<1>7. /\ Len(request) = Len(ostr) + Len(wire) /\ Len(ostr) \in Nat /\ Len(wire) \in Nat
      /\ \A i \in 1 .. Len(ostr) : request[i] = ostr[i]
  BY <1>1, <1>4
<1>8. ostr = SubSeq(request, 1, Len(ostr))
  BY <1>1, <1>6, <1>7
<1>9. CASE Has(ostr, LF)
  <2>1. PICK i \in 1 .. Len(ostr) : ostr[i] = LF
    BY <1>1, <1>9 DEF Has
  <2>2. Len(ostr) = Len(request)
    BY <1>6, <1>7, <2>1
  <2>3. ostr = request
    BY <1>1, <1>6, <1>7, <2>2
  <2> QED BY <1>7, <1>8, <2>3 DEF request
<1> QED BY <1>2, <1>7, <1>8, <1>9 DEF request

-----------------------------------------------------------------------------
(* The answer to a well-formed request.                                    *)

\* find_first_of yields the position of the first such character.
LEMMA FindFirst ==
    ASSUME NEW s \in Seq(Bytes), NEW c, NEW k \in 1 .. Len(s),
           s[k] = c, \A j \in 1 .. k - 1 : s[j] # c
    PROVE  Find(s, c) = k
<1> DEFINE Is(i) == s[i] = c /\ \A j \in 1 .. i - 1 : s[j] # c
<1>1. k \in DOMAIN s /\ Is(k)
  OBVIOUS
<1>2. ASSUME NEW i \in DOMAIN s, Is(i) PROVE i = k
  <2>1. i \in Nat /\ k \in Nat /\ 1 <= i /\ 1 <= k
    OBVIOUS
  <2>2. ~(i < k)
    BY <1>2, <2>1, i < k => i \in 1 .. k - 1
  <2>3. ~(k < i)
    BY <1>2, <2>1, k < i => k \in 1 .. i - 1
  <2> QED BY <2>1, <2>2, <2>3
<1>3. (CHOOSE i \in DOMAIN s : Is(i)) = k
  BY <1>1, <1>2
<1>4. \E i \in DOMAIN s : s[i] = c
  BY <1>1
<1> QED BY <1>3, <1>4, Zenon DEF Find

\* Token, blank, command, perhaps a blank and a payload, and the line's end.
Shape(text, i, j, tok, cmd) ==
    /\ tok \in Seq(Bytes) /\ Len(tok) = i /\ \A k \in 1 .. i : tok[k] = text[k]
    /\ cmd \in Seq(Bytes) /\ Len(cmd) \in Nat \ {0} /\ j = i + 1 + Len(cmd)
    /\ \A k \in 1 .. Len(cmd) : cmd[k] = text[i + 1 + k]
    /\ Len(text) >= j + 2 /\ text[i + 1] = SP
    /\ text[Len(text) - 1] = CR /\ text[Len(text)] = LF
    /\ Len(text) > j + 2 => text[j + 1] = SP

\* The parts of a well-formed request are where the grammar puts them.
LEMMA RequestShape ==
    ASSUME NEW text \in Seq(Bytes), NEW i \in 1 .. Len(text), NEW j \in 1 .. Len(text),
           NEW tok, tok = SubSeq(text, 1, i), NEW cmd, cmd = SubSeq(text, i + 2, j),
           cmd # <<>>, IsRequest(text, tok, cmd)
    PROVE  Shape(text, i, j, tok, cmd)
<1>1. i \in Nat /\ j \in Nat /\ Len(text) \in Nat /\ 1 <= i /\ i <= Len(text) /\ j <= Len(text)
  OBVIOUS
<1>2. tok \in Seq(Bytes) /\ Len(tok) = i /\ \A k \in 1 .. i : tok[k] = text[k]
  BY <1>1
<1>3. j >= i + 2
  BY <1>1
<1>4. /\ cmd \in Seq(Bytes) /\ Len(cmd) \in Nat \ {0} /\ j = i + 1 + Len(cmd)
      /\ \A k \in 1 .. Len(cmd) : cmd[k] = text[i + 1 + k]
  BY <1>1, <1>3
<1> DEFINE head == tok \o <<SP>> \o cmd
<1>5. <<SP>> \in Seq(Bytes) /\ Len(<<SP>>) = 1
  BY DEF Bytes
<1>6. tok \o <<SP>> \in Seq(Bytes) /\ Len(tok \o <<SP>>) = i + 1 /\ (tok \o <<SP>>)[i + 1] = SP
  BY ONLY <1>1, <1>2, <1>5
<1>7. Len(head) = j /\ head[i + 1] = SP
  <2>1. PICK pre : pre = tok \o <<SP>>
    OBVIOUS
  <2>2. Len(pre \o cmd) = Len(pre) + Len(cmd) /\ (pre \o cmd)[i + 1] = pre[i + 1]
    BY ONLY <1>1, <1>4, <1>6, <2>1
  <2> QED BY <1>1, <1>4, <1>6, <2>1, <2>2
<1>8. /\ Len(text) >= j + 2 /\ SubSeq(text, 1, j) = head
      /\ SubSeq(text, Len(text) - 1, Len(text)) = <<CR, LF>>
      /\ Len(text) > j + 2 => text[j + 1] = SP
  BY <1>7 DEF IsRequest
<1>9. text[i + 1] = SP
  <2>1. SubSeq(text, 1, j)[i + 1] = text[i + 1]
    BY <1>1, <1>3
  <2> QED BY ONLY <1>7, <1>8, <2>1
<1>10. text[Len(text) - 1] = CR /\ text[Len(text)] = LF
  <2> DEFINE tail == SubSeq(text, Len(text) - 1, Len(text))
  <2>1. tail[1] = text[Len(text) - 1] /\ tail[2] = text[Len(text)]
    BY <1>1, <1>3, <1>8
  <2>2. tail = <<CR, LF>>
    BY <1>8
  <2> HIDE DEF tail
  <2>3. tail[1] = CR /\ tail[2] = LF
    BY ONLY <2>2
  <2> QED BY <2>1, <2>3
<1> QED BY <1>2, <1>4, <1>8, <1>9, <1>10 DEF Shape

\* There is no blank in a word, and no line end.
LEMMA WordLetters ==
    ASSUME NEW w \in Seq(Bytes), Word(w)
    PROVE  \A k \in 1 .. Len(w) : w[k] \notin {SP, CR, LF}
<1>1. \A k \in 1 .. Len(w) : w[k] \in Letters
  BY DEF Word
<1> QED BY <1>1 DEF Letters, SP, CR, LF

\* get_command finds the word that what follows the token begins with, whether
\* a blank or the line's end comes after it.
LEMMA CommandFound ==
    ASSUME NEW rest \in Seq(Bytes), NEW cmd \in Seq(Bytes), Word(cmd),
           Len(rest) >= Len(cmd) + 2, \A k \in 1 .. Len(cmd) : rest[k] = cmd[k],
           rest[Len(rest) - 1] = CR, rest[Len(rest)] = LF,
           Len(rest) > Len(cmd) + 2 => rest[Len(cmd) + 1] = SP
    PROVE  Command(rest) = cmd
<1>1. PICK m \in Nat : m = Len(cmd)
  OBVIOUS
<1>2. \A k \in 1 .. m : rest[k] = cmd[k] /\ rest[k] # SP
  BY <1>1, WordLetters
<1>3. SubSeq(rest, 1, m) = cmd
  BY <1>1, <1>2
<1>4. CASE Len(rest) = m + 2
  <2>1. rest[m + 1] = CR /\ rest[m + 2] = LF
    BY <1>1, <1>4
  <2>2. ASSUME NEW k \in 1 .. Len(rest) PROVE rest[k] # SP
    <3>1. k \in 1 .. m \/ k = m + 1 \/ k = m + 2
      BY <1>4
    <3> QED BY <1>2, <2>1, <3>1 DEF SP, CR, LF
  <2>3. ~Has(rest, SP)
    BY <2>2 DEF Has
  <2>4. rest # <<>> /\ rest[Len(rest)] = LF /\ Len(rest) # 1 /\ Len(rest) - 2 = m
    BY <1>1, <1>4, cmd # <<>> DEF Word
  <2>5. Command(rest) = SubSeq(rest, 1, m)
    BY ONLY <2>3, <2>4 DEF Command, RtrimLast, UpToBefore
  <2> QED BY <1>3, <2>5
<1>5. CASE Len(rest) > m + 2
  <2>1. rest[m + 1] = SP /\ m + 1 \in 1 .. Len(rest) /\ (m + 1) - 1 = m
    BY <1>1, <1>5
  <2>2. Find(rest, SP) = m + 1
    BY <1>2, <2>1, FindFirst
  <2>3. Has(rest, SP)
    BY <2>1 DEF Has
  <2>4. Command(rest) = SubSeq(rest, 1, m)
    BY ONLY <2>1, <2>2, <2>3 DEF Command
  <2> QED BY <1>3, <2>4
<1> QED BY <1>1, <1>4, <1>5

\* The parser takes a well-formed request apart as its grammar says: token,
\* blank, command, whatever follows the command.
LEMMA RequestParsed ==
    ASSUME NEW text \in Seq(Bytes), NEW old, MaxTokenLength \in Nat \ {0},
           NEW i \in 1 .. Len(text), NEW j \in 1 .. Len(text), i <= MaxTokenLength,
           NEW tok, tok = SubSeq(text, 1, i), NEW cmd, cmd = SubSeq(text, i + 2, j),
           Word(tok), Word(cmd), IsRequest(text, tok, cmd)
    PROVE  /\ Parse(text, old).error = "peNoPacketError"
           /\ Parse(text, old).token = tok
           /\ Command(Parse(text, old).rest) = cmd /\ cmd \in Seq(Bytes)
           /\ ~Ignored(text)
<1>0. cmd # <<>>
  BY DEF Word
<1>s. Shape(text, i, j, tok, cmd)
  BY ONLY <1>0, RequestShape, text \in Seq(Bytes), i \in 1 .. Len(text), j \in 1 .. Len(text),
          tok = SubSeq(text, 1, i), cmd = SubSeq(text, i + 2, j), IsRequest(text, tok, cmd)
<1>1. /\ tok \in Seq(Bytes) /\ Len(tok) = i /\ \A k \in 1 .. i : tok[k] = text[k]
      /\ cmd \in Seq(Bytes) /\ Len(cmd) \in Nat \ {0} /\ j = i + 1 + Len(cmd)
      /\ \A k \in 1 .. Len(cmd) : cmd[k] = text[i + 1 + k]
      /\ Len(text) >= j + 2 /\ text[i + 1] = SP
      /\ text[Len(text) - 1] = CR /\ text[Len(text)] = LF
      /\ Len(text) > j + 2 => text[j + 1] = SP
  BY <1>s DEF Shape
<1>2. i \in Nat \ {0} /\ i <= Len(text) /\ Len(text) \in Nat /\ i + 1 \in 1 .. Len(text)
      /\ (i + 1) - 1 = i /\ (i + 1) + 1 = i + 2
      /\ i + 1 # 0 /\ ~(i + 1 > MaxTokenLength + 1) /\ i + 1 # Len(text)
  BY <1>1
<1>3. Find(text, SP) = i + 1
  <2>1. \A k \in 1 .. Len(tok) : tok[k] \notin {SP, CR, LF}
    BY <1>1, WordLetters
  <2>2. Len(tok) = i /\ \A k \in 1 .. i : tok[k] = text[k]
    BY <1>1
  <2>3. ASSUME NEW k \in 1 .. i PROVE text[k] # SP
    <3>1. tok[k] \notin {SP, CR, LF} /\ tok[k] = text[k]
      BY ONLY <2>1, <2>2, k \in 1 .. i
    <3> QED BY ONLY <3>1
  <2>4. text[i + 1] = SP
    BY <1>1
  <2>5. PICK m \in 1 .. Len(text) : m = i + 1 /\ m - 1 = i
    BY ONLY <1>2
  <2>6. text[m] = SP /\ \A k \in 1 .. m - 1 : text[k] # SP
    BY ONLY <2>3, <2>4, <2>5
  <2> QED BY ONLY <2>5, <2>6, text \in Seq(Bytes), FindFirst
<1>4. PICK rest : rest = SubSeq(text, i + 2, Len(text))
  OBVIOUS
<1>5. Parse(text, old) = [error |-> "peNoPacketError", token |-> tok, rest |-> rest]
  BY <1>2, <1>3, <1>4, ParseSplits
<1>6. /\ rest \in Seq(Bytes) /\ Len(rest) = Len(text) - i - 1
      /\ \A k \in 1 .. Len(rest) : rest[k] = text[i + 1 + k]
  BY ONLY <1>2, <1>4, text \in Seq(Bytes)
<1>7. /\ Len(rest) >= Len(cmd) + 2
      /\ Len(rest) > Len(cmd) + 2 => Len(text) > j + 2
      /\ i + 1 + (Len(rest) - 1) = Len(text) - 1 /\ i + 1 + Len(rest) = Len(text)
      /\ i + 1 + (Len(cmd) + 1) = j + 1
  BY ONLY <1>1, <1>2, <1>6
<1>8. \A k \in 1 .. Len(cmd) : rest[k] = cmd[k]
  BY ONLY <1>1, <1>2, <1>6, <1>7
<1>9. /\ rest[Len(rest) - 1] = CR /\ rest[Len(rest)] = LF
      /\ Len(rest) > Len(cmd) + 2 => rest[Len(cmd) + 1] = SP
  <2>1. /\ Len(rest) \in 1 .. Len(rest) /\ Len(rest) - 1 \in 1 .. Len(rest)
        /\ Len(cmd) + 1 \in 1 .. Len(rest)
    BY ONLY <1>1, <1>6, <1>7
  <2>2. rest[Len(rest)] = LF /\ rest[Len(rest) - 1] = CR
    BY ONLY <1>1, <1>6, <1>7, <2>1
  <2>3. rest[Len(cmd) + 1] = text[j + 1]
    BY ONLY <1>6, <1>7, <2>1
  <2> QED BY <1>1, <1>7, <2>2, <2>3
<1>10. Command(rest) = cmd
  BY ONLY <1>1, <1>6, <1>7, <1>8, <1>9, Word(cmd), CommandFound
<1>11. ~Ignored(text)
  <2>1. Len(cmd) \in Nat /\ j = i + 1 + Len(cmd) /\ Len(text) >= j + 2
    BY <1>1
  <2>2. PICK m \in Nat, n \in Nat, l \in Nat \ {0} : m = Len(cmd) /\ n = Len(text) /\ l = i
    BY <1>2, <2>1
  <2>3. n >= l + 1 + m + 2
    BY ONLY <2>1, <2>2
  <2>4. n # 2
    BY ONLY <2>3, m \in Nat, n \in Nat, l \in Nat \ {0}
  <2> QED BY ONLY <2>2, <2>4 DEF Ignored
<1> QED BY <1>1, <1>5, <1>10, <1>11

\* Of all words only login, in either case, is a command.
LEMMA LoginIsCommand ==
    ASSUME NEW cmd \in Seq(Bytes), Word(cmd)
    PROVE  Lcase(cmd) \in Commands <=> cmd \in {<<"login">>, <<"LOGIN">>}
<1>1. ASSUME cmd \in {<<"login">>, <<"LOGIN">>} PROVE Lcase(cmd) = <<"login">>
  BY <1>1 DEF Lcase
<1>2. ASSUME Lcase(cmd) = <<"login">> PROVE cmd \in {<<"login">>, <<"LOGIN">>}
  <2>1. DOMAIN Lcase(cmd) = DOMAIN cmd
    BY DEF Lcase
  <2>2. Len(cmd) = 1
    BY <1>2, <2>1
  <2>3. Lcase(cmd)[1] = "login"
    BY <1>2
  <2>4. cmd[1] \in {"login", "LOGIN"}
    BY <2>2, <2>3 DEF Lcase
  <2> QED BY <2>2, <2>4
<1> QED BY <1>1, <1>2 DEF Commands

\* What perform answers to a well-formed request.
LEMMA PerformAnswers == ASSUME Inv PROVE RequestAnswered
<1> SUFFICES ASSUME NEW i \in 1 .. Len(ostr), NEW j \in 1 .. Len(ostr),
                    NEW tok, tok = SubSeq(ostr, 1, i), NEW cmd, cmd = SubSeq(ostr, i + 2, j),
                    i <= MaxTokenLength, Word(tok), Word(cmd), IsRequest(ostr, tok, cmd),
                    Perform
             PROVE  replies' = Append(replies, [token |-> tok, outcome |->
                        IF cmd \notin {<<"login">>, <<"LOGIN">>} THEN "peUnrecognizedCommand"
                        ELSE IF Told("OK") = {} THEN "OK"
                        ELSE "peAlreadyAuthenticated"])
  BY DEF RequestAnswered
<1> DEFINE p == Parse(ostr, token)
<1>1. /\ p.error = "peNoPacketError" /\ p.token = tok
      /\ Command(p.rest) = cmd /\ cmd \in Seq(Bytes) /\ ~Ignored(ostr)
  <2>1. ostr \in Seq(Bytes) /\ MaxTokenLength \in Nat \ {0}
    BY ProtocolAssumption DEF Inv, TypeOK
  <2> QED BY <2>1, RequestParsed
<1>2. replies' = Append(replies, [token |-> p.token, outcome |-> Outcome(p)])
  BY <1>1 DEF Perform
<1> HIDE DEF p
<1>3. Lcase(Command(p.rest)) \in Commands <=> cmd \in {<<"login">>, <<"LOGIN">>}
  BY <1>1, LoginIsCommand
<1>4. Told("OK") = {} <=> "oesAuthenticated" \notin states
  BY DEF Inv, LoginToldOnce
<1>5. Outcome(p) = IF cmd \notin {<<"login">>, <<"LOGIN">>} THEN "peUnrecognizedCommand"
                   ELSE IF Told("OK") = {} THEN "OK"
                   ELSE "peAlreadyAuthenticated"
  BY <1>1, <1>3, <1>4 DEF Outcome, OnLogin
<1> QED BY <1>1, <1>2, <1>5

-----------------------------------------------------------------------------
(* Both servers: the handlers differ in perform alone.                     *)

\* The authentication manager only ever answers with an error.
AuthSilent == server = "auth" => \A k \in DOMAIN replies : replies[k].outcome \in AuthErrors

ServerInv == Inv /\ StreamInv /\ AuthSilent

\* Each step of either server is one of the connection's, or AuthPerform.
LEMMA ServerStepShape ==
    ASSUME [ServerNext]_authVars
    PROVE  /\ [Next]_vars \/ AuthPerform
           /\ server' = server
           /\ server = "auth" => UNCHANGED replies \/ AuthPerform
  BY DEF ServerNext, AuthNext, AuthRecv, AuthRecvNothing, AuthClient, AuthPerform, authVars, vars,
         Next, Recv, RecvNothing, Send, HangUp, session

\* An error more leaves what was said of logins as it was.
LEMMA AuthPerformInv ==
    ASSUME Inv, AuthPerform
    PROVE  /\ Inv'
           /\ (\A k \in DOMAIN replies : replies[k].outcome \in AuthErrors) =>
                 \A k \in DOMAIN replies' : replies'[k].outcome \in AuthErrors
<1> DEFINE p == Parse(ostr, token)
           reply == [token |-> p.token, outcome |-> AuthOutcome(p)]
           answered == ~Ignored(ostr) /\ AuthOutcome(p) # "OK"
           R == [token : Seq(Bytes), outcome : Outcomes]
<1> USE DEF Inv
<1>1. /\ p.token \in Seq(Bytes) /\ Len(p.token) <= MaxTokenLength
      /\ p.error \in {"peTokenTooLong", "peNoCommand", "peInvalidSyntax", "peNoPacketError"}
  BY ParseTyped, ProtocolAssumption DEF TypeOK
<1>2. /\ token' = p.token
      /\ replies' = IF answered THEN Append(replies, reply) ELSE replies
      /\ pc' = "recv" /\ Enter /\ intact' = (intact /\ wire = <<>>)
      /\ UNCHANGED <<client, states>>
  BY DEF AuthPerform, AuthParse
<1> HIDE DEF p
<1>3. AuthOutcome(p) # "OK" => AuthOutcome(p) \in AuthErrors
  BY <1>1 DEF AuthOutcome, AuthErrors
<1>4. AuthErrors \subseteq Outcomes \ {"OK", "peAlreadyAuthenticated"}
  BY DEF AuthErrors, Outcomes
<1>5. answered => reply \in R /\ reply.outcome \in AuthErrors
  BY <1>1, <1>3, <1>4
<1> HIDE DEF R, reply, answered
<1>6. replies \in Seq(R)
  BY DEF TypeOK, R
<1>7. TypeOK'
  <2>1. replies' \in Seq(R)
    BY <1>2, <1>5, <1>6
  <2>2. intact' \in BOOLEAN
    BY <1>2
  <2> QED BY <1>1, <1>2, <2>1, <2>2, EnterTyped, ProtocolAssumption DEF TypeOK, client, R
<1>8. CASE ~answered
  <2>1. UNCHANGED <<replies, states>>
    BY <1>2, <1>8
  <2>2. LoginToldOnce'
    BY <2>1 DEF LoginToldOnce, Told
  <2> QED BY <1>7, <2>1, <2>2
<1>9. CASE answered
  <2> DEFINE n == Len(replies) + 1
  <2>1. /\ DOMAIN replies' = DOMAIN replies \union {n}
        /\ n \notin DOMAIN replies
        /\ \A i \in DOMAIN replies : replies'[i] = replies[i]
        /\ replies'[n] = reply
    BY <1>2, <1>5, <1>6, <1>9
  <2> HIDE DEF n
  <2>2. reply.outcome \in AuthErrors /\ reply.outcome \notin {"OK", "peAlreadyAuthenticated"}
    BY <1>4, <1>5, <1>9
  <2>3. Told("OK")' = Told("OK") /\ Told("peAlreadyAuthenticated")' = Told("peAlreadyAuthenticated")
    BY <2>1, <2>2 DEF Told
  <2>4. Told("OK") \subseteq DOMAIN replies
    BY DEF Told
  <2>5. LoginToldOnce'
    BY <1>2, <2>1, <2>3, <2>4 DEF LoginToldOnce
  <2> QED BY <1>7, <2>1, <2>2, <2>5
<1> QED BY <1>8, <1>9

\* A fresh connection has received nothing.
LEMMA InitStream == Init => StreamInv
<1> SUFFICES ASSUME Init PROVE StreamInv
  OBVIOUS
<1>1. \A i \in 1 .. BufLen : rdbuf[i] = NUL
  BY DEF Init, Zeroed
<1>2. ostr = <<>> /\ got = <<>> /\ wire = <<>> /\ pc = "recv"
  BY DEF Init
<1> QED BY <1>1, <1>2 DEF StreamInv, BufferClean, TextClean, TextStarted, OneRequest, LineEnded

\* The invariant holds of both servers when their threads start,
LEMMA ServerInitInv == ServerInit => ServerInv
<1> SUFFICES ASSUME ServerInit PROVE ServerInv
  OBVIOUS
<1>1. Init
  BY DEF ServerInit, AuthInit
<1>2. StreamInv
  BY <1>1, InitStream
<1>3. AuthSilent
  BY <1>1 DEF Init, AuthSilent
<1> QED BY <1>1, <1>2, <1>3, InitInv DEF ServerInv

\* and every step of either keeps it.
LEMMA ServerInvStep == ServerInv /\ [ServerNext]_authVars => ServerInv'
<1> SUFFICES ASSUME ServerInv, [ServerNext]_authVars PROVE ServerInv'
  OBVIOUS
<1> USE DEF ServerInv
<1>1. /\ [Next]_vars \/ AuthPerform
      /\ server' = server
      /\ server = "auth" => UNCHANGED replies \/ AuthPerform
  BY ServerStepShape
<1>2. StreamInv'
  BY <1>1, StreamStep DEF Inv
<1>3. Inv'
  BY <1>1, NextInv, AuthPerformInv
<1>4. AuthSilent'
  BY <1>1, AuthPerformInv DEF AuthSilent
<1> QED BY <1>2, <1>3, <1>4

\* What AuthPerform does with a well-formed request.
LEMMA AuthPerformAnswers == ASSUME ServerInv PROVE LoginSilent
<1> SUFFICES ASSUME server = "auth", AuthPerform PROVE LoginSilent
  BY DEF LoginSilent
<1>1. \A k \in DOMAIN replies' : replies'[k].outcome \in AuthErrors
  BY AuthPerformInv DEF ServerInv, AuthSilent
<1>2. ASSUME NEW i \in 1 .. Len(ostr), NEW j \in 1 .. Len(ostr),
             NEW tok, tok = SubSeq(ostr, 1, i), NEW cmd, cmd = SubSeq(ostr, i + 2, j),
             i <= MaxTokenLength, Word(tok), Word(cmd), IsRequest(ostr, tok, cmd)
      PROVE  IF cmd \in {<<"login">>, <<"LOGIN">>}
             THEN replies' = replies /\ command' = "auth_login"
             ELSE /\ replies' = Append(replies, [token |-> tok,
                                                outcome |-> "peUnrecognizedCommand"])
                  /\ command' = "auth_error"
  <2> DEFINE p == Parse(ostr, token)
  <2>1. /\ p.error = "peNoPacketError" /\ p.token = tok
        /\ Command(p.rest) = cmd /\ cmd \in Seq(Bytes) /\ ~Ignored(ostr)
    <3>1. ostr \in Seq(Bytes) /\ MaxTokenLength \in Nat \ {0}
      BY ProtocolAssumption DEF ServerInv, Inv, TypeOK
    <3> QED BY <1>2, <3>1, RequestParsed
  <2>2. /\ replies' = IF AuthOutcome(p) # "OK"
                      THEN Append(replies, [token |-> p.token, outcome |-> AuthOutcome(p)])
                      ELSE replies
        /\ command' = IF AuthOutcome(p) # "OK" THEN "auth_error" ELSE "auth_login"
    BY <2>1 DEF AuthPerform, AuthParse
  <2> HIDE DEF p
  <2>3. Lcase(Command(p.rest)) \in Commands <=> cmd \in {<<"login">>, <<"LOGIN">>}
    BY <1>2, <2>1, LoginIsCommand
  <2>4. AuthOutcome(p) = IF cmd \in {<<"login">>, <<"LOGIN">>} THEN "OK"
                         ELSE "peUnrecognizedCommand"
    BY <2>1, <2>3 DEF AuthOutcome
  <2> QED BY <2>1, <2>2, <2>4
<1> QED BY <1>1, <1>2 DEF LoginSilent

\* The variables keep their types; in particular no token exceeds the limit,
\* whatever the client sends.
THEOREM ProtocolTyped == Spec => []TypeOK
<1>1. Inv /\ [Next]_vars => Inv'
  BY NextInv
<1>2. Inv => TypeOK
  BY DEF Inv
<1> QED BY InitInv, <1>1, <1>2, PTL DEF Spec

\* A connection is authenticated exactly if its client was told so, once, and
\* "already logged in" is only said afterwards: for all requests, in all pieces.
THEOREM LoginToldExactlyOnce == Spec => []LoginToldOnce
<1>1. Inv /\ [Next]_vars => Inv'
  BY NextInv
<1>2. Inv => LoginToldOnce
  BY DEF Inv
<1> QED BY InitInv, <1>1, <1>2, PTL DEF Spec

\* At either server the variables keep their types, and a client is told of its
\* login exactly as the server remembers it: the authentication manager, which
\* keeps nothing, says nothing.
THEOREM BothServersTyped == ServerSpec => [](TypeOK /\ LoginToldOnce)
<1>1. ServerInv => TypeOK /\ LoginToldOnce
  BY DEF ServerInv, Inv
<1> QED BY ServerInitInv, ServerInvStep, <1>1, PTL DEF ServerSpec

\* Requests sent one at a time, shorter than the buffer and in pieces that do not
\* shrink (but to what memset clears), are executed as they were sent, or as far
\* as the limit if no line end comes, by either server and with limits of any
\* size: what memset( rdbuf , 0 , sizeof( rdbuf_len ) ) leaves in the buffer is
\* then overwritten before it is read, or beyond a zero.
THEOREM WholeRequestsExecuted == ServerSpec => []WholeRequests
<1>1. ServerInv => WholeRequests
  BY StreamWhole DEF ServerInv, Inv
<1> QED BY ServerInitInv, ServerInvStep, <1>1, PTL DEF ServerSpec

\* The process manager answers every well-formed request under its own token,
\* and says what became of it, whatever was sent before and however it came.
THEOREM RequestsAnswered == ServerSpec => AnswersRequest
<1>1. ServerInv => RequestAnswered
  BY PerformAnswers DEF ServerInv
<1>2. ServerInv /\ [ServerNext]_authVars => [RequestAnswered]_vars
  BY <1>1
<1> QED BY ServerInitInv, ServerInvStep, <1>2, PTL DEF ServerSpec, AnswersRequest

\* The authentication manager executes a well-formed login and says nothing,
\* refuses any other word under the request's token, and never says OK.
THEOREM AuthLoginSilent == ServerSpec => AuthAnswers
<1>1. ServerInv /\ [ServerNext]_authVars => [LoginSilent]_authVars
  BY AuthPerformAnswers
<1> QED BY ServerInitInv, ServerInvStep, <1>1, PTL DEF ServerSpec, AuthAnswers

\* As long as less was received than the buffer holds, the text differs from it
\* if and only if a piece was shorter than an earlier one and did not end within
\* what memset( rdbuf , 0 , sizeof( rdbuf_len ) ) clears ("zero read buufer"):
\* stale bytes are executed then, always, and in no other case.
ReadExactly == Len(got) < BufLen => (ostr = got <=> Growing)

THEOREM StaleBytesOnlyThen == ServerSpec => []ReadExactly
<1>1. ServerInit => StaleInv
  <2> SUFFICES ASSUME ServerInit PROVE StaleInv
    OBVIOUS
  <2>1. pieces = <<>> /\ DOMAIN <<>> = {}
    BY DEF ServerInit, AuthInit, Init
  <2>2. Growing
    BY <2>1 DEF Growing
  <2> QED BY <2>1, <2>2 DEF StaleInv, BufferKept, TextLonger
<1>2. ServerInv /\ StaleInv /\ [ServerNext]_authVars => StaleInv'
  BY ServerStepShape, StaleStep DEF ServerInv, Inv
<1>3. ServerInv /\ StaleInv => ReadExactly
  <2> SUFFICES ASSUME ServerInv, StaleInv, Len(got) < BufLen PROVE ostr = got <=> Growing
    BY DEF ReadExactly
  <2>1. Growing => ostr = got
    BY DEF ServerInv, StreamInv, TextClean
  <2>2. ~Growing => Len(ostr) > Len(got)
    BY DEF StaleInv, TextLonger
  <2>3. Len(got) \in Nat
    BY DEF ServerInv, Inv, TypeOK
  <2> QED BY <2>1, <2>2, <2>3
<1> QED BY ServerInitInv, ServerInvStep, <1>1, <1>2, <1>3, PTL DEF ServerSpec
=============================================================================
