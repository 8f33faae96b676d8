---------------------------- MODULE ProcProtocol ----------------------------
(***************************************************************************)
(* The line protocol of one connection (procs/proc_ace_handler.cpp): the   *)
(* connection's thread reads what TCP delivers into rdbuf, collects it in  *)
(* ostr until a line is complete, parses it into token, command and        *)
(* payload and answers. A client sends requests without waiting, and its   *)
(* bytes arrive in pieces of any size.                                     *)
(*                                                                         *)
(* Text is a sequence of bytes, reduced to the ones the code tells apart;  *)
(* the one command of the map, "login", is a single letter here, in lower  *)
(* and in upper case.                                                      *)
(***************************************************************************)
EXTENDS Naturals, Sequences

CONSTANTS
    Lines,              \* what the client may send: requests, ended or not
    MaxSends,           \* bound on the number of requests
    BufLen,             \* size of rdbuf (BUFSIZ)
    IntSize,            \* sizeof( rdbuf_len )
    CommandBufferLength,\* constCommandBufferLength
    MaxTokenLength      \* constMaxTokenLength

SP == "space"
CR == "cr"
LF == "lf"
CtrlC == "ctrl"         \* ctrl-c or ctrl-z
NUL == "nul"
Letters == {"a", "login", "LOGIN"}
Bytes == Letters \union {SP, CR, LF, CtrlC}

ASSUME ProtocolAssumption ==
    /\ Lines \subseteq Seq(Bytes) \ {<<>>}
    /\ \A line \in Lines : \A i \in 1 .. Len(line) - 1 : line[i] # LF
    /\ {MaxSends, BufLen, IntSize, CommandBufferLength, MaxTokenLength} \subseteq Nat \ {0}
    /\ IntSize <= BufLen

VARIABLES
    wire,               \* bytes sent and not yet received
    hungup,             \* has the client closed its end?
    pc,                 \* "recv", "perform", or "closed"
    rdbuf,              \* the read buffer
    ostr,               \* the text of the request so far
    states,             \* m_currentState
    token,              \* m_strToken, of the last request that had one
    replies,            \* what was written to the client (send_n's result is not looked at)
    sends,              \* the requests sent, in order (history)
    got,                \* bytes received since process() was entered (history)
    pieces,             \* sizes of the pieces it came in (history)
    intact              \* were requests sent one at a time, and none cut? (history)

vars == <<wire, hungup, pc, rdbuf, ostr, states, token, replies, sends, got, pieces, intact>>
client == <<wire, hungup, sends>>
session == <<states, token, replies>>

Outcomes == {"OK", "peTokenTooLong", "peNoCommand", "peInvalidSyntax",
             "peUnrecognizedCommand", "peAlreadyAuthenticated"}

TypeOK ==
    /\ wire \in Seq(Bytes)
    /\ hungup \in BOOLEAN
    /\ pc \in {"recv", "perform", "closed"}
    /\ rdbuf \in [1 .. BufLen -> Bytes \union {NUL}]
    /\ ostr \in Seq(Bytes)
    /\ states \in SUBSET {"oesNonAuthenticated", "oesAuthenticated"}
    /\ token \in Seq(Bytes) /\ Len(token) <= MaxTokenLength
    /\ replies \in Seq([token : Seq(Bytes), outcome : Outcomes])
    /\ sends \in Seq(Lines)
    /\ got \in Seq(Bytes)
    /\ pieces \in Seq(1 .. BufLen)
    /\ intact \in BOOLEAN

Zeroed == [i \in 1 .. BufLen |-> NUL]

Init ==
    /\ wire = <<>> /\ hungup = FALSE /\ pc = "recv"
    /\ rdbuf = Zeroed /\ ostr = <<>>
    /\ states = {"oesNonAuthenticated"} /\ token = <<>> /\ replies = <<>>
    /\ sends = <<>> /\ got = <<>> /\ pieces = <<>> /\ intact = TRUE

-----------------------------------------------------------------------------
(* Parsing.                                                                *)

\* The index of the first c in s; 0 stands for npos.
Find(s, c) ==
    IF \E i \in DOMAIN s : s[i] = c
    THEN CHOOSE i \in DOMAIN s : s[i] = c /\ \A j \in 1 .. i - 1 : s[j] # c
    ELSE 0

Has(s, c) == \E i \in DOMAIN s : s[i] = c

\* s.substr( 0 , n ), where n is one less than a position: at position 0 the
\* index wraps round to npos, which is all of s.
UpToBefore(s, i) == IF i = 1 THEN s ELSE SubSeq(s, 1, i - 2)

\* A slip: only the line feed is cut off.
RtrimLastOne(s) ==
    IF s # <<>> /\ s[Len(s)] = LF THEN SubSeq(s, 1, Len(s) - 1) ELSE s

\* rtrimlast( str , "\n" ): a final line feed goes, and what is before it.
RtrimLast(s) ==
    IF s # <<>> /\ s[Len(s)] = LF THEN UpToBefore(s, Len(s)) ELSE s

\* chomp( str , "\n" )
Chomp(s) == IF Has(s, LF) THEN UpToBefore(s, Find(s, LF)) ELSE s

Lcase(s) == [i \in DOMAIN s |-> IF s[i] = "LOGIN" THEN "login" ELSE s[i]]

\* command_map(): the handlers map_commands() enters.
Commands == {<<"login">>}

Command(rest) ==
    IF Has(rest, SP) THEN SubSeq(rest, 1, Find(rest, SP) - 1) ELSE RtrimLast(rest)

Payload(rest) ==
    IF Has(rest, SP) THEN Chomp(SubSeq(rest, Find(rest, SP) + 1, Len(rest))) ELSE <<>>

\* A slip: the token's length is not looked at.
ParseAnyToken(text, tok) ==
    LET i == Find(text, SP) IN
    IF i = 0 THEN [error |-> "peNoCommand", token |-> tok, rest |-> <<>>]
    ELSE [error |-> IF i = Len(text) THEN "peInvalidSyntax" ELSE "peNoPacketError",
          token |-> SubSeq(text, 1, i - 1), rest |-> SubSeq(text, i + 1, Len(text))]

\* parse_command: the error, the token afterwards, what follows the token.
Parse(text, tok) ==
    LET i == Find(text, SP)
        Refused(error) == [error |-> error, token |-> tok, rest |-> <<>>] IN
    IF i = 0 THEN Refused("peNoCommand")
    ELSE IF i > MaxTokenLength + 1 THEN Refused("peTokenTooLong")
    ELSE [error |-> IF i = Len(text) THEN "peInvalidSyntax" ELSE "peNoPacketError",
          token |-> SubSeq(text, 1, i - 1), rest |-> SubSeq(text, i + 1, Len(text))]

\* A slip: a second login is not turned away.
OnLoginAgain(params) == "OK"

\* on_login; its parameters are not looked at (todo).
OnLogin(params) ==
    IF "oesAuthenticated" \in states THEN "peAlreadyAuthenticated" ELSE "OK"

\* perform, after the parser.
Outcome(p) ==
    IF p.error # "peNoPacketError" THEN p.error
    ELSE IF Lcase(Command(p.rest)) \notin Commands THEN "peUnrecognizedCommand"
    ELSE OnLogin(Payload(p.rest))

\* Just a line feed: not answered.
Ignored(text) == Has(text, LF) /\ Len(text) = 2

-----------------------------------------------------------------------------
(* The connection's thread.                                                *)

\* A slip: the buffer is not zeroed when process() is entered.
EnterUnzeroed ==
    /\ UNCHANGED rdbuf
    /\ ostr' = <<>> /\ got' = <<>> /\ pieces' = <<>>

\* svc() calls process() again: a zeroed buffer and an empty stream.
Enter ==
    /\ rdbuf' = Zeroed
    /\ ostr' = <<>> /\ got' = <<>> /\ pieces' = <<>>

\* n bytes over the start of the buffer.
Filled(chunk) == [i \in 1 .. BufLen |-> IF i <= Len(chunk) THEN chunk[i] ELSE rdbuf[i]]

\* The bytes of b up to the first NUL. A full buffer has none, and what lies
\* behind it is read too: one byte stands for it.
CString(b) ==
    IF \E i \in 1 .. BufLen : b[i] = NUL
    THEN {[i \in 1 .. (CHOOSE n \in 0 .. BufLen - 1 :
                         b[n + 1] = NUL /\ \A j \in 1 .. n : b[j] # NUL) |-> b[i]]}
    ELSE {b, Append(b, "a")}

\* memset( rdbuf , '\0' , sizeof( rdbuf_len ) )
ZeroStart(b) == [i \in 1 .. BufLen |-> IF i <= IntSize THEN NUL ELSE b[i]]

\* Read on: no line end yet, and the limit is not passed.
Incomplete(text) == ~Has(text, LF) /\ Len(text) <= CommandBufferLength

\* recv() returns n bytes.
Recv(n) ==
    /\ pc = "recv" /\ n <= Len(wire) /\ n <= BufLen
    /\ LET chunk == SubSeq(wire, 1, n) IN
       /\ wire' = SubSeq(wire, n + 1, Len(wire))
       /\ rdbuf' = ZeroStart(Filled(chunk))
       /\ \E read \in CString(Filled(chunk)) : ostr' = ostr \o read
       /\ got' = got \o chunk
       /\ pieces' = Append(pieces, n)
    /\ pc' = IF Has(ostr', CtrlC) THEN "closed"
             ELSE IF Incomplete(ostr') THEN "recv" ELSE "perform"
    /\ UNCHANGED <<hungup, session, sends, intact>>

\* perform, and the answer.
Perform ==
    /\ pc = "perform"
    /\ LET p == Parse(ostr, token) IN
       /\ token' = p.token
       /\ states' = IF Outcome(p) = "OK" THEN states \union {"oesAuthenticated"} ELSE states
       /\ replies' = IF Ignored(ostr) THEN replies
                     ELSE Append(replies, [token |-> p.token, outcome |-> Outcome(p)])
    /\ pc' = "recv" /\ Enter
    /\ intact' = (intact /\ wire = <<>>)
    /\ UNCHANGED client

\* recv() gives up after its timeout, whatever is still on its way, or the client
\* is gone: what was read is dropped, and svc() comes back after a short sleep.
RecvNothing ==
    /\ pc = "recv"
    /\ Enter
    /\ intact' = (intact /\ ostr = <<>>)
    /\ UNCHANGED <<client, pc, session>>

-----------------------------------------------------------------------------
(* The client.                                                             *)

Send(line) ==
    /\ ~hungup /\ pc # "closed" /\ Len(sends) < MaxSends
    /\ wire' = wire \o line
    /\ sends' = Append(sends, line)
    /\ intact' = (intact /\ wire = <<>> /\ ostr = <<>>)
    /\ UNCHANGED <<hungup, pc, rdbuf, ostr, session, got, pieces>>

HangUp ==
    /\ ~hungup /\ hungup' = TRUE
    /\ UNCHANGED <<wire, pc, rdbuf, ostr, session, sends, got, pieces, intact>>

Next ==
    \/ \E n \in 1 .. BufLen : Recv(n)
    \/ Perform
    \/ RecvNothing
    \/ \E line \in Lines : Send(line)
    \/ HangUp

Spec == Init /\ [][Next]_vars

-----------------------------------------------------------------------------
\* What is executed is what the client sent since process() was entered
\* ("zero read buufer").
TextAsReceived == pc # "closed" => ostr = got

\* No piece was shorter than an earlier one, unless it ends within what memset
\* clears.
Growing == \A i, j \in DOMAIN pieces : i < j => pieces[i] <= pieces[j] \/ pieces[j] < IntSize

\* If requests come one at a time, none cut by recv's timeout, and the pieces of
\* this one do not shrink (but to what memset clears), then what is executed is
\* the client's whole last request, or the start of one that passes the limit
\* without a line end.
WholeRequests ==
    pc = "perform" /\ intact /\ Growing /\ Len(got) < BufLen =>
        LET request == sends[Len(sends)] IN
        /\ Len(ostr) <= Len(request) /\ ostr = SubSeq(request, 1, Len(ostr))
        /\ ostr = request \/ (~Has(ostr, LF) /\ Len(ostr) > CommandBufferLength)

Told(outcome) == {i \in DOMAIN replies : replies[i].outcome = outcome}

\* A connection is authenticated exactly if its client was told OK, once; and
\* whoever is told that he is already logged in was told OK before.
LoginToldOnce ==
    /\ "oesAuthenticated" \in states => \E i \in DOMAIN replies : Told("OK") = {i}
    /\ "oesAuthenticated" \notin states => Told("OK") = {}
    /\ \A i \in Told("peAlreadyAuthenticated") : \E j \in Told("OK") : j < i

Word(s) == s # <<>> /\ \A i \in DOMAIN s : s[i] \in Letters

\* A well-formed request, by its grammar: token SP command [ SP payload ] CR LF,
\* the command a word.
IsRequest(line, tok, cmd) ==
    LET head == tok \o <<SP>> \o cmd
        n == Len(head) IN
    /\ Len(line) >= n + 2 /\ SubSeq(line, 1, n) = head
    /\ SubSeq(line, Len(line) - 1, Len(line)) = <<CR, LF>>
    /\ Len(line) > n + 2 => line[n + 1] = SP

\* The answer to a well-formed request carries the request's token, and says
\* what became of it: a first login is granted, a second one is turned away,
\* another word is not recognized.
RequestAnswered ==
    \A i, j \in 1 .. Len(ostr) :
      LET tok == SubSeq(ostr, 1, i)
          cmd == SubSeq(ostr, i + 2, j) IN
      ( pc = "perform" /\ i <= MaxTokenLength /\ Word(tok) /\ Word(cmd)
        /\ IsRequest(ostr, tok, cmd) /\ Perform ) =>
          replies' = Append(replies, [token |-> tok, outcome |->
              IF cmd \notin {<<"login">>, <<"LOGIN">>} THEN "peUnrecognizedCommand"
              ELSE IF Told("OK") = {} THEN "OK"
              ELSE "peAlreadyAuthenticated"])

AnswersRequest == [][RequestAnswered]_vars
=============================================================================
