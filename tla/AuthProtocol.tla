---------------------------- MODULE AuthProtocol ----------------------------
(***************************************************************************)
(* One connection of the authentication manager                            *)
(* (manager/auth_mgr_handler.cpp), on a thread of its own. Its handler     *)
(* began as a copy of the process manager's and reads, collects and parses *)
(* as that one does (ProcProtocol), but keeps no authentication state:     *)
(* on_login notes the command and says nothing, so that only errors are    *)
(* answered. A client talks to one of the two servers: ServerSpec.         *)
(***************************************************************************)
EXTENDS ProcProtocol

VARIABLES
    server,             \* whose service listens: "proc", or "auth"
    command             \* m_current_command (auth only)

authVars == <<vars, server, command>>

AuthErrors == {"peTokenTooLong", "peNoCommand", "peInvalidSyntax", "peUnrecognizedCommand"}

\* The handler is made, opened and its thread activated.
AuthInit == Init /\ server = "auth" /\ command = "auth_no_command"

-----------------------------------------------------------------------------
\* parse_command, letter for letter the other handler's.
AuthParse(text, tok) == Parse(text, tok)

\* The command's handler, from the map: on_login returns 0 and sets no error.
AuthOutcome(p) ==
    IF p.error # "peNoPacketError" THEN p.error
    ELSE IF Lcase(Command(p.rest)) \notin Commands THEN "peUnrecognizedCommand"
    ELSE "OK"

\* A slip: the login is acknowledged with output_ok_response.
AuthPerformAcknowledges ==
    /\ pc = "perform"
    /\ LET p == AuthParse(ostr, token)
           outcome == AuthOutcome(p) IN
       /\ token' = p.token
       /\ replies' = IF Ignored(ostr) THEN replies
                     ELSE Append(replies, [token |-> p.token, outcome |-> outcome])
       /\ command' = IF outcome = "OK" THEN "auth_login" ELSE "auth_error"
    /\ pc' = "recv" /\ Enter
    /\ intact' = (intact /\ wire = <<>>)
    /\ UNCHANGED <<client, states, server>>

\* perform; then format_packet_error, which answers, for all but a bare line
\* feed. What is flushed after a login is empty.
AuthPerform ==
    /\ pc = "perform"
    /\ LET p == AuthParse(ostr, token)
           outcome == AuthOutcome(p)
           answered == ~Ignored(ostr) /\ outcome # "OK" IN
       /\ token' = p.token
       /\ replies' = IF answered
                     THEN Append(replies, [token |-> p.token, outcome |-> outcome])
                     ELSE replies
       /\ command' = IF answered THEN "auth_error"
                     ELSE IF outcome = "OK" THEN "auth_login" ELSE command
    /\ pc' = "recv" /\ Enter
    /\ intact' = (intact /\ wire = <<>>)
    /\ UNCHANGED <<client, states, server>>

\* process() receives.
AuthRecv(n) == Recv(n) /\ UNCHANGED <<server, command>>

\* process() returns with nothing, svc() sleeps and calls it again.
AuthRecvNothing == RecvNothing /\ UNCHANGED <<server, command>>

AuthClient ==
    /\ (\E line \in Lines : Send(line)) \/ HangUp
    /\ UNCHANGED <<server, command>>

AuthNext ==
    \/ \E n \in 1 .. BufLen : AuthRecv(n)
    \/ AuthPerform \/ AuthRecvNothing \/ AuthClient

\* Either server.
ServerInit == AuthInit \/ (Init /\ server = "proc" /\ command = "auth_no_command")

ServerNext ==
    \/ server = "auth" /\ AuthNext
    \/ server = "proc" /\ Next /\ UNCHANGED <<server, command>>

ServerSpec == ServerInit /\ [][ServerNext]_authVars

-----------------------------------------------------------------------------
\* A well-formed login, in any case, with parameters or without, is executed
\* silently; any other word is refused under the request's own token; and
\* nothing this server ever says is an OK. (A client that waits for an answer to
\* its login waits for ever.)
LoginSilent ==
    server = "auth" /\ AuthPerform =>
      /\ \A k \in DOMAIN replies' : replies'[k].outcome \in AuthErrors
      /\ \A i, j \in 1 .. Len(ostr) :
           LET tok == SubSeq(ostr, 1, i)
               cmd == SubSeq(ostr, i + 2, j) IN
           i <= MaxTokenLength /\ Word(tok) /\ Word(cmd) /\ IsRequest(ostr, tok, cmd) =>
             IF cmd \in {<<"login">>, <<"LOGIN">>}
             THEN replies' = replies /\ command' = "auth_login"
             ELSE /\ replies' = Append(replies, [token |-> tok,
                                                outcome |-> "peUnrecognizedCommand"])
                  /\ command' = "auth_error"

AuthAnswers == [][LoginSilent]_authVars
=============================================================================
