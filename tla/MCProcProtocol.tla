--------------------------- MODULE MCProcProtocol ---------------------------
(* Instances of ProcProtocol and AuthProtocol for TLC.                     *)
EXTENDS AuthProtocol

\* The cases parse_command tells apart: well-formed requests with and without
\* a payload, a bare line feed, no blank, nothing after the token, a token at
\* and over its limit, a blank line with a blank, a control key, and a request
\* that passes the buffer's limit before its line end.
RequestLines == {
    <<"a", SP, "login", CR, LF>>,
    <<"a", "a", SP, "LOGIN", SP, "a", CR, LF>>,
    <<"a", SP, "a", CR, LF>>,
    <<"a", SP, "login", LF>>,
    <<CR, LF>>,
    <<SP, LF>>,
    <<"a", LF>>,
    <<"a", "a", "a", SP, "login", CR, LF>>,
    <<"a", CtrlC>>,
    <<"a", "a", "a", "a", "a", "a", "a", "a", SP>> }

LoginLines == {
    <<"a", SP, "login", CR, LF>>,
    <<"a", "a", SP, "a", CR, LF>> }
=============================================================================
