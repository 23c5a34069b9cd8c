----------------------- MODULE MCWebSocketTransport -----------------------
\* An instance of WebSocketTransport for TLC.
EXTENDS WebSocketTransport

CONSTANTS a, r1, r2

OneChunk == 1..1

\* Below, at, inside and above the supported ranges, in both orders, and with
\* a string that is no version.
SomeOffers ==
    {<<<<1, 0, 0>>, <<1, 1, 0>>>>, <<<<2, 0, 0>>, <<1, 1, 0>>, <<0, 9, 0>>>>,
     <<<<0, 9, 4>>, <<0, 9, 0>>, <<0, 8, 9>>>>, <<<<0, 10, 0>>, <<2, 0, 0>>>>, <<<<1, 1, 0>>, None>>}

SomeAsks       == {[method |-> "ping", params |-> [channel |-> RootChannel]]}
SomeServerAsks == {[method |-> "resourceMkdir", params |-> [channel |-> RootChannel, uri |-> a]]}

\* An action every version knows, one new in 1.1.0, and a notification that
\* becomes no event.
SomeNews ==
    LET Action(action) ==
            [jsonrpc |-> "2.0", method |-> "action",
             params |-> [channel |-> a, action |-> action, serverSeq |-> 0, origin |-> None,
                         rejectionReason |-> None]]
    IN  {Action([type |-> "chat/activityChanged", activity |-> None]),
         Action([type |-> "chat/moved", provider |-> None, schema |-> None]),
         [jsonrpc |-> "2.0", method |-> "root/progress",
          params |-> [channel |-> a, progressToken |-> a, progress |-> 0, total |-> None,
                      message |-> None]]}
=============================================================================
