---------------------------- MODULE MCChatTurns ----------------------------
(* ChatTurns for TLC.  Tool-call ids are interchangeable, and so are the     *)
(* ids of input requests.                                                   *)
EXTENDS ChatTurns, TLC

IdSymmetry == Permutations(ToolIds) \cup Permutations(InputIds)

\* What chat/responsePart brings: an input request, a tool call that waits for
\* the user and that a client is to run, and an error, which is refused.
SentParts ==
    {Error("final")} \cup {Input(r, "open") : r \in InputIds}
        \cup {Tool(k, "pendingConfirmation", "client") : k \in ToolIds}

=============================================================================
