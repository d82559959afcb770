----------------------------- MODULE MCMcpClient -----------------------------
(***************************************************************************)
(* Instances of McpClient for TLC.                                         *)
(***************************************************************************)
EXTENDS McpClient

CONSTANTS t1, t2

MCTokenOf == [c \in Client |-> t1]

\* Two streams, either of which may turn out to be an error at once, a stream
\* beside a subscription, and a second initialize.
MCBatch == {<<"stream", "stream">>, <<"subscribe", "stream">>, <<"initialize">>}
MCHandBatch == {<<"unknown">>}

=============================================================================
