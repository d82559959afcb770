------------------------------ MODULE McpClient ------------------------------
(***************************************************************************)
(* Clients of the MCP server: ClientRPC, the SDK that all services use     *)
(* (packages/client/http_stream_client/jsonrpc/client_sdk.py), and posts   *)
(* made by hand.                                                           *)
(*                                                                         *)
(* start() asks for the server's health, sends initialize, keeps the       *)
(* session id of the answer, and sends notifications/initialized; only     *)
(* then is the client ready.  Each request or batch is one POST whose      *)
(* answer is read message by message, several at a time if the program     *)
(* wants.  Connections fail, the server restarts, readers stop reading,    *)
(* and a client that is ready may be closed, whatever it is reading.       *)
(***************************************************************************)
EXTENDS McpServer

CONSTANTS
  Client,      \* ClientRPC objects
  TokenOf,     \* the tenant whose token a client holds
  Batch,       \* the sequences of methods that programs send
  Outsider,    \* tenants that post by hand
  HandBatch,   \* what they post, <<>> for a notification
  Nobody       \* the answer of a post by hand is not followed

ASSUME McpClientAssumption ==
  /\ TokenOf \in [Client -> Tenant]
  /\ Outsider \subseteq Tenant
  /\ Batch \subseteq Seq(Method) \ {<<>>}
  /\ HandBatch \subseteq Seq(Method)
  /\ MaxId >= 1
  /\ Nobody \notin Client

VARIABLES
  phase,   \* a client's life
  sid,     \* _session_id
  lastId,  \* _request_id
  log,     \* the client's own audit
  reader   \* who reads the answer of a post, and what has been read

clientVars == <<phase, sid, lastId, log, reader>>
mcpVars == <<serverVars, clientVars>>

NoReader == [by |-> Nobody, at |-> "none", got |-> <<>>]

Reading == {"head", "body"}

McpTypeOK ==
  /\ ServerTypeOK
  /\ phase \in [Client -> {"new", "starting", "notifying", "ready", "failed", "closed"}]
  /\ sid \in [Client -> Session \cup {NoSession}]
  /\ lastId \in [Client -> 0 .. MaxId]
  /\ log \in [Client -> [RequestId -> Status]]
  /\ reader \in [Post -> [by : Client \cup {Nobody},
                          at : Reading \cup {"none", "done", "failed"},
                          got : Seq(Message)]]

McpInit ==
  /\ ServerInit
  /\ phase = [c \in Client |-> "new"]
  /\ sid = [c \in Client |-> NoSession]
  /\ lastId = [c \in Client |-> 0]
  /\ log = [c \in Client |-> NoRecords]
  /\ reader = [k \in Post |-> NoReader]

-----------------------------------------------------------------------------
(* Sending *)

\* The place of an exchange is used again when both sides are through with it;
\* the queue of a subscription may be there still, and nobody looks at it.
Free(k) ==
  /\ post[k].pc \in {"idle", "over"}
  /\ post[k].tasks \subseteq Subscriptions(post[k])
  /\ reader[k].at \notin Reading

SendTo(k, c, t, h, body) ==
  /\ Free(k)
  /\ post' = [post EXCEPT ![k] = Posted(t, h, body)]
  /\ reader' = [reader EXCEPT ![k] = [by |-> c, at |-> IF c = Nobody THEN "none" ELSE "head",
                                      got |-> <<>>]]
  /\ UNCHANGED <<tenantOf, audit>>

\* The requests get the next ids of the client and are entered in its audit
\* before they are sent.
send_request(c, k, methods) ==
  LET ids == lastId[c] + 1 .. lastId[c] + Len(methods)
  IN /\ lastId[c] + Len(methods) <= MaxId
     /\ lastId' = [lastId EXCEPT ![c] = @ + Len(methods)]
     /\ log' = [log EXCEPT ![c] = [r \in RequestId |-> IF r \in ids THEN "pending" ELSE @[r]]]
     /\ SendTo(k, c, TokenOf[c], sid[c],
               [i \in DOMAIN methods |-> [id |-> lastId[c] + i, method |-> methods[i]]])

Start(c, k) ==
  /\ phase[c] = "new"
  /\ phase' = [phase EXCEPT ![c] = "starting"]
  /\ send_request(c, k, <<"initialize">>)
  /\ UNCHANGED sid

HealthFails(c) ==
  /\ phase[c] = "new"
  /\ phase' = [phase EXCEPT ![c] = "failed"]
  /\ UNCHANGED <<serverVars, sid, lastId, log, reader>>

\* The answer to initialize has been read.
SendInitialized(c, k) ==
  /\ phase[c] = "starting"
  /\ reader[k].by = c /\ reader[k].at = "done"
  /\ phase' = [phase EXCEPT ![c] = "notifying"]
  /\ SendTo(k, c, TokenOf[c], sid[c], <<>>)
  /\ UNCHANGED <<sid, lastId, log>>

Call(c, k, methods) ==
  /\ phase[c] = "ready"
  /\ send_request(c, k, methods)
  /\ UNCHANGED <<phase, sid>>

\* The explorer page of /api/docs, curl and tests post with any known header.
ByHand(k, t, h, methods) ==
  /\ h # NoSession => tenantOf[h] # Unissued
  /\ SendTo(k, Nobody, t, h, [i \in DOMAIN methods |-> [id |-> 1, method |-> methods[i]]])
  /\ UNCHANGED <<phase, sid, lastId, log>>

-----------------------------------------------------------------------------
(* Reading *)

\* An exception leaves send_request or send_notification, and the connection
\* with it; it also ends a start() under way.
Fails(k) ==
  LET c == reader[k].by
  IN /\ reader' = [reader EXCEPT ![k].at = "failed"]
     /\ post' = [post EXCEPT ![k].connected = FALSE, ![k].out = <<>>]
     /\ phase' = [phase EXCEPT ![c] = IF @ \in {"starting", "notifying"} THEN "failed" ELSE @]
     /\ UNCHANGED <<tenantOf, audit, sid, lastId, log>>

Answered(k) ==
  /\ reader[k].at = "head"
  /\ post[k].status # 0
  /\ post[k].connected

Changed(c, s) == s # NoSession /\ sid[c] # NoSession /\ s # sid[c]

\* raise_for_status, and a session id that is not the client's
HeadRefused(k) ==
  /\ Answered(k)
  /\ post[k].status >= 400 \/ Changed(reader[k].by, post[k].session)
  /\ Fails(k)

\* _update_session_id; a notification has nothing more to read.
HeadAccepted(k) ==
  LET c == reader[k].by
      s == post[k].session
  IN /\ Answered(k)
     /\ post[k].status < 400 /\ ~Changed(c, s)
     /\ sid' = [sid EXCEPT ![c] = IF s = NoSession THEN @ ELSE s]
     /\ reader' = [reader EXCEPT ![k].at = IF post[k].status = 202 THEN "done" ELSE "body"]
     /\ phase' = [phase EXCEPT ![c] = IF @ = "notifying" THEN "ready" ELSE @]
     /\ UNCHANGED <<serverVars, lastId, log>>

\* Every message counts as the response.
TakeBug(k) ==
  LET m == post[k].out[1]
  IN /\ reader[k].at = "body"
     /\ post[k].out # <<>>
     /\ post' = [post EXCEPT ![k].out = Tail(@)]
     /\ reader' = [reader EXCEPT ![k].got = Append(@, m)]
     /\ log' = [log EXCEPT ![reader[k].by] =
                  track_response(@, post[k].body[m.i].id, "result")]
     /\ UNCHANGED <<tenantOf, audit, phase, sid, lastId>>

\* The next message of the body is given to the program, a response once it is
\* entered in the audit.
Take(k) ==
  LET c == reader[k].by
      m == post[k].out[1]
  IN /\ reader[k].at = "body"
     /\ post[k].out # <<>>
     /\ post' = [post EXCEPT ![k].out = Tail(@)]
     /\ reader' = [reader EXCEPT ![k].got = Append(@, m)]
     /\ log' = IF m.item \in Final
                 THEN [log EXCEPT ![c] = track_response(@, post[k].body[m.i].id, m.item)]
                 ELSE log
     /\ UNCHANGED <<tenantOf, audit, phase, sid, lastId>>

EndOfBody(k) ==
  /\ reader[k].at = "body"
  /\ post[k].out = <<>> /\ post[k].pc = "over" /\ post[k].connected
  /\ reader' = [reader EXCEPT ![k].at = "done"]
  /\ UNCHANGED <<serverVars, phase, sid, lastId, log>>

Read(k) == HeadAccepted(k) \/ HeadRefused(k) \/ Take(k) \/ EndOfBody(k)

\* The connection of an exchange fails, unknown to the server.
Disconnect(k) ==
  /\ reader[k].at \in Reading
  /\ post[k].connected
  /\ post' = [post EXCEPT ![k].connected = FALSE, ![k].out = <<>>]
  /\ UNCHANGED <<tenantOf, audit, clientVars>>

Broken(k) ==
  /\ reader[k].at \in Reading
  /\ ~post[k].connected
  /\ Fails(k)

\* The program stops reading before the end.
Abandon(k) ==
  /\ reader[k].at = "body"
  /\ phase[reader[k].by] = "ready"
  /\ Fails(k)

\* close(): the audit is cleared, and every exchange of the client is cut.
Close(c) ==
  LET mine == {k \in Post : reader[k].by = c /\ reader[k].at \in Reading}
  IN /\ phase[c] = "ready"
     /\ phase' = [phase EXCEPT ![c] = "closed"]
     /\ log' = [log EXCEPT ![c] = NoRecords]
     /\ reader' = [k \in Post |-> IF k \in mine THEN [reader[k] EXCEPT !.at = "failed"]
                                  ELSE reader[k]]
     /\ post' = [k \in Post |-> IF k \in mine THEN [post[k] EXCEPT !.connected = FALSE, !.out = <<>>]
                                ELSE post[k]]
     /\ UNCHANGED <<tenantOf, audit, sid, lastId>>

-----------------------------------------------------------------------------
ReceiveFrom(k) ==
  /\ \E wellFormed \in (IF reader[k].by = Nobody THEN BOOLEAN ELSE {TRUE}) :
       Receive(k, wellFormed)
  /\ UNCHANGED clientVars

\* What the server and its handlers do about an exchange.
Service(k) == ReceiveFrom(k) \/ ((Handle(k) \/ Serve(k)) /\ UNCHANGED clientVars)

McpNext ==
  \/ \E c \in Client, k \in Post :
       \/ Start(c, k)
       \/ SendInitialized(c, k)
       \/ \E methods \in Batch : Call(c, k, methods)
  \/ \E c \in Client : HealthFails(c) \/ Close(c)
  \/ \E k \in Post, t \in Outsider, h \in Session \cup {NoSession}, methods \in HandBatch :
       ByHand(k, t, h, methods)
  \/ \E k \in Post :
       \/ Service(k)
       \/ Broadcast(k) /\ UNCHANGED clientVars
       \/ Read(k)
       \/ Disconnect(k)
       \/ Broken(k)
       \/ Abandon(k)
  \/ Restart /\ UNCHANGED clientVars

McpSpec == McpInit /\ [][McpNext]_mcpVars

\* Handlers come back and finish their queues, the server runs, a program that
\* reads an answer reads on, and a client told that its connection is gone sees
\* it.  That an event is ever broadcast is not assumed, and the queue of a
\* subscription never ends.  Each step takes an exchange nearer to its end, so
\* that the fairness of one action is the fairness of its parts.
McpFairSpec ==
  /\ McpSpec
  /\ \A k \in Post : WF_mcpVars(Service(k)) /\ WF_mcpVars(Read(k) \/ Broken(k))

-----------------------------------------------------------------------------
(* Properties *)

\* What the server has said of an exchange and was not lost.
Said(k) == reader[k].got \o post[k].out

\* What the program reads of one request is what the handler put, in that order,
\* nothing twice and nothing left out, although the streams of a batch share one
\* connection; and an answer read to its end holds all of it, up to exactly one
\* response to each request (mcp_router.py 228-260, client_sdk.py 187-198,
\* docs/specification/streamable_http_transport 109-111).
AnswersInOrder ==
  \A k \in Post :
    LET put == post[k].put
        said == Said(k)
    IN /\ \A j \in DOMAIN said :
            /\ said[j].i \in Indexes(post[k])
            /\ said[j].n \in DOMAIN put[said[j].i]
            /\ said[j].item = put[said[j].i][said[j].n]
            /\ \A h \in 1 .. j - 1 : said[h].i = said[j].i => said[h].n < said[j].n
            /\ said[j].n > 1 =>
                 \E h \in 1 .. j - 1 : said[h].i = said[j].i /\ said[h].n = said[j].n - 1
       /\ reader[k].at = "done" =>
            \A i \in Indexes(post[k]) :
              /\ put[i] # <<>>
              /\ \A n \in DOMAIN put[i] : put[i][n] \in Final <=> n = Len(put[i])
              /\ \E j \in DOMAIN said : said[j].i = i /\ said[j].n = Len(put[i])

\* The client's audit agrees with what its program was given: a request is pending
\* until its response was read, and then shows that response (client_sdk.py 158-192).
LogFollowsAnswers ==
  \A k \in Post :
    reader[k].by # Nobody /\ phase[reader[k].by] # "closed" =>
      \A i \in Indexes(post[k]) :
        LET given == {m \in {reader[k].got[j] : j \in DOMAIN reader[k].got} :
                        m.i = i /\ m.item \in Final}
        IN log[reader[k].by][post[k].body[i].id] =
             IF given = {} THEN "pending" ELSE (CHOOSE m \in given : TRUE).item

\* A ready client has a session, which is its own: it was made for its tenant, and
\* no other client has it (client_sdk.py 113-145, 283-302).
ClientOwnsSession ==
  \A c \in Client :
    phase[c] = "ready" =>
      /\ sid[c] # NoSession
      /\ tenantOf[sid[c]] \in {TokenOf[c], Lost}
      /\ \A d \in Client \ {c} : sid[d] # sid[c]

\* No request runs in a session of another tenant, and no two clients meet in one.
SessionsApart == SessionServesItsTenant /\ ClientOwnsSession

\* What is left of an exchange is its subscriptions: the program has read the
\* responses to its other requests, and every event there is.
OnlySubscribed(k) ==
  LET x == post[k]
      read == {reader[k].got[j] : j \in DOMAIN reader[k].got}
  IN /\ x.pc = "streaming" /\ x.connected
     /\ x.open # {} /\ x.open \subseteq Subscriptions(x)
     /\ \A i \in Indexes(x) \ x.open : \E m \in read : m.i = i /\ m.item \in Final
     /\ \A i \in x.open : \A n \in DOMAIN x.put[i] : \E m \in read : m.i = i /\ m.n = n

\* Whoever waits for an answer gets to its end, or gets an error, or is left with
\* subscriptions only, of which it has had every event: a lost connection, a
\* restart or a refused session never leaves a reader waiting, nor does a queue
\* that is silent keep back what the others of the exchange have to say
\* (mcp_router.py 228-260, client_sdk.py 173-220).
CallsEnd ==
  \A k \in Post :
    reader[k].at \in Reading ~> reader[k].at \notin Reading \/ OnlySubscribed(k)

\* A 404 makes the client forget its session, so that it can start a new one: "Clearing
\* session id due to 404 response" (client_sdk.py 304-307).
ForgetsLostSession ==
  [][\A k \in Post :
       HeadRefused(k) /\ post[k].status = 404 => sid'[reader[k].by] = NoSession]_mcpVars

=============================================================================
