------------------------------ MODULE McpServer ------------------------------
(***************************************************************************)
(* The server half of the MCP transport that every pair of services talks  *)
(* through (packages/server_pkg/http_stream_transport: server/mcp_router,  *)
(* server/session, jsonrpc/jrpc_service; packages/jrpc_common/jrpc_audit). *)
(*                                                                         *)
(* A POST carries one JSON-RPC message or a batch.  The session named by   *)
(* its header is looked up, the requests are dispatched concurrently, and  *)
(* the answer is a JSON body, or an event stream when some handler hands   *)
(* back a queue that a task of its own goes on filling.  The stream merges *)
(* the queues as items arrive.  Each session keeps an audit of its         *)
(* requests.                                                               *)
(*                                                                         *)
(* A handler is known by how it may answer: "plain" stands for every       *)
(* registered method that returns a value, "stream" for those that return  *)
(* a queue which ends with a response, and "subscribe" for those whose     *)
(* queue is only ever given events or nothing at all (bff.subscribe,       *)
(* list.subscribe, parks.subscribe, flights.subscribe).                    *)
(***************************************************************************)
EXTENDS Integers, Sequences, FiniteSets

CONSTANTS
  Tenant,    \* holders of a bearer token
  Session,   \* what uuid4 may return, each at most once
  NoSession, \* no Mcp-Session-Id
  Unissued,  \* an id that no session has
  Lost,      \* a session the server has forgotten: it was restarted
  Post,      \* places for an HTTP exchange
  MaxId,     \* bound on the request ids of a client
  MaxItems   \* bound on the notifications in one queue

ASSUME McpServerAssumption ==
  /\ NoSession \notin Session
  /\ {Unissued, Lost} \cap Tenant = {}
  /\ Unissued # Lost
  /\ MaxId \in Nat
  /\ MaxItems \in Nat

Method == {"initialize", "plain", "stream", "subscribe", "unknown"}
Final == {"result", "error"}
Item == Final \cup {"event"}
RequestId == 1 .. MaxId
Status == {"unknown", "pending"} \cup Final

Request == [id : RequestId, method : Method]

\* What one event of the stream, or one element of a JSON body, answers: the
\* n-th item of the i-th request of the post.
Message == [i : Nat, n : Nat, item : Item]

VARIABLES
  tenantOf,  \* _sessions: the tenant of each session
  audit,     \* Session.audit: the status of each request id
  post       \* the exchanges

serverVars == <<tenantOf, audit, post>>

Idle == [pc |-> "idle", status |-> 0, tenant |-> Unissued, session |-> NoSession,
         body |-> <<>>, put |-> <<>>, tasks |-> {}, taken |-> <<>>, open |-> {},
         done |-> {}, owed |-> {}, connected |-> FALSE, out |-> <<>>]

Phase == {"idle", "posted", "dispatching", "streaming", "over"}

Exchange ==
  [pc : Phase, status : {0, 200, 202, 400, 403, 404}, tenant : Tenant \cup {Unissued},
   session : Session \cup {NoSession}, body : Seq(Request), put : Seq(Seq(Item)),
   tasks : SUBSET Nat, taken : Seq(Nat), open : SUBSET Nat, done : SUBSET Nat,
   owed : SUBSET Nat, connected : BOOLEAN, out : Seq(Message)]

ServerTypeOK ==
  /\ tenantOf \in [Session -> Tenant \cup {Unissued, Lost}]
  /\ audit \in [Session -> [RequestId -> Status]]
  /\ post \in [Post -> Exchange]

NoRecords == [r \in RequestId |-> "unknown"]

ServerInit ==
  /\ tenantOf = [s \in Session |-> Unissued]
  /\ audit = [s \in Session |-> NoRecords]
  /\ post = [k \in Post |-> Idle]

\* Operators named ...Bug are slips that would be easy to make in the operator
\* they precede; no specification uses them (README, "Mutants").

-----------------------------------------------------------------------------
(* JrpcAudit *)

track_request(records, r) == [records EXCEPT ![r] = "pending"]

\* The answer to a request that is not on record is ignored.
track_response(records, r, item) ==
  IF records[r] = "unknown" THEN records ELSE [records EXCEPT ![r] = item]

\* The audits once the records of a session are the ones given; an exchange
\* without a session has no audit.
Entered(s, records) ==
  IF s = NoSession THEN audit ELSE [audit EXCEPT ![s] = records]

-----------------------------------------------------------------------------
(* mcp_post *)

Indexes(x) == DOMAIN x.body

\* A message reaches the server with the token of t and the session header h.
Posted(t, h, body) ==
  [Idle EXCEPT !.pc = "posted", !.tenant = t, !.session = h, !.body = body,
               !.put = [i \in DOMAIN body |-> <<>>],
               !.taken = [i \in DOMAIN body |-> 0], !.connected = TRUE]

\* The tenant is not compared.
AdmissionBug(t, h) == IF h # NoSession /\ tenantOf[h] \in {Unissued, Lost} THEN 404 ELSE 200

\* The status that the session header earns a POST or a GET.
Admission(t, h) ==
  CASE h = NoSession -> 200
    [] h # NoSession /\ tenantOf[h] \in {Unissued, Lost} -> 404
    [] h # NoSession /\ tenantOf[h] \notin {Unissued, Lost, t} -> 403
    [] OTHER -> 200

Refused(x, status) ==
  [x EXCEPT !.pc = "over", !.status = status, !.session = NoSession]

\* Up to the dispatch of the requests.  A body that is no JSON, no JSON-RPC or a
\* batch with responses among requests gets 400, whatever handlers it names;
\* notifications alone get 202.
Receive(k, wellFormed) ==
  LET x == post[k]
      admission == Admission(x.tenant, x.session)
  IN /\ x.pc = "posted"
     /\ post' = [post EXCEPT ![k] =
          CASE admission # 200 -> Refused(x, admission)
            [] admission = 200 /\ ~wellFormed -> Refused(x, 400)
            [] admission = 200 /\ wellFormed /\ x.body = <<>> ->
                 [x EXCEPT !.pc = "over", !.status = 202]
            [] OTHER -> [x EXCEPT !.pc = "dispatching"]]
     /\ UNCHANGED <<tenantOf, audit>>

\* Requests whose handler has not come back.
Running(x) == {i \in Indexes(x) : x.put[i] = <<>> /\ i \notin x.open}

\* How the handler of a method may come back: with a value, with a queue, or
\* with an error because its parameters are wrong or it raised.
Outcome(method) ==
  CASE method = "initialize" -> {"result"}
    [] method = "plain" -> Final
    [] method \in {"stream", "subscribe"} -> {"queue", "error"}
    [] method = "unknown" -> {"error"}

\* Which id uuid4 returns makes no difference, as long as it is a new one.
Fresh == {s \in Session : tenantOf[s] = Unissued}

\* dispatch_request: initialize gives the exchange a new session, and the
\* request is entered in the audit of the session the exchange then has.
Dispatch(k, i, o) ==
  LET x == post[k]
      r == x.body[i].id
  IN /\ x.pc = "dispatching"
     /\ i \in Running(x)
     /\ o \in Outcome(x.body[i].method)
     /\ LET s == IF x.body[i].method = "initialize" THEN CHOOSE u \in Fresh : TRUE
                 ELSE x.session IN
          /\ x.body[i].method = "initialize" => Fresh # {}
          /\ tenantOf' = IF x.body[i].method = "initialize"
                           THEN [tenantOf EXCEPT ![s] = x.tenant] ELSE tenantOf
          /\ audit' = Entered(s,
               IF o = "queue" THEN track_request(audit[s], r)
               ELSE track_response(track_request(audit[s], r), r, o))
          /\ post' = [post EXCEPT ![k] =
               IF o = "queue"
                 THEN [x EXCEPT !.session = s, !.open = @ \cup {i}, !.tasks = @ \cup {i}]
                 ELSE [x EXCEPT !.session = s, !.put[i] = <<o>>]]

\* Requests whose queue no response is ever put in.
Subscriptions(x) == {i \in Indexes(x) : x.body[i].method = "subscribe"}

\* The task behind a queue puts a notification or, last of all, the response; a
\* subscription gets the events that are broadcast.
Produce(k, i, item) ==
  /\ i \in post[k].tasks
  /\ item = "event" => Len(post[k].put[i]) < MaxItems
  /\ i \in Subscriptions(post[k]) => item = "event"
  /\ post' = [post EXCEPT ![k].put[i] = Append(@, item),
                          ![k].tasks = IF item \in Final THEN @ \ {i} ELSE @]
  /\ UNCHANGED <<tenantOf, audit>>

NextItem(x, i) ==
  [i |-> i, n |-> x.taken[i] + 1, item |-> x.put[i][x.taken[i] + 1]]

\* Write to the connection, if it is still there.
Written(x, messages) == IF x.connected THEN x.out \o messages ELSE x.out

\* The indexes in S, the least one first.
InOrder(S) ==
  CHOOSE s \in [1 .. Cardinality(S) -> S] :
    \A a, b \in 1 .. Cardinality(S) : a < b => s[a] < s[b]

\* The requests are all dispatched: the status and the session go out, and the
\* results that are no queue.  Without a queue that is the whole answer.
Respond(k) ==
  LET x == post[k]
      ready == InOrder(Indexes(x) \ x.open)
  IN /\ x.pc = "dispatching"
     /\ Running(x) = {}
     /\ post' = [post EXCEPT ![k] =
          [x EXCEPT !.pc = IF x.open = {} THEN "over" ELSE "streaming",
                    !.status = 200,
                    !.taken = [i \in Indexes(x) |-> IF i \in x.open THEN 0 ELSE 1],
                    !.out = Written(x, [j \in DOMAIN ready |-> NextItem(x, ready[j])])]]
     /\ UNCHANGED <<tenantOf, audit>>

\* asyncio.wait returns: the pending get() tasks that have an item are done.
Wait(k) ==
  LET x == post[k]
      filled == {i \in x.open : x.taken[i] < Len(x.put[i])}
  IN /\ x.pc = "streaming"
     /\ x.done = {} /\ x.owed = {}
     /\ filled # {}
     /\ post' = [post EXCEPT ![k].done = filled]
     /\ UNCHANGED <<tenantOf, audit>>

\* The item of one done task goes out.
Emitted(x, i) ==
  [x EXCEPT !.out = Written(x, <<NextItem(x, i)>>), !.taken[i] = @ + 1, !.done = @ \ {i}]

IsLastItem(x, i) == NextItem(x, i).item \in Final

\* A notification is entered in the audit as if it were a response.
AfterYieldBug1(x, i) ==
  [Emitted(x, i) EXCEPT !.open = IF IsLastItem(x, i) THEN @ \ {i} ELSE @, !.owed = {i}]

\* A response is not entered in the audit.
AfterYieldBug2(x, i) ==
  [Emitted(x, i) EXCEPT !.open = IF IsLastItem(x, i) THEN @ \ {i} ELSE @]

\* The other tasks that are done are forgotten, and their queues with them.
AfterYieldBug3(x, i) ==
  LET left == x.open \ (x.done \ {i})
  IN IF IsLastItem(x, i) THEN [Emitted(x, i) EXCEPT !.open = left \ {i}, !.owed = {i}, !.done = {}]
     ELSE [Emitted(x, i) EXCEPT !.open = left, !.done = {}]

\* An error response is taken for a notification.
AfterYieldBug4(x, i) ==
  IF NextItem(x, i).item = "result"
    THEN [Emitted(x, i) EXCEPT !.open = @ \ {i}, !.owed = {i}] ELSE Emitted(x, i)

\* After a response its queue is read no more, and the response is still to be
\* entered in the audit.
AfterYield(x, i) ==
  IF IsLastItem(x, i)
    THEN [Emitted(x, i) EXCEPT !.open = @ \ {i}, !.owed = {i}] ELSE Emitted(x, i)

Yield(k, i) ==
  /\ post[k].pc = "streaming"
  /\ i \in post[k].done /\ post[k].owed = {}
  /\ post' = [post EXCEPT ![k] = AfterYield(@, i)]
  /\ UNCHANGED <<tenantOf, audit>>

\* generate_sse goes on after the yield of a response.
Track(k, i) ==
  LET x == post[k]
  IN /\ x.pc = "streaming"
     /\ i \in x.owed
     /\ audit' = Entered(x.session,
          track_response(audit[x.session], x.body[i].id, x.put[i][x.taken[i]]))
     /\ post' = [post EXCEPT ![k].owed = {}]
     /\ UNCHANGED tenantOf

\* Nothing is pending: the stream is closed.
CloseStream(k) ==
  /\ post[k].pc = "streaming"
  /\ post[k].open = {} /\ post[k].owed = {}
  /\ post' = [post EXCEPT ![k].pc = "over"]
  /\ UNCHANGED <<tenantOf, audit>>

Ended(x) == [x EXCEPT !.pc = "over", !.open = {}, !.done = {}, !.owed = {}]

\* The server notices that nobody reads the stream and cancels generate_sse; the
\* tasks behind the queues go on.
Cancel(k) ==
  /\ post[k].pc = "streaming"
  /\ ~post[k].connected
  /\ post' = [post EXCEPT ![k] = Ended(post[k])]
  /\ UNCHANGED <<tenantOf, audit>>

\* The server process ends and is started again: sessions, audits, tasks and
\* answers under way are gone.
Restart ==
  /\ tenantOf' = [s \in Session |-> IF tenantOf[s] = Unissued THEN Unissued ELSE Lost]
  /\ audit' = [s \in Session |-> NoRecords]
  /\ post' = [k \in Post |->
       IF post[k].pc \in {"idle", "over"} THEN [post[k] EXCEPT !.tasks = {}]
       ELSE [Ended(post[k]) EXCEPT !.tasks = {}, !.connected = FALSE, !.out = <<>>]]

Serve(k) ==
  \/ Respond(k)
  \/ Wait(k)
  \/ \E i \in post[k].done : Yield(k, i)
  \/ \E i \in post[k].owed : Track(k, i)
  \/ CloseStream(k)
  \/ Cancel(k)

Handle(k) ==
  \/ \E i \in Indexes(post[k]), o \in Final \cup {"queue"} : Dispatch(k, i, o)
  \/ \E i \in post[k].tasks \ Subscriptions(post[k]), item \in Item : Produce(k, i, item)

\* EventBroadcaster.broadcast, for the queues of this exchange
Broadcast(k) == \E i \in post[k].tasks \cap Subscriptions(post[k]) : Produce(k, i, "event")

-----------------------------------------------------------------------------
(* Properties *)

\* An exchange that was let in belongs to the tenant of the session it names, or
\* that its initialize gave it: nobody's requests run, and nobody's entries are
\* made, in a session of someone else (mcp_router.py 113-124).
SessionServesItsTenant ==
  \A k \in Post :
    post[k].pc \in {"dispatching", "streaming"} /\ post[k].session # NoSession
      => tenantOf[post[k].session] = post[k].tenant

\* Once an exchange is over and was not cut short, the audit of its session shows
\* the answer of each of its requests: none stays pending, whatever the order in
\* which the streams of a batch end (mcp_router.py 253-256, jrpc_service.py 396-399).
AuditSettled ==
  \A k \in Post :
    LET x == post[k]
    IN x.pc = "over" /\ x.connected /\ x.status = 200 /\ x.session # NoSession
         /\ tenantOf[x.session] # Lost
         => \A i \in Indexes(x) :
              /\ x.put[i] # <<>>
              /\ audit[x.session][x.body[i].id] = x.put[i][Len(x.put[i])]

=============================================================================
