--------------------------- MODULE McpClient_proofs ---------------------------
(***************************************************************************)
(* The MCP transport, for every number of clients, sessions, exchanges and *)
(* requests: answers come in order and whole, the two audits agree with    *)
(* them, and no session is shared.                                         *)
(***************************************************************************)
EXTENDS McpClient, FiniteSetTheorems, SequenceTheorems, WellFoundedInduction, TLAPS

-----------------------------------------------------------------------------
(* The inductive invariant: what holds of an exchange on the server *)

Requests(x) == 1 .. Len(x.body)

\* The response to a request is in and has been taken from its queue.
Complete(x, i) ==
  /\ x.put[i] # <<>>
  /\ x.taken[i] = Len(x.put[i])
  /\ x.put[i][Len(x.put[i])] \in Final

\* A handler puts its response last.
QueuesOK(x) ==
  /\ Len(x.put) = Len(x.body) /\ Len(x.taken) = Len(x.body)
  /\ \A i \in Requests(x) :
       /\ x.taken[i] <= Len(x.put[i])
       /\ \A n \in 1 .. Len(x.put[i]) : x.put[i][n] \in Final => n = Len(x.put[i])
       /\ i \in x.tasks => \A n \in 1 .. Len(x.put[i]) : x.put[i][n] \notin Final
       /\ i \in x.open \cup x.tasks => x.body[i].method # "initialize"
       /\ x.body[i].method = "initialize" /\ x.put[i] # <<>> => x.session # NoSession
  /\ x.tasks \subseteq Requests(x) /\ x.open \subseteq Requests(x)
  /\ x.done \subseteq x.open
  /\ \A i \in x.done : x.taken[i] < Len(x.put[i])

\* How far an exchange is, phase by phase.
PhasesOK(x) ==
  /\ x.pc \in {"idle", "posted"} =>
       /\ x.status = 0 /\ x.tasks = {} /\ x.open = {} /\ x.owed = {}
       /\ \A i \in Requests(x) : x.taken[i] = 0 /\ x.put[i] = <<>>
  /\ x.pc = "dispatching" =>
       /\ x.status = 0 /\ x.done = {} /\ x.owed = {} /\ x.tasks \subseteq x.open
       /\ \A i \in Requests(x) :
            /\ x.taken[i] = 0
            /\ i \notin x.open /\ x.put[i] # <<>> => Len(x.put[i]) = 1 /\ x.put[i][1] \in Final
  /\ x.pc = "streaming" =>
       /\ x.status = 200
       /\ x.owed \subseteq Requests(x) \ x.open
       /\ \A i \in Requests(x) \ x.open : Complete(x, i)
  /\ x.pc = "over" =>
       /\ x.open = {} /\ x.owed = {}
       /\ x.connected /\ x.status = 200 => \A i \in Requests(x) : Complete(x, i)
  /\ x.status = 202 => x.body = <<>> /\ x.pc = "over"

ExchangeOK(x) == QueuesOK(x) /\ PhasesOK(x)

ExchangesOK == \A k \in Post : ExchangeOK(post[k])

\* What has been said of an exchange is the beginning of every queue, as far as
\* it was taken.
InOrderOK(x, said) ==
  \A j \in 1 .. Len(said) :
    /\ said[j].i \in Requests(x)
    /\ said[j].n \in 1 .. x.taken[said[j].i]
    /\ said[j].item = x.put[said[j].i][said[j].n]
    /\ \A h \in 1 .. j - 1 : said[h].i = said[j].i => said[h].n < said[j].n
    /\ said[j].n > 1 => \E h \in 1 .. j - 1 : said[h].i = said[j].i /\ said[h].n = said[j].n - 1

SaidAll(x, said) ==
  \A i \in Requests(x) : \A n \in 1 .. x.taken[i] :
    \E j \in 1 .. Len(said) : said[j].i = i /\ said[j].n = n

SaidOK ==
  \A k \in Post :
    /\ InOrderOK(post[k], Said(k))
    /\ post[k].connected => SaidAll(post[k], Said(k))

-----------------------------------------------------------------------------
(* The inductive invariant: what holds of the clients *)

ReadersOK ==
  \A k \in Post :
    /\ reader[k].by = Nobody <=> reader[k].at = "none"
    /\ reader[k].at = "body" => post[k].status = 200
    /\ reader[k].at = "done" =>
         post[k].status = 202 \/ (post[k].status = 200 /\ post[k].pc = "over" /\ post[k].connected)

ReadFor(c, k) == reader[k].by = c /\ reader[k].at \in Reading

\* A client that starts has one exchange, its initialize, and one that sends its
\* notification reads nothing else.
LivesOK ==
  \A c \in Client :
    /\ phase[c] \in {"new", "failed", "closed"} =>
         \A k \in Post : ~ReadFor(c, k)
    /\ phase[c] = "new" => sid[c] = NoSession /\ \A k \in Post : reader[k].by # c
    /\ phase[c] = "starting" =>
         \A k \in Post : reader[k].by = c =>
           /\ Len(post[k].body) = 1 /\ post[k].body[1].method = "initialize"
           /\ \A l \in Post : reader[l].by = c => l = k
           /\ reader[k].at \in {"body", "done"} => sid[c] # NoSession
    /\ phase[c] = "notifying" =>
         \A k, l \in Post : ReadFor(c, k) /\ ReadFor(c, l) => k = l
    /\ phase[c] \in {"notifying", "ready", "closed"} => sid[c] # NoSession

\* The requests of a client have ids of their own.
IdsOK ==
  \A k \in Post : reader[k].by # Nobody =>
    /\ \A i \in Requests(post[k]) : post[k].body[i].id <= lastId[reader[k].by]
    /\ \A i, j \in Requests(post[k]) : post[k].body[i].id = post[k].body[j].id => i = j
    /\ \A l \in Post : reader[l].by = reader[k].by /\ l # k =>
         \A i \in Requests(post[k]), j \in Requests(post[l]) :
           post[k].body[i].id # post[l].body[j].id

Given(k, i, j) == reader[k].got[j].i = i /\ reader[k].got[j].item \in Final

LogOK ==
  \A k \in Post : reader[k].by # Nobody /\ phase[reader[k].by] # "closed" =>
    \A i \in Requests(post[k]) :
      LET entry == log[reader[k].by][post[k].body[i].id] IN
      /\ \A j \in 1 .. Len(reader[k].got) : Given(k, i, j) => entry = reader[k].got[j].item
      /\ (\A j \in 1 .. Len(reader[k].got) : ~Given(k, i, j)) => entry = "pending"

\* The sessions that a client has or may get to have.
Claims(c, s) == sid[c] = s \/ \E k \in Post : reader[k].by = c /\ post[k].session = s

SessionsOK ==
  /\ \A k \in Post :
       /\ post[k].pc # "idle" => post[k].tenant \in Tenant
       /\ reader[k].by # Nobody => post[k].tenant = TokenOf[reader[k].by]
  /\ \A c \in Client, s \in Session :
       Claims(c, s) => /\ tenantOf[s] \in {TokenOf[c], Lost}
                       /\ \A d \in Client : Claims(d, s) => d = c
  /\ SessionServesItsTenant

McpInv ==
  /\ McpTypeOK /\ ExchangesOK /\ SaidOK
  /\ ReadersOK /\ LivesOK /\ IdsOK /\ LogOK /\ SessionsOK

-----------------------------------------------------------------------------
(* Sets of numbers in their order *)

LEMMA LessThanIsWellFounded ==
  \E R : IsWellFoundedOn(R, Nat) /\ \A m, n \in Nat : m < n => <<m, n>> \in R
<1> DEFINE R == OpToRel(<, Nat)
<1>1. IsWellFoundedOn(R, Nat)
  BY NatLessThanWellFounded
<1>2. \A m, n \in Nat : m < n => <<m, n>> \in R
  BY DEF OpToRel
<1> HIDE DEF R
<1> QED
  BY <1>1, <1>2

LEMMA LeastNumber ==
  ASSUME NEW T \in SUBSET Nat, T # {}
  PROVE  \E n \in T : \A m \in T : n <= m
<1>1. PICK R : IsWellFoundedOn(R, Nat) /\ \A m, n \in Nat : m < n => <<m, n>> \in R
  BY LessThanIsWellFounded
<1>2. \E n \in T : \A m \in T : ~(<<m, n>> \in R)
  <2>1. IsWellFoundedOn(R, Nat) /\ T \subseteq Nat
    BY <1>1
  <2> QED
    BY <2>1, WFMin
<1>3. PICK n \in T : \A m \in T : ~(<<m, n>> \in R)
  BY <1>2
<1>4. \A m \in T : m \in Nat /\ n \in Nat /\ ~(m < n)
  BY <1>1, <1>3
<1> QED
  BY <1>4

Increasing(s, n) == \A a, b \in 1 .. n : a < b => s[a] < s[b]
Onto(s, n, S) == \A i \in S : \E j \in 1 .. n : s[j] = i
Enumerates(s, n, S) == s \in [1 .. n -> S] /\ Increasing(s, n) /\ Onto(s, n, S)

\* By taking the least bound that has a set without an enumeration.
LEMMA EnumerationExists ==
  ASSUME NEW L \in Nat, NEW S \in SUBSET (1 .. L)
  PROVE  \E n \in Nat : \E s \in [1 .. n -> S] : Increasing(s, n) /\ Onto(s, n, S)
<1> DEFINE Has(T) == \E n \in Nat : \E s \in [1 .. n -> T] : Increasing(s, n) /\ Onto(s, n, T)
           Bad == {l \in Nat : \E T \in SUBSET (1 .. l) : ~Has(T)}
<1>1. ASSUME NEW l \in Nat, l \notin Bad, NEW T \in SUBSET (1 .. l) PROVE Has(T)
  BY <1>1
<1>2. 0 \notin Bad
  <2> SUFFICES ASSUME NEW T \in SUBSET (1 .. 0) PROVE Has(T)
    OBVIOUS
  <2>1. T = {}
    OBVIOUS
  <2>2. [j \in 1 .. 0 |-> 0] \in [1 .. 0 -> T]
    OBVIOUS
  <2> QED
    BY <2>1, <2>2 DEF Increasing, Onto
<1>3. ASSUME NEW l \in Nat, l \notin Bad PROVE l + 1 \notin Bad
  <2> SUFFICES ASSUME NEW T \in SUBSET (1 .. l + 1) PROVE Has(T)
    OBVIOUS
  <2>1. CASE l + 1 \notin T
    <3>1. T \in SUBSET (1 .. l)
      BY <2>1
    <3> QED
      BY <1>1, <1>3, <3>1
  <2>2. CASE l + 1 \in T
    <3> DEFINE U == T \ {l + 1}
    <3>1. U \in SUBSET (1 .. l)
      OBVIOUS
    <3>2. Has(U)
      BY <1>1, <1>3, <3>1
    <3>3. PICK n \in Nat : \E s \in [1 .. n -> U] : Increasing(s, n) /\ Onto(s, n, U)
      BY <3>2
    <3>4. PICK s \in [1 .. n -> U] : Increasing(s, n) /\ Onto(s, n, U)
      BY <3>3
    <3> DEFINE t == [j \in 1 .. n + 1 |-> IF j = n + 1 THEN l + 1 ELSE s[j]]
    <3>5. \A j \in 1 .. n : s[j] \in T /\ s[j] \in 1 .. l /\ t[j] = s[j]
      <4>1. \A j \in 1 .. n : s[j] \in U /\ j \in 1 .. n + 1 /\ j # n + 1
        BY <3>4
      <4>2. \A i \in U : i \in T /\ i \in 1 .. l
        BY <3>1
      <4> HIDE DEF U
      <4> QED
        BY <4>1, <4>2
    <3>6. t[n + 1] = l + 1 /\ n + 1 \in 1 .. n + 1
      OBVIOUS
    <3>7. t \in [1 .. n + 1 -> T]
      <4>1. \A j \in 1 .. n + 1 : j = n + 1 \/ j \in 1 .. n
        OBVIOUS
      <4> QED
        BY <2>2, <3>5, <4>1
    <3> HIDE DEF t
    <3>8. Increasing(t, n + 1)
      <4> SUFFICES ASSUME NEW a \in 1 .. n + 1, NEW b \in 1 .. n + 1, a < b PROVE t[a] < t[b]
        BY DEF Increasing
      <4>1. a \in 1 .. n
        OBVIOUS
      <4>2. CASE b = n + 1
        BY <3>5, <3>6, <4>1, <4>2
      <4>3. CASE b \in 1 .. n
        BY <3>4, <3>5, <4>1, <4>3 DEF Increasing
      <4> QED
        BY <4>2, <4>3
    <3>9. Onto(t, n + 1, T)
      <4> SUFFICES ASSUME NEW i \in T PROVE \E j \in 1 .. n + 1 : t[j] = i
        BY DEF Onto
      <4>1. CASE i = l + 1
        BY <3>6, <4>1
      <4>2. CASE i # l + 1
        <5>1. PICK j \in 1 .. n : s[j] = i
          BY <3>4, <4>2 DEF Onto
        <5>2. j \in 1 .. n + 1
          OBVIOUS
        <5> QED
          BY <3>5, <5>1, <5>2
      <4> QED
        BY <4>1, <4>2
    <3> QED
      BY <3>7, <3>8, <3>9
  <2> QED
    BY <2>1, <2>2
<1> HIDE DEF Bad
<1>4. Bad = {}
  <2> SUFFICES ASSUME Bad # {} PROVE FALSE
    OBVIOUS
  <2>1. Bad \in SUBSET Nat
    BY DEF Bad
  <2>2. PICK l \in Bad : \A m \in Bad : l <= m
    BY <2>1, LeastNumber
  <2>3. l \in Nat /\ l # 0
    BY <1>2, <2>1
  <2>4. l - 1 \in Nat /\ l - 1 \notin Bad /\ (l - 1) + 1 = l
    BY <2>2, <2>3
  <2> QED
    BY <1>3, <2>4
<1> QED
  BY <1>1, <1>4

LEMMA InOrderEnumerates ==
  ASSUME NEW L \in Nat, NEW S \in SUBSET (1 .. L)
  PROVE  \E n \in Nat : Enumerates(InOrder(S), n, S)
<1>1. PICK n \in Nat : \E s \in [1 .. n -> S] : Increasing(s, n) /\ Onto(s, n, S)
  BY EnumerationExists
<1>2. PICK s \in [1 .. n -> S] : Increasing(s, n) /\ Onto(s, n, S)
  BY <1>1
<1>3. s \in Bijection(1 .. n, S)
  <2>1. ASSUME NEW a \in 1 .. n, NEW b \in 1 .. n, s[a] = s[b] PROVE a = b
    <3>1. s[a] \in S /\ s[b] \in S /\ \A i \in S : i \in Nat
      OBVIOUS
    <3>2. (a < b => s[a] < s[b]) /\ (b < a => s[b] < s[a])
      BY <1>2 DEF Increasing
    <3> DEFINE v == s[a]
    <3>3. v \in Nat /\ (a < b => v < v) /\ (b < a => v < v)
      BY <2>1, <3>1, <3>2
    <3> HIDE DEF v
    <3>4. ~(a < b) /\ ~(b < a)
      BY <3>3
    <3> QED
      BY <3>4
  <2> QED
    BY <1>2, <2>1 DEF Onto, Bijection, Injection, IsInjective, Surjection
<1>4. Cardinality(S) = n /\ IsFiniteSet(S)
  <2>1. ExistsBijection(1 .. n, S)
    BY <1>3 DEF ExistsBijection
  <2> QED
    BY <2>1, FS_CountingElements, FS_NatBijection
<1> DEFINE t == InOrder(S)
<1>5. t \in [1 .. n -> S] /\ Increasing(t, n)
  BY <1>2, <1>4 DEF InOrder, Increasing
<1> HIDE DEF t
<1>6. t \in Injection(1 .. n, S)
  <2>1. ASSUME NEW a \in 1 .. n, NEW b \in 1 .. n, t[a] = t[b] PROVE a = b
    <3>1. t[a] \in S /\ t[b] \in S /\ \A i \in S : i \in Nat
      BY <1>5
    <3>2. (a < b => t[a] < t[b]) /\ (b < a => t[b] < t[a])
      BY <1>5 DEF Increasing
    <3> DEFINE v == t[a]
    <3>3. v \in Nat /\ (a < b => v < v) /\ (b < a => v < v)
      BY <2>1, <3>1, <3>2
    <3> HIDE DEF v
    <3>4. ~(a < b) /\ ~(b < a)
      BY <3>3
    <3> QED
      BY <3>4
  <2> QED
    BY <1>5, <2>1 DEF Injection, IsInjective
<1>7. Onto(t, n, S)
  <2>1. IsFiniteSet(1 .. n) /\ Cardinality(1 .. n) = n
    BY FS_Interval
  <2>2. t \in Surjection(1 .. n, S)
    BY <1>4, <1>6, <2>1, FS_Injection
  <2> QED
    BY <2>2 DEF Surjection, Onto
<1> QED
  BY <1>5, <1>7 DEF Enumerates, t

-----------------------------------------------------------------------------
(* What the steps of the server do to one exchange *)

Typed(x) ==
  /\ x.pc \in Phase /\ x.status \in {0, 200, 202, 400, 403, 404}
  /\ x.tenant \in Tenant \cup {Unissued} /\ x.session \in Session \cup {NoSession}
  /\ x.body \in Seq(Request) /\ x.put \in Seq(Seq(Item)) /\ x.tasks \in SUBSET Nat
  /\ x.taken \in Seq(Nat) /\ x.open \in SUBSET Nat /\ x.done \in SUBSET Nat
  /\ x.owed \in SUBSET Nat /\ x.connected \in BOOLEAN /\ x.out \in Seq(Message)

LEMMA FieldTypes == ASSUME NEW x \in Exchange PROVE Typed(x)
BY DEF Exchange, Typed

\* A record with the fields of an exchange, each of its type, is an exchange.
LEMMA ByFields ==
  ASSUME NEW x \in Exchange, NEW y, y = [f \in DOMAIN x |-> y[f]], Typed(y)
  PROVE  y \in Exchange
<1> DEFINE S1 == {0, 200, 202, 400, 403, 404}
           S2 == Tenant \cup {Unissued}
           S3 == Session \cup {NoSession}
           S4 == Seq(Request)
           S5 == Seq(Seq(Item))
           S6 == SUBSET Nat
           S7 == Seq(Nat)
           S8 == Seq(Message)
           Fields == [pc : Phase, status : S1, tenant : S2, session : S3, body : S4, put : S5,
                      tasks : S6, taken : S7, open : S6, done : S6, owed : S6,
                      connected : BOOLEAN, out : S8]
<1>1. x \in Fields
  BY DEF Exchange
<1>2. /\ y.status \in S1 /\ y.tenant \in S2 /\ y.session \in S3 /\ y.body \in S4 /\ y.put \in S5
      /\ y.tasks \in S6 /\ y.open \in S6 /\ y.done \in S6 /\ y.owed \in S6
      /\ y.taken \in S7 /\ y.out \in S8 /\ y.pc \in Phase /\ y.connected \in BOOLEAN
  BY DEF Typed
<1> HIDE DEF S1, S2, S3, S4, S5, S6, S7, S8
<1>3. y \in Fields
  BY <1>1, <1>2
<1> QED
  BY <1>3 DEF Exchange, S1, S2, S3, S4, S5, S6, S7, S8

LEMMA Shape ==
  ASSUME NEW x \in Exchange, QueuesOK(x)
  PROVE  /\ Len(x.body) \in Nat /\ Requests(x) \subseteq Nat
         /\ DOMAIN x.body = Requests(x) /\ Indexes(x) = Requests(x)
         /\ x.put \in [Requests(x) -> Seq(Item)]
         /\ x.taken \in [Requests(x) -> Nat]
         /\ \A i \in Requests(x) : x.body[i] \in Request /\ Len(x.put[i]) \in Nat
<1>1. x.body \in Seq(Request) /\ x.put \in Seq(Seq(Item)) /\ x.taken \in Seq(Nat)
  BY DEF Exchange
<1>2. Len(x.put) = Len(x.body) /\ Len(x.taken) = Len(x.body)
  BY DEF QueuesOK
<1> QED
  BY <1>1, <1>2 DEF Requests, Indexes

LEMMA FunctionIsSequence ==
  ASSUME NEW n \in Nat, NEW S, NEW f \in [1 .. n -> S]
  PROVE  f \in Seq(S) /\ Len(f) = n
OBVIOUS

\* A queue gets longer.
LEMMA Lengthened ==
  ASSUME NEW q \in Seq(Item), NEW item \in Item
  PROVE  /\ Append(q, item) \in Seq(Item) /\ Append(q, item) # <<>>
         /\ Len(Append(q, item)) = Len(q) + 1 /\ Len(q) \in Nat
         /\ \A n \in 1 .. Len(q) : Append(q, item)[n] = q[n]
         /\ Append(q, item)[Len(q) + 1] = item
         /\ \A n \in 1 .. Len(Append(q, item)) : n \in 1 .. Len(q) \/ n = Len(q) + 1
BY AppendProperties

LEMMA InitExchange == Idle \in Exchange /\ ExchangeOK(Idle)
BY DEF Idle, Exchange, Phase, ExchangeOK, QueuesOK, PhasesOK, Requests

\* A step that changes neither queues nor tasks leaves the queues in order.
LEMMA QueuesStay ==
  ASSUME NEW x \in Exchange, QueuesOK(x), NEW y,
         y.body = x.body, y.put = x.put, y.taken = x.taken, y.session = x.session,
         y.tasks \subseteq x.tasks, y.open \subseteq x.open,
         y.done \subseteq y.open, \A i \in y.done : y.taken[i] < Len(y.put[i])
  PROVE  QueuesOK(y)
BY DEF QueuesOK, Requests

LEMMA PostedOK ==
  ASSUME NEW t \in Tenant, NEW h \in Session \cup {NoSession}, NEW body \in Seq(Request),
         NEW y, y = Posted(t, h, body)
  PROVE  /\ y \in Exchange /\ ExchangeOK(y)
         /\ y.body = body /\ y.tenant = t /\ y.session = h /\ y.out = <<>>
         /\ y.pc = "posted" /\ y.status = 0
<1> DEFINE put == [i \in DOMAIN body |-> <<>>]
           taken == [i \in DOMAIN body |-> 0]
<1>0. /\ put \in [1 .. Len(body) -> Seq(Item)] /\ put \in Seq(Seq(Item)) /\ Len(put) = Len(body)
      /\ taken \in [1 .. Len(body) -> Nat] /\ taken \in Seq(Nat) /\ Len(taken) = Len(body)
      /\ \A i \in 1 .. Len(body) : put[i] = <<>> /\ taken[i] = 0
      /\ DOMAIN body = 1 .. Len(body) /\ Len(body) \in Nat
  <2>1. DOMAIN body = 1 .. Len(body) /\ Len(body) \in Nat
    OBVIOUS
  <2>2. <<>> \in Seq(Item)
    OBVIOUS
  <2>3. put \in [1 .. Len(body) -> Seq(Item)] /\ taken \in [1 .. Len(body) -> Nat]
    BY <2>1, <2>2
  <2> QED
    BY <2>1, <2>3
<1>6. y = [Idle EXCEPT !.pc = "posted", !.tenant = t, !.session = h, !.body = body,
                       !.put = put, !.taken = taken, !.connected = TRUE]
  BY DEF Posted
<1> HIDE DEF put, taken
<1>1. /\ y.pc = "posted" /\ y.status = 0 /\ y.tenant = t /\ y.session = h /\ y.body = body
      /\ y.put = put /\ y.taken = taken /\ y.tasks = {} /\ y.open = {} /\ y.done = {}
      /\ y.owed = {} /\ y.connected = TRUE /\ y.out = <<>>
  BY <1>6 DEF Idle
<1>3. y \in Exchange
  <2>1. Idle \in Exchange /\ y = [f \in DOMAIN Idle |-> y[f]]
    BY <1>6, InitExchange
  <2>2. "posted" \in Phase /\ <<>> \in Seq(Message)
    BY DEF Phase
  <2>3. Typed(y)
    BY <1>0, <1>1, <2>2 DEF Typed
  <2> QED
    BY <2>1, <2>3, ByFields
<1>4. QueuesOK(y)
  BY <1>0, <1>1 DEF QueuesOK, Requests
<1>5. PhasesOK(y)
  BY <1>0, <1>1 DEF PhasesOK, Requests
<1> QED
  BY <1>1, <1>3, <1>4, <1>5 DEF ExchangeOK

LEMMA ReceivedOK ==
  ASSUME NEW x \in Exchange, ExchangeOK(x), x.pc = "posted",
         NEW y, \/ \E s \in {400, 403, 404} : y = Refused(x, s)
                \/ y = [x EXCEPT !.pc = "over", !.status = 202] /\ x.body = <<>>
                \/ y = [x EXCEPT !.pc = "dispatching"]
  PROVE  /\ y \in Exchange /\ ExchangeOK(y)
         /\ y.body = x.body /\ y.tenant = x.tenant /\ y.connected = x.connected
         /\ y.out = x.out /\ y.put = x.put /\ y.taken = x.taken
         /\ y.pc \in {"dispatching", "over"} /\ y.status # 200
         /\ y.session = x.session \/ (y.session = NoSession /\ y.pc = "over")
<1>1. /\ y.body = x.body /\ y.tenant = x.tenant /\ y.connected = x.connected
      /\ y.out = x.out /\ y.put = x.put /\ y.taken = x.taken
      /\ y.tasks = x.tasks /\ y.open = x.open /\ y.done = x.done /\ y.owed = x.owed
      /\ \/ y.pc = "over" /\ y.status \in {400, 403, 404} /\ y.session = NoSession
         \/ y.pc = "over" /\ y.status = 202 /\ x.body = <<>> /\ y.session = x.session
         \/ y.pc = "dispatching" /\ y.status = x.status /\ y.session = x.session
  <2>1. CASE \E s \in {400, 403, 404} : y = Refused(x, s)
    BY <2>1 DEF Refused, Exchange
  <2>2. CASE y = [x EXCEPT !.pc = "over", !.status = 202] /\ x.body = <<>>
    BY <2>2 DEF Exchange
  <2>3. CASE y = [x EXCEPT !.pc = "dispatching"]
    BY <2>3 DEF Exchange
  <2> QED
    BY <2>1, <2>2, <2>3
<1>5. y = [f \in DOMAIN x |-> y[f]]
  BY DEF Refused
<1>6. y \in Exchange
  <2>1. Typed(y)
    BY <1>1, FieldTypes DEF Phase, Typed
  <2> QED
    BY <1>5, <2>1, ByFields
<1>2. /\ x.status = 0 /\ x.tasks = {} /\ x.open = {} /\ x.owed = {} /\ x.done = {}
      /\ \A i \in Requests(x) : x.taken[i] = 0 /\ x.put[i] = <<>>
      /\ QueuesOK(x) /\ Requests(y) = Requests(x)
  BY <1>1 DEF ExchangeOK, PhasesOK, QueuesOK, Requests
<1>3. QueuesOK(y)
  BY <1>1, <1>2 DEF QueuesOK
<1>4. PhasesOK(y)
  BY <1>1, <1>2 DEF PhasesOK
<1> QED
  BY <1>1, <1>2, <1>3, <1>4, <1>6 DEF ExchangeOK

\* What Dispatch leaves of an exchange.
Dispatched(x, i, o, s) ==
  IF o = "queue"
    THEN [x EXCEPT !.session = s, !.open = @ \cup {i}, !.tasks = @ \cup {i}]
    ELSE [x EXCEPT !.session = s, !.put[i] = <<o>>]

LEMMA DispatchedOK ==
  ASSUME NEW x \in Exchange, ExchangeOK(x), x.pc = "dispatching",
         NEW i \in Running(x), NEW o \in Outcome(x.body[i].method),
         NEW s \in Session \cup {NoSession},
         IF x.body[i].method = "initialize" THEN s # NoSession ELSE s = x.session,
         NEW y, y = Dispatched(x, i, o, s)
  PROVE  /\ y \in Exchange /\ ExchangeOK(y)
         /\ y.body = x.body /\ y.tenant = x.tenant /\ y.connected = x.connected
         /\ y.out = x.out /\ y.taken = x.taken /\ y.session = s
         /\ y.pc = "dispatching" /\ y.status = 0 /\ y.owed = {}
         /\ i \in Requests(x) /\ x.put[i] = <<>> /\ i \notin x.open
         /\ \A j \in Requests(x) : \A n \in 1 .. x.taken[j] : y.put[j][n] = x.put[j][n]
         /\ \A j \in Requests(x) \ {i} : y.put[j] = x.put[j] /\ (j \in y.open <=> j \in x.open)
         /\ o = "queue" => i \in y.open
         /\ o # "queue" => i \notin y.open /\ y.put[i] = <<o>> /\ o \in Final
<1>1. QueuesOK(x) /\ PhasesOK(x)
  BY DEF ExchangeOK
<1>2. /\ Len(x.body) \in Nat /\ Requests(x) \subseteq Nat
      /\ x.put \in [Requests(x) -> Seq(Item)] /\ Indexes(x) = Requests(x)
      /\ x.taken \in [Requests(x) -> Nat]
      /\ \A j \in Requests(x) : x.body[j] \in Request /\ Len(x.put[j]) \in Nat
  BY <1>1, Shape
<1>3. i \in Requests(x) /\ i \in Nat /\ x.put[i] = <<>> /\ i \notin x.open
  BY <1>2 DEF Running
<1>4. /\ x.status = 0 /\ x.done = {} /\ x.owed = {} /\ x.tasks \subseteq x.open
      /\ \A j \in Requests(x) :
           /\ x.taken[j] = 0
           /\ j \notin x.open /\ x.put[j] # <<>> => Len(x.put[j]) = 1 /\ x.put[j][1] \in Final
  BY <1>1 DEF PhasesOK
<1>5. /\ o # "queue" => o \in Final
      /\ o = "queue" => x.body[i].method # "initialize"
  <2>1. x.body[i].method \in Method
    BY <1>2, <1>3 DEF Request
  <2> QED
    BY <2>1 DEF Outcome, Final, Method
<1>6. /\ y.body = x.body /\ y.tenant = x.tenant /\ y.connected = x.connected
      /\ y.out = x.out /\ y.taken = x.taken /\ y.session = s /\ y.pc = x.pc /\ y.status = x.status
      /\ y.done = x.done /\ y.owed = x.owed
  BY DEF Exchange, Dispatched
<1>7. CASE o = "queue"
  <2>1. y.put = x.put /\ y.open = x.open \cup {i} /\ y.tasks = x.tasks \cup {i}
    BY <1>7 DEF Exchange, Dispatched
  <2>2. y = [f \in DOMAIN x |-> y[f]]
    BY <1>7 DEF Dispatched
  <2>3. y \in Exchange
    <3>1. Typed(x)
      BY FieldTypes
    <3>2. y.open \in SUBSET Nat /\ y.tasks \in SUBSET Nat
      BY <1>3, <2>1, <3>1 DEF Typed
    <3>3. Typed(y)
      BY <1>6, <2>1, <3>1, <3>2 DEF Typed
    <3> QED
      BY <2>2, <3>3, ByFields
  <2>4. QueuesOK(y)
    <3>1. Requests(y) = Requests(x) /\ Len(y.put) = Len(y.body) /\ Len(y.taken) = Len(y.body)
      BY <1>1, <1>6, <2>1 DEF QueuesOK, Requests
    <3>2. /\ y.tasks \subseteq Requests(x) /\ y.open \subseteq Requests(x) /\ y.done = {}
      BY <1>1, <1>3, <1>4, <1>6, <2>1 DEF QueuesOK
    <3>3. ASSUME NEW j \in Requests(x)
          PROVE  /\ y.taken[j] <= Len(y.put[j])
                 /\ \A n \in 1 .. Len(y.put[j]) : y.put[j][n] \in Final => n = Len(y.put[j])
                 /\ j \in y.tasks => \A n \in 1 .. Len(y.put[j]) : y.put[j][n] \notin Final
                 /\ j \in y.open \cup y.tasks => y.body[j].method # "initialize"
                 /\ y.body[j].method = "initialize" /\ y.put[j] # <<>> => y.session # NoSession
      <4>1. CASE j = i
        <5>1. Len(y.put[i]) = 0 /\ y.put[i] = <<>> /\ y.taken[i] = 0
          BY <1>3, <1>4, <1>6, <2>1
        <5> QED
          BY <1>5, <1>6, <1>7, <4>1, <5>1
      <4>2. CASE j # i
        <5>1. (j \in y.open <=> j \in x.open) /\ (j \in y.tasks <=> j \in x.tasks)
          BY <2>1, <4>2
        <5> QED
          BY <1>1, <1>6, <2>1, <5>1 DEF QueuesOK
      <4> QED
        BY <4>1, <4>2
    <3> QED
      BY <3>1, <3>2, <3>3 DEF QueuesOK
  <2>5. PhasesOK(y)
    BY <1>1, <1>3, <1>4, <1>6, <2>1 DEF PhasesOK, Requests
  <2> QED
    BY <1>3, <1>4, <1>6, <1>7, <2>1, <2>3, <2>4, <2>5 DEF ExchangeOK
<1>8. CASE o # "queue"
  <2>1. y.put = [x.put EXCEPT ![i] = <<o>>] /\ y.open = x.open /\ y.tasks = x.tasks
    BY <1>8 DEF Exchange, Dispatched
  <2>2. y = [f \in DOMAIN x |-> y[f]]
    BY <1>8 DEF Dispatched
  <2>6. <<o>> \in Seq(Item) /\ Len(<<o>>) = 1 /\ <<o>>[1] = o /\ o \in Final /\ <<o>> # <<>>
    BY <1>5, <1>8 DEF Item
  <2>7. /\ y.put \in [Requests(x) -> Seq(Item)]
        /\ y.put[i] = <<o>> /\ \A j \in Requests(x) \ {i} : y.put[j] = x.put[j]
    BY <1>2, <1>3, <2>1, <2>6
  <2>8. y.put \in Seq(Seq(Item)) /\ Len(y.put) = Len(x.body)
    BY <1>2, <2>7, FunctionIsSequence DEF Requests
  <2>3. y \in Exchange
    <3>1. Typed(y)
      BY <1>6, <2>1, <2>8, FieldTypes DEF Typed
    <3> QED
      BY <2>2, <3>1, ByFields
  <2>4. QueuesOK(y)
    <3>1. Requests(y) = Requests(x) /\ Len(y.put) = Len(y.body) /\ Len(y.taken) = Len(y.body)
      BY <1>1, <1>6, <2>8 DEF QueuesOK, Requests
    <3>2. /\ y.tasks \subseteq Requests(x) /\ y.open \subseteq Requests(x) /\ y.done = {}
          /\ i \notin y.tasks
      BY <1>1, <1>3, <1>4, <1>6, <2>1 DEF QueuesOK
    <3>3. ASSUME NEW j \in Requests(x)
          PROVE  /\ y.taken[j] <= Len(y.put[j])
                 /\ \A n \in 1 .. Len(y.put[j]) : y.put[j][n] \in Final => n = Len(y.put[j])
                 /\ j \in y.tasks => \A n \in 1 .. Len(y.put[j]) : y.put[j][n] \notin Final
                 /\ j \in y.open \cup y.tasks => y.body[j].method # "initialize"
                 /\ y.body[j].method = "initialize" /\ y.put[j] # <<>> => y.session # NoSession
      <4>1. CASE j = i
        BY <1>3, <1>4, <1>6, <2>1, <2>6, <2>7, <3>2, <4>1
      <4>2. CASE j # i
        BY <1>1, <1>6, <2>1, <2>7, <4>2 DEF QueuesOK
      <4> QED
        BY <4>1, <4>2
    <3> QED
      BY <3>1, <3>2, <3>3 DEF QueuesOK
  <2>5. PhasesOK(y)
    <3>1. Requests(y) = Requests(x) /\ y.pc = "dispatching" /\ y.status = 0
      BY <1>4, <1>6 DEF Requests
    <3>2. \A j \in Requests(x) :
            /\ y.taken[j] = 0
            /\ j \notin y.open /\ y.put[j] # <<>> => Len(y.put[j]) = 1 /\ y.put[j][1] \in Final
      BY <1>4, <1>6, <2>1, <2>6, <2>7
    <3> QED
      BY <1>4, <1>6, <2>1, <3>1, <3>2 DEF PhasesOK
  <2> QED
    BY <1>3, <1>4, <1>6, <1>8, <2>1, <2>3, <2>4, <2>5, <2>6, <2>7 DEF ExchangeOK
<1> QED
  BY <1>7, <1>8

Produced(x, i, item) ==
  [x EXCEPT !.put[i] = Append(@, item), !.tasks = IF item \in Final THEN @ \ {i} ELSE @]

LEMMA ProducedOK ==
  ASSUME NEW x \in Exchange, ExchangeOK(x), NEW i \in x.tasks, NEW item \in Item,
         NEW y, y = Produced(x, i, item)
  PROVE  /\ y \in Exchange /\ ExchangeOK(y)
         /\ y.body = x.body /\ y.tenant = x.tenant /\ y.connected = x.connected
         /\ y.out = x.out /\ y.taken = x.taken /\ y.session = x.session
         /\ y.pc = x.pc /\ y.status = x.status /\ y.open = x.open /\ y.owed = x.owed
         /\ i \in Requests(x) /\ ~Complete(x, i)
         /\ x.pc = "dispatching" => i \in x.open
         /\ \A j \in Requests(x) : \A n \in 1 .. x.taken[j] : y.put[j][n] = x.put[j][n]
         /\ \A j \in Requests(x) \ {i} : y.put[j] = x.put[j]
<1>1. QueuesOK(x) /\ PhasesOK(x)
  BY DEF ExchangeOK
<1>2. /\ Len(x.body) \in Nat /\ Requests(x) \subseteq Nat
      /\ x.put \in [Requests(x) -> Seq(Item)]
      /\ x.taken \in [Requests(x) -> Nat]
  BY <1>1, Shape
<1>3. i \in Requests(x) /\ i \in Nat /\ \A n \in 1 .. Len(x.put[i]) : x.put[i][n] \notin Final
  BY <1>1, <1>2 DEF QueuesOK
<1>4. /\ y.body = x.body /\ y.tenant = x.tenant /\ y.connected = x.connected
      /\ y.out = x.out /\ y.taken = x.taken /\ y.session = x.session /\ y.pc = x.pc
      /\ y.status = x.status /\ y.done = x.done /\ y.owed = x.owed /\ y.open = x.open
      /\ y.put = [x.put EXCEPT ![i] = Append(@, item)]
      /\ y.tasks = IF item \in Final THEN x.tasks \ {i} ELSE x.tasks
  BY DEF Exchange, Produced
<1>5. y = [f \in DOMAIN x |-> y[f]]
  BY DEF Produced
<1> DEFINE q == x.put[i]  r == Append(q, item)
<1>6. /\ q \in Seq(Item) /\ r \in Seq(Item) /\ r # <<>>
      /\ Len(r) = Len(q) + 1 /\ Len(q) \in Nat
      /\ \A n \in 1 .. Len(q) : r[n] = q[n]
      /\ r[Len(q) + 1] = item
      /\ \A n \in 1 .. Len(r) : n \in 1 .. Len(q) \/ n = Len(q) + 1
  BY <1>2, <1>3, Lengthened
<1>7. /\ y.put[i] = r /\ \A j \in Requests(x) \ {i} : y.put[j] = x.put[j]
      /\ y.put \in [Requests(x) -> Seq(Item)]
  BY <1>2, <1>3, <1>4, <1>6
<1> HIDE DEF r
<1>8. y.put \in Seq(Seq(Item)) /\ Len(y.put) = Len(x.body)
  BY <1>2, <1>7, FunctionIsSequence DEF Requests
<1>9. y \in Exchange
  <2>1. Typed(y)
    BY <1>4, <1>8, FieldTypes DEF Typed
  <2> QED
    BY <1>5, <2>1, ByFields
<1>10. ~Complete(x, i)
  BY <1>3, <1>6 DEF Complete
<1>11. x.taken[i] <= Len(q) /\ x.taken[i] \in Nat
  BY <1>1, <1>2, <1>3 DEF QueuesOK
<1>12. \A j \in Requests(x) : \A n \in 1 .. x.taken[j] : y.put[j][n] = x.put[j][n]
  <2>1. \A n \in 1 .. x.taken[i] : n \in 1 .. Len(q)
    BY <1>6, <1>11
  <2> QED
    BY <1>6, <1>7, <2>1
<1>13. QueuesOK(y)
  <2>1. Requests(y) = Requests(x) /\ Len(y.put) = Len(y.body) /\ Len(y.taken) = Len(y.body)
    BY <1>1, <1>4, <1>8 DEF QueuesOK, Requests
  <2>2. /\ y.tasks \subseteq Requests(x) /\ y.open \subseteq Requests(x) /\ y.done \subseteq y.open
    BY <1>1, <1>4 DEF QueuesOK
  <2>3. ASSUME NEW j \in Requests(x)
        PROVE  /\ y.taken[j] <= Len(y.put[j])
               /\ \A n \in 1 .. Len(y.put[j]) : y.put[j][n] \in Final => n = Len(y.put[j])
               /\ j \in y.tasks => \A n \in 1 .. Len(y.put[j]) : y.put[j][n] \notin Final
               /\ j \in y.open \cup y.tasks => y.body[j].method # "initialize"
               /\ y.body[j].method = "initialize" /\ y.put[j] # <<>> => y.session # NoSession
    <3>1. CASE j = i
      <4>1. y.taken[i] <= Len(r)
        BY <1>4, <1>6, <1>11
      <4>2. \A n \in 1 .. Len(r) : r[n] \in Final => n = Len(r)
        BY <1>3, <1>6
      <4>3. item \notin Final => \A n \in 1 .. Len(r) : r[n] \notin Final
        BY <1>3, <1>6
      <4>4. y.body[i].method # "initialize"
        BY <1>1, <1>3, <1>4 DEF QueuesOK
      <4>5. i \in y.tasks => item \notin Final
        BY <1>4
      <4>6. y.body[i].method # "initialize"
        BY <1>1, <1>3, <1>4 DEF QueuesOK
      <4> QED
        BY <1>7, <3>1, <4>1, <4>2, <4>3, <4>4, <4>5, <4>6
    <3>2. CASE j # i
      BY <1>1, <1>4, <1>7, <3>2 DEF QueuesOK
    <3> QED
      BY <3>1, <3>2
  <2>4. \A j \in y.done : y.taken[j] < Len(y.put[j])
    <3>1. \A j \in y.done : j \in Requests(x) /\ x.taken[j] < Len(x.put[j])
      BY <1>1, <1>4 DEF QueuesOK
    <3> QED
      BY <1>4, <1>6, <1>7, <1>11, <3>1
  <2> QED
    BY <2>1, <2>2, <2>3, <2>4 DEF QueuesOK
<1>14. PhasesOK(y)
  <2>1. Requests(y) = Requests(x)
    BY <1>4 DEF Requests
  <2>2. x.pc \notin {"idle", "posted"}
    BY <1>1 DEF PhasesOK
  <2>3. ASSUME x.pc = "dispatching"
        PROVE  /\ i \in x.open /\ y.tasks \subseteq y.open
               /\ \A j \in Requests(x) : j \notin y.open /\ y.put[j] # <<>> =>
                    Len(y.put[j]) = 1 /\ y.put[j][1] \in Final
    BY <1>1, <1>3, <1>4, <1>7, <2>3 DEF PhasesOK
  <2>4. \A j \in Requests(x) : Complete(x, j) => j # i /\ Complete(y, j)
    BY <1>4, <1>7, <1>10 DEF Complete
  <2> QED
    BY <1>1, <1>4, <2>1, <2>2, <2>3, <2>4 DEF PhasesOK
<1>15. x.pc = "dispatching" => i \in x.open
  BY <1>1 DEF PhasesOK
<1> QED
  BY <1>3, <1>4, <1>7, <1>9, <1>10, <1>12, <1>13, <1>14, <1>15 DEF ExchangeOK

\* What Respond leaves of an exchange.
Responded(x) ==
  LET ready == InOrder(Indexes(x) \ x.open)
  IN [x EXCEPT !.pc = IF x.open = {} THEN "over" ELSE "streaming",
               !.status = 200,
               !.taken = [i \in Indexes(x) |-> IF i \in x.open THEN 0 ELSE 1],
               !.out = Written(x, [j \in DOMAIN ready |-> NextItem(x, ready[j])])]

LEMMA RespondedOK ==
  ASSUME NEW x \in Exchange, ExchangeOK(x), x.pc = "dispatching", Running(x) = {},
         NEW y, y = Responded(x)
  PROVE  /\ y \in Exchange /\ ExchangeOK(y)
         /\ y.body = x.body /\ y.tenant = x.tenant /\ y.connected = x.connected
         /\ y.session = x.session /\ y.put = x.put /\ y.open = x.open /\ y.owed = x.owed
         /\ y.pc \in {"streaming", "over"} /\ y.status = 200
         /\ \E ms \in Seq(Message) :
              y.out = Written(x, ms) /\ InOrderOK(y, ms) /\ SaidAll(y, ms)
<1>1. QueuesOK(x) /\ PhasesOK(x)
  BY DEF ExchangeOK
<1>2. /\ Len(x.body) \in Nat /\ Requests(x) \subseteq Nat
      /\ x.put \in [Requests(x) -> Seq(Item)] /\ Indexes(x) = Requests(x)
      /\ x.taken \in [Requests(x) -> Nat]
      /\ \A j \in Requests(x) : x.body[j] \in Request /\ Len(x.put[j]) \in Nat
  BY <1>1, Shape
<1>3. /\ x.status = 0 /\ x.done = {} /\ x.owed = {} /\ x.tasks \subseteq x.open
      /\ \A j \in Requests(x) :
           /\ x.taken[j] = 0
           /\ j \notin x.open => x.put[j] # <<>> /\ Len(x.put[j]) = 1 /\ x.put[j][1] \in Final
  BY <1>1, <1>2 DEF PhasesOK, Running
<1> DEFINE S == Requests(x) \ x.open
           ready == InOrder(S)
<1>4. PICK n \in Nat : Enumerates(ready, n, S)
  BY <1>2, InOrderEnumerates DEF Requests
<1> HIDE DEF ready
<1>5. /\ ready \in [1 .. n -> S] /\ DOMAIN ready = 1 .. n
      /\ \A a, b \in 1 .. n : a < b => ready[a] < ready[b]
      /\ \A i \in S : \E j \in 1 .. n : ready[j] = i
  BY <1>4 DEF Enumerates, Increasing, Onto
<1> DEFINE ms == [j \in 1 .. n |-> NextItem(x, ready[j])]
           taken == [i \in Requests(x) |-> IF i \in x.open THEN 0 ELSE 1]
<1>6. y = [x EXCEPT !.pc = IF x.open = {} THEN "over" ELSE "streaming",
                    !.status = 200, !.taken = taken, !.out = Written(x, ms)]
  BY <1>2, <1>5 DEF Responded, ready
<1>7. \A j \in 1 .. n :
        /\ ready[j] \in S /\ ready[j] \in Requests(x)
        /\ ms[j].i = ready[j] /\ ms[j].n = 1 /\ ms[j].item = x.put[ready[j]][1]
        /\ ms[j] \in Message
  <2> SUFFICES ASSUME NEW j \in 1 .. n
               PROVE  /\ ready[j] \in S /\ ready[j] \in Requests(x)
                      /\ ms[j].i = ready[j] /\ ms[j].n = 1 /\ ms[j].item = x.put[ready[j]][1]
                      /\ ms[j] \in Message
    OBVIOUS
  <2>1. ready[j] \in S /\ ready[j] \in Requests(x) /\ ready[j] \in Nat
    BY <1>2, <1>5
  <2>2. x.taken[ready[j]] = 0 /\ x.put[ready[j]][1] \in Item
    BY <1>3, <2>1 DEF Item
  <2>3. ms[j] = [i |-> ready[j], n |-> 1, item |-> x.put[ready[j]][1]]
    BY <2>2 DEF NextItem
  <2> QED
    BY <2>1, <2>2, <2>3 DEF Message
<1>8. /\ taken \in [Requests(x) -> Nat]
      /\ \A i \in Requests(x) : taken[i] = IF i \in x.open THEN 0 ELSE 1
  OBVIOUS
<1>9. ms \in [1 .. n -> Message]
  BY <1>7
<1> HIDE DEF ms, taken
<1>10. ms \in Seq(Message) /\ Len(ms) = n
  BY <1>9, FunctionIsSequence
<1>11. taken \in Seq(Nat) /\ Len(taken) = Len(x.body)
  BY <1>2, <1>8, FunctionIsSequence DEF Requests
<1>12. Written(x, ms) \in Seq(Message)
  BY <1>10, FieldTypes, ConcatProperties DEF Typed, Written
<1>13. /\ y.body = x.body /\ y.tenant = x.tenant /\ y.connected = x.connected
       /\ y.session = x.session /\ y.put = x.put /\ y.open = x.open /\ y.owed = x.owed
       /\ y.done = x.done /\ y.tasks = x.tasks
       /\ y.pc = (IF x.open = {} THEN "over" ELSE "streaming") /\ y.status = 200
       /\ y.taken = taken /\ y.out = Written(x, ms)
  BY <1>6 DEF Exchange
<1>14. y \in Exchange
  <2>1. Typed(y)
    BY <1>11, <1>12, <1>13, FieldTypes DEF Typed, Phase
  <2>2. y = [f \in DOMAIN x |-> y[f]]
    BY <1>6
  <2> QED
    BY <2>1, <2>2, ByFields
<1>15. QueuesOK(y)
  <2>1. Requests(y) = Requests(x) /\ Len(y.put) = Len(y.body) /\ Len(y.taken) = Len(y.body)
    BY <1>1, <1>11, <1>13 DEF QueuesOK, Requests
  <2>2. \A j \in Requests(x) : y.taken[j] <= Len(y.put[j])
    BY <1>2, <1>3, <1>8, <1>13
  <2> QED
    BY <1>1, <1>3, <1>13, <2>1, <2>2 DEF QueuesOK
<1>16. PhasesOK(y)
  <2>1. ASSUME NEW j \in Requests(x) \ x.open PROVE Complete(y, j)
    <3>1. y.put[j] # <<>> /\ Len(y.put[j]) = 1 /\ y.put[j][1] \in Final
      BY <1>3, <1>13
    <3>2. y.taken[j] = 1
      BY <1>8, <1>13
    <3> QED
      BY <3>1, <3>2 DEF Complete
  <2>2. Requests(y) = Requests(x)
    BY <1>13 DEF Requests
  <2> QED
    BY <1>3, <1>13, <2>1, <2>2 DEF PhasesOK
<1>17. InOrderOK(y, ms)
  <2> SUFFICES ASSUME NEW j \in 1 .. n
               PROVE  /\ ms[j].i \in Requests(y)
                      /\ ms[j].n \in 1 .. y.taken[ms[j].i]
                      /\ ms[j].item = y.put[ms[j].i][ms[j].n]
                      /\ \A h \in 1 .. j - 1 : ms[h].i = ms[j].i => ms[h].n < ms[j].n
                      /\ ~(ms[j].n > 1)
    BY <1>10 DEF InOrderOK
  <2>1. ms[j].i = ready[j] /\ ms[j].n = 1 /\ ms[j].item = x.put[ready[j]][1]
    BY <1>7
  <2>2. ASSUME NEW h \in 1 .. j - 1 PROVE ms[h].i # ms[j].i
    <3>1. h \in 1 .. n /\ h < j /\ ms[h].i = ready[h]
      BY <1>7
    <3>2. ready[h] < ready[j] /\ ready[h] \in Nat /\ ready[j] \in Nat
      BY <1>2, <1>5, <1>7, <3>1
    <3> QED
      BY <2>1, <3>1, <3>2
  <2>3. ready[j] \in Requests(x) /\ y.taken[ready[j]] = 1
    BY <1>7, <1>8, <1>13
  <2>4. Requests(y) = Requests(x)
    BY <1>13 DEF Requests
  <2> QED
    BY <1>13, <2>1, <2>2, <2>3, <2>4
<1>18. SaidAll(y, ms)
  <2> SUFFICES ASSUME NEW i \in Requests(x), NEW m \in 1 .. taken[i]
               PROVE  \E j \in 1 .. n : ms[j].i = i /\ ms[j].n = m
    BY <1>10, <1>13 DEF SaidAll, Requests
  <2>1. i \in S /\ m = 1
    BY <1>8
  <2>2. PICK j \in 1 .. n : ready[j] = i
    BY <1>5, <2>1
  <2> QED
    BY <1>7, <2>1, <2>2
<1> QED
  BY <1>10, <1>13, <1>14, <1>15, <1>16, <1>17, <1>18 DEF ExchangeOK

\* One more item of a queue is taken.
Taken(x, i) == [x.taken EXCEPT ![i] = @ + 1]

LEMMA YieldedOK ==
  ASSUME NEW x \in Exchange, ExchangeOK(x), x.pc = "streaming", NEW i \in x.done, x.owed = {},
         NEW y, y = AfterYield(x, i)
  PROVE  /\ y \in Exchange /\ ExchangeOK(y)
         /\ y.body = x.body /\ y.tenant = x.tenant /\ y.connected = x.connected
         /\ y.session = x.session /\ y.put = x.put /\ y.pc = x.pc /\ y.status = x.status
         /\ i \in Requests(x) /\ x.taken[i] < Len(x.put[i]) /\ NextItem(x, i) \in Message
         /\ y.taken = Taken(x, i) /\ y.out = Written(x, <<NextItem(x, i)>>)
         /\ y.open \cup y.owed = x.open
<1>1. QueuesOK(x) /\ PhasesOK(x)
  BY DEF ExchangeOK
<1>2. /\ Len(x.body) \in Nat /\ Requests(x) \subseteq Nat
      /\ x.put \in [Requests(x) -> Seq(Item)]
      /\ x.taken \in [Requests(x) -> Nat]
      /\ \A j \in Requests(x) : Len(x.put[j]) \in Nat
  BY <1>1, Shape
<1>3. i \in Requests(x) /\ i \in Nat /\ i \in x.open /\ x.taken[i] < Len(x.put[i])
  BY <1>1, <1>2 DEF QueuesOK
<1> DEFINE m == NextItem(x, i)  next == x.taken[i] + 1
           taken == Taken(x, i)
<1>4. next \in 1 .. Len(x.put[i]) /\ next \in Nat /\ x.put[i][next] \in Item
  BY <1>2, <1>3
<1>5. m = [i |-> i, n |-> next, item |-> x.put[i][next]] /\ m \in Message /\ m.item = x.put[i][next]
  BY <1>3, <1>4 DEF NextItem, Message
<1>6. /\ taken \in [Requests(x) -> Nat] /\ taken[i] = next
      /\ \A j \in Requests(x) \ {i} : taken[j] = x.taken[j]
  BY <1>2, <1>3 DEF Taken
<1> HIDE DEF m, taken
<1>7. <<m>> \in Seq(Message)
  BY <1>5
<1>8. Written(x, <<m>>) \in Seq(Message)
  BY <1>7, FieldTypes, ConcatProperties DEF Typed, Written
<1>9. taken \in Seq(Nat) /\ Len(taken) = Len(x.body)
  BY <1>2, <1>6, FunctionIsSequence DEF Requests
<1> DEFINE last == IsLastItem(x, i)
<1>10. last <=> x.put[i][next] \in Final
  BY <1>5 DEF IsLastItem, m
<1>11. y = IF last THEN [x EXCEPT !.out = Written(x, <<m>>), !.taken = taken, !.done = @ \ {i},
                                  !.open = @ \ {i}, !.owed = {i}]
           ELSE [x EXCEPT !.out = Written(x, <<m>>), !.taken = taken, !.done = @ \ {i}]
  <2>1. Emitted(x, i) = [x EXCEPT !.out = Written(x, <<m>>), !.taken = taken, !.done = @ \ {i}]
    <3>1. [x EXCEPT !.out = Written(x, <<m>>), !.taken[i] = @ + 1, !.done = @ \ {i}]
          = [x EXCEPT !.out = Written(x, <<m>>), !.taken = taken, !.done = @ \ {i}]
      BY DEF taken, Taken, Exchange
    <3> QED
      BY <3>1 DEF Emitted, m
  <2> QED
    BY <2>1 DEF AfterYield, Exchange
<1> HIDE DEF last
<1>12. /\ y.body = x.body /\ y.tenant = x.tenant /\ y.connected = x.connected
       /\ y.session = x.session /\ y.put = x.put /\ y.pc = x.pc /\ y.status = x.status
       /\ y.tasks = x.tasks /\ y.out = Written(x, <<m>>) /\ y.taken = taken /\ y.done = x.done \ {i}
       /\ y.open = (IF last THEN x.open \ {i} ELSE x.open)
       /\ y.owed = (IF last THEN {i} ELSE x.owed)
  <2>1. CASE last
    BY <1>11, <2>1 DEF Exchange
  <2>2. CASE ~last
    BY <1>11, <2>2 DEF Exchange
  <2> QED
    BY <2>1, <2>2
<1>13. y \in Exchange
  <2>1. Typed(y)
    BY <1>3, <1>8, <1>9, <1>12, FieldTypes DEF Typed
  <2>2. y = [f \in DOMAIN x |-> y[f]]
    BY <1>11
  <2> QED
    BY <2>1, <2>2, ByFields
<1>14. QueuesOK(y)
  <2>1. Requests(y) = Requests(x) /\ Len(y.put) = Len(y.body) /\ Len(y.taken) = Len(y.body)
    BY <1>1, <1>9, <1>12 DEF QueuesOK, Requests
  <2>2. \A j \in Requests(x) : y.taken[j] <= Len(y.put[j])
    BY <1>1, <1>4, <1>6, <1>12 DEF QueuesOK
  <2>3. /\ y.done \subseteq y.open
        /\ \A j \in y.done : y.taken[j] < Len(y.put[j])
    <3>1. \A j \in x.done : j \in x.open /\ j \in Requests(x) /\ x.taken[j] < Len(x.put[j])
      BY <1>1 DEF QueuesOK
    <3> QED
      BY <1>6, <1>12, <3>1
  <2> QED
    BY <1>1, <1>12, <2>1, <2>2, <2>3 DEF QueuesOK
<1>15. PhasesOK(y)
  <2>1. last => Complete(y, i)
    <3>1. last => next = Len(x.put[i])
      BY <1>1, <1>3, <1>4, <1>10 DEF QueuesOK
    <3> QED
      BY <1>4, <1>6, <1>10, <1>12, <3>1 DEF Complete
  <2>2. \A j \in Requests(x) \ {i} : Complete(x, j) => Complete(y, j)
    BY <1>6, <1>12 DEF Complete
  <2>3. Requests(y) = Requests(x)
    BY <1>12 DEF Requests
  <2>4. \A j \in Requests(x) \ x.open : Complete(x, j)
    BY <1>1 DEF PhasesOK
  <2>5. \A j \in Requests(x) \ y.open : Complete(y, j)
    BY <1>3, <1>12, <2>1, <2>2, <2>4
  <2>6. y.owed \subseteq Requests(x) \ y.open
    BY <1>3, <1>12
  <2> QED
    BY <1>1, <1>12, <2>3, <2>5, <2>6 DEF PhasesOK
<1> QED
  BY <1>3, <1>5, <1>12, <1>13, <1>14, <1>15 DEF ExchangeOK, m, taken

\* Wait, Track and CloseStream leave the queues alone.
LEMMA StreamOK ==
  ASSUME NEW x \in Exchange, ExchangeOK(x), x.pc = "streaming",
         NEW y, \/ y = [x EXCEPT !.done = {i \in x.open : x.taken[i] < Len(x.put[i])}]
                \/ y = [x EXCEPT !.owed = {}]
                \/ y = [x EXCEPT !.pc = "over"] /\ x.open = {} /\ x.owed = {}
  PROVE  /\ y \in Exchange /\ ExchangeOK(y)
         /\ y.body = x.body /\ y.tenant = x.tenant /\ y.connected = x.connected
         /\ y.session = x.session /\ y.put = x.put /\ y.status = x.status
         /\ y.taken = x.taken /\ y.out = x.out /\ y.open = x.open
         /\ y.owed \in {x.owed, {}} /\ y.pc \in {"streaming", "over"}
<1> DEFINE filled == {i \in x.open : x.taken[i] < Len(x.put[i])}
<1>1. QueuesOK(x) /\ PhasesOK(x)
  BY DEF ExchangeOK
<1> HIDE DEF filled
<1>2. /\ y.body = x.body /\ y.tenant = x.tenant /\ y.connected = x.connected
      /\ y.session = x.session /\ y.put = x.put /\ y.status = x.status
      /\ y.taken = x.taken /\ y.out = x.out /\ y.open = x.open /\ y.tasks = x.tasks
      /\ \/ y.done = filled /\ y.owed = x.owed /\ y.pc = x.pc
         \/ y.done = x.done /\ y.owed = {} /\ y.pc = x.pc
         \/ y.done = x.done /\ y.owed = x.owed /\ y.pc = "over" /\ x.open = {} /\ x.owed = {}
  <2>1. CASE y = [x EXCEPT !.done = filled]
    BY <2>1 DEF Exchange
  <2>2. CASE y = [x EXCEPT !.owed = {}]
    BY <2>2 DEF Exchange
  <2>3. CASE y = [x EXCEPT !.pc = "over"] /\ x.open = {} /\ x.owed = {}
    BY <2>3 DEF Exchange
  <2> QED
    BY <2>1, <2>2, <2>3 DEF filled
<1>3. filled \subseteq x.open /\ \A i \in filled : x.taken[i] < Len(x.put[i])
  BY DEF filled
<1>4. y \in Exchange
  <2>1. Typed(x)
    BY FieldTypes
  <2>2. y.done \in SUBSET Nat /\ y.owed \in SUBSET Nat /\ y.pc \in Phase
    BY <1>2, <1>3, <2>1 DEF Typed, Phase
  <2>3. Typed(y)
    BY <1>2, <2>1, <2>2 DEF Typed
  <2>4. y = [f \in DOMAIN x |-> y[f]]
    OBVIOUS
  <2> QED
    BY <2>3, <2>4, ByFields
<1>5. QueuesOK(y)
  BY <1>1, <1>2, <1>3 DEF QueuesOK, Requests
<1>6. PhasesOK(y)
  <2>1. Requests(y) = Requests(x) /\ \A i \in Requests(x) : Complete(y, i) <=> Complete(x, i)
    BY <1>2 DEF Requests, Complete
  <2> QED
    BY <1>1, <1>2, <2>1 DEF PhasesOK
<1> QED
  BY <1>1, <1>2, <1>4, <1>5, <1>6 DEF ExchangeOK

\* Tasks end and connections fail.
LEMMA PhasesStay ==
  ASSUME NEW x, PhasesOK(x), NEW y,
         y.body = x.body, y.put = x.put, y.status = x.status, y.taken = x.taken,
         y.pc = x.pc, y.open = x.open, y.done = x.done, y.owed = x.owed,
         y.tasks \subseteq x.tasks, y.connected => x.connected
  PROVE  PhasesOK(y)
<1>1. /\ Requests(y) = Requests(x)
      /\ \A i \in Requests(x) : Complete(x, i) => Complete(y, i)
  BY DEF Requests, Complete
<1>2. x.tasks = {} => y.tasks = {}
  OBVIOUS
<1> QED
  BY <1>1, <1>2 DEF PhasesOK

\* Connections fail, answers and tasks are cut short; the messages that were on
\* their way may be gone.
LEMMA CutOK ==
  ASSUME NEW x \in Exchange, ExchangeOK(x), NEW y, y = [f \in DOMAIN x |-> y[f]],
         y.body = x.body, y.tenant = x.tenant, y.session = x.session, y.put = x.put,
         y.status = x.status, y.taken = x.taken, y.tasks \subseteq x.tasks,
         y.out \in {x.out, <<>>},
         \/ /\ y.pc = x.pc /\ y.open = x.open /\ y.done = x.done /\ y.owed = x.owed
            /\ y.connected \in {x.connected, FALSE}
         \/ /\ x.pc \notin {"idle", "over"}
            /\ y.pc = "over" /\ y.open = {} /\ y.done = {} /\ y.owed = {} /\ y.connected = FALSE
  PROVE  y \in Exchange /\ ExchangeOK(y)
<1>1. QueuesOK(x) /\ PhasesOK(x) /\ Typed(x)
  BY FieldTypes DEF ExchangeOK
<1>2. <<>> \in Seq(Message) /\ "over" \in Phase
  BY DEF Phase
<1>3. Requests(y) = Requests(x)
  BY DEF Requests
<1>4. y.out \in Seq(Message) /\ y.tasks \in SUBSET Nat
  BY <1>1, <1>2, ZenonT(40) DEF Typed
<1>5. y \in Exchange /\ QueuesOK(y)
  <2>1. /\ y.pc \in Phase /\ y.connected \in BOOLEAN
        /\ y.open \subseteq x.open /\ y.done \subseteq y.open /\ y.done \subseteq x.done
        /\ y.owed \subseteq x.owed
    <3>1. CASE /\ y.pc = x.pc /\ y.open = x.open /\ y.done = x.done /\ y.owed = x.owed
               /\ y.connected \in {x.connected, FALSE}
      BY <1>1, <3>1 DEF QueuesOK, Typed
    <3>2. CASE /\ y.pc = "over" /\ y.open = {} /\ y.done = {} /\ y.owed = {}
               /\ y.connected = FALSE
      BY <1>2, <3>2
    <3> QED
      BY <3>1, <3>2
  <2>2. x.open \in SUBSET Nat /\ x.done \in SUBSET Nat /\ x.owed \in SUBSET Nat
    BY <1>1 DEF Typed
  <2>3. y.open \in SUBSET Nat /\ y.done \in SUBSET Nat /\ y.owed \in SUBSET Nat
    BY <2>1, <2>2
  <2>4. Typed(y)
    <3>1. y.status \in {0, 200, 202, 400, 403, 404} /\ y.put \in Seq(Seq(Item))
      BY <1>1 DEF Typed
    <3>2. /\ y.tenant \in Tenant \cup {Unissued} /\ y.session \in Session \cup {NoSession}
          /\ y.body \in Seq(Request) /\ y.taken \in Seq(Nat)
      BY <1>1 DEF Typed
    <3> QED
      BY <1>4, <2>1, <2>3, <3>1, <3>2 DEF Typed
  <2>5. QueuesOK(y)
    <3>1. y.tasks \subseteq Requests(x) /\ y.open \subseteq Requests(x)
      BY <1>1, <2>1 DEF QueuesOK
    <3>2. \A i \in y.done : y.taken[i] < Len(y.put[i])
      BY <1>1, <2>1 DEF QueuesOK
    <3>3. \A i \in Requests(x) :
            /\ i \in y.tasks => i \in x.tasks
            /\ i \in y.open \cup y.tasks => i \in x.open \cup x.tasks
      BY <2>1
    <3>4. /\ Len(y.put) = Len(y.body) /\ Len(y.taken) = Len(y.body)
          /\ \A i \in Requests(x) :
               /\ y.taken[i] <= Len(y.put[i])
               /\ \A n \in 1 .. Len(y.put[i]) : y.put[i][n] \in Final => n = Len(y.put[i])
               /\ i \in y.tasks => \A n \in 1 .. Len(y.put[i]) : y.put[i][n] \notin Final
               /\ i \in y.open \cup y.tasks => y.body[i].method # "initialize"
               /\ y.body[i].method = "initialize" /\ y.put[i] # <<>> => y.session # NoSession
      BY <1>1, <3>3 DEF QueuesOK
    <3> QED
      BY <1>3, <2>1, <3>1, <3>2, <3>4 DEF QueuesOK
  <2> QED
    BY <2>4, <2>5, ByFields
<1>6. PhasesOK(y)
  <2>1. CASE /\ y.pc = x.pc /\ y.open = x.open /\ y.done = x.done /\ y.owed = x.owed
             /\ y.connected \in {x.connected, FALSE}
    <3>1. y.connected => x.connected
      BY <1>1, <2>1 DEF Typed
    <3> QED
      BY <1>1, <2>1, <3>1, PhasesStay
  <2>2. CASE /\ x.pc \notin {"idle", "over"}
             /\ y.pc = "over" /\ y.open = {} /\ y.owed = {} /\ y.connected = FALSE
    <3>1. x.status # 202
      BY <1>1, <2>2 DEF PhasesOK
    <3> QED
      BY <2>2, <3>1 DEF PhasesOK
  <2> QED
    BY <2>1, <2>2
<1> QED
  BY <1>5, <1>6 DEF ExchangeOK

-----------------------------------------------------------------------------
(* What has been said of an exchange *)

\* Nothing more is said and nothing more is taken.
LEMMA SaidStays ==
  ASSUME NEW x, NEW y, NEW said, y.body = x.body, y.taken = x.taken, InOrderOK(x, said),
         \A i \in Requests(x) : \A n \in 1 .. x.taken[i] : y.put[i][n] = x.put[i][n]
  PROVE  InOrderOK(y, said) /\ (SaidAll(x, said) => SaidAll(y, said))
BY SMTT(30) DEF InOrderOK, SaidAll, Requests

\* The rest of what was said is lost.
LEMMA SaidCut ==
  ASSUME NEW x, NEW a \in Seq(Message), NEW b \in Seq(Message), InOrderOK(x, a \o b)
  PROVE  InOrderOK(x, a)
<1>1. /\ Len(a) \in Nat /\ Len(b) \in Nat /\ Len(a \o b) = Len(a) + Len(b)
      /\ \A j \in 1 .. Len(a) : (a \o b)[j] = a[j] /\ j \in 1 .. Len(a \o b)
  BY ConcatProperties
<1> DEFINE s == a \o b
<1>2. InOrderOK(x, s)
  OBVIOUS
<1> HIDE DEF s
<1>3. ASSUME NEW j \in 1 .. Len(a), NEW h \in 1 .. j - 1 PROVE h \in 1 .. Len(a)
  BY <1>1
<1> QED
  BY <1>1, <1>2, <1>3 DEF InOrderOK, s

\* One more item is taken from a queue, and said if anybody listens.
LEMMA SaidMore ==
  ASSUME NEW x \in Exchange, QueuesOK(x), NEW i \in Requests(x), x.taken[i] < Len(x.put[i]),
         NEW said \in Seq(Message), InOrderOK(x, said), NEW m \in Message, m = NextItem(x, i),
         NEW y, y.body = x.body, y.put = x.put, y.taken = Taken(x, i)
  PROVE  /\ InOrderOK(y, said)
         /\ SaidAll(x, said) => InOrderOK(y, Append(said, m)) /\ SaidAll(y, Append(said, m))
<1> DEFINE more == Append(said, m)  next == x.taken[i] + 1
<1>1. /\ x.taken \in [Requests(x) -> Nat] /\ Requests(y) = Requests(x)
      /\ y.taken[i] = next /\ next \in Nat /\ x.taken[i] \in Nat
      /\ \A h \in Requests(x) \ {i} : y.taken[h] = x.taken[h]
  BY Shape DEF Requests, Taken
<1>3. \A h \in Requests(x) : \A n \in 1 .. x.taken[h] : n \in 1 .. y.taken[h]
  BY <1>1
<1>4. InOrderOK(y, said)
  BY <1>1, <1>3 DEF InOrderOK
<1>5. ASSUME SaidAll(x, said)
      PROVE  InOrderOK(y, more) /\ SaidAll(y, more)
  <2>1. /\ Len(said) \in Nat /\ Len(more) = Len(said) + 1 /\ more[Len(said) + 1] = m
        /\ \A j \in 1 .. Len(said) : more[j] = said[j]
        /\ \A j \in 1 .. Len(more) : j \in 1 .. Len(said) \/ j = Len(said) + 1
    BY AppendProperties
  <2> HIDE DEF more
  <2>2. m.i = i /\ m.n = next /\ m.item = x.put[i][next]
    BY DEF NextItem
  <2>3. ASSUME NEW j \in 1 .. Len(said)
        PROVE  /\ more[j].i \in Requests(y)
               /\ more[j].n \in 1 .. y.taken[more[j].i]
               /\ more[j].item = y.put[more[j].i][more[j].n]
               /\ \A h \in 1 .. j - 1 : more[h].i = more[j].i => more[h].n < more[j].n
               /\ more[j].n > 1 => \E h \in 1 .. j - 1 : more[h].i = more[j].i /\ more[h].n = more[j].n - 1
    <3>1. \A h \in 1 .. j - 1 : h \in 1 .. Len(said)
      BY <2>1
    <3> QED
      BY <1>4, <2>1, <3>1 DEF InOrderOK
  <2>4. \A h \in 1 .. Len(said) : more[h].i = i => more[h].n \in Nat /\ more[h].n < next
    <3>1. \A h \in 1 .. Len(said) : said[h].i = i => said[h].n \in 1 .. x.taken[i]
      BY DEF InOrderOK
    <3> QED
      BY <1>1, <2>1, <3>1
  <2>5. next > 1 => \E h \in 1 .. Len(said) : more[h].i = i /\ more[h].n = next - 1
    <3>1. next > 1 => next - 1 \in 1 .. x.taken[i]
      BY <1>1
    <3> QED
      BY <1>5, <2>1, <3>1 DEF SaidAll
  <2>6. InOrderOK(y, more)
    <3> SUFFICES ASSUME NEW j \in 1 .. Len(more), j = Len(said) + 1
                 PROVE  /\ more[j].i \in Requests(y)
                        /\ more[j].n \in 1 .. y.taken[more[j].i]
                        /\ more[j].item = y.put[more[j].i][more[j].n]
                        /\ \A h \in 1 .. j - 1 : more[h].i = more[j].i => more[h].n < more[j].n
                        /\ more[j].n > 1 =>
                             \E h \in 1 .. j - 1 : more[h].i = more[j].i /\ more[h].n = more[j].n - 1
      BY <2>1, <2>3 DEF InOrderOK
    <3>1. 1 .. j - 1 = 1 .. Len(said) /\ more[j] = m
      BY <2>1
    <3>2. next \in 1 .. y.taken[i]
      BY <1>1
    <3> QED
      BY <1>1, <2>2, <2>4, <2>5, <3>1, <3>2
  <2>7. SaidAll(y, more)
    <3> SUFFICES ASSUME NEW h \in Requests(x), NEW n \in 1 .. y.taken[h]
                 PROVE  \E j \in 1 .. Len(more) : more[j].i = h /\ more[j].n = n
      BY <1>1 DEF SaidAll
    <3>1. CASE h = i /\ n = next
      BY <2>1, <2>2, <3>1
    <3>2. CASE ~(h = i /\ n = next)
      <4>1. n \in 1 .. x.taken[h]
        BY <1>1, <3>2
      <4>2. PICK j \in 1 .. Len(said) : said[j].i = h /\ said[j].n = n
        BY <1>5, <4>1 DEF SaidAll
      <4>3. j \in 1 .. Len(more)
        BY <2>1
      <4> QED
        BY <2>1, <4>2, <4>3
    <3> QED
      BY <3>1, <3>2
  <2> QED
    BY <2>6, <2>7
<1> QED
  BY <1>4, <1>5

\* Reading passes a message from one side to the other.
LEMMA ReadOn ==
  ASSUME NEW a \in Seq(Message), NEW b \in Seq(Message), b # <<>>
  PROVE  /\ b[1] \in Message /\ Tail(b) \in Seq(Message) /\ Append(a, b[1]) \in Seq(Message)
         /\ Append(a, b[1]) \o Tail(b) = a \o b
<1>1. /\ b[1] \in Message /\ Len(b) \in Nat /\ Len(b) > 0
      /\ Tail(b) \in Seq(Message) /\ Len(Tail(b)) = Len(b) - 1
      /\ \A j \in 1 .. Len(Tail(b)) : Tail(b)[j] = b[j + 1]
  BY HeadTailProperties
<1> DEFINE c == Append(a, b[1])  t == Tail(b)
<1>2. /\ c \in Seq(Message) /\ Len(c) = Len(a) + 1 /\ Len(a) \in Nat
      /\ \A j \in 1 .. Len(a) : c[j] = a[j]
      /\ c[Len(a) + 1] = b[1]
  BY <1>1, AppendProperties
<1> HIDE DEF c, t
<1>3. /\ c \o t \in Seq(Message) /\ Len(c \o t) = Len(c) + Len(t)
      /\ \A j \in 1 .. Len(c) + Len(t) : (c \o t)[j] = IF j <= Len(c) THEN c[j] ELSE t[j - Len(c)]
  BY <1>1, <1>2, ConcatProperties DEF t
<1>4. /\ a \o b \in Seq(Message) /\ Len(a \o b) = Len(a) + Len(b)
      /\ \A j \in 1 .. Len(a) + Len(b) : (a \o b)[j] = IF j <= Len(a) THEN a[j] ELSE b[j - Len(a)]
  BY ConcatProperties
<1>5. Len(c) + Len(t) = Len(a) + Len(b)
  BY <1>1, <1>2 DEF t
<1>6. ASSUME NEW j \in 1 .. Len(a) + Len(b) PROVE (c \o t)[j] = (a \o b)[j]
  <2>1. CASE j <= Len(a)
    BY <1>1, <1>2, <1>3, <1>4, <1>5, <2>1
  <2>2. CASE j = Len(a) + 1
    BY <1>1, <1>2, <1>3, <1>4, <1>5, <2>2
  <2>3. CASE j > Len(a) + 1
    <3>1. /\ j - Len(c) \in 1 .. Len(t) /\ (j - Len(c)) + 1 = j - Len(a)
          /\ ~(j <= Len(c)) /\ ~(j <= Len(a))
      BY <1>1, <1>2, <1>5, <2>3 DEF t
    <3>2. (c \o t)[j] = t[j - Len(c)] /\ (a \o b)[j] = b[j - Len(a)]
      BY <1>3, <1>4, <1>5, <3>1
    <3> QED
      BY <1>1, <3>1, <3>2 DEF t
  <2>4. j \in Nat /\ Len(a) \in Nat
    BY <1>2, ConcatProperties
  <2>5. j <= Len(a) \/ j = Len(a) + 1 \/ j > Len(a) + 1
    BY <2>4
  <2> QED
    BY <2>1, <2>2, <2>3, <2>5
<1> QED
  BY <1>1, <1>2, <1>3, <1>4, <1>5, <1>6, SeqEqual DEF c, t

-----------------------------------------------------------------------------
(* What the server and its handlers do about one exchange *)

\* As much as every step of Service(k) has in common.
Served(k) ==
  /\ UNCHANGED clientVars
  /\ ServerTypeOK' /\ \A l \in Post \ {k} : post'[l] = post[l]
  /\ ExchangeOK(post'[k])
  /\ InOrderOK(post'[k], Said(k)') /\ (post'[k].connected => SaidAll(post'[k], Said(k)'))
  /\ post[k].pc # "idle" /\ post'[k].pc # "idle"
  /\ post'[k].body = post[k].body /\ post'[k].tenant = post[k].tenant
  /\ post'[k].connected = post[k].connected
  /\ post[k].status # 0 => post'[k].status = post[k].status
  /\ post[k].pc = "over" => post'[k].pc = "over"
  /\ \/ /\ tenantOf' = tenantOf
        /\ post'[k].session \in {post[k].session, NoSession}
        /\ post'[k].pc \in {"dispatching", "streaming"} /\ post'[k].session # NoSession =>
             tenantOf[post'[k].session] = post'[k].tenant
     \/ \E s \in Fresh : /\ post'[k].session = s
                         /\ tenantOf' = [tenantOf EXCEPT ![s] = post[k].tenant]

LEMMA Types ==
  ASSUME McpInv, NEW k \in Post
  PROVE  /\ post[k] \in Exchange /\ ExchangeOK(post[k]) /\ ServerTypeOK
         /\ reader[k].got \in Seq(Message) /\ post[k].out \in Seq(Message)
         /\ InOrderOK(post[k], Said(k)) /\ (post[k].connected => SaidAll(post[k], Said(k)))
         /\ Said(k) \in Seq(Message)
<1>1. post[k] \in Exchange /\ ServerTypeOK /\ reader[k].got \in Seq(Message)
  BY DEF McpInv, McpTypeOK, ServerTypeOK
<1>2. ExchangeOK(post[k])
  BY DEF McpInv, ExchangesOK
<1>3. InOrderOK(post[k], Said(k)) /\ (post[k].connected => SaidAll(post[k], Said(k)))
  BY DEF McpInv, SaidOK
<1>4. post[k].out \in Seq(Message)
  BY <1>1 DEF Exchange
<1> QED
  BY <1>1, <1>2, <1>3, <1>4, ConcatProperties DEF Said

LEMMA ServedBy ==
  ASSUME McpInv, NEW k \in Post, NEW y \in Exchange, post' = [post EXCEPT ![k] = y],
         UNCHANGED clientVars, ExchangeOK(y),
         InOrderOK(y, reader[k].got \o y.out),
         y.connected => SaidAll(y, reader[k].got \o y.out),
         post[k].pc # "idle", y.pc # "idle", y.body = post[k].body, y.tenant = post[k].tenant,
         y.connected = post[k].connected, post[k].status # 0 => y.status = post[k].status,
         post[k].pc = "over" => y.pc = "over",
         tenantOf' \in [Session -> Tenant \cup {Unissued, Lost}],
         audit' \in [Session -> [RequestId -> Status]],
         \/ /\ tenantOf' = tenantOf
            /\ y.session \in {post[k].session, NoSession}
            /\ y.pc \in {"dispatching", "streaming"} /\ y.session # NoSession =>
                 tenantOf[y.session] = y.tenant
         \/ \E s \in Fresh : y.session = s /\ tenantOf' = [tenantOf EXCEPT ![s] = post[k].tenant]
  PROVE  Served(k)
<1>1. post \in [Post -> Exchange] /\ Post = DOMAIN post
  BY DEF McpInv, McpTypeOK, ServerTypeOK
<1>2. post'[k] = y /\ \A l \in Post \ {k} : post'[l] = post[l]
  BY <1>1
<1>3. Said(k)' = reader[k].got \o y.out
  BY <1>2 DEF Said, clientVars
<1>4. ServerTypeOK'
  BY <1>1 DEF ServerTypeOK
<1> QED
  BY <1>2, <1>3, <1>4 DEF Served

\* A step that says nothing.
LEMMA StillSaid ==
  ASSUME McpInv, NEW k \in Post, NEW y \in Exchange, y.body = post[k].body,
         y.taken = post[k].taken, y.out = post[k].out, y.connected = post[k].connected,
         \A i \in Requests(post[k]) : \A n \in 1 .. post[k].taken[i] : y.put[i][n] = post[k].put[i][n]
  PROVE  /\ InOrderOK(y, reader[k].got \o y.out)
         /\ y.connected => SaidAll(y, reader[k].got \o y.out)
<1> DEFINE x == post[k]  said == reader[k].got \o x.out
<1>1. InOrderOK(x, said) /\ (x.connected => SaidAll(x, said))
  BY Types DEF Said
<1> HIDE DEF x, said
<1>2. y.body = x.body /\ y.taken = x.taken /\ y.out = x.out /\ y.connected = x.connected
      /\ \A i \in Requests(x) : \A n \in 1 .. x.taken[i] : y.put[i][n] = x.put[i][n]
  BY DEF x
<1>3. InOrderOK(y, said) /\ (SaidAll(x, said) => SaidAll(y, said))
  BY <1>1, <1>2, SaidStays
<1>4. said = reader[k].got \o y.out
  BY DEF said, x
<1> QED
  BY <1>1, <1>2, <1>3, <1>4

LEMMA ReceiveServes ==
  ASSUME McpInv, NEW k \in Post, NEW wellFormed \in BOOLEAN, Receive(k, wellFormed),
         UNCHANGED clientVars
  PROVE  Served(k)
<1> DEFINE x == post[k]  admission == Admission(x.tenant, x.session)
<1>1. x \in Exchange /\ ExchangeOK(x) /\ ServerTypeOK /\ x.pc = "posted"
  BY Types DEF Receive
<1>2. admission \in {200, 403, 404}
  BY DEF Admission
<1>3. admission = 200 => x.session = NoSession \/ tenantOf[x.session] = x.tenant
  BY DEF Admission
<1> DEFINE y == CASE admission # 200 -> Refused(x, admission)
                  [] admission = 200 /\ ~wellFormed -> Refused(x, 400)
                  [] admission = 200 /\ wellFormed /\ x.body = <<>> ->
                       [x EXCEPT !.pc = "over", !.status = 202]
                  [] OTHER -> [x EXCEPT !.pc = "dispatching"]
<1>4. post' = [post EXCEPT ![k] = y]
  BY DEF Receive
<1> HIDE DEF admission
<1>5. /\ \/ \E s \in {400, 403, 404} : y = Refused(x, s)
         \/ y = [x EXCEPT !.pc = "over", !.status = 202] /\ x.body = <<>>
         \/ y = [x EXCEPT !.pc = "dispatching"]
      /\ y.pc = "dispatching" => admission = 200
  <2>1. CASE admission # 200
    <3>1. y = Refused(x, admission) /\ admission \in {400, 403, 404}
      BY <1>2, <2>1
    <3>2. y.pc = "over"
      BY <1>1, <3>1 DEF Refused, Exchange
    <3> QED
      BY <3>1, <3>2
  <2>2. CASE admission = 200 /\ ~wellFormed
    BY <2>2
  <2>3. CASE admission = 200 /\ wellFormed /\ x.body = <<>>
    BY <2>3
  <2>4. CASE admission = 200 /\ wellFormed /\ x.body # <<>>
    BY <2>4
  <2> QED
    BY <2>1, <2>2, <2>3, <2>4
<1> HIDE DEF y
<1>6. /\ y \in Exchange /\ ExchangeOK(y)
      /\ y.body = x.body /\ y.tenant = x.tenant /\ y.connected = x.connected
      /\ y.out = x.out /\ y.put = x.put /\ y.taken = x.taken
      /\ y.pc \in {"dispatching", "over"} /\ y.status # 200
      /\ y.session = x.session \/ (y.session = NoSession /\ y.pc = "over")
  BY <1>1, <1>5, ReceivedOK, ZenonT(40)
<1>7. x.status = 0
  BY <1>1 DEF ExchangeOK, PhasesOK
<1>8. tenantOf' = tenantOf /\ audit' = audit
  BY DEF Receive
<1>9. tenantOf \in [Session -> Tenant \cup {Unissued, Lost}] /\ audit \in [Session -> [RequestId -> Status]]
  BY <1>1 DEF ServerTypeOK
<1>10. y.pc \in {"dispatching", "streaming"} /\ y.session # NoSession => tenantOf[y.session] = y.tenant
  BY <1>3, <1>5, <1>6
<1>11. /\ InOrderOK(y, reader[k].got \o y.out)
       /\ y.connected => SaidAll(y, reader[k].got \o y.out)
  BY <1>6, StillSaid
<1> HIDE DEF x
<1>12. y.session \in {x.session, NoSession}
  BY <1>6
<1>13. x.pc # "idle" /\ y.pc # "idle" /\ x.pc # "over"
  BY <1>1, <1>6
<1> QED
  BY <1>4, <1>6, <1>7, <1>8, <1>9, <1>10, <1>11, <1>12, <1>13, ServedBy DEF x

\* What enters a request and its response in the records of a session.
LEMMA EntryTypes ==
  ASSUME ServerTypeOK, NEW s \in Session \cup {NoSession}, NEW records,
         s # NoSession => records \in [RequestId -> Status]
  PROVE  Entered(s, records) \in [Session -> [RequestId -> Status]]
BY DEF ServerTypeOK, Entered

LEMMA RecordTypes ==
  ASSUME NEW records \in [RequestId -> Status], NEW r \in RequestId
  PROVE  /\ track_request(records, r) \in [RequestId -> Status]
         /\ \A item \in Final : track_response(records, r, item) \in [RequestId -> Status]
BY DEF track_request, track_response, Status

LEMMA DispatchServes ==
  ASSUME McpInv, NEW k \in Post, NEW i \in Indexes(post[k]), NEW o, Dispatch(k, i, o),
         UNCHANGED clientVars
  PROVE  Served(k)
<1> DEFINE x == post[k]  r == x.body[i].id
           s == IF x.body[i].method = "initialize" THEN CHOOSE u \in Fresh : TRUE ELSE x.session
           y == Dispatched(x, i, o, s)
<1>1. /\ x \in Exchange /\ ExchangeOK(x) /\ ServerTypeOK /\ x.pc = "dispatching"
      /\ i \in Running(x) /\ o \in Outcome(x.body[i].method)
      /\ post' = [post EXCEPT ![k] = y]
  BY Types DEF Dispatch, Dispatched
<1>2. x.body[i].method = "initialize" => s \in Fresh /\ s \in Session /\ s # NoSession
  <2>1. x.body[i].method = "initialize" => Fresh # {}
    BY DEF Dispatch
  <2>2. Fresh \subseteq Session /\ NoSession \notin Session
    BY McpServerAssumption DEF Fresh
  <2> QED
    BY <2>1, <2>2
<1>3. x.body[i].method # "initialize" => s = x.session
  OBVIOUS
<1>4. x.session \in Session \cup {NoSession}
  BY <1>1, FieldTypes DEF Typed
<1>5. tenantOf' = IF x.body[i].method = "initialize" THEN [tenantOf EXCEPT ![s] = x.tenant]
                  ELSE tenantOf
  BY DEF Dispatch
<1>6. audit' = Entered(s, IF o = "queue" THEN track_request(audit[s], r)
                          ELSE track_response(track_request(audit[s], r), r, o))
  BY DEF Dispatch
<1> HIDE DEF s
<1>7. /\ y \in Exchange /\ ExchangeOK(y)
      /\ y.body = x.body /\ y.tenant = x.tenant /\ y.connected = x.connected
      /\ y.out = x.out /\ y.taken = x.taken /\ y.session = s
      /\ y.pc = "dispatching" /\ y.status = 0 /\ i \in Requests(x)
      /\ \A j \in Requests(x) : \A n \in 1 .. x.taken[j] : y.put[j][n] = x.put[j][n]
      /\ o # "queue" => o \in Final
  <2>1. s \in Session \cup {NoSession}
    BY <1>2, <1>3, <1>4
  <2>2. IF x.body[i].method = "initialize" THEN s # NoSession ELSE s = x.session
    BY <1>2, <1>3
  <2> HIDE DEF x
  <2> QED
    BY <1>1, <2>1, <2>2, DispatchedOK
<1> HIDE DEF y
<1>8. x.tenant \in Tenant
  <2>1. x.tenant \in Tenant
    BY <1>1 DEF McpInv, SessionsOK
  <2> QED
    BY <2>1
<1>9. tenantOf' \in [Session -> Tenant \cup {Unissued, Lost}]
  BY <1>1, <1>2, <1>5, <1>8 DEF ServerTypeOK
<1>10. audit' \in [Session -> [RequestId -> Status]]
  <2> DEFINE records == IF o = "queue" THEN track_request(audit[s], r)
                        ELSE track_response(track_request(audit[s], r), r, o)
  <2>1. s \in Session \cup {NoSession}
    BY <1>2, <1>3, <1>4
  <2>2. r \in RequestId
    <3>1. x.body \in Seq(Request) /\ i \in DOMAIN x.body
      BY <1>1, FieldTypes DEF Typed, Indexes
    <3>2. x.body[i] \in Request
      BY <3>1
    <3> QED
      BY <3>2 DEF Request
  <2>3. ASSUME s # NoSession PROVE records \in [RequestId -> Status]
    <3>1. audit[s] \in [RequestId -> Status]
      BY <1>1, <2>1, <2>3 DEF ServerTypeOK
    <3> HIDE DEF r
    <3>2. /\ track_request(audit[s], r) \in [RequestId -> Status]
          /\ o # "queue" => track_response(track_request(audit[s], r), r, o) \in [RequestId -> Status]
      BY <1>7, <2>2, <3>1, RecordTypes
    <3> QED
      BY <3>2
  <2> HIDE DEF records
  <2>4. audit' = Entered(s, records)
    BY <1>6 DEF records
  <2> QED
    BY <1>1, <2>1, <2>3, <2>4, EntryTypes
<1>11. /\ InOrderOK(y, reader[k].got \o y.out)
       /\ y.connected => SaidAll(y, reader[k].got \o y.out)
  BY <1>7, StillSaid
<1>12. \/ /\ tenantOf' = tenantOf
          /\ y.session \in {x.session, NoSession}
          /\ y.pc \in {"dispatching", "streaming"} /\ y.session # NoSession =>
               tenantOf[y.session] = y.tenant
       \/ \E u \in Fresh : y.session = u /\ tenantOf' = [tenantOf EXCEPT ![u] = x.tenant]
  <2>1. CASE x.body[i].method = "initialize"
    BY <1>2, <1>5, <1>7, <2>1
  <2>2. CASE x.body[i].method # "initialize"
    <3>1. x.session # NoSession => tenantOf[x.session] = x.tenant
      BY <1>1 DEF McpInv, SessionsOK, SessionServesItsTenant
    <3> QED
      BY <1>3, <1>5, <1>7, <2>2, <3>1
  <2> QED
    BY <2>1, <2>2
<1>13. x.pc # "idle" /\ y.pc # "idle" /\ x.pc # "over" /\ x.status = 0
  BY <1>1, <1>7 DEF ExchangeOK, PhasesOK
<1> HIDE DEF x
<1> QED
  BY <1>1, <1>7, <1>9, <1>10, <1>11, <1>12, <1>13, ServedBy DEF x

\* A step that leaves tenants and session alone.
LEMMA ServedInPlace ==
  ASSUME McpInv, NEW k \in Post, NEW y \in Exchange, post' = [post EXCEPT ![k] = y],
         UNCHANGED clientVars, ExchangeOK(y), tenantOf' = tenantOf,
         InOrderOK(y, reader[k].got \o y.out),
         y.connected => SaidAll(y, reader[k].got \o y.out),
         post[k].pc # "idle", y.pc # "idle", y.body = post[k].body, y.tenant = post[k].tenant,
         y.connected = post[k].connected, post[k].status # 0 => y.status = post[k].status,
         post[k].pc = "over" => y.pc = "over", y.session = post[k].session,
         y.pc \in {"dispatching", "streaming"} => post[k].pc \in {"dispatching", "streaming"},
         audit' \in [Session -> [RequestId -> Status]]
  PROVE  Served(k)
<1>1. y.pc \in {"dispatching", "streaming"} /\ y.session # NoSession => tenantOf[y.session] = y.tenant
  BY DEF McpInv, SessionsOK, SessionServesItsTenant
<1>2. tenantOf \in [Session -> Tenant \cup {Unissued, Lost}]
  BY DEF McpInv, McpTypeOK, ServerTypeOK
<1>3. y.session \in {post[k].session, NoSession}
  OBVIOUS
<1> QED
  BY <1>1, <1>2, <1>3, ServedBy

LEMMA ProduceServes ==
  ASSUME McpInv, NEW k \in Post, NEW i \in post[k].tasks, NEW item \in Item, Produce(k, i, item),
         UNCHANGED clientVars
  PROVE  Served(k)
<1> DEFINE x == post[k]  y == Produced(x, i, item)
<1>1. x \in Exchange /\ ExchangeOK(x) /\ ServerTypeOK
  BY Types
<1>2. post' = [post EXCEPT ![k] = y]
  <2>1. post \in [Post -> Exchange]
    BY <1>1 DEF ServerTypeOK
  <2> QED
    BY <2>1, ZenonT(40) DEF Produce, Produced, Exchange
<1>3. audit' \in [Session -> [RequestId -> Status]] /\ tenantOf' = tenantOf
  BY <1>1 DEF Produce, ServerTypeOK
<1> HIDE DEF y
<1>4. i \in x.tasks
  OBVIOUS
<1> HIDE DEF x
<1>5. /\ y \in Exchange /\ ExchangeOK(y)
      /\ y.body = x.body /\ y.tenant = x.tenant /\ y.connected = x.connected
      /\ y.out = x.out /\ y.taken = x.taken /\ y.session = x.session
      /\ y.pc = x.pc /\ y.status = x.status
      /\ \A j \in Requests(x) : \A n \in 1 .. x.taken[j] : y.put[j][n] = x.put[j][n]
  BY <1>1, <1>4, ProducedOK DEF y
<1>6. /\ InOrderOK(y, reader[k].got \o y.out)
      /\ y.connected => SaidAll(y, reader[k].got \o y.out)
  BY <1>5, StillSaid DEF x
<1>7. x.pc # "idle"
  BY <1>1, <1>4 DEF ExchangeOK, PhasesOK
<1> QED
  BY <1>2, <1>3, <1>5, <1>6, <1>7, ServedInPlace DEF x

LEMMA OneMore ==
  ASSUME NEW a \in Seq(Message), NEW b \in Seq(Message), NEW m \in Message
  PROVE  a \o (b \o <<m>>) = Append(a \o b, m)
<1> DEFINE c == <<m>>
<1>1. c \in Seq(Message) /\ \A s \in Seq(Message) : s \o c = Append(s, m)
  BY AppendIsConcat
<1> HIDE DEF c
<1>2. (a \o b) \o c = a \o (b \o c) /\ a \o b \in Seq(Message)
  BY <1>1, ConcatAssociative, ConcatProperties, SMTT(30)
<1> QED
  BY <1>1, <1>2 DEF c

\* Nothing was said before the requests were dispatched.
LEMMA NothingSaid ==
  ASSUME NEW x, PhasesOK(x), x.pc \in {"posted", "dispatching"}, NEW said \in Seq(Message),
         InOrderOK(x, said)
  PROVE  said = <<>>
<1>1. \A i \in Requests(x) : x.taken[i] = 0
  BY DEF PhasesOK
<1>2. Len(said) \in Nat
  OBVIOUS
<1>3. ASSUME Len(said) # 0 PROVE FALSE
  <2>1. 1 \in 1 .. Len(said)
    BY <1>2, <1>3
  <2>2. said[1].i \in Requests(x) /\ said[1].n \in 1 .. x.taken[said[1].i]
    BY <2>1 DEF InOrderOK
  <2>3. x.taken[said[1].i] = 0
    BY <1>1, <2>2
  <2>4. said[1].n \in 1 .. 0
    BY <2>2, <2>3
  <2> QED
    BY <2>4
<1> QED
  BY <1>2, <1>3

LEMMA RespondServes ==
  ASSUME McpInv, NEW k \in Post, Respond(k), UNCHANGED clientVars
  PROVE  Served(k)
<1> DEFINE x == post[k]  y == Responded(x)  got == reader[k].got
<1>1. /\ x \in Exchange /\ ExchangeOK(x) /\ ServerTypeOK /\ got \in Seq(Message)
      /\ x.out \in Seq(Message)
      /\ InOrderOK(x, got \o x.out) /\ got \o x.out \in Seq(Message)
  BY Types DEF Said
<1>2. post' = [post EXCEPT ![k] = y] /\ x.pc = "dispatching" /\ Running(x) = {}
  BY DEF Respond, Responded
<1>3. audit' \in [Session -> [RequestId -> Status]] /\ tenantOf' = tenantOf
  BY <1>1 DEF Respond, ServerTypeOK
<1> HIDE DEF y, x, got
<1>4. /\ y \in Exchange /\ ExchangeOK(y)
      /\ y.body = x.body /\ y.tenant = x.tenant /\ y.connected = x.connected
      /\ y.session = x.session /\ y.pc \in {"streaming", "over"} /\ y.status = 200
      /\ \E ms \in Seq(Message) : y.out = Written(x, ms) /\ InOrderOK(y, ms) /\ SaidAll(y, ms)
  BY <1>1, <1>2, RespondedOK DEF y
<1>5. PICK ms \in Seq(Message) : y.out = Written(x, ms) /\ InOrderOK(y, ms) /\ SaidAll(y, ms)
  BY <1>4
<1>6. got \o x.out = <<>>
  BY <1>1, <1>2, NothingSaid DEF ExchangeOK
<1>7. got = <<>> /\ x.out = <<>>
  <2>1. Len(got) \in Nat /\ Len(x.out) \in Nat /\ Len(got \o x.out) = Len(got) + Len(x.out)
    BY <1>1, ConcatProperties
  <2>2. Len(got) = 0 /\ Len(x.out) = 0
    BY <1>6, <2>1
  <2> QED
    BY <1>1, <2>2
<1>8. InOrderOK(y, got \o y.out) /\ (y.connected => SaidAll(y, got \o y.out))
  <2>1. CASE x.connected
    <3>1. y.out = <<>> \o ms
      BY <1>5, <1>7, <2>1 DEF Written
    <3>2. <<>> \o ms = ms
      BY ConcatEmptySeq
    <3> QED
      BY <1>5, <1>7, <3>1, <3>2
  <2>2. CASE ~x.connected
    <3>1. y.out = <<>> /\ <<>> \o <<>> = <<>> /\ Len(<<>>) = 0
      BY <1>5, <1>7, <2>2, ConcatEmptySeq DEF Written
    <3>2. InOrderOK(y, <<>>)
      BY <3>1 DEF InOrderOK
    <3> QED
      BY <1>4, <1>7, <2>2, <3>1, <3>2
  <2> QED
    BY <2>1, <2>2
<1>9. x.status = 0 /\ x.pc # "idle" /\ x.pc # "over" /\ y.pc # "idle"
  BY <1>1, <1>2, <1>4 DEF ExchangeOK, PhasesOK
<1> QED
  BY <1>2, <1>3, <1>4, <1>8, <1>9, ServedInPlace DEF x, got

LEMMA StreamServes ==
  ASSUME McpInv, NEW k \in Post, Wait(k) \/ CloseStream(k) \/ (\E i \in post[k].owed : Track(k, i)),
         UNCHANGED clientVars
  PROVE  Served(k)
<1> DEFINE x == post[k]
           waited == [x EXCEPT !.done = {i \in x.open : x.taken[i] < Len(x.put[i])}]
           tracked == [x EXCEPT !.owed = {}]
           closed == [x EXCEPT !.pc = "over"]
<1>1. /\ x \in Exchange /\ ExchangeOK(x) /\ ServerTypeOK /\ x.pc = "streaming"
  BY Types DEF Wait, CloseStream, Track
<1>2. post \in [Post -> Exchange]
  BY <1>1 DEF ServerTypeOK
<1>3. \E y : /\ post' = [post EXCEPT ![k] = y]
             /\ \/ y = waited
                \/ y = tracked
                \/ y = closed /\ x.open = {} /\ x.owed = {}
  <2>1. CASE Wait(k)
    <3>1. post' = [post EXCEPT ![k] = waited]
      BY <1>2, <2>1 DEF Wait
    <3> QED
      BY <3>1
  <2>2. CASE CloseStream(k)
    <3>1. post' = [post EXCEPT ![k] = closed] /\ x.open = {} /\ x.owed = {}
      BY <1>2, <2>2 DEF CloseStream
    <3> QED
      BY <3>1
  <2>3. CASE \E i \in post[k].owed : Track(k, i)
    <3>1. post' = [post EXCEPT ![k] = tracked]
      BY <1>2, <2>3 DEF Track
    <3> QED
      BY <3>1
  <2> QED
    BY <2>1, <2>2, <2>3
<1>4. PICK y : /\ post' = [post EXCEPT ![k] = y]
               /\ \/ y = waited
                  \/ y = tracked
                  \/ y = closed /\ x.open = {} /\ x.owed = {}
  BY <1>3
<1>5. audit' \in [Session -> [RequestId -> Status]] /\ tenantOf' = tenantOf
  <2>1. CASE Wait(k) \/ CloseStream(k)
    BY <1>1, <2>1 DEF Wait, CloseStream, ServerTypeOK
  <2>2. ASSUME NEW i \in x.owed, Track(k, i)
        PROVE  audit' \in [Session -> [RequestId -> Status]] /\ tenantOf' = tenantOf
    <3> DEFINE item == x.put[i][x.taken[i]]
               records == track_response(audit[x.session], x.body[i].id, item)
    <3>1. i \in Requests(x) /\ Complete(x, i)
      BY <1>1 DEF ExchangeOK, PhasesOK
    <3>2. item \in Final
      BY <3>1 DEF Complete
    <3>3. x.session \in Session \cup {NoSession}
      BY <1>1, FieldTypes DEF Typed
    <3>4. x.body[i] \in Request
      BY <1>1, <3>1, Shape DEF ExchangeOK
    <3>5. x.body[i].id \in RequestId
      BY <3>4 DEF Request
    <3>6. x.session # NoSession => audit[x.session] \in [RequestId -> Status]
      BY <1>1, <3>3 DEF ServerTypeOK
    <3>7. x.session # NoSession => records \in [RequestId -> Status]
      BY <3>2, <3>5, <3>6, RecordTypes
    <3>8. audit' = Entered(x.session, records) /\ tenantOf' = tenantOf
      BY <2>2 DEF Track
    <3> HIDE DEF records, x
    <3> QED
      BY <1>1, <3>3, <3>7, <3>8, EntryTypes
  <2> QED
    BY <2>1, <2>2
<1> HIDE DEF x
<1>6. /\ y \in Exchange /\ ExchangeOK(y)
      /\ y.body = x.body /\ y.tenant = x.tenant /\ y.connected = x.connected
      /\ y.session = x.session /\ y.put = x.put /\ y.status = x.status
      /\ y.taken = x.taken /\ y.out = x.out /\ y.pc \in {"streaming", "over"}
  BY <1>1, <1>4, StreamOK
<1>7. /\ InOrderOK(y, reader[k].got \o y.out)
      /\ y.connected => SaidAll(y, reader[k].got \o y.out)
  BY <1>6, StillSaid DEF x
<1> QED
  BY <1>1, <1>4, <1>5, <1>6, <1>7, ServedInPlace DEF x

LEMMA YieldServes ==
  ASSUME McpInv, NEW k \in Post, NEW i \in post[k].done, Yield(k, i), UNCHANGED clientVars
  PROVE  Served(k)
<1> DEFINE x == post[k]  y == AfterYield(x, i)  got == reader[k].got  m == NextItem(x, i)
<1>1. /\ x \in Exchange /\ ExchangeOK(x) /\ ServerTypeOK /\ got \in Seq(Message)
      /\ x.out \in Seq(Message) /\ got \o x.out \in Seq(Message)
      /\ InOrderOK(x, got \o x.out) /\ (x.connected => SaidAll(x, got \o x.out))
  BY Types DEF Said
<1>2. /\ post' = [post EXCEPT ![k] = y] /\ x.pc = "streaming" /\ i \in x.done /\ x.owed = {}
      /\ audit' \in [Session -> [RequestId -> Status]] /\ tenantOf' = tenantOf
  BY <1>1 DEF Yield, ServerTypeOK
<1> HIDE DEF y, x, got, m
<1>3. /\ y \in Exchange /\ ExchangeOK(y)
      /\ y.body = x.body /\ y.tenant = x.tenant /\ y.connected = x.connected
      /\ y.session = x.session /\ y.put = x.put /\ y.pc = x.pc /\ y.status = x.status
      /\ i \in Requests(x) /\ x.taken[i] < Len(x.put[i]) /\ m \in Message
      /\ y.taken = Taken(x, i) /\ y.out = Written(x, <<m>>)
  BY <1>1, <1>2, YieldedOK DEF y, m
<1> DEFINE said == got \o x.out
<1> HIDE DEF said
<1>4. /\ InOrderOK(y, said)
      /\ SaidAll(x, said) => InOrderOK(y, Append(said, m)) /\ SaidAll(y, Append(said, m))
  BY <1>1, <1>3, SaidMore DEF ExchangeOK, m, said
<1>5. InOrderOK(y, got \o y.out) /\ (y.connected => SaidAll(y, got \o y.out))
  <2>1. CASE x.connected
    <3>1. y.out = x.out \o <<m>>
      BY <1>3, <2>1 DEF Written
    <3>2. got \o y.out = Append(said, m)
      <4>1. got \in Seq(Message) /\ x.out \in Seq(Message) /\ m \in Message
        BY <1>1, <1>3
      <4>2. got \o (x.out \o <<m>>) = Append(got \o x.out, m)
        BY <4>1, OneMore, Zenon
      <4> QED
        BY <3>1, <4>2 DEF said
    <3> QED
      BY <1>1, <1>4, <2>1, <3>2 DEF said
  <2>2. CASE ~x.connected
    <3>1. y.out = x.out
      BY <1>3, <2>2 DEF Written
    <3> QED
      BY <1>3, <1>4, <2>2, <3>1 DEF said
  <2> QED
    BY <2>1, <2>2
<1> QED
  BY <1>2, <1>3, <1>5, ServedInPlace DEF x, got

LEMMA CancelServes ==
  ASSUME McpInv, NEW k \in Post, Cancel(k), UNCHANGED clientVars
  PROVE  Served(k)
<1> DEFINE x == post[k]  y == Ended(x)
<1>1. x \in Exchange /\ ExchangeOK(x) /\ ServerTypeOK
  BY Types
<1>2. /\ post' = [post EXCEPT ![k] = y] /\ x.pc = "streaming" /\ ~x.connected
      /\ audit' \in [Session -> [RequestId -> Status]] /\ tenantOf' = tenantOf
  BY <1>1 DEF Cancel, ServerTypeOK
<1> HIDE DEF x
<1>3. /\ y = [f \in DOMAIN x |-> y[f]]
      /\ y.body = x.body /\ y.tenant = x.tenant /\ y.session = x.session /\ y.put = x.put
      /\ y.status = x.status /\ y.taken = x.taken /\ y.tasks = x.tasks /\ y.out = x.out
      /\ y.pc = "over" /\ y.open = {} /\ y.done = {} /\ y.owed = {}
      /\ y.connected = x.connected
  BY <1>1 DEF Ended, Exchange
<1> HIDE DEF y
<1>4. y.connected = FALSE /\ x.connected = FALSE
  BY <1>1, <1>2, <1>3, FieldTypes DEF Typed
<1>5. y \in Exchange /\ ExchangeOK(y)
  BY <1>1, <1>2, <1>3, <1>4, CutOK
<1>6. /\ InOrderOK(y, reader[k].got \o y.out)
      /\ y.connected => SaidAll(y, reader[k].got \o y.out)
  BY <1>3, <1>5, StillSaid DEF x
<1> QED
  BY <1>2, <1>3, <1>5, <1>6, ServedInPlace DEF x

LEMMA ServiceServes ==
  ASSUME McpInv, NEW k \in Post, Service(k) \/ (Broadcast(k) /\ UNCHANGED clientVars)
  PROVE  Served(k)
<1>1. CASE ReceiveFrom(k)
  BY <1>1, ReceiveServes DEF ReceiveFrom
<1>2. CASE Handle(k) /\ UNCHANGED clientVars
  BY <1>2, DispatchServes, ProduceServes DEF Handle
<1>3. CASE Serve(k) /\ UNCHANGED clientVars
  BY <1>3, RespondServes, StreamServes, YieldServes, CancelServes DEF Serve
<1>4. CASE Broadcast(k) /\ UNCHANGED clientVars
  BY <1>4, ProduceServes DEF Broadcast, Item
<1> QED
  BY <1>1, <1>2, <1>3, <1>4 DEF Service

\* Of a client only the session that its initialize was given is new.
LEMMA ServedInv ==
  ASSUME McpInv, NEW k \in Post, Served(k)
  PROVE  McpInv'
<1>1. UNCHANGED <<phase, sid, lastId, log, reader>>
  BY DEF Served, clientVars
<1>2. \A l \in Post : post'[l].body = post[l].body /\ post'[l].tenant = post[l].tenant
  BY DEF Served
<1>3. McpTypeOK' /\ ExchangesOK' /\ SaidOK'
  <2>1. McpTypeOK'
    BY <1>1 DEF Served, McpInv, McpTypeOK
  <2>2. ExchangesOK'
    BY DEF Served, McpInv, ExchangesOK
  <2>3. SaidOK'
    <3>1. \A l \in Post \ {k} : post'[l] = post[l] /\ Said(l)' = Said(l)
      BY <1>1 DEF Served, Said
    <3> QED
      BY <3>1 DEF Served, McpInv, SaidOK
  <2> QED
    BY <2>1, <2>2, <2>3
<1>4. ReadersOK'
  BY <1>1 DEF Served, McpInv, ReadersOK
<1>5. LivesOK'
  BY <1>1, <1>2 DEF McpInv, LivesOK, ReadFor
<1>9. \A l \in Post : Requests(post'[l]) = Requests(post[l])
  BY <1>2 DEF Requests
<1>6. IdsOK'
  BY <1>1, <1>2, <1>9 DEF McpInv, IdsOK
<1>7. LogOK'
  <2>1. \A l \in Post : \A i, j : Given(l, i, j)' <=> Given(l, i, j)
    BY <1>1 DEF Given
  <2> QED
    BY <1>1, <1>2, <1>9, <2>1, SMTT(30) DEF McpInv, LogOK
<1>8. SessionsOK'
  <2>1. SessionsOK
    BY DEF McpInv
  <2>2. \A l \in Post :
          /\ post'[l].pc # "idle" => post'[l].tenant \in Tenant
          /\ reader'[l].by # Nobody => post'[l].tenant = TokenOf[reader'[l].by]
    BY <1>1, <1>2, <2>1 DEF SessionsOK, Served
  <2>3. CASE /\ tenantOf' = tenantOf
             /\ post'[k].session \in {post[k].session, NoSession}
             /\ post'[k].pc \in {"dispatching", "streaming"} /\ post'[k].session # NoSession =>
                  tenantOf[post'[k].session] = post'[k].tenant
    <3>1. \A c \in Client, s \in Session : Claims(c, s)' => Claims(c, s)
      BY <1>1, <2>3, McpServerAssumption DEF Claims, Served
    <3>2. SessionServesItsTenant'
      BY <2>1, <2>3 DEF SessionsOK, SessionServesItsTenant, Served
    <3> QED
      BY <2>1, <2>2, <2>3, <3>1, <3>2 DEF SessionsOK
  <2>4. CASE \E s \in Fresh : post'[k].session = s /\ tenantOf' = [tenantOf EXCEPT ![s] = post[k].tenant]
    <3>1. PICK f \in Fresh : post'[k].session = f /\ tenantOf' = [tenantOf EXCEPT ![f] = post[k].tenant]
      BY <2>4
    <3>2. f \in Session /\ tenantOf[f] = Unissued /\ tenantOf \in [Session -> Tenant \cup {Unissued, Lost}]
      BY DEF Fresh, McpInv, McpTypeOK, ServerTypeOK
    <3>3. \A s \in Session : s # f => tenantOf'[s] = tenantOf[s]
      BY <3>1, <3>2
    <3>4. tenantOf'[f] = post[k].tenant
      BY <3>1, <3>2
    <3>5. \A c \in Client : TokenOf[c] # Unissued /\ Lost # Unissued
      BY McpServerAssumption, McpClientAssumption
    <3>6. \A c \in Client : ~Claims(c, f)
      BY <2>1, <3>2, <3>5 DEF SessionsOK
    <3>7. ASSUME NEW c \in Client, NEW s \in Session, Claims(c, s)'
          PROVE  Claims(c, s) \/ (s = f /\ reader[k].by = c)
      BY <1>1, <3>1, <3>7 DEF Claims, Served
    <3>8. ASSUME NEW c \in Client, NEW s \in Session, Claims(c, s)'
          PROVE  tenantOf'[s] \in {TokenOf[c], Lost} /\ \A d \in Client : Claims(d, s)' => d = c
      <4>1. CASE s = f
        <5>1. reader[k].by = c /\ \A d \in Client : Claims(d, s)' => reader[k].by = d
          BY <3>6, <3>7, <3>8, <4>1
        <5>2. reader[k].by # Nobody
          BY <5>1, McpClientAssumption
        <5>3. post[k].tenant = TokenOf[c]
          BY <2>1, <5>1, <5>2 DEF SessionsOK
        <5> QED
          BY <3>4, <4>1, <5>1, <5>3
      <4>2. CASE s # f
        <5>1. Claims(c, s) /\ \A d \in Client : Claims(d, s)' => Claims(d, s)
          BY <3>7, <3>8, <4>2
        <5> QED
          BY <2>1, <3>3, <4>2, <5>1 DEF SessionsOK
      <4> QED
        BY <4>1, <4>2
    <3>9. SessionServesItsTenant'
      <4> SUFFICES ASSUME NEW l \in Post, post'[l].pc \in {"dispatching", "streaming"},
                          post'[l].session # NoSession
                   PROVE  tenantOf'[post'[l].session] = post'[l].tenant
        BY DEF SessionServesItsTenant
      <4>1. CASE l = k
        BY <1>2, <3>1, <3>4, <4>1
      <4>2. CASE l # k
        <5>1. post'[l] = post[l] /\ tenantOf[post[l].session] = post[l].tenant
          BY <2>1, <4>2 DEF Served, SessionsOK, SessionServesItsTenant
        <5>2. post[l].tenant \in Tenant
          BY <2>1, <5>1 DEF SessionsOK
        <5>3. post[l].session \in Session /\ post[l].session # f
          <6>1. post[l] \in Exchange
            BY Types
          <6> QED
            BY <3>2, <5>1, <5>2, <6>1, FieldTypes, McpServerAssumption DEF Typed
        <5> QED
          BY <3>3, <5>1, <5>3
      <4> QED
        BY <4>1, <4>2
    <3> QED
      BY <2>2, <3>8, <3>9 DEF SessionsOK
  <2> QED
    BY <2>3, <2>4 DEF Served
<1> QED
  BY <1>3, <1>4, <1>5, <1>6, <1>7, <1>8 DEF McpInv

-----------------------------------------------------------------------------
(* Connections that fail, readers that give up, clients that close, and a    *)
(* server that restarts                                                      *)

\* What these may do to an exchange, to its reader and to a client.
CutShort(x, y) ==
  /\ y = [f \in DOMAIN x |-> y[f]]
  /\ y.body = x.body /\ y.tenant = x.tenant /\ y.session = x.session /\ y.put = x.put
  /\ y.status = x.status /\ y.taken = x.taken /\ y.tasks \subseteq x.tasks
  /\ y.out = x.out \/ (y.out = <<>> /\ y.connected = FALSE)
  /\ \/ /\ y.pc = x.pc /\ y.open = x.open /\ y.done = x.done /\ y.owed = x.owed
        /\ y.connected \in {x.connected, FALSE}
     \/ /\ x.pc \notin {"idle", "over"}
        /\ y.pc = "over" /\ y.open = {} /\ y.done = {} /\ y.owed = {} /\ y.connected = FALSE

ReaderCut(k) ==
  /\ reader'[k].by = reader[k].by /\ reader'[k].got = reader[k].got
  /\ \/ reader'[k].at = reader[k].at
     \/ reader[k].at \in Reading /\ reader'[k].at = "failed"
  /\ reader[k].at = "done" => post'[k].connected = post[k].connected

ClientCut(c) ==
  \/ phase'[c] = phase[c] /\ log'[c] = log[c]
  \/ /\ phase[c] \in {"starting", "notifying"} /\ phase'[c] = "failed" /\ log'[c] = log[c]
     /\ \E k \in Post : ReadFor(c, k) /\ reader'[k].at = "failed"
  \/ /\ phase[c] = "ready" /\ phase'[c] = "closed"
     /\ \A k \in Post : reader[k].by = c => reader'[k].at \notin Reading

Cut ==
  /\ McpTypeOK' /\ UNCHANGED <<sid, lastId>>
  /\ \A k \in Post : CutShort(post[k], post'[k]) /\ ReaderCut(k)
  /\ \A c \in Client : ClientCut(c)
  /\ \A s \in Session : tenantOf'[s] \in {tenantOf[s], Lost}
  /\ tenantOf' = tenantOf \/ \A k \in Post : post'[k].pc \notin {"dispatching", "streaming"}

LEMMA CutSaid ==
  ASSUME McpInv, Cut
  PROVE  ExchangesOK' /\ SaidOK'
<1> SUFFICES ASSUME NEW k \in Post
             PROVE  /\ ExchangeOK(post'[k]) /\ InOrderOK(post'[k], Said(k)')
                    /\ post'[k].connected => SaidAll(post'[k], Said(k)')
  BY DEF ExchangesOK, SaidOK
<1> DEFINE x == post[k]  got == reader[k].got
<1>1. /\ x \in Exchange /\ ExchangeOK(x) /\ got \in Seq(Message) /\ x.out \in Seq(Message)
      /\ InOrderOK(x, got \o x.out) /\ (x.connected => SaidAll(x, got \o x.out))
  BY Types DEF Said
<1>2. PICK y : y = post'[k]
  OBVIOUS
<1>3. CutShort(x, y) /\ Said(k)' = got \o y.out
  BY <1>2 DEF Cut, ReaderCut, Said
<1> HIDE DEF x, got
<1>4. y \in Exchange /\ ExchangeOK(y)
  <2>1. y.out \in {x.out, <<>>}
    BY <1>3 DEF CutShort
  <2> QED
    BY <1>1, <1>3, <2>1, CutOK DEF CutShort
<1>5. y.connected => x.connected
  BY <1>1, <1>3, FieldTypes DEF CutShort, Typed
<1>6. CASE y.out = x.out
  <2> DEFINE said == got \o x.out
  <2> HIDE DEF said
  <2>1. InOrderOK(x, said) /\ y.body = x.body /\ y.taken = x.taken /\ y.put = x.put
    BY <1>1, <1>3 DEF CutShort, said
  <2>2. InOrderOK(y, said) /\ (SaidAll(x, said) => SaidAll(y, said))
    BY <2>1, SaidStays
  <2> QED
    BY <1>1, <1>2, <1>3, <1>4, <1>5, <1>6, <2>2 DEF said
<1>7. CASE y.out = <<>> /\ y.connected = FALSE
  <2>1. InOrderOK(x, got)
    BY <1>1, SaidCut
  <2>2. InOrderOK(y, got)
    <3>1. y.body = x.body /\ y.taken = x.taken /\ y.put = x.put
      BY <1>3 DEF CutShort
    <3> QED
      BY <2>1, <3>1, SaidStays
  <2>3. got \o <<>> = got
    BY <1>1, ConcatEmptySeq
  <2> QED
    BY <1>2, <1>3, <1>4, <1>7, <2>2, <2>3
<1> QED
  BY <1>3, <1>6, <1>7 DEF CutShort

LEMMA CutInv ==
  ASSUME McpInv, Cut
  PROVE  McpInv'
<1>1. UNCHANGED <<sid, lastId>> /\ McpTypeOK'
  BY DEF Cut
<1>2. \A k \in Post :
        /\ post'[k].body = post[k].body /\ post'[k].tenant = post[k].tenant
        /\ post'[k].session = post[k].session /\ post'[k].status = post[k].status
        /\ Requests(post'[k]) = Requests(post[k])
        /\ post'[k].pc = post[k].pc \/ (post'[k].pc = "over" /\ post[k].pc # "idle")
  BY DEF Cut, CutShort, Requests
<1>3. \A k \in Post :
        /\ reader'[k].by = reader[k].by /\ reader'[k].got = reader[k].got
        /\ reader'[k].at = reader[k].at \/ (reader[k].at \in Reading /\ reader'[k].at = "failed")
  BY DEF Cut, ReaderCut
<1>4. ExchangesOK' /\ SaidOK'
  BY CutSaid
<1>5. ReadersOK'
  <2> SUFFICES ASSUME NEW k \in Post
               PROVE  /\ reader'[k].by = Nobody <=> reader'[k].at = "none"
                      /\ reader'[k].at = "body" => post'[k].status = 200
                      /\ reader'[k].at = "done" =>
                           \/ post'[k].status = 202
                           \/ post'[k].status = 200 /\ post'[k].pc = "over" /\ post'[k].connected
    BY DEF ReadersOK
  <2>1. reader[k].at = "done" => post'[k].connected = post[k].connected
    BY DEF Cut, ReaderCut
  <2>2. /\ reader[k].by = Nobody <=> reader[k].at = "none"
        /\ reader[k].at = "body" => post[k].status = 200
        /\ reader[k].at = "done" =>
             \/ post[k].status = 202
             \/ post[k].status = 200 /\ post[k].pc = "over" /\ post[k].connected
    BY DEF McpInv, ReadersOK
  <2> QED
    BY <1>2, <1>3, <2>1, <2>2 DEF Reading
<1>6. LivesOK'
  <2> SUFFICES ASSUME NEW c \in Client
               PROVE  /\ phase'[c] \in {"new", "failed", "closed"} =>
                           \A k \in Post : ~ReadFor(c, k)'
                      /\ phase'[c] = "new" => sid'[c] = NoSession /\ \A k \in Post : reader'[k].by # c
                      /\ phase'[c] = "starting" =>
                           \A k \in Post : reader'[k].by = c =>
                             /\ Len(post'[k].body) = 1 /\ post'[k].body[1].method = "initialize"
                             /\ \A l \in Post : reader'[l].by = c => l = k
                             /\ reader'[k].at \in {"body", "done"} => sid'[c] # NoSession
                      /\ phase'[c] = "notifying" =>
                           \A k, l \in Post : ReadFor(c, k)' /\ ReadFor(c, l)' => k = l
                      /\ phase'[c] \in {"notifying", "ready", "closed"} => sid'[c] # NoSession
    BY DEF LivesOK
  <2>1. \A k \in Post : ReadFor(c, k)' => ReadFor(c, k) /\ reader'[k].at = reader[k].at
    BY <1>3 DEF ReadFor, Reading
  <2>2. CASE phase'[c] = phase[c]
    BY <1>1, <1>2, <1>3, <2>1, <2>2 DEF McpInv, LivesOK
  <2>3. CASE /\ phase[c] \in {"starting", "notifying"} /\ phase'[c] = "failed"
             /\ \E k \in Post : ReadFor(c, k) /\ reader'[k].at = "failed"
    <3>1. PICK k \in Post : ReadFor(c, k) /\ reader'[k].at = "failed"
      BY <2>3
    <3>2. \A l \in Post : ReadFor(c, l) => l = k
      BY <2>3, <3>1 DEF McpInv, LivesOK, ReadFor
    <3>3. ~ReadFor(c, k)'
      BY <3>1 DEF ReadFor, Reading
    <3> QED
      BY <2>1, <2>3, <3>2, <3>3
  <2>4. CASE /\ phase[c] = "ready" /\ phase'[c] = "closed"
             /\ \A k \in Post : reader[k].by = c => reader'[k].at \notin Reading
    <3>1. \A k \in Post : ~ReadFor(c, k)'
      BY <1>3, <2>4 DEF ReadFor
    <3>2. sid'[c] # NoSession
      BY <1>1, <2>4 DEF McpInv, LivesOK
    <3> QED
      BY <2>4, <3>1, <3>2
  <2> QED
    BY <2>2, <2>3, <2>4 DEF Cut, ClientCut
<1>7. IdsOK'
  BY <1>1, <1>2, <1>3 DEF McpInv, IdsOK
<1>8. LogOK'
  <2> SUFFICES ASSUME NEW k \in Post, reader'[k].by # Nobody, phase'[reader'[k].by] # "closed",
                      NEW i \in Requests(post'[k])
               PROVE  LET entry == log'[reader'[k].by][post'[k].body[i].id] IN
                      /\ \A j \in 1 .. Len(reader'[k].got) :
                           Given(k, i, j)' => entry = reader'[k].got[j].item
                      /\ (\A j \in 1 .. Len(reader'[k].got) : ~Given(k, i, j)') => entry = "pending"
    BY DEF LogOK
  <2>1. reader[k].by \in Client
    BY <1>3 DEF McpInv, McpTypeOK
  <2>2. log'[reader[k].by] = log[reader[k].by] /\ phase[reader[k].by] # "closed"
    BY <1>3, <2>1 DEF Cut, ClientCut
  <2>3. \A j : Given(k, i, j)' <=> Given(k, i, j)
    BY <1>3 DEF Given
  <2>4. LET entry == log[reader[k].by][post[k].body[i].id] IN
        /\ \A j \in 1 .. Len(reader[k].got) : Given(k, i, j) => entry = reader[k].got[j].item
        /\ (\A j \in 1 .. Len(reader[k].got) : ~Given(k, i, j)) => entry = "pending"
    BY <1>2, <1>3, <2>2 DEF McpInv, LogOK
  <2> QED
    BY <1>2, <1>3, <2>2, <2>3, <2>4
<1>9. SessionsOK'
  <2>1. SessionsOK
    BY DEF McpInv
  <2>2. \A k \in Post :
          /\ post'[k].pc # "idle" => post'[k].tenant \in Tenant
          /\ reader'[k].by # Nobody => post'[k].tenant = TokenOf[reader'[k].by]
    BY <1>2, <1>3, <2>1 DEF SessionsOK
  <2>3. \A c \in Client, s \in Session : Claims(c, s)' <=> Claims(c, s)
    BY <1>1, <1>2, <1>3 DEF Claims
  <2>4. \A c \in Client, s \in Session :
          Claims(c, s)' => /\ tenantOf'[s] \in {TokenOf[c], Lost}
                           /\ \A d \in Client : Claims(d, s)' => d = c
    BY <2>1, <2>3 DEF Cut, SessionsOK
  <2>5. SessionServesItsTenant'
    BY <1>2, <2>1 DEF Cut, SessionsOK, SessionServesItsTenant
  <2> QED
    BY <2>2, <2>4, <2>5 DEF SessionsOK
<1> QED
  BY <1>1, <1>4, <1>5, <1>6, <1>7, <1>8, <1>9 DEF McpInv

\* An exchange that a step leaves as it is.
LEMMA Uncut ==
  ASSUME NEW x \in Exchange
  PROVE  CutShort(x, x)
<1>1. x = [f \in DOMAIN x |-> x[f]]
  BY DEF Exchange
<1> QED
  BY <1>1 DEF CutShort

\* The connection of an exchange is gone.
LEMMA Disconnected ==
  ASSUME NEW x \in Exchange
  PROVE  /\ [x EXCEPT !.connected = FALSE, !.out = <<>>] \in Exchange
         /\ CutShort(x, [x EXCEPT !.connected = FALSE, !.out = <<>>])
<1> DEFINE y == [x EXCEPT !.connected = FALSE, !.out = <<>>]
<1>1. y = [f \in DOMAIN x |-> y[f]]
  OBVIOUS
<1>2. /\ y.body = x.body /\ y.tenant = x.tenant /\ y.session = x.session /\ y.put = x.put
      /\ y.status = x.status /\ y.taken = x.taken /\ y.tasks = x.tasks
      /\ y.out = <<>> /\ y.connected = FALSE
      /\ y.pc = x.pc /\ y.open = x.open /\ y.done = x.done /\ y.owed = x.owed
  BY DEF Exchange
<1> HIDE DEF y
<1>3. Typed(y)
  <2>1. <<>> \in Seq(Message) /\ Typed(x)
    BY FieldTypes
  <2>2. y.out \in Seq(Message) /\ y.connected \in BOOLEAN
    BY <1>2, <2>1
  <2>3. y.tasks \in SUBSET Nat /\ y.open \in SUBSET Nat /\ y.done \in SUBSET Nat /\ y.owed \in SUBSET Nat
    BY <1>2, <2>1 DEF Typed
  <2> QED
    BY <1>2, <2>1, <2>2, <2>3 DEF Typed
<1>4. y \in Exchange
  BY <1>1, <1>3, ByFields
<1>5. CutShort(x, y)
  BY <1>1, <1>2 DEF CutShort
<1> QED
  BY <1>4, <1>5 DEF y

\* The parts of the type invariant.
LEMMA TypeParts ==
  ASSUME McpTypeOK
  PROVE  /\ ServerTypeOK /\ post \in [Post -> Exchange]
         /\ DOMAIN reader = Post /\ DOMAIN phase = Client /\ DOMAIN log = Client /\ DOMAIN sid = Client
         /\ \A k \in Post :
              /\ reader[k] \in [by : Client \cup {Nobody}, at : Reading \cup {"none", "done", "failed"},
                                got : Seq(Message)]
              /\ reader[k].by \in Client \cup {Nobody} /\ reader[k].got \in Seq(Message)
              /\ reader[k].at \in Reading \cup {"none", "done", "failed"}
BY DEF McpTypeOK, ServerTypeOK

LEMMA DisconnectInv ==
  ASSUME McpInv, NEW k \in Post, Disconnect(k)
  PROVE  McpInv'
<1>1. McpTypeOK /\ post \in [Post -> Exchange]
  BY TypeParts DEF McpInv
<1>2. UNCHANGED <<tenantOf, audit, phase, sid, lastId, log, reader>>
  BY DEF Disconnect, clientVars
<1>3. /\ post'[k] = [post[k] EXCEPT !.connected = FALSE, !.out = <<>>]
      /\ \A l \in Post \ {k} : post'[l] = post[l]
      /\ DOMAIN post' = Post /\ post' = [l \in Post |-> post'[l]]
      /\ reader[k].at # "done"
  BY <1>1 DEF Disconnect, Reading
<1>4. \A l \in Post : post'[l] \in Exchange /\ CutShort(post[l], post'[l])
  <2> SUFFICES ASSUME NEW l \in Post PROVE post'[l] \in Exchange /\ CutShort(post[l], post'[l])
    OBVIOUS
  <2>1. post[l] \in Exchange
    BY <1>1
  <2>2. CASE l = k
    BY <1>3, <2>1, <2>2, Disconnected
  <2>3. CASE l # k
    BY <1>3, <2>1, <2>3, Uncut
  <2> QED
    BY <2>2, <2>3
<1>5. McpTypeOK'
  <2>1. post' \in [Post -> Exchange]
    BY <1>3, <1>4
  <2> QED
    BY <1>1, <1>2, <2>1 DEF McpTypeOK, ServerTypeOK
<1>6. \A l \in Post : ReaderCut(l)
  BY <1>2, <1>3 DEF ReaderCut
<1>7. \A c \in Client : ClientCut(c)
  BY <1>2 DEF ClientCut
<1>8. Cut
  BY <1>2, <1>4, <1>5, <1>6, <1>7 DEF Cut
<1> QED
  BY <1>8, CutInv

LEMMA FailsInv ==
  ASSUME McpInv, NEW k \in Post, Fails(k), reader[k].at \in Reading
  PROVE  McpInv'
<1> DEFINE c == reader[k].by
<1>1. McpTypeOK /\ post \in [Post -> Exchange]
  BY TypeParts DEF McpInv
<1>2. UNCHANGED <<tenantOf, audit, sid, lastId, log>>
  BY DEF Fails
<1>3. /\ post'[k] = [post[k] EXCEPT !.connected = FALSE, !.out = <<>>]
      /\ \A l \in Post \ {k} : post'[l] = post[l]
      /\ post' = [l \in Post |-> post'[l]]
  BY <1>1 DEF Fails
<1>4. \A l \in Post : post'[l] \in Exchange /\ CutShort(post[l], post'[l])
  <2> SUFFICES ASSUME NEW l \in Post PROVE post'[l] \in Exchange /\ CutShort(post[l], post'[l])
    OBVIOUS
  <2>1. post[l] \in Exchange
    BY <1>1
  <2>2. CASE l = k
    BY <1>3, <2>1, <2>2, Disconnected
  <2>3. CASE l # k
    BY <1>3, <2>1, <2>3, Uncut
  <2> QED
    BY <2>2, <2>3
<1>5. /\ DOMAIN reader = Post /\ DOMAIN phase = Client
      /\ reader[k] \in [by : Client \cup {Nobody}, at : Reading \cup {"none", "done", "failed"},
                        got : Seq(Message)]
  BY <1>1, TypeParts
<1>6. /\ reader'[k].by = reader[k].by /\ reader'[k].got = reader[k].got /\ reader'[k].at = "failed"
      /\ \A l \in Post \ {k} : reader'[l] = reader[l]
  BY <1>5 DEF Fails
<1>7. c \in Client
  BY <1>5 DEF McpInv, ReadersOK, Reading
<1>8. /\ phase'[c] = IF phase[c] \in {"starting", "notifying"} THEN "failed" ELSE phase[c]
      /\ \A d \in Client \ {c} : phase'[d] = phase[d]
  BY <1>5, <1>7 DEF Fails
<1>9. McpTypeOK'
  <2>1. post' \in [Post -> Exchange]
    BY <1>3, <1>4
  <2>2. phase' \in [Client -> {"new", "starting", "notifying", "ready", "failed", "closed"}]
    BY <1>1, <1>7 DEF McpTypeOK, Fails
  <2>3. reader' \in [Post -> [by : Client \cup {Nobody}, at : Reading \cup {"none", "done", "failed"},
                              got : Seq(Message)]]
    BY <1>1 DEF McpTypeOK, Fails
  <2> QED
    BY <1>1, <1>2, <2>1, <2>2, <2>3 DEF McpTypeOK, ServerTypeOK
<1>10. \A l \in Post : ReaderCut(l)
  <2> SUFFICES ASSUME NEW l \in Post PROVE ReaderCut(l)
    OBVIOUS
  <2>1. CASE l = k
    BY <1>6, <2>1 DEF ReaderCut, Reading
  <2>2. CASE l # k
    BY <1>3, <1>6, <2>2 DEF ReaderCut
  <2> QED
    BY <2>1, <2>2
<1>11. \A d \in Client : ClientCut(d)
  <2>1. ReadFor(c, k) /\ reader'[k].at = "failed"
    BY <1>6 DEF ReadFor
  <2> QED
    BY <1>2, <1>8, <2>1 DEF ClientCut
<1>12. Cut
  BY <1>2, <1>4, <1>9, <1>10, <1>11 DEF Cut
<1> QED
  BY <1>12, CutInv

LEMMA CloseInv ==
  ASSUME McpInv, NEW c \in Client, Close(c)
  PROVE  McpInv'
<1> DEFINE mine == {k \in Post : reader[k].by = c /\ reader[k].at \in Reading}
<1>1. McpTypeOK /\ post \in [Post -> Exchange]
  BY TypeParts DEF McpInv
<1>2. UNCHANGED <<tenantOf, audit, sid, lastId>> /\ phase[c] = "ready"
  BY DEF Close
<1>3. /\ \A k \in mine : post'[k] = [post[k] EXCEPT !.connected = FALSE, !.out = <<>>]
      /\ \A k \in Post \ mine : post'[k] = post[k]
      /\ post' = [k \in Post |-> post'[k]]
  BY DEF Close
<1>4. /\ \A k \in mine : reader'[k] = [reader[k] EXCEPT !.at = "failed"]
      /\ \A k \in Post \ mine : reader'[k] = reader[k]
      /\ reader' = [k \in Post |-> reader'[k]]
  BY DEF Close
<1>5. \A k \in mine : k \in Post /\ reader[k].by = c /\ reader[k].at \in Reading
  OBVIOUS
<1>6. \A k \in Post \ mine : reader[k].by = c => reader[k].at \notin Reading
  OBVIOUS
<1> HIDE DEF mine
<1>7. \A k \in Post : post'[k] \in Exchange /\ CutShort(post[k], post'[k])
  <2> SUFFICES ASSUME NEW k \in Post PROVE post'[k] \in Exchange /\ CutShort(post[k], post'[k])
    OBVIOUS
  <2>1. post[k] \in Exchange
    BY <1>1
  <2>2. CASE k \in mine
    BY <1>3, <2>1, <2>2, Disconnected
  <2>3. CASE k \notin mine
    BY <1>3, <2>1, <2>3, Uncut
  <2> QED
    BY <2>2, <2>3
<1>8. \A k \in Post :
        /\ reader[k] \in [by : Client \cup {Nobody}, at : Reading \cup {"none", "done", "failed"},
                          got : Seq(Message)]
        /\ reader'[k] \in [by : Client \cup {Nobody}, at : Reading \cup {"none", "done", "failed"},
                           got : Seq(Message)]
        /\ reader'[k].by = reader[k].by /\ reader'[k].got = reader[k].got
        /\ reader'[k].at = IF k \in mine THEN "failed" ELSE reader[k].at
  <2> SUFFICES ASSUME NEW k \in Post
               PROVE  /\ reader[k] \in [by : Client \cup {Nobody}, got : Seq(Message),
                                        at : Reading \cup {"none", "done", "failed"}]
                      /\ reader'[k] \in [by : Client \cup {Nobody}, got : Seq(Message),
                                         at : Reading \cup {"none", "done", "failed"}]
                      /\ reader'[k].by = reader[k].by /\ reader'[k].got = reader[k].got
                      /\ reader'[k].at = IF k \in mine THEN "failed" ELSE reader[k].at
    OBVIOUS
  <2>1. reader[k] \in [by : Client \cup {Nobody}, got : Seq(Message),
                       at : Reading \cup {"none", "done", "failed"}]
    BY <1>1, TypeParts
  <2>2. CASE k \in mine
    <3>1. reader'[k] = [reader[k] EXCEPT !.at = "failed"]
      BY <1>4, <2>2
    <3> QED
      BY <2>1, <2>2, <3>1
  <2>3. CASE k \notin mine
    BY <1>4, <2>1, <2>3
  <2> QED
    BY <2>2, <2>3
<1>9. /\ phase' = [phase EXCEPT ![c] = "closed"] /\ log' = [log EXCEPT ![c] = NoRecords]
      /\ NoRecords \in [RequestId -> Status]
  BY DEF Close, NoRecords, Status
<1>10. McpTypeOK'
  <2>1. post' \in [Post -> Exchange]
    BY <1>3, <1>7
  <2>2. phase' \in [Client -> {"new", "starting", "notifying", "ready", "failed", "closed"}]
    BY <1>1, <1>9 DEF McpTypeOK
  <2>3. reader' \in [Post -> [by : Client \cup {Nobody}, at : Reading \cup {"none", "done", "failed"},
                              got : Seq(Message)]]
    BY <1>4, <1>8
  <2>4. log' \in [Client -> [RequestId -> Status]]
    BY <1>1, <1>9 DEF McpTypeOK
  <2> QED
    BY <1>1, <1>2, <2>1, <2>2, <2>3, <2>4 DEF McpTypeOK, ServerTypeOK
<1>11. \A k \in Post : ReaderCut(k)
  <2> SUFFICES ASSUME NEW k \in Post PROVE ReaderCut(k)
    OBVIOUS
  <2>1. CASE k \in mine
    BY <1>5, <1>8, <2>1 DEF ReaderCut, Reading
  <2>2. CASE k \notin mine
    BY <1>3, <1>8, <2>2 DEF ReaderCut
  <2> QED
    BY <2>1, <2>2
<1>12. \A d \in Client : ClientCut(d)
  <2>1. DOMAIN phase = Client /\ DOMAIN log = Client
    BY <1>1, TypeParts
  <2>2. \A k \in Post : reader[k].by = c => reader'[k].at \notin Reading
    BY <1>6, <1>8 DEF Reading
  <2>3. phase'[c] = "closed" /\ \A d \in Client \ {c} : phase'[d] = phase[d] /\ log'[d] = log[d]
    BY <1>9, <2>1
  <2> QED
    BY <1>2, <2>2, <2>3 DEF ClientCut
<1>13. Cut
  BY <1>2, <1>7, <1>10, <1>11, <1>12 DEF Cut
<1> QED
  BY <1>13, CutInv

LEMMA RestartInv ==
  ASSUME McpInv, Restart, UNCHANGED clientVars
  PROVE  McpInv'
<1>1. McpTypeOK /\ post \in [Post -> Exchange]
  BY TypeParts DEF McpInv
<1>2. UNCHANGED <<phase, sid, lastId, log, reader>>
  BY DEF clientVars
<1>3. /\ post' = [k \in Post |-> post'[k]]
      /\ \A k \in Post :
           post'[k] = IF post[k].pc \in {"idle", "over"} THEN [post[k] EXCEPT !.tasks = {}]
                      ELSE [Ended(post[k]) EXCEPT !.tasks = {}, !.connected = FALSE, !.out = <<>>]
  BY DEF Restart
<1>4. ASSUME NEW k \in Post
      PROVE  /\ post'[k] \in Exchange /\ CutShort(post[k], post'[k])
             /\ post'[k].pc \in {"idle", "over"}
             /\ post[k].pc \in {"idle", "over"} => post'[k].connected = post[k].connected
  <2> DEFINE x == post[k]
  <2>1. x \in Exchange
    BY <1>1
  <2>2. PICK y : y = post'[k]
    OBVIOUS
  <2>3. CASE x.pc \in {"idle", "over"}
    <3>1. y = [x EXCEPT !.tasks = {}]
      BY <1>3, <2>2, <2>3
    <3> HIDE DEF x
    <3>a. y = [f \in DOMAIN x |-> y[f]]
      BY <2>1, <3>1 DEF Exchange
    <3>b. /\ y.body = x.body /\ y.tenant = x.tenant /\ y.session = x.session /\ y.put = x.put
          /\ y.status = x.status /\ y.taken = x.taken /\ y.tasks = {}
      BY <2>1, <3>1 DEF Exchange
    <3>c. /\ y.out = x.out /\ y.connected = x.connected
          /\ y.pc = x.pc /\ y.open = x.open /\ y.done = x.done /\ y.owed = x.owed
      BY <2>1, <3>1 DEF Exchange
    <3>2. /\ y = [f \in DOMAIN x |-> y[f]]
          /\ y.body = x.body /\ y.tenant = x.tenant /\ y.session = x.session /\ y.put = x.put
          /\ y.status = x.status /\ y.taken = x.taken /\ y.tasks = {}
          /\ y.out = x.out /\ y.connected = x.connected
          /\ y.pc = x.pc /\ y.open = x.open /\ y.done = x.done /\ y.owed = x.owed
      BY <3>a, <3>b, <3>c
    <3>3. Typed(y)
      <4>1. Typed(x) /\ {} \in SUBSET Nat
        BY <2>1, FieldTypes
      <4> QED
        BY <3>2, <4>1, ZenonT(40) DEF Typed
    <3>4. y \in Exchange
      BY <2>1, <3>2, <3>3, ByFields
    <3>5. CutShort(x, y)
      BY <3>2 DEF CutShort
    <3> QED
      BY <2>2, <2>3, <3>2, <3>4, <3>5 DEF x
  <2>4. CASE x.pc \notin {"idle", "over"}
    <3>1. y = [Ended(x) EXCEPT !.tasks = {}, !.connected = FALSE, !.out = <<>>]
      BY <1>3, <2>2, <2>4
    <3> HIDE DEF x
    <3>2. /\ y = [f \in DOMAIN x |-> y[f]]
          /\ y.body = x.body /\ y.tenant = x.tenant /\ y.session = x.session /\ y.put = x.put
          /\ y.status = x.status /\ y.taken = x.taken /\ y.tasks = {}
          /\ y.out = <<>> /\ y.connected = FALSE
          /\ y.pc = "over" /\ y.open = {} /\ y.done = {} /\ y.owed = {}
      BY <2>1, <3>1 DEF Exchange, Ended
    <3>3. Typed(y)
      <4>1. Typed(x) /\ {} \in SUBSET Nat /\ <<>> \in Seq(Message) /\ "over" \in Phase
        BY <2>1, FieldTypes DEF Phase
      <4>2. y.out \in Seq(Message) /\ y.connected \in BOOLEAN /\ y.pc \in Phase
        BY <3>2, <4>1
      <4>3. /\ y.tasks \in SUBSET Nat /\ y.open \in SUBSET Nat
            /\ y.done \in SUBSET Nat /\ y.owed \in SUBSET Nat
        BY <3>2, <4>1
      <4> QED
        BY <3>2, <4>1, <4>2, <4>3 DEF Typed
    <3>4. y \in Exchange
      BY <2>1, <3>2, <3>3, ByFields
    <3>5. CutShort(x, y)
      BY <2>4, <3>2 DEF CutShort
    <3> QED
      BY <2>2, <2>4, <3>2, <3>4, <3>5 DEF x
  <2> QED
    BY <2>3, <2>4
<1>5. McpTypeOK'
  <2>1. post' \in [Post -> Exchange]
    BY <1>3, <1>4
  <2>2. tenantOf' \in [Session -> Tenant \cup {Unissued, Lost}]
    BY DEF Restart
  <2>3. audit' \in [Session -> [RequestId -> Status]]
    BY DEF Restart, NoRecords, Status
  <2> QED
    BY <1>1, <1>2, <2>1, <2>2, <2>3 DEF McpTypeOK, ServerTypeOK
<1>6. \A s \in Session : tenantOf'[s] \in {tenantOf[s], Lost}
  BY DEF Restart
<1>7. \A k \in Post : ReaderCut(k)
  <2> SUFFICES ASSUME NEW k \in Post, reader[k].at = "done"
               PROVE  post'[k].connected = post[k].connected
    BY <1>2 DEF ReaderCut
  <2>1. post[k].status = 202 \/ post[k].pc = "over"
    BY DEF McpInv, ReadersOK
  <2>2. PhasesOK(post[k])
    BY DEF McpInv, ExchangesOK, ExchangeOK
  <2>3. post[k].pc = "over"
    BY <2>1, <2>2 DEF PhasesOK
  <2> QED
    BY <1>4, <2>3
<1>8. \A c \in Client : ClientCut(c)
  BY <1>2 DEF ClientCut
<1>9. Cut
  BY <1>2, <1>4, <1>5, <1>6, <1>7, <1>8 DEF Cut
<1> QED
  BY <1>9, CutInv

-----------------------------------------------------------------------------
(* Messages that are sent *)

\* What it means to a client that a body with new requests is sent.
Numbered(c, body) ==
  /\ lastId[c] <= lastId'[c]
  /\ \A i \in 1 .. Len(body) :
       /\ lastId[c] < body[i].id /\ body[i].id <= lastId'[c]
       /\ log'[c][body[i].id] = "pending"
  /\ \A i, j \in 1 .. Len(body) : body[i].id = body[j].id => i = j
  /\ \A r \in RequestId : r <= lastId[c] => log'[c][r] = log[c][r]

Advances(c, k, body) ==
  \/ /\ phase[c] = "new" /\ phase'[c] = "starting"
     /\ Len(body) = 1 /\ body[1].method = "initialize"
  \/ /\ phase[c] = "starting" /\ phase'[c] = "notifying"
     /\ reader[k].by = c /\ reader[k].at = "done"
  \/ phase[c] = "ready" /\ phase'[c] = "ready"

LEMMA SendInv ==
  ASSUME McpInv, NEW k \in Post, NEW c \in Client \cup {Nobody}, NEW t \in Tenant,
         NEW h \in Session \cup {NoSession}, NEW body \in Seq(Request), SendTo(k, c, t, h, body),
         UNCHANGED sid,
         phase' \in [Client -> {"new", "starting", "notifying", "ready", "failed", "closed"}],
         lastId' \in [Client -> 0 .. MaxId], log' \in [Client -> [RequestId -> Status]],
         \A d \in Client \ {c} : phase'[d] = phase[d] /\ lastId'[d] = lastId[d] /\ log'[d] = log[d],
         c \in Client => /\ t = TokenOf[c] /\ h = sid[c]
                         /\ Numbered(c, body) /\ Advances(c, k, body)
  PROVE  McpInv'
<1> DEFINE y == Posted(t, h, body)
<1>1. /\ y \in Exchange /\ ExchangeOK(y) /\ y.body = body /\ y.tenant = t /\ y.session = h
      /\ y.out = <<>> /\ y.pc = "posted" /\ y.status = 0
  <2> HIDE DEF y
  <2>1. y = Posted(t, h, body)
    BY DEF y
  <2> QED
    BY <2>1, PostedOK
<1> HIDE DEF y
<1>2. McpTypeOK /\ post \in [Post -> Exchange] /\ DOMAIN reader = Post
  BY TypeParts DEF McpInv
<1>3. /\ post' = [post EXCEPT ![k] = y]
      /\ reader' = [reader EXCEPT ![k] = [by |-> c, at |-> IF c = Nobody THEN "none" ELSE "head",
                                          got |-> <<>>]]
      /\ UNCHANGED <<tenantOf, audit>>
  BY DEF SendTo, y
<1>4. /\ post'[k] = y /\ reader'[k].by = c /\ reader'[k].got = <<>>
      /\ reader'[k].at = IF c = Nobody THEN "none" ELSE "head"
      /\ \A l \in Post \ {k} : post'[l] = post[l] /\ reader'[l] = reader[l]
  BY <1>2, <1>3
<1>5. Nobody \notin Client
  BY McpClientAssumption
<1>6. McpTypeOK'
  <2>1. post' \in [Post -> Exchange]
    BY <1>1, <1>2, <1>3
  <2>2. reader' \in [Post -> [by : Client \cup {Nobody}, at : Reading \cup {"none", "done", "failed"},
                              got : Seq(Message)]]
    <3>1. <<>> \in Seq(Message) /\ (IF c = Nobody THEN "none" ELSE "head") \in Reading \cup {"none", "done", "failed"}
      BY DEF Reading
    <3> QED
      BY <1>2, <1>3, <3>1 DEF McpTypeOK
  <2> QED
    BY <1>2, <1>3, <2>1, <2>2 DEF McpTypeOK, ServerTypeOK
<1>7. ExchangesOK'
  BY <1>1, <1>4 DEF McpInv, ExchangesOK
<1>8. SaidOK'
  <2>1. <<>> \o <<>> = <<>>
    BY ConcatEmptySeq
  <2>2. Said(k)' = <<>>
    BY <1>1, <1>4, <2>1 DEF Said
  <2>3. InOrderOK(y, <<>>)
    BY DEF InOrderOK
  <2>4. SaidAll(y, <<>>)
    BY <1>1 DEF SaidAll, ExchangeOK, PhasesOK
  <2>5. \A l \in Post \ {k} : Said(l)' = Said(l)
    BY <1>4 DEF Said
  <2> QED
    BY <1>4, <2>2, <2>3, <2>4, <2>5 DEF McpInv, SaidOK
<1>9. ReadersOK'
  BY <1>4, <1>5 DEF McpInv, ReadersOK
<1>10. LivesOK'
  <2> SUFFICES ASSUME NEW d \in Client
               PROVE  /\ phase'[d] \in {"new", "failed", "closed"} =>
                           \A l \in Post : ~ReadFor(d, l)'
                      /\ phase'[d] = "new" => sid'[d] = NoSession /\ \A l \in Post : reader'[l].by # d
                      /\ phase'[d] = "starting" =>
                           \A l \in Post : reader'[l].by = d =>
                             /\ Len(post'[l].body) = 1 /\ post'[l].body[1].method = "initialize"
                             /\ \A m \in Post : reader'[m].by = d => m = l
                             /\ reader'[l].at \in {"body", "done"} => sid'[d] # NoSession
                      /\ phase'[d] = "notifying" =>
                           \A l, m \in Post : ReadFor(d, l)' /\ ReadFor(d, m)' => l = m
                      /\ phase'[d] \in {"notifying", "ready", "closed"} => sid'[d] # NoSession
    BY DEF LivesOK
  <2>1. CASE d # c
    <3>1. phase'[d] = phase[d] /\ sid'[d] = sid[d]
      BY <2>1
    <3>2. \A l \in Post : reader'[l].by = d => l # k /\ reader'[l] = reader[l] /\ post'[l] = post[l]
      BY <1>4, <2>1
    <3>3. \A l \in Post : ReadFor(d, l)' => ReadFor(d, l)
      BY <3>2 DEF ReadFor
    <3>4. /\ phase[d] \in {"new", "failed", "closed"} => \A l \in Post : ~ReadFor(d, l)
          /\ phase[d] = "new" => sid[d] = NoSession /\ \A l \in Post : reader[l].by # d
          /\ phase[d] \in {"notifying", "ready", "closed"} => sid[d] # NoSession
          /\ phase[d] = "notifying" =>
               \A l, m \in Post : ReadFor(d, l) /\ ReadFor(d, m) => l = m
      BY DEF McpInv, LivesOK
    <3>5. phase[d] = "starting" =>
            \A l \in Post : reader[l].by = d =>
              /\ Len(post[l].body) = 1 /\ post[l].body[1].method = "initialize"
              /\ \A m \in Post : reader[m].by = d => m = l
              /\ reader[l].at \in {"body", "done"} => sid[d] # NoSession
      BY DEF McpInv, LivesOK
    <3>6. phase'[d] = "starting" =>
            \A l \in Post : reader'[l].by = d =>
              /\ Len(post'[l].body) = 1 /\ post'[l].body[1].method = "initialize"
              /\ \A m \in Post : reader'[m].by = d => m = l
              /\ reader'[l].at \in {"body", "done"} => sid'[d] # NoSession
      <4> SUFFICES ASSUME phase'[d] = "starting", NEW l \in Post, reader'[l].by = d
                   PROVE  /\ Len(post'[l].body) = 1 /\ post'[l].body[1].method = "initialize"
                          /\ \A m \in Post : reader'[m].by = d => m = l
                          /\ reader'[l].at \in {"body", "done"} => sid'[d] # NoSession
        OBVIOUS
      <4>1. reader'[l] = reader[l] /\ post'[l] = post[l] /\ phase[d] = "starting"
        BY <3>1, <3>2
      <4>2. \A m \in Post : reader'[m].by = d => reader[m].by = d
        BY <3>2
      <4> QED
        BY <3>1, <3>5, <4>1, <4>2
    <3> QED
      BY <3>1, <3>2, <3>3, <3>4, <3>6
  <2>2. CASE d = c
    <3>1. /\ reader'[k].at = "head" /\ \A l \in Post : l # k => reader'[l] = reader[l]
      BY <1>4, <1>5, <2>2
    <3>2. CASE /\ phase[c] = "new" /\ phase'[c] = "starting"
               /\ Len(body) = 1 /\ body[1].method = "initialize"
      <4>1. \A l \in Post : reader[l].by # c
        BY <2>2, <3>2 DEF McpInv, LivesOK
      <4>2. \A l \in Post : reader'[l].by = c => l = k
        BY <1>4, <4>1
      <4> QED
        BY <1>1, <1>4, <2>2, <3>1, <3>2, <4>2
    <3>3. CASE /\ phase[c] = "starting" /\ phase'[c] = "notifying"
               /\ reader[k].by = c /\ reader[k].at = "done"
      <4>1. sid[c] # NoSession /\ \A l \in Post : reader[l].by = c => l = k
        BY <2>2, <3>3 DEF McpInv, LivesOK
      <4>2. \A l \in Post : ReadFor(c, l)' => l = k
        BY <1>4, <4>1 DEF ReadFor
      <4> QED
        BY <2>2, <3>3, <4>1, <4>2
    <3>4. CASE phase[c] = "ready" /\ phase'[c] = "ready"
      BY <2>2, <3>4 DEF McpInv, LivesOK
    <3> QED
      BY <2>2, <3>2, <3>3, <3>4 DEF Advances
  <2> QED
    BY <2>1, <2>2
<1>11. \A l \in Post : reader[l].by # Nobody => reader[l].by \in Client
  BY <1>2, TypeParts
<1>12. \A l \in Post : \A i \in Requests(post[l]) :
         post[l].body[i].id \in RequestId /\ post[l].body[i].id \in Nat
  <2> SUFFICES ASSUME NEW l \in Post, NEW i \in Requests(post[l])
               PROVE  post[l].body[i].id \in RequestId /\ post[l].body[i].id \in Nat
    OBVIOUS
  <2>1. post[l] \in Exchange /\ QueuesOK(post[l])
    BY <1>2 DEF McpInv, ExchangesOK, ExchangeOK
  <2>2. post[l].body[i] \in Request
    BY <2>1, Shape
  <2> QED
    BY <2>2 DEF Request, RequestId
<1>13. \A i \in Requests(y) : body[i].id \in RequestId /\ body[i].id \in Nat /\ i \in 1 .. Len(body)
  <2>1. Requests(y) = 1 .. Len(body)
    BY <1>1 DEF Requests
  <2>2. \A i \in 1 .. Len(body) : body[i] \in Request
    OBVIOUS
  <2> QED
    BY <2>1, <2>2 DEF Request, RequestId
<1>14. \A d \in Client : lastId[d] \in Nat /\ lastId'[d] \in Nat
  BY <1>2, McpServerAssumption DEF McpTypeOK
<1>15. \A l \in Post \ {k} : reader[l].by = c /\ c # Nobody =>
         \A i \in Requests(post[l]) : post[l].body[i].id <= lastId[c]
  BY DEF McpInv, IdsOK
<1>16. IdsOK'
  <2>1. ASSUME NEW l \in Post, reader'[l].by # Nobody
        PROVE  /\ \A i \in Requests(post'[l]) : post'[l].body[i].id <= lastId'[reader'[l].by]
               /\ \A i, j \in Requests(post'[l]) : post'[l].body[i].id = post'[l].body[j].id => i = j
    <3>1. CASE l = k
      BY <1>1, <1>4, <1>13, <2>1, <3>1 DEF Numbered
    <3>2. CASE l # k
      <4>1. reader'[l] = reader[l] /\ post'[l] = post[l] /\ reader[l].by \in Client
        BY <1>4, <1>11, <2>1, <3>2
      <4>2. lastId[reader[l].by] <= lastId'[reader[l].by]
        BY <1>14, <4>1 DEF Numbered
      <4>3. /\ \A i \in Requests(post[l]) : post[l].body[i].id <= lastId[reader[l].by]
            /\ \A i, j \in Requests(post[l]) : post[l].body[i].id = post[l].body[j].id => i = j
        BY <2>1, <4>1 DEF McpInv, IdsOK
      <4> QED
        BY <1>12, <1>14, <4>1, <4>2, <4>3
    <3> QED
      BY <3>1, <3>2
  <2>2. ASSUME NEW l \in Post, l # k, reader'[l].by = c, c # Nobody,
               NEW i \in Requests(post'[l]), NEW j \in Requests(y)
        PROVE  post'[l].body[i].id # body[j].id
    <3>1. reader[l].by = c /\ post'[l] = post[l]
      BY <1>4, <2>2
    <3>2. post[l].body[i].id <= lastId[c] /\ lastId[c] < body[j].id /\ c \in Client
      BY <1>13, <1>15, <2>2, <3>1 DEF Numbered
    <3> QED
      BY <1>12, <1>13, <1>14, <2>2, <3>1, <3>2
  <2>3. ASSUME NEW l \in Post, NEW m \in Post, reader'[l].by # Nobody, reader'[m].by = reader'[l].by,
               m # l, NEW i \in Requests(post'[l]), NEW j \in Requests(post'[m])
        PROVE  post'[l].body[i].id # post'[m].body[j].id
    <3>1. CASE l = k
      BY <1>1, <1>4, <2>2, <2>3, <3>1
    <3>2. CASE m = k
      BY <1>1, <1>4, <2>2, <2>3, <3>2
    <3>3. CASE l # k /\ m # k
      BY <1>4, <2>3, <3>3 DEF McpInv, IdsOK
    <3> QED
      BY <3>1, <3>2, <3>3
  <2> QED
    BY <2>1, <2>3 DEF IdsOK
<1>17. LogOK'
  <2> SUFFICES ASSUME NEW l \in Post, reader'[l].by # Nobody, phase'[reader'[l].by] # "closed",
                      NEW i \in Requests(post'[l])
               PROVE  LET entry == log'[reader'[l].by][post'[l].body[i].id] IN
                      /\ \A j \in 1 .. Len(reader'[l].got) :
                           Given(l, i, j)' => entry = reader'[l].got[j].item
                      /\ (\A j \in 1 .. Len(reader'[l].got) : ~Given(l, i, j)') => entry = "pending"
    BY DEF LogOK
  <2>1. CASE l = k
    <3>1. c \in Client /\ log'[c][body[i].id] = "pending" /\ Len(reader'[l].got) = 0
      BY <1>1, <1>4, <1>13, <2>1 DEF Numbered
    <3> QED
      BY <1>1, <1>4, <2>1, <3>1
  <2>2. CASE l # k
    <3>1. reader'[l] = reader[l] /\ post'[l] = post[l] /\ reader[l].by \in Client
      BY <1>4, <1>11, <2>2
    <3>2. \A j : Given(l, i, j)' <=> Given(l, i, j)
      BY <3>1 DEF Given
    <3>3. /\ log'[reader[l].by][post[l].body[i].id] = log[reader[l].by][post[l].body[i].id]
          /\ phase[reader[l].by] # "closed"
      <4>1. CASE reader[l].by = c
        BY <1>5, <1>12, <1>15, <2>2, <3>1, <4>1 DEF Numbered, Advances
      <4>2. CASE reader[l].by # c
        BY <3>1, <4>2
      <4> QED
        BY <4>1, <4>2
    <3>4. LET entry == log[reader[l].by][post[l].body[i].id] IN
          /\ \A j \in 1 .. Len(reader[l].got) : Given(l, i, j) => entry = reader[l].got[j].item
          /\ (\A j \in 1 .. Len(reader[l].got) : ~Given(l, i, j)) => entry = "pending"
      <4>1. reader[l].by # Nobody /\ i \in Requests(post[l])
        BY <2>2, <3>1
      <4> QED
        BY <3>3, <4>1 DEF McpInv, LogOK
    <3> QED
      BY <3>1, <3>2, <3>3, <3>4
  <2> QED
    BY <2>1, <2>2
<1>18. SessionsOK'
  <2>1. SessionsOK
    BY DEF McpInv
  <2>2. \A l \in Post :
          /\ post'[l].pc # "idle" => post'[l].tenant \in Tenant
          /\ reader'[l].by # Nobody => post'[l].tenant = TokenOf[reader'[l].by]
    BY <1>1, <1>4, <2>1 DEF SessionsOK
  <2>3. \A d \in Client, s \in Session : Claims(d, s)' => Claims(d, s)
    BY <1>1, <1>4, <1>5 DEF Claims
  <2>4. SessionServesItsTenant'
    BY <1>1, <1>3, <1>4, <2>1 DEF SessionsOK, SessionServesItsTenant
  <2> QED
    BY <1>3, <2>1, <2>2, <2>3, <2>4 DEF SessionsOK
<1> QED
  BY <1>6, <1>7, <1>8, <1>9, <1>10, <1>16, <1>17, <1>18 DEF McpInv

LEMMA SendRequestInv ==
  ASSUME McpInv, NEW c \in Client, NEW k \in Post, NEW methods \in Seq(Method),
         send_request(c, k, methods), UNCHANGED sid,
         phase' \in [Client -> {"new", "starting", "notifying", "ready", "failed", "closed"}],
         \A d \in Client \ {c} : phase'[d] = phase[d],
         \/ phase[c] = "new" /\ phase'[c] = "starting" /\ methods = <<"initialize">>
         \/ phase[c] = "ready" /\ phase'[c] = "ready"
  PROVE  McpInv'
<1> DEFINE body == [i \in DOMAIN methods |-> [id |-> lastId[c] + i, method |-> methods[i]]]
           ids == lastId[c] + 1 .. lastId[c] + Len(methods)
<1>1. /\ McpTypeOK /\ lastId \in [Client -> 0 .. MaxId] /\ log \in [Client -> [RequestId -> Status]]
      /\ sid[c] \in Session \cup {NoSession} /\ lastId[c] \in Nat /\ MaxId \in Nat
  BY McpServerAssumption DEF McpInv, McpTypeOK
<1>2. Len(methods) \in Nat /\ DOMAIN methods = 1 .. Len(methods) /\ lastId[c] + Len(methods) <= MaxId
  BY DEF send_request
<1>3. \A i \in 1 .. Len(methods) :
        /\ body[i] \in Request /\ body[i].id = lastId[c] + i /\ body[i].method = methods[i]
        /\ lastId[c] + i \in ids /\ lastId[c] + i \in RequestId
  <2> SUFFICES ASSUME NEW i \in 1 .. Len(methods)
               PROVE  /\ body[i] \in Request /\ body[i].id = lastId[c] + i
                      /\ body[i].method = methods[i]
                      /\ lastId[c] + i \in ids /\ lastId[c] + i \in RequestId
    OBVIOUS
  <2>1. body[i] = [id |-> lastId[c] + i, method |-> methods[i]]
    BY <1>2
  <2>2. methods[i] \in Method /\ lastId[c] + i \in RequestId /\ lastId[c] + i \in ids
    BY <1>1, <1>2 DEF RequestId
  <2> QED
    BY <2>1, <2>2 DEF Request
<1>4. body \in [1 .. Len(methods) -> Request]
  BY <1>2, <1>3
<1>5. /\ lastId' = [lastId EXCEPT ![c] = @ + Len(methods)]
      /\ log' = [log EXCEPT ![c] = [r \in RequestId |-> IF r \in ids THEN "pending" ELSE @[r]]]
      /\ SendTo(k, c, TokenOf[c], sid[c], body)
  BY DEF send_request
<1> HIDE DEF body, ids
<1>6. body \in Seq(Request) /\ Len(body) = Len(methods)
  BY <1>2, <1>4, FunctionIsSequence
<1>7. /\ lastId' \in [Client -> 0 .. MaxId] /\ lastId'[c] = lastId[c] + Len(methods)
      /\ \A d \in Client \ {c} : lastId'[d] = lastId[d]
  BY <1>1, <1>2, <1>5
<1>8. /\ log' \in [Client -> [RequestId -> Status]]
      /\ \A r \in RequestId : log'[c][r] = IF r \in ids THEN "pending" ELSE log[c][r]
      /\ \A d \in Client \ {c} : log'[d] = log[d]
  BY <1>1, <1>5 DEF Status
<1>9. Numbered(c, body)
  <2>1. \A i \in 1 .. Len(body) :
          /\ lastId[c] < body[i].id /\ body[i].id <= lastId'[c]
          /\ log'[c][body[i].id] = "pending"
    BY <1>1, <1>2, <1>3, <1>6, <1>7, <1>8
  <2>2. ASSUME NEW i \in 1 .. Len(body), NEW j \in 1 .. Len(body), body[i].id = body[j].id PROVE i = j
    <3>1. body[i].id = lastId[c] + i /\ body[j].id = lastId[c] + j
      BY <1>3, <1>6
    <3>2. i \in Nat /\ j \in Nat /\ lastId[c] \in Nat
      BY <1>1, <1>2, <1>6
    <3>3. lastId[c] + i = lastId[c] + j
      BY <2>2, <3>1
    <3> QED
      BY <3>2, <3>3
  <2>3. \A r \in RequestId : r <= lastId[c] => r \notin ids
    BY <1>1, <1>2 DEF ids, RequestId
  <2> QED
    BY <1>1, <1>2, <1>7, <1>8, <2>1, <2>2, <2>3 DEF Numbered
<1>10. Advances(c, k, body)
  <2>1. CASE phase[c] = "new" /\ phase'[c] = "starting" /\ methods = <<"initialize">>
    <3>1. Len(body) = 1 /\ body[1].method = "initialize"
      BY <1>3, <1>6, <2>1
    <3> QED
      BY <2>1, <3>1 DEF Advances
  <2>2. CASE phase[c] = "ready" /\ phase'[c] = "ready"
    BY <2>2 DEF Advances
  <2> QED
    BY <2>1, <2>2
<1>11. TokenOf[c] \in Tenant
  BY McpClientAssumption
<1> QED
  BY <1>1, <1>5, <1>6, <1>7, <1>8, <1>9, <1>10, <1>11, SendInv

LEMMA ClientSends ==
  ASSUME McpInv, NEW c \in Client, NEW k \in Post,
         Start(c, k) \/ SendInitialized(c, k) \/ \E methods \in Batch : Call(c, k, methods)
  PROVE  McpInv'
<1>1. phase \in [Client -> {"new", "starting", "notifying", "ready", "failed", "closed"}]
  BY DEF McpInv, McpTypeOK
<1>2. CASE Start(c, k)
  <2>1. <<"initialize">> \in Seq(Method)
    BY DEF Method
  <2>2. /\ phase[c] = "new" /\ phase' = [phase EXCEPT ![c] = "starting"]
        /\ send_request(c, k, <<"initialize">>) /\ UNCHANGED sid
    BY <1>2 DEF Start
  <2>3. /\ phase' \in [Client -> {"new", "starting", "notifying", "ready", "failed", "closed"}]
        /\ phase'[c] = "starting" /\ \A d \in Client \ {c} : phase'[d] = phase[d]
    BY <1>1, <2>2
  <2> QED
    BY <2>1, <2>2, <2>3, SendRequestInv
<1>3. CASE \E methods \in Batch : Call(c, k, methods)
  <2>1. PICK methods \in Batch : Call(c, k, methods)
    BY <1>3
  <2>2. methods \in Seq(Method)
    BY McpClientAssumption
  <2>3. phase[c] = "ready" /\ phase' = phase /\ send_request(c, k, methods) /\ UNCHANGED sid
    BY <2>1 DEF Call
  <2> QED
    BY <1>1, <2>2, <2>3, SendRequestInv
<1>4. CASE SendInitialized(c, k)
  <2>1. /\ phase[c] = "starting" /\ reader[k].by = c /\ reader[k].at = "done"
        /\ phase' = [phase EXCEPT ![c] = "notifying"]
        /\ SendTo(k, c, TokenOf[c], sid[c], <<>>) /\ UNCHANGED <<sid, lastId, log>>
    BY <1>4 DEF SendInitialized
  <2>2. /\ <<>> \in Seq(Request) /\ TokenOf[c] \in Tenant /\ sid[c] \in Session \cup {NoSession}
        /\ lastId \in [Client -> 0 .. MaxId] /\ log \in [Client -> [RequestId -> Status]]
    BY McpClientAssumption DEF McpInv, McpTypeOK
  <2>3. /\ phase' \in [Client -> {"new", "starting", "notifying", "ready", "failed", "closed"}]
        /\ phase'[c] = "notifying" /\ \A d \in Client \ {c} : phase'[d] = phase[d]
    BY <1>1, <2>1
  <2>4. Numbered(c, <<>>) /\ Advances(c, k, <<>>)
    <3>1. lastId'[c] = lastId[c] /\ log'[c] = log[c] /\ lastId[c] \in Nat
      BY <2>1, <2>2, McpServerAssumption
    <3>2. 1 .. Len(<<>>) = {}
      OBVIOUS
    <3> QED
      BY <2>1, <2>3, <3>1, <3>2 DEF Numbered, Advances
  <2> QED
    BY <2>1, <2>2, <2>3, <2>4, SendInv
<1> QED
  BY <1>2, <1>3, <1>4

LEMMA ByHandInv ==
  ASSUME McpInv, NEW k \in Post, NEW t \in Outsider, NEW h \in Session \cup {NoSession},
         NEW methods \in HandBatch, ByHand(k, t, h, methods)
  PROVE  McpInv'
<1> DEFINE body == [i \in DOMAIN methods |-> [id |-> 1, method |-> methods[i]]]
<1>1. /\ SendTo(k, Nobody, t, h, body) /\ UNCHANGED <<phase, sid, lastId, log>>
  BY DEF ByHand
<1>2. t \in Tenant /\ methods \in Seq(Method) /\ MaxId \in Nat /\ MaxId >= 1 /\ Nobody \notin Client
  BY McpServerAssumption, McpClientAssumption
<1>3. Len(methods) \in Nat /\ DOMAIN methods = 1 .. Len(methods)
  BY <1>2
<1>4. body \in [1 .. Len(methods) -> Request]
  BY <1>2, <1>3 DEF Request, RequestId
<1> HIDE DEF body
<1>5. body \in Seq(Request)
  BY <1>3, <1>4, FunctionIsSequence
<1>6. /\ phase' \in [Client -> {"new", "starting", "notifying", "ready", "failed", "closed"}]
      /\ lastId' \in [Client -> 0 .. MaxId] /\ log' \in [Client -> [RequestId -> Status]]
  BY <1>1 DEF McpInv, McpTypeOK
<1> QED
  BY <1>1, <1>2, <1>5, <1>6, SendInv

-----------------------------------------------------------------------------
(* What readers read *)

LEMMA HealthFailsInv ==
  ASSUME McpInv, NEW c \in Client, HealthFails(c)
  PROVE  McpInv'
<1>1. /\ phase[c] = "new" /\ phase' = [phase EXCEPT ![c] = "failed"]
      /\ UNCHANGED <<tenantOf, audit, post, sid, lastId, log, reader>>
  BY DEF HealthFails, serverVars
<1>2. McpTypeOK /\ post \in [Post -> Exchange] /\ DOMAIN phase = Client
  BY TypeParts DEF McpInv
<1>3. /\ phase'[c] = "failed" /\ \A d \in Client \ {c} : phase'[d] = phase[d]
      /\ \A k \in Post : reader[k].by # c
  BY <1>1, <1>2 DEF McpInv, LivesOK
<1>4. McpTypeOK'
  BY <1>1, <1>2 DEF McpTypeOK, ServerTypeOK
<1>5. ExchangesOK' /\ SaidOK' /\ ReadersOK' /\ IdsOK'
  BY <1>1 DEF McpInv, ExchangesOK, SaidOK, Said, ReadersOK, IdsOK
<1>6. LivesOK'
  <2> SUFFICES ASSUME NEW d \in Client
               PROVE  /\ phase'[d] \in {"new", "failed", "closed"} =>
                           \A k \in Post : ~ReadFor(d, k)'
                      /\ phase'[d] = "new" => sid'[d] = NoSession /\ \A k \in Post : reader'[k].by # d
                      /\ phase'[d] = "starting" =>
                           \A k \in Post : reader'[k].by = d =>
                             /\ Len(post'[k].body) = 1 /\ post'[k].body[1].method = "initialize"
                             /\ \A l \in Post : reader'[l].by = d => l = k
                             /\ reader'[k].at \in {"body", "done"} => sid'[d] # NoSession
                      /\ phase'[d] = "notifying" =>
                           \A k, l \in Post : ReadFor(d, k)' /\ ReadFor(d, l)' => k = l
                      /\ phase'[d] \in {"notifying", "ready", "closed"} => sid'[d] # NoSession
    BY DEF LivesOK
  <2>1. CASE d = c
    BY <1>1, <1>3, <2>1 DEF ReadFor
  <2>2. CASE d # c
    BY <1>1, <1>3, <2>2 DEF ReadFor, McpInv, LivesOK
  <2> QED
    BY <2>1, <2>2
<1>7. LogOK'
  <2>1. \A k \in Post : reader[k].by # Nobody /\ phase'[reader[k].by] # "closed" =>
          phase[reader[k].by] # "closed"
    BY <1>2, <1>3, TypeParts
  <2> QED
    BY <1>1, <2>1 DEF McpInv, LogOK, Given
<1>8. SessionsOK'
  BY <1>1 DEF McpInv, SessionsOK, Claims, SessionServesItsTenant
<1> QED
  BY <1>4, <1>5, <1>6, <1>7, <1>8 DEF McpInv

LEMMA EndOfBodyInv ==
  ASSUME McpInv, NEW k \in Post, EndOfBody(k)
  PROVE  McpInv'
<1>1. /\ reader[k].at = "body" /\ post[k].pc = "over" /\ post[k].connected
      /\ reader' = [reader EXCEPT ![k].at = "done"]
      /\ UNCHANGED <<tenantOf, audit, post, phase, sid, lastId, log>>
  BY DEF EndOfBody, serverVars
<1>2. McpTypeOK /\ post \in [Post -> Exchange] /\ DOMAIN reader = Post
      /\ reader[k] \in [by : Client \cup {Nobody}, at : Reading \cup {"none", "done", "failed"},
                        got : Seq(Message)]
  BY TypeParts DEF McpInv
<1>3. /\ reader'[k].at = "done" /\ \A l \in Post \ {k} : reader'[l] = reader[l]
      /\ \A l \in Post : reader'[l].by = reader[l].by /\ reader'[l].got = reader[l].got
  BY <1>1, <1>2
<1>4. McpTypeOK'
  BY <1>1, <1>2 DEF McpTypeOK, ServerTypeOK
<1>5. ExchangesOK' /\ SaidOK'
  BY <1>1, <1>3 DEF McpInv, ExchangesOK, SaidOK, Said
<1>6. ReadersOK'
  BY <1>1, <1>3 DEF McpInv, ReadersOK
<1>7. LivesOK'
  <2>1. \A c \in Client : \A l \in Post : ReadFor(c, l)' => ReadFor(c, l)
    BY <1>3 DEF ReadFor, Reading
  <2>2. \A l \in Post : reader'[l].at \in {"body", "done"} => reader[l].at \in {"body", "done"}
    BY <1>1, <1>3
  <2> QED
    BY <1>1, <1>3, <2>1, <2>2 DEF McpInv, LivesOK
<1>8. IdsOK'
  BY <1>1, <1>3 DEF McpInv, IdsOK
<1>9. LogOK'
  <2>1. \A l \in Post : \A i, j : Given(l, i, j)' <=> Given(l, i, j)
    BY <1>3 DEF Given
  <2> QED
    BY <1>1, <1>3, <2>1, SMTT(30) DEF McpInv, LogOK
<1>10. SessionsOK'
  BY <1>1, <1>3 DEF McpInv, SessionsOK, Claims, SessionServesItsTenant
<1> QED
  BY <1>4, <1>5, <1>6, <1>7, <1>8, <1>9, <1>10 DEF McpInv

\* An initialize that was answered with success gave the exchange a session.
LEMMA InitializeGivesSession ==
  ASSUME NEW x \in Exchange, ExchangeOK(x), x.status = 200, x.connected,
         Len(x.body) = 1, x.body[1].method = "initialize"
  PROVE  x.session # NoSession
<1>1. QueuesOK(x) /\ PhasesOK(x) /\ 1 \in Requests(x)
  BY DEF ExchangeOK, Requests
<1>2. x.pc \in {"streaming", "over"}
  BY <1>1, FieldTypes DEF PhasesOK, Typed, Phase
<1>3. 1 \notin x.open
  BY <1>1 DEF QueuesOK
<1>4. Complete(x, 1)
  BY <1>1, <1>2, <1>3 DEF PhasesOK
<1> QED
  BY <1>1, <1>4 DEF QueuesOK, Complete

LEMMA HeadAcceptedInv ==
  ASSUME McpInv, NEW k \in Post, HeadAccepted(k)
  PROVE  McpInv'
<1> DEFINE c == reader[k].by  s == post[k].session
<1>1. /\ reader[k].at = "head" /\ post[k].status # 0 /\ post[k].connected
      /\ post[k].status < 400 /\ (s = NoSession \/ sid[c] = NoSession \/ s = sid[c])
      /\ sid' = [sid EXCEPT ![c] = IF s = NoSession THEN @ ELSE s]
      /\ reader' = [reader EXCEPT ![k].at = IF post[k].status = 202 THEN "done" ELSE "body"]
      /\ phase' = [phase EXCEPT ![c] = IF @ = "notifying" THEN "ready" ELSE @]
      /\ UNCHANGED <<tenantOf, audit, post, lastId, log>>
  BY DEF HeadAccepted, Answered, Changed, serverVars
<1>2. McpTypeOK /\ post \in [Post -> Exchange]
      /\ DOMAIN reader = Post /\ DOMAIN phase = Client /\ DOMAIN sid = Client
      /\ reader[k] \in [by : Client \cup {Nobody}, at : Reading \cup {"none", "done", "failed"},
                        got : Seq(Message)]
  BY TypeParts DEF McpInv
<1>3. c \in Client
  BY <1>1, <1>2 DEF McpInv, ReadersOK
<1>4. post[k].status \in {200, 202} /\ s \in Session \cup {NoSession}
  BY <1>1, <1>2, FieldTypes DEF Typed
<1>5. /\ reader'[k].at = (IF post[k].status = 202 THEN "done" ELSE "body")
      /\ \A l \in Post \ {k} : reader'[l] = reader[l]
      /\ \A l \in Post : reader'[l].by = reader[l].by /\ reader'[l].got = reader[l].got
  BY <1>1, <1>2
<1>6. /\ sid'[c] = (IF s = NoSession THEN sid[c] ELSE s)
      /\ phase'[c] = (IF phase[c] = "notifying" THEN "ready" ELSE phase[c])
      /\ \A d \in Client \ {c} : sid'[d] = sid[d] /\ phase'[d] = phase[d]
  BY <1>1, <1>2, <1>3
<1>7. ReadFor(c, k)
  BY <1>1 DEF ReadFor, Reading
<1>8. McpTypeOK'
  <2>1. sid' \in [Client -> Session \cup {NoSession}]
    BY <1>1, <1>2, <1>4 DEF McpTypeOK
  <2>2. phase' \in [Client -> {"new", "starting", "notifying", "ready", "failed", "closed"}]
    BY <1>1, <1>2 DEF McpTypeOK
  <2>3. reader' \in [Post -> [by : Client \cup {Nobody}, at : Reading \cup {"none", "done", "failed"},
                              got : Seq(Message)]]
    BY <1>1, <1>2 DEF McpTypeOK, Reading
  <2> QED
    BY <1>1, <1>2, <2>1, <2>2, <2>3 DEF McpTypeOK, ServerTypeOK
<1>9. ExchangesOK' /\ SaidOK'
  BY <1>1, <1>5 DEF McpInv, ExchangesOK, SaidOK, Said
<1>10. ReadersOK'
  BY <1>1, <1>4, <1>5 DEF McpInv, ReadersOK
<1>11. LivesOK'
  <2> SUFFICES ASSUME NEW d \in Client
               PROVE  /\ phase'[d] \in {"new", "failed", "closed"} =>
                           \A l \in Post : ~ReadFor(d, l)'
                      /\ phase'[d] = "new" => sid'[d] = NoSession /\ \A l \in Post : reader'[l].by # d
                      /\ phase'[d] = "starting" =>
                           \A l \in Post : reader'[l].by = d =>
                             /\ Len(post'[l].body) = 1 /\ post'[l].body[1].method = "initialize"
                             /\ \A m \in Post : reader'[m].by = d => m = l
                             /\ reader'[l].at \in {"body", "done"} => sid'[d] # NoSession
                      /\ phase'[d] = "notifying" =>
                           \A l, m \in Post : ReadFor(d, l)' /\ ReadFor(d, m)' => l = m
                      /\ phase'[d] \in {"notifying", "ready", "closed"} => sid'[d] # NoSession
    BY DEF LivesOK
  <2>1. \A l \in Post : ReadFor(d, l)' => ReadFor(d, l)
    BY <1>1, <1>5 DEF ReadFor, Reading
  <2>2. CASE d # c
    <3>1. \A l \in Post : reader'[l].by = d => reader'[l] = reader[l] /\ reader[l].by = d
      BY <1>5, <2>2
    <3> QED
      BY <1>1, <1>5, <1>6, <2>1, <2>2, <3>1 DEF McpInv, LivesOK
  <2>3. CASE d = c
    <3>1. phase[c] \notin {"new", "failed", "closed"}
      BY <1>7, <2>3 DEF McpInv, LivesOK, ReadFor
    <3>2. CASE phase[c] = "starting"
      <4>1. /\ Len(post[k].body) = 1 /\ post[k].body[1].method = "initialize"
            /\ \A l \in Post : reader[l].by = c => l = k
        BY <1>3, <3>2 DEF McpInv, LivesOK
      <4>2. post[k] \in Exchange /\ ExchangeOK(post[k])
        BY <1>2 DEF McpInv, ExchangesOK
      <4>3. post[k].status = 200
        BY <1>4, <4>1, <4>2 DEF ExchangeOK, PhasesOK
      <4>4. s # NoSession
        BY <1>1, <4>1, <4>2, <4>3, InitializeGivesSession
      <4>5. phase'[c] = "starting" /\ sid'[c] # NoSession
        BY <1>6, <3>2, <4>4
      <4>6. \A l \in Post : reader'[l].by = c => l = k
        BY <1>5, <4>1
      <4> QED
        BY <1>1, <2>3, <4>1, <4>5, <4>6
    <3>3. CASE phase[c] # "starting"
      <4>1. phase[c] \in {"notifying", "ready"}
        BY <1>2, <1>3, <3>1, <3>3 DEF McpTypeOK
      <4>2. sid[c] # NoSession
        BY <1>3, <4>1 DEF McpInv, LivesOK
      <4>3. phase'[c] = "ready" /\ sid'[c] # NoSession
        BY <1>6, <4>1, <4>2
      <4> QED
        BY <2>3, <4>3
    <3> QED
      BY <3>2, <3>3
  <2> QED
    BY <2>2, <2>3
<1>12. IdsOK'
  BY <1>1, <1>5 DEF McpInv, IdsOK
<1>13. LogOK'
  <2>1. \A l \in Post : \A i, j : Given(l, i, j)' <=> Given(l, i, j)
    BY <1>5 DEF Given
  <2>2. \A d \in Client : phase'[d] # "closed" => phase[d] # "closed"
    BY <1>6
  <2>3. \A l \in Post : reader[l].by # Nobody => reader[l].by \in Client
    BY <1>2, TypeParts
  <2> SUFFICES ASSUME NEW l \in Post, reader'[l].by # Nobody, phase'[reader'[l].by] # "closed",
                      NEW i \in Requests(post'[l])
               PROVE  LET entry == log'[reader'[l].by][post'[l].body[i].id] IN
                      /\ \A j \in 1 .. Len(reader'[l].got) : Given(l, i, j)' => entry = reader'[l].got[j].item
                      /\ (\A j \in 1 .. Len(reader'[l].got) : ~Given(l, i, j)') => entry = "pending"
    BY Zenon DEF LogOK
  <2>4. /\ reader[l].by # Nobody /\ phase[reader[l].by] # "closed" /\ i \in Requests(post[l])
        /\ reader'[l].by = reader[l].by /\ reader'[l].got = reader[l].got
    BY <1>1, <1>5, <2>2, <2>3
  <2>5. LET entry == log[reader[l].by][post[l].body[i].id] IN
        /\ \A j \in 1 .. Len(reader[l].got) : Given(l, i, j) => entry = reader[l].got[j].item
        /\ (\A j \in 1 .. Len(reader[l].got) : ~Given(l, i, j)) => entry = "pending"
    BY <2>4 DEF McpInv, LogOK
  <2> QED
    BY <1>1, <2>1, <2>4, <2>5
<1>14. SessionsOK'
  <2>1. \A d \in Client, u \in Session : Claims(d, u)' => Claims(d, u)
    BY <1>1, <1>5, <1>6 DEF Claims
  <2> QED
    BY <1>1, <1>5, <2>1 DEF McpInv, SessionsOK, SessionServesItsTenant
<1> QED
  BY <1>8, <1>9, <1>10, <1>11, <1>12, <1>13, <1>14 DEF McpInv

\* A response was not given before: it is the last item of its queue.
LEMMA ResponseIsNew ==
  ASSUME NEW x, QueuesOK(x), \A i \in Requests(x) : Len(x.put[i]) \in Nat,
         NEW said \in Seq(Message), InOrderOK(x, said),
         NEW j \in 1 .. Len(said), NEW h \in 1 .. j - 1, said[h].i = said[j].i,
         \A i \in Requests(x) : x.taken[i] \in Nat /\ x.taken[i] <= Len(x.put[i])
  PROVE  said[h].item \notin Final
<1> DEFINE i == said[j].i  n == said[h].n
<1>1. Len(said) \in Nat /\ h \in 1 .. Len(said)
  OBVIOUS
<1>2. /\ i \in Requests(x) /\ said[j].n \in 1 .. x.taken[i] /\ n < said[j].n
      /\ n \in 1 .. x.taken[i] /\ said[h].item = x.put[i][n]
  BY <1>1 DEF InOrderOK
<1> HIDE DEF i, n
<1>3. n \in 1 .. Len(x.put[i]) /\ n # Len(x.put[i])
  BY <1>2
<1> QED
  BY <1>2, <1>3 DEF QueuesOK

LEMMA IdsStay ==
  ASSUME IdsOK, UNCHANGED lastId,
         \A l \in Post : /\ reader'[l].by = reader[l].by /\ post'[l].body = post[l].body
                        /\ Requests(post'[l]) = Requests(post[l])
  PROVE  IdsOK'
<1>1. ASSUME NEW k \in Post, reader'[k].by # Nobody
      PROVE  /\ \A i \in Requests(post'[k]) : post'[k].body[i].id <= lastId'[reader'[k].by]
             /\ \A i, j \in Requests(post'[k]) : post'[k].body[i].id = post'[k].body[j].id => i = j
  BY <1>1 DEF IdsOK
<1>2. ASSUME NEW k \in Post, NEW l \in Post, reader'[k].by # Nobody, reader'[l].by = reader'[k].by,
             l # k, NEW i \in Requests(post'[k]), NEW j \in Requests(post'[l])
      PROVE  post'[k].body[i].id # post'[l].body[j].id
  <2>1. reader[k].by # Nobody /\ reader[l].by = reader[k].by
    BY <1>2
  <2>2. i \in Requests(post[k]) /\ j \in Requests(post[l])
    BY <1>2
  <2>3. post[k].body[i].id # post[l].body[j].id
    BY <1>2, <2>1, <2>2 DEF IdsOK
  <2> QED
    BY <2>3
<1> QED
  BY <1>1, <1>2 DEF IdsOK

LEMMA TakeInv ==
  ASSUME McpInv, NEW k \in Post, Take(k)
  PROVE  McpInv'
<1> DEFINE c == reader[k].by  got == reader[k].got  x == post[k]  m == x.out[1]  said == Said(k)
<1>1. /\ reader[k].at = "body" /\ x.out # <<>>
      /\ post' = [post EXCEPT ![k].out = Tail(@)]
      /\ reader' = [reader EXCEPT ![k].got = Append(@, m)]
      /\ UNCHANGED <<tenantOf, audit, phase, sid, lastId>>
  BY DEF Take
<1>2. McpTypeOK /\ post \in [Post -> Exchange]
      /\ DOMAIN reader = Post /\ DOMAIN log = Client
      /\ reader[k] \in [by : Client \cup {Nobody}, at : Reading \cup {"none", "done", "failed"},
                        got : Seq(Message)]
  BY TypeParts DEF McpInv
<1>3. /\ x \in Exchange /\ ExchangeOK(x) /\ got \in Seq(Message) /\ x.out \in Seq(Message)
      /\ said = got \o x.out /\ said \in Seq(Message) /\ InOrderOK(x, said)
      /\ x.connected => SaidAll(x, said)
  BY Types DEF Said
<1>4. c \in Client /\ phase[c] # "closed"
  BY <1>1, <1>2 DEF McpInv, ReadersOK, LivesOK, ReadFor, Reading
<1>5. /\ m \in Message /\ Tail(x.out) \in Seq(Message) /\ Append(got, m) \in Seq(Message)
      /\ Append(got, m) \o Tail(x.out) = got \o x.out
  <2>1. \A a, b \in Seq(Message) : b # <<>> =>
          /\ b[1] \in Message /\ Tail(b) \in Seq(Message) /\ Append(a, b[1]) \in Seq(Message)
          /\ Append(a, b[1]) \o Tail(b) = a \o b
    BY ReadOn
  <2> HIDE DEF x, got
  <2> QED
    BY <1>1, <1>3, <2>1
<1>6. /\ post'[k] = [x EXCEPT !.out = Tail(x.out)]
      /\ \A l \in Post \ {k} : post'[l] = post[l] /\ reader'[l] = reader[l]
      /\ post' = [l \in Post |-> post'[l]]
  BY <1>1, <1>2
<1>7. /\ reader'[k].got = Append(got, m) /\ reader'[k].by = c /\ reader'[k].at = reader[k].at
      /\ \A l \in Post : reader'[l].by = reader[l].by /\ reader'[l].at = reader[l].at
  BY <1>1, <1>2
<1> HIDE DEF c, got, x, m, said
<1>8. PICK y : y = post'[k]
  OBVIOUS
<1>9. /\ y.body = x.body /\ y.tenant = x.tenant /\ y.session = x.session /\ y.put = x.put
      /\ y.status = x.status /\ y.taken = x.taken /\ y.tasks = x.tasks /\ y.pc = x.pc
      /\ y.open = x.open /\ y.done = x.done /\ y.owed = x.owed /\ y.connected = x.connected
      /\ y.out = Tail(x.out) /\ y = [f \in DOMAIN x |-> y[f]]
  <2>1. y = [x EXCEPT !.out = Tail(x.out)]
    BY <1>6, <1>8
  <2>2. y = [f \in DOMAIN x |-> y[f]]
    BY <2>1
  <2> QED
    BY <1>3, <2>1, <2>2 DEF Exchange
<1>10. y \in Exchange
  <2>1. Typed(x) /\ y.out \in Seq(Message)
    BY <1>3, <1>5, <1>9, FieldTypes
  <2>2. /\ y.tasks \in SUBSET Nat /\ y.open \in SUBSET Nat /\ y.done \in SUBSET Nat
        /\ y.owed \in SUBSET Nat
    BY <1>9, <2>1 DEF Typed
  <2>3. Typed(y)
    BY <1>9, <2>1, <2>2 DEF Typed
  <2> QED
    BY <1>3, <1>9, <2>3, ByFields
<1>11. ExchangeOK(y)
  <2>1. QueuesOK(x) /\ PhasesOK(x)
    BY <1>3 DEF ExchangeOK
  <2>2. QueuesOK(y)
    <3>1. y.done \subseteq y.open /\ \A i \in y.done : y.taken[i] < Len(y.put[i])
      BY <1>9, <2>1 DEF QueuesOK
    <3>2. y.tasks \subseteq x.tasks /\ y.open \subseteq x.open
      BY <1>9
    <3> QED
      BY <1>3, <1>9, <2>1, <3>1, <3>2, QueuesStay
  <2>3. PhasesOK(y)
    BY <1>9, <2>1, PhasesStay
  <2> QED
    BY <2>2, <2>3 DEF ExchangeOK
<1>12. \A l \in Post : /\ post'[l].body = post[l].body /\ post'[l].tenant = post[l].tenant
                       /\ post'[l].session = post[l].session /\ post'[l].status = post[l].status
                       /\ post'[l].pc = post[l].pc /\ post'[l].connected = post[l].connected
                       /\ Requests(post'[l]) = Requests(post[l])
  BY <1>6, <1>8, <1>9 DEF x, Requests
<1>13. /\ Len(got) \in Nat /\ Len(reader'[k].got) = Len(got) + 1 /\ reader'[k].got[Len(got) + 1] = m
       /\ \A j \in 1 .. Len(got) : reader'[k].got[j] = got[j]
       /\ said[Len(got) + 1] = m /\ Len(got) + 1 \in 1 .. Len(said)
       /\ \A j \in 1 .. Len(got) : said[j] = got[j]
  <2>1. Len(x.out) \in Nat /\ Len(x.out) >= 1
    BY <1>1, <1>3 DEF x
  <2>2. /\ Len(got) \in Nat /\ Len(said) = Len(got) + Len(x.out)
        /\ \A j \in 1 .. Len(got) + Len(x.out) :
             said[j] = IF j <= Len(got) THEN got[j] ELSE x.out[j - Len(got)]
    BY <1>3, ConcatProperties
  <2>3. said[Len(got) + 1] = m
    BY <2>1, <2>2 DEF m
  <2>4. /\ Len(Append(got, m)) = Len(got) + 1 /\ Append(got, m)[Len(got) + 1] = m
        /\ \A j \in 1 .. Len(got) : Append(got, m)[j] = got[j]
    BY <1>3, <1>5, AppendProperties
  <2> QED
    BY <1>7, <2>1, <2>2, <2>3, <2>4
<1>14. /\ m.i \in Requests(x) /\ \A j \in 1 .. Len(got) : got[j].i = m.i => got[j].item \notin Final
  <2>1. QueuesOK(x)
    BY <1>3 DEF ExchangeOK
  <2>2. \A i \in Requests(x) : x.taken[i] \in Nat /\ Len(x.put[i]) \in Nat
    BY <1>3, <2>1, Shape
  <2>3. \A i \in Requests(x) : x.taken[i] <= Len(x.put[i])
    BY <2>1 DEF QueuesOK
  <2>4. m.i \in Requests(x)
    <3>1. \A j \in 1 .. Len(said) : said[j].i \in Requests(x)
      BY <1>3 DEF InOrderOK
    <3>2. said[Len(got) + 1] = m /\ Len(got) + 1 \in 1 .. Len(said)
      BY <1>13
    <3>3. said[Len(got) + 1].i \in Requests(x)
      BY <3>1, <3>2
    <3> QED
      BY <3>2, <3>3
  <2>5. ASSUME NEW j \in 1 .. Len(got), got[j].i = m.i PROVE got[j].item \notin Final
    <3>1. j \in 1 .. (Len(got) + 1) - 1 /\ said[j].i = said[Len(got) + 1].i
      BY <1>13, <2>5
    <3>2. said[j].item \notin Final
      BY <1>3, <1>13, <2>1, <2>2, <2>3, <3>1, ResponseIsNew
    <3> QED
      BY <1>13, <3>2
  <2> QED
    BY <2>4, <2>5
<1> DEFINE id == x.body[m.i].id
<1>15. id \in RequestId
  <2>1. x.body[m.i] \in Request
    BY <1>3, <1>14, Shape DEF ExchangeOK
  <2> QED
    BY <2>1 DEF Request
<1>16. log[c][id] = "pending"
  <2>1. \A j \in 1 .. Len(got) : ~Given(k, m.i, j)
    BY <1>14 DEF Given, got
  <2>2. c # Nobody
    BY <1>4, McpClientAssumption
  <2> QED
    BY <1>4, <1>14, <2>1, <2>2 DEF McpInv, LogOK, c, got, x
<1>17. log' = IF m.item \in Final THEN [log EXCEPT ![c] = track_response(@, id, m.item)] ELSE log
  BY DEF Take, c, m, x
<1> HIDE DEF id
<1>18. /\ \A d \in Client \ {c} : log'[d] = log[d]
       /\ \A r \in RequestId \ {id} : log'[c][r] = log[c][r]
       /\ log'[c][id] = IF m.item \in Final THEN m.item ELSE "pending"
       /\ log' \in [Client -> [RequestId -> Status]]
  <2>1. log \in [Client -> [RequestId -> Status]] /\ log[c] \in [RequestId -> Status]
    BY <1>2, <1>4 DEF McpTypeOK
  <2>2. CASE m.item \in Final
    <3>1. log' = [log EXCEPT ![c] = [log[c] EXCEPT ![id] = m.item]]
      BY <1>16, <1>17, <2>1, <2>2 DEF track_response
    <3>2. m.item \in Status
      BY <2>2 DEF Status
    <3> QED
      BY <1>4, <1>15, <2>1, <2>2, <3>1, <3>2
  <2>3. CASE m.item \notin Final
    BY <1>16, <1>17, <2>1, <2>3
  <2> QED
    BY <2>2, <2>3
<1>19. McpTypeOK'
  <2>1. post' \in [Post -> Exchange]
    BY <1>2, <1>6, <1>8, <1>10
  <2>2. reader' \in [Post -> [by : Client \cup {Nobody}, at : Reading \cup {"none", "done", "failed"},
                              got : Seq(Message)]]
    BY <1>1, <1>2, <1>5 DEF McpTypeOK, got
  <2> QED
    BY <1>1, <1>2, <1>18, <2>1, <2>2 DEF McpTypeOK, ServerTypeOK
<1>20. ExchangesOK'
  BY <1>6, <1>8, <1>11 DEF McpInv, ExchangesOK
<1>21. SaidOK'
  <2>1. Said(k)' = said
    BY <1>3, <1>5, <1>7, <1>8, <1>9 DEF Said
  <2>2. InOrderOK(y, said) /\ (SaidAll(x, said) => SaidAll(y, said))
    BY <1>3, <1>9, SaidStays
  <2>3. post'[k] = y /\ (y.connected => SaidAll(y, said))
    BY <1>3, <1>8, <1>9, <2>2
  <2>4. ASSUME NEW l \in Post, l # k
        PROVE  /\ InOrderOK(post'[l], Said(l)')
               /\ post'[l].connected => SaidAll(post'[l], Said(l)')
    <3>1. post'[l] = post[l] /\ reader'[l] = reader[l]
      BY <1>6, <2>4
    <3>2. Said(l)' = Said(l)
      BY <3>1 DEF Said
    <3>3. InOrderOK(post[l], Said(l)) /\ (post[l].connected => SaidAll(post[l], Said(l)))
      BY DEF McpInv, SaidOK
    <3> QED
      BY <3>1, <3>2, <3>3
  <2>5. InOrderOK(post'[k], Said(k)') /\ (post'[k].connected => SaidAll(post'[k], Said(k)'))
    BY <2>1, <2>2, <2>3
  <2> QED
    BY <2>4, <2>5 DEF SaidOK
<1>22. ReadersOK'
  BY <1>7, <1>12 DEF McpInv, ReadersOK
<1>23. LivesOK'
  <2>1. \A d \in Client : \A l \in Post : ReadFor(d, l)' <=> ReadFor(d, l)
    BY <1>7 DEF ReadFor
  <2> QED
    BY <1>1, <1>7, <1>12, <2>1 DEF McpInv, LivesOK
<1>24. IdsOK'
  <2>1. \A l \in Post : /\ reader'[l].by = reader[l].by /\ post'[l].body = post[l].body
                        /\ Requests(post'[l]) = Requests(post[l])
    BY <1>7, <1>12
  <2> QED
    BY <1>1, <2>1, IdsStay DEF McpInv
<1>27. PICK n \in Nat : n = Len(got)
  BY <1>13
<1>25. LogOK'
  <2> SUFFICES ASSUME NEW l \in Post, reader'[l].by # Nobody, phase'[reader'[l].by] # "closed",
                      NEW i \in Requests(post'[l])
               PROVE  LET entry == log'[reader'[l].by][post'[l].body[i].id] IN
                      /\ \A j \in 1 .. Len(reader'[l].got) :
                           Given(l, i, j)' => entry = reader'[l].got[j].item
                      /\ (\A j \in 1 .. Len(reader'[l].got) : ~Given(l, i, j)') => entry = "pending"
    BY DEF LogOK
  <2>1. /\ reader[l].by \in Client /\ reader[l].by # Nobody /\ i \in Requests(post[l])
        /\ phase[reader[l].by] # "closed" /\ reader'[l].by = reader[l].by
        /\ post'[l].body[i].id = post[l].body[i].id
    BY <1>1, <1>2, <1>7, <1>12, TypeParts
  <2>2. LET entry == log[reader[l].by][post[l].body[i].id] IN
        /\ \A j \in 1 .. Len(reader[l].got) : Given(l, i, j) => entry = reader[l].got[j].item
        /\ (\A j \in 1 .. Len(reader[l].got) : ~Given(l, i, j)) => entry = "pending"
    BY <2>1 DEF McpInv, LogOK
  <2>3. CASE l = k /\ i = m.i
    <3>1. /\ reader[l].by = c /\ post[l].body[i].id = id
          /\ reader'[l].got[n + 1] = m /\ Len(reader'[l].got) = n + 1
          /\ \A j \in 1 .. n : reader'[l].got[j] = got[j]
      BY <1>13, <1>27, <2>3 DEF c, id, x
    <3>2. \A j \in 1 .. Len(reader'[l].got) : Given(l, i, j)' => j = n + 1
      <4>1. \A j \in 1 .. Len(reader'[l].got) : j \in 1 .. n \/ j = n + 1
        BY <3>1
      <4>2. \A j \in 1 .. n : ~Given(l, i, j)'
        BY <1>14, <1>27, <2>3, <3>1 DEF Given
      <4> QED
        BY <4>1, <4>2
    <3>3. n + 1 \in 1 .. Len(reader'[l].got) /\ (Given(l, i, n + 1)' <=> m.item \in Final)
      BY <2>3, <3>1 DEF Given
    <3>4. log'[c][id] = IF m.item \in Final THEN m.item ELSE "pending"
      BY <1>18
    <3>5. log'[reader'[l].by][post'[l].body[i].id] = log'[c][id]
      BY <2>1, <3>1
    <3>6. CASE m.item \in Final
      BY <3>1, <3>2, <3>3, <3>4, <3>5, <3>6
    <3>7. CASE m.item \notin Final
      BY <3>1, <3>2, <3>3, <3>4, <3>5, <3>7
    <3> QED
      BY <3>6, <3>7
  <2>4. CASE ~(l = k /\ i = m.i)
    <3>1. log'[reader[l].by][post[l].body[i].id] = log[reader[l].by][post[l].body[i].id]
      <4>1. CASE reader[l].by # c
        BY <1>18, <2>1, <4>1
      <4>2. CASE reader[l].by = c
        <5>1. post[l].body[i].id # id
          <6>1. c = reader[k].by /\ x = post[k]
            BY DEF c, x
          <6>2. CASE l = k
            BY <1>14, <2>1, <2>4, <6>1, <6>2 DEF McpInv, IdsOK, id
          <6>3. CASE l # k
            BY <1>14, <2>1, <4>2, <6>1, <6>3 DEF McpInv, IdsOK, id
          <6> QED
            BY <6>2, <6>3
        <5>2. post[l].body[i] \in Request
          <6>1. post[l] \in Exchange /\ QueuesOK(post[l])
            BY <1>2 DEF McpInv, ExchangesOK, ExchangeOK
          <6> QED
            BY <2>1, <6>1, Shape
        <5> QED
          BY <1>18, <4>2, <5>1, <5>2 DEF Request
      <4> QED
        BY <4>1, <4>2
    <3>2. CASE l # k
      <4>1. reader'[l] = reader[l] /\ \A j : Given(l, i, j)' <=> Given(l, i, j)
        BY <1>6, <3>2 DEF Given
      <4> QED
        BY <2>1, <2>2, <3>1, <4>1
    <3>3. CASE l = k /\ i # m.i
      <4>1. reader[l].got = got /\ Len(reader[l].got) = n /\ Len(reader'[l].got) = n + 1
        BY <1>13, <1>27, <3>3 DEF got
      <4>2. \A j \in 1 .. n :
              /\ Given(l, i, j)' <=> Given(l, i, j)
              /\ reader'[l].got[j] = reader[l].got[j] /\ j \in 1 .. Len(reader'[l].got)
        BY <1>13, <1>27, <3>3, <4>1 DEF Given
      <4>3. \A j \in 1 .. Len(reader'[l].got) : Given(l, i, j)' => j \in 1 .. n
        <5>1. \A j \in 1 .. Len(reader'[l].got) : j \in 1 .. n \/ j = n + 1
          BY <4>1
        <5>2. ~Given(l, i, n + 1)'
          BY <1>13, <1>27, <3>3 DEF Given
        <5> QED
          BY <5>1, <5>2
      <4> QED
        BY <2>1, <2>2, <3>1, <4>1, <4>2, <4>3
    <3> QED
      BY <2>4, <3>2, <3>3
  <2> QED
    BY <2>3, <2>4
<1>26. SessionsOK'
  <2>1. \A d \in Client, s \in Session : Claims(d, s)' <=> Claims(d, s)
    BY <1>1, <1>7, <1>12 DEF Claims
  <2> QED
    BY <1>1, <1>7, <1>12, <2>1 DEF McpInv, SessionsOK, SessionServesItsTenant
<1> QED
  BY <1>19, <1>20, <1>21, <1>22, <1>23, <1>24, <1>25, <1>26 DEF McpInv


-----------------------------------------------------------------------------
(* The invariant holds *)

LEMMA McpInitInv ==
  ASSUME McpInit
  PROVE  McpInv
<1>1. /\ tenantOf = [s \in Session |-> Unissued]
      /\ audit = [s \in Session |-> NoRecords]
      /\ post = [k \in Post |-> Idle]
      /\ phase = [c \in Client |-> "new"] /\ sid = [c \in Client |-> NoSession]
      /\ lastId = [c \in Client |-> 0] /\ log = [c \in Client |-> NoRecords]
      /\ reader = [k \in Post |-> NoReader]
  BY DEF McpInit, ServerInit
<1>2. Idle \in Exchange /\ ExchangeOK(Idle)
  BY InitExchange
<1>3. /\ Idle.pc = "idle" /\ Idle.body = <<>> /\ Idle.out = <<>> /\ Idle.session = NoSession
      /\ Len(Idle.body) = 0
  BY DEF Idle
<1>4. \A k \in Post :
        /\ post[k] = Idle /\ reader[k].by = Nobody /\ reader[k].at = "none" /\ reader[k].got = <<>>
        /\ Requests(post[k]) = {}
  BY <1>1, <1>3 DEF NoReader, Requests
<1>5. McpTypeOK
  <2>1. NoRecords \in [RequestId -> Status]
    BY DEF NoRecords, Status
  <2>2. ServerTypeOK
    BY <1>1, <1>2, <2>1 DEF ServerTypeOK
  <2>3. MaxId \in Nat
    BY McpServerAssumption
  <2>4. <<>> \in Seq(Message)
    OBVIOUS
  <2> QED
    BY <1>1, <2>1, <2>2, <2>3, <2>4 DEF McpTypeOK, NoReader
<1>6. ExchangesOK
  BY <1>2, <1>4 DEF ExchangesOK
<1>7. SaidOK
  <2> SUFFICES ASSUME NEW k \in Post
               PROVE  InOrderOK(post[k], Said(k)) /\ SaidAll(post[k], Said(k))
    BY DEF SaidOK
  <2>1. Said(k) = <<>> /\ Len(Said(k)) = 0
    <3>1. reader[k].got = <<>> /\ post[k].out = <<>>
      BY <1>3, <1>4
    <3>2. <<>> \in Seq(Message)
      OBVIOUS
    <3>3. <<>> \o <<>> = <<>>
      BY <3>2, ConcatEmptySeq
    <3> QED
      BY <3>1, <3>3 DEF Said
  <2>2. InOrderOK(post[k], Said(k))
    BY <2>1 DEF InOrderOK
  <2>3. SaidAll(post[k], Said(k))
    BY <1>4 DEF SaidAll
  <2> QED
    BY <2>2, <2>3
<1>8. ReadersOK /\ IdsOK /\ LogOK
  BY <1>4 DEF ReadersOK, IdsOK, LogOK
<1>9. LivesOK
  <2>1. Nobody \notin Client
    BY McpClientAssumption
  <2> QED
    BY <1>1, <1>4, <2>1 DEF LivesOK, ReadFor, Reading
<1>10. SessionsOK
  <2>1. Nobody \notin Client /\ NoSession \notin Session
    BY McpClientAssumption, McpServerAssumption
  <2>2. \A c \in Client, s \in Session : ~Claims(c, s)
    BY <1>1, <1>4, <2>1 DEF Claims
  <2> QED
    BY <1>3, <1>4, <2>2 DEF SessionsOK, SessionServesItsTenant
<1> QED
  BY <1>5, <1>6, <1>7, <1>8, <1>9, <1>10 DEF McpInv

LEMMA McpStutter ==
  ASSUME McpInv, UNCHANGED mcpVars
  PROVE  McpInv'
<1>1. UNCHANGED <<tenantOf, audit, post, phase, sid, lastId, log, reader>>
  BY DEF mcpVars, serverVars, clientVars
<1>2. McpTypeOK'
  BY <1>1 DEF McpInv, McpTypeOK, ServerTypeOK
<1>3. ExchangesOK'
  BY <1>1 DEF McpInv, ExchangesOK
<1>4. SaidOK'
  BY <1>1 DEF McpInv, SaidOK, Said
<1>5. ReadersOK'
  BY <1>1 DEF McpInv, ReadersOK
<1>6. LivesOK'
  BY <1>1 DEF McpInv, LivesOK, ReadFor
<1>7. IdsOK'
  BY <1>1 DEF McpInv, IdsOK
<1>8. LogOK'
  BY <1>1 DEF McpInv, LogOK, Given
<1>9. SessionsOK'
  BY <1>1 DEF McpInv, SessionsOK, Claims, SessionServesItsTenant
<1> QED
  BY <1>2, <1>3, <1>4, <1>5, <1>6, <1>7, <1>8, <1>9 DEF McpInv

LEMMA McpStep ==
  ASSUME McpInv, [McpNext]_mcpVars
  PROVE  McpInv'
<1>1. ASSUME NEW c \in Client, NEW k \in Post,
             Start(c, k) \/ SendInitialized(c, k) \/ \E methods \in Batch : Call(c, k, methods)
      PROVE  McpInv'
  BY <1>1, ClientSends
<1>2. ASSUME NEW c \in Client, HealthFails(c) \/ Close(c)
      PROVE  McpInv'
  BY <1>2, HealthFailsInv, CloseInv
<1>3. ASSUME NEW k \in Post, NEW t \in Outsider, NEW h \in Session \cup {NoSession},
             NEW methods \in HandBatch, ByHand(k, t, h, methods)
      PROVE  McpInv'
  BY <1>3, ByHandInv
<1>4. ASSUME NEW k \in Post, Service(k) \/ (Broadcast(k) /\ UNCHANGED clientVars)
      PROVE  McpInv'
  BY <1>4, ServiceServes, ServedInv
<1>5. ASSUME NEW k \in Post, Read(k)
      PROVE  McpInv'
  <2>1. CASE HeadAccepted(k)
    BY <2>1, HeadAcceptedInv
  <2>2. CASE HeadRefused(k)
    BY <2>2, FailsInv DEF HeadRefused, Answered, Reading
  <2>3. CASE Take(k)
    BY <2>3, TakeInv
  <2>4. CASE EndOfBody(k)
    BY <2>4, EndOfBodyInv
  <2> QED
    BY <1>5, <2>1, <2>2, <2>3, <2>4 DEF Read
<1>6. ASSUME NEW k \in Post, Disconnect(k) \/ Broken(k) \/ Abandon(k)
      PROVE  McpInv'
  <2>1. CASE Disconnect(k)
    BY <2>1, DisconnectInv
  <2>2. CASE Broken(k)
    BY <2>2, FailsInv DEF Broken
  <2>3. CASE Abandon(k)
    BY <2>3, FailsInv DEF Abandon, Reading
  <2> QED
    BY <1>6, <2>1, <2>2, <2>3
<1>7. ASSUME Restart, UNCHANGED clientVars
      PROVE  McpInv'
  BY <1>7, RestartInv
<1>8. CASE UNCHANGED mcpVars
  BY <1>8, McpStutter
<1> QED
  BY <1>1, <1>2, <1>3, <1>4, <1>5, <1>6, <1>7, <1>8 DEF McpNext

LEMMA McpInvariance == McpSpec => []McpInv
<1>1. McpInit => McpInv
  BY McpInitInv
<1>2. McpInv /\ [McpNext]_mcpVars => McpInv'
  BY McpStep
<1> QED
  BY <1>1, <1>2, PTL DEF McpSpec

-----------------------------------------------------------------------------
(* What the invariant implies *)

\* Every state of the transport is of the declared shape: in particular request ids
\* stay in range and what is read are messages of the exchange (McpTypeOK).
THEOREM McpTypes == McpSpec => []McpTypeOK
<1>1. McpInv => McpTypeOK
  BY DEF McpInv
<1> QED
  BY <1>1, McpInvariance, PTL

\* No request runs in the session of another tenant, and a ready client has a
\* session that was made for its tenant and that no other client has, whoever posts
\* by hand and whenever the server restarts (SessionsApart; mcp_router.py 113-124).
THEOREM SessionsStayApart == McpSpec => []SessionsApart
<1>1. ASSUME McpInv PROVE SessionsApart
  <2>1. SessionServesItsTenant
    BY <1>1 DEF McpInv, SessionsOK
  <2>2. ASSUME NEW c \in Client, phase[c] = "ready"
        PROVE  /\ sid[c] # NoSession
               /\ tenantOf[sid[c]] \in {TokenOf[c], Lost}
               /\ \A d \in Client \ {c} : sid[d] # sid[c]
    <3>1. sid[c] # NoSession
      BY <1>1, <2>2 DEF McpInv, LivesOK
    <3>2. sid[c] \in Session
      BY <1>1, <3>1 DEF McpInv, McpTypeOK
    <3>3. Claims(c, sid[c]) /\ \A d \in Client : sid[d] = sid[c] => Claims(d, sid[c])
      BY DEF Claims
    <3> QED
      BY <1>1, <3>1, <3>2, <3>3 DEF McpInv, SessionsOK
  <2> QED
    BY <2>1, <2>2 DEF SessionsApart, ClientOwnsSession
<1> QED
  BY <1>1, McpInvariance, PTL

\* What a program reads of a request is what the handler put, in that order, nothing
\* twice and nothing left out, whatever the number of streams that share the
\* connection, and an answer read to its end holds one response to each request
\* (AnswersInOrder; mcp_router.py 228-260).
THEOREM AnswersComeInOrder == McpSpec => []AnswersInOrder
<1>1. ASSUME McpInv PROVE AnswersInOrder
  <2> SUFFICES ASSUME NEW k \in Post
      PROVE
       /\ \A j \in DOMAIN Said(k) :
            /\ Said(k)[j].i \in Indexes(post[k])
            /\ Said(k)[j].n \in DOMAIN post[k].put[Said(k)[j].i]
            /\ Said(k)[j].item = post[k].put[Said(k)[j].i][Said(k)[j].n]
            /\ \A h \in 1 .. j - 1 : Said(k)[h].i = Said(k)[j].i => Said(k)[h].n < Said(k)[j].n
            /\ Said(k)[j].n > 1 =>
                 \E h \in 1 .. j - 1 : Said(k)[h].i = Said(k)[j].i /\ Said(k)[h].n = Said(k)[j].n - 1
       /\ reader[k].at = "done" =>
            \A i \in Indexes(post[k]) :
              /\ post[k].put[i] # <<>>
              /\ \A n \in DOMAIN post[k].put[i] : post[k].put[i][n] \in Final <=> n = Len(post[k].put[i])
              /\ \E j \in DOMAIN Said(k) : Said(k)[j].i = i /\ Said(k)[j].n = Len(post[k].put[i])
    BY DEF AnswersInOrder
  <2> DEFINE x == post[k]  said == Said(k)
  <2>1. /\ x \in Exchange /\ ExchangeOK(x) /\ said \in Seq(Message)
        /\ InOrderOK(x, said) /\ (x.connected => SaidAll(x, said))
    BY <1>1, Types
  <2>2. reader[k].at = "done" =>
          x.status = 202 \/ (x.status = 200 /\ x.pc = "over" /\ x.connected)
    BY <1>1 DEF McpInv, ReadersOK
  <2> HIDE DEF x, said
  <2>3. /\ DOMAIN said = 1 .. Len(said) /\ Len(said) \in Nat
        /\ Indexes(x) = Requests(x) /\ Len(x.body) \in Nat
        /\ x.put \in Seq(Seq(Item)) /\ x.taken \in Seq(Nat)
    BY <2>1 DEF Indexes, Requests, Exchange
  <2>4. ASSUME NEW i \in Requests(x)
        PROVE  /\ x.put[i] \in Seq(Item) /\ DOMAIN x.put[i] = 1 .. Len(x.put[i])
               /\ Len(x.put[i]) \in Nat
               /\ x.taken[i] \in Nat /\ x.taken[i] <= Len(x.put[i])
               /\ \A n \in 1 .. Len(x.put[i]) : x.put[i][n] \in Final => n = Len(x.put[i])
    <3>1. i \in DOMAIN x.put /\ i \in DOMAIN x.taken
      BY <2>1, <2>3, <2>4, SMTT(30) DEF ExchangeOK, QueuesOK, Requests
    <3>2. x.put[i] \in Seq(Item) /\ x.taken[i] \in Nat
      BY <2>3, <3>1, SMTT(30)
    <3> QED
      BY <2>1, <2>4, <3>2 DEF ExchangeOK, QueuesOK
  <2>5. ASSUME NEW j \in DOMAIN said
        PROVE  /\ said[j].i \in Indexes(x)
               /\ said[j].n \in DOMAIN x.put[said[j].i]
               /\ said[j].item = x.put[said[j].i][said[j].n]
               /\ \A h \in 1 .. j - 1 : said[h].i = said[j].i => said[h].n < said[j].n
               /\ said[j].n > 1 =>
                    \E h \in 1 .. j - 1 : said[h].i = said[j].i /\ said[h].n = said[j].n - 1
    <3>1. /\ said[j].i \in Requests(x) /\ said[j].n \in 1 .. x.taken[said[j].i]
          /\ said[j].item = x.put[said[j].i][said[j].n]
          /\ \A h \in 1 .. j - 1 : said[h].i = said[j].i => said[h].n < said[j].n
          /\ said[j].n > 1 =>
               \E h \in 1 .. j - 1 : said[h].i = said[j].i /\ said[h].n = said[j].n - 1
      BY <2>1, <2>3, <2>5 DEF InOrderOK
    <3>2. said[j].n \in DOMAIN x.put[said[j].i]
      BY <2>4, <3>1
    <3> QED
      BY <2>3, <3>1, <3>2
  <2>6. ASSUME reader[k].at = "done", NEW i \in Indexes(x)
        PROVE  /\ x.put[i] # <<>>
               /\ \A n \in DOMAIN x.put[i] : x.put[i][n] \in Final <=> n = Len(x.put[i])
               /\ \E j \in DOMAIN said : said[j].i = i /\ said[j].n = Len(x.put[i])
    <3>1. i \in Requests(x) /\ x.body # <<>>
      BY <2>3, <2>6 DEF Requests
    <3>2. x.status = 200 /\ x.pc = "over" /\ x.connected
      BY <2>1, <2>2, <2>6, <3>1 DEF ExchangeOK, PhasesOK
    <3>3. Complete(x, i)
      BY <2>1, <3>1, <3>2 DEF ExchangeOK, PhasesOK
    <3>4. Len(x.put[i]) \in 1 .. x.taken[i]
      BY <2>4, <3>1, <3>3, EmptySeq DEF Complete
    <3>5. \E j \in 1 .. Len(said) : said[j].i = i /\ said[j].n = Len(x.put[i])
      BY <2>1, <3>1, <3>2, <3>4 DEF SaidAll
    <3> QED
      BY <2>3, <2>4, <3>1, <3>3, <3>5 DEF Complete
  <2> QED
    BY <2>5, <2>6 DEF x, said
<1> QED
  BY <1>1, McpInvariance, PTL

\* The client's audit agrees with what its program has read: a request is pending
\* until its response is given, and then shows that response (LogFollowsAnswers;
\* client_sdk.py 158-192).
THEOREM LogsFollowAnswers == McpSpec => []LogFollowsAnswers
<1>1. ASSUME McpInv PROVE LogFollowsAnswers
  <2> SUFFICES ASSUME NEW k \in Post, reader[k].by # Nobody, phase[reader[k].by] # "closed",
                      NEW i \in Indexes(post[k]), NEW given,
                      given = {m \in {reader[k].got[j] : j \in DOMAIN reader[k].got} :
                                 m.i = i /\ m.item \in Final}
               PROVE  log[reader[k].by][post[k].body[i].id] =
                        IF given = {} THEN "pending" ELSE (CHOOSE m \in given : TRUE).item
    BY DEF LogFollowsAnswers
  <2> DEFINE got == reader[k].got  entry == log[reader[k].by][post[k].body[i].id]
  <2>1. post[k] \in Exchange /\ got \in Seq(Message)
    BY <1>1, Types
  <2>2. i \in Requests(post[k]) /\ DOMAIN got = 1 .. Len(got)
    BY <2>1 DEF Requests, Indexes, Exchange
  <2>3. /\ \A j \in 1 .. Len(got) : Given(k, i, j) => entry = got[j].item
        /\ (\A j \in 1 .. Len(got) : ~Given(k, i, j)) => entry = "pending"
    BY <1>1, <2>2 DEF McpInv, LogOK
  <2>4. CASE given = {}
    <3>1. \A j \in 1 .. Len(got) : ~Given(k, i, j)
      BY <2>2, <2>4 DEF Given
    <3> QED
      BY <2>3, <2>4, <3>1
  <2>5. CASE given # {}
    <3>1. PICK m : m = CHOOSE w \in given : TRUE
      OBVIOUS
    <3>2. m \in given
      BY <2>5, <3>1
    <3>3. PICK j \in 1 .. Len(got) : m = got[j] /\ Given(k, i, j)
      BY <2>2, <3>2 DEF Given
    <3>4. entry = m.item
      BY <2>3, <3>3
    <3> QED
      BY <2>5, <3>1, <3>4
  <2> QED
    BY <2>4, <2>5
<1> QED
  BY <1>1, McpInvariance, PTL

-----------------------------------------------------------------------------
(* The server's audit.  It is kept by session and request id, so it is right *)
(* as long as those who post by hand, who number their requests as they      *)
(* like, keep out of the clients' sessions, and no request shares a batch    *)
(* with the one that gives the exchange another session.                     *)

OutsidersStayOut ==
  /\ \A c \in Client : TokenOf[c] \notin Outsider
  /\ \A b \in HandBatch : \A i \in DOMAIN b : b[i] # "initialize"

InitializeAlone == \A b \in Batch : \A i \in DOMAIN b : b[i] = "initialize" => Len(b) = 1

\* The exchanges whose entries count.
Counts(x, owner) ==
  /\ x.pc \in {"dispatching", "streaming"} \/ (x.pc = "over" /\ x.status = 200 /\ x.connected)
  /\ x.session # NoSession
  /\ owner[x.session] # Lost

\* A request is pending while its queue is read, and then shows what came last.
EntriesOK(x, records) ==
  \A i \in Requests(x) :
    /\ i \in x.open \cup x.owed => records[x.body[i].id] = "pending"
    /\ i \notin x.open \cup x.owed /\ x.put[i] # <<>> =>
         records[x.body[i].id] = x.put[i][Len(x.put[i])]

Initializes(x) == \E i \in Requests(x) : x.body[i].method = "initialize"

\* Exchanges by hand get no session.
StrangerOK(x) ==
  /\ x.pc # "idle" => x.tenant \in Outsider
  /\ x.pc \in {"dispatching", "streaming"} \/ x.status = 200 => x.session = NoSession
  /\ ~Initializes(x)

AuditInv ==
  /\ \A s \in Session : tenantOf[s] \notin Outsider
  /\ \A k \in Post :
       /\ reader[k].by = Nobody => StrangerOK(post[k])
       /\ reader[k].by # Nobody /\ Initializes(post[k]) => Len(post[k].body) = 1
       /\ Counts(post[k], tenantOf) => EntriesOK(post[k], audit[post[k].session])
       /\ \A i, j \in post[k].owed : i = j

\* The fields on which the audit of an exchange rests.
SameEntries(x, y) ==
  /\ y.body = x.body /\ y.tenant = x.tenant /\ y.session = x.session /\ y.put = x.put
  /\ y.pc = x.pc /\ y.status = x.status /\ y.open = x.open /\ y.owed = x.owed
  /\ y.connected => x.connected

LEMMA SameOK ==
  ASSUME NEW x, NEW y, SameEntries(x, y), NEW owner, NEW records
  PROVE  /\ Requests(y) = Requests(x)
         /\ Counts(y, owner) => Counts(x, owner)
         /\ EntriesOK(x, records) => EntriesOK(y, records)
         /\ StrangerOK(x) => StrangerOK(y)
         /\ Initializes(y) => Initializes(x)
<1>1. Requests(y) = Requests(x)
  BY DEF SameEntries, Requests
<1>2. Counts(y, owner) => Counts(x, owner)
  BY DEF SameEntries, Counts
<1>3. EntriesOK(x, records) => EntriesOK(y, records)
  BY <1>1 DEF SameEntries, EntriesOK
<1>4. Initializes(x) <=> Initializes(y)
  BY <1>1 DEF SameEntries, Initializes
<1>5. StrangerOK(x) => StrangerOK(y)
  BY <1>4 DEF SameEntries, StrangerOK
<1> QED
  BY <1>1, <1>2, <1>3, <1>4, <1>5

\* A step that leaves the entries, and what they rest on, as they are.
LEMMA AuditStays ==
  ASSUME AuditInv, UNCHANGED <<tenantOf, audit>>,
         \A k \in Post : SameEntries(post[k], post'[k]) /\ reader'[k].by = reader[k].by
  PROVE  AuditInv'
<1> SUFFICES ASSUME NEW k \in Post
             PROVE  /\ reader'[k].by = Nobody => StrangerOK(post'[k])
                    /\ reader'[k].by # Nobody /\ Initializes(post'[k]) => Len(post'[k].body) = 1
                    /\ Counts(post'[k], tenantOf') => EntriesOK(post'[k], audit'[post'[k].session])
                    /\ \A i, j \in post'[k].owed : i = j
  BY DEF AuditInv
<1>1. SameEntries(post[k], post'[k]) /\ reader'[k].by = reader[k].by
  OBVIOUS
<1>2. /\ post'[k].session = post[k].session /\ post'[k].owed = post[k].owed
      /\ post'[k].body = post[k].body
  BY <1>1 DEF SameEntries
<1>3. /\ Counts(post'[k], tenantOf) => Counts(post[k], tenantOf)
      /\ EntriesOK(post[k], audit[post[k].session]) => EntriesOK(post'[k], audit[post[k].session])
      /\ StrangerOK(post[k]) => StrangerOK(post'[k])
      /\ Initializes(post'[k]) => Initializes(post[k])
  BY <1>1, SameOK
<1> QED
  BY <1>1, <1>2, <1>3 DEF AuditInv

\* What a step of the server makes of the audit: it enters requests of the exchange,
\* in its session, and the entries of the exchange are right.
Audited(k) ==
  /\ \A s \in Session, r \in RequestId :
       audit'[s][r] # audit[s][r] =>
         /\ s = post'[k].session /\ post'[k].pc \in {"dispatching", "streaming"}
         /\ \E i \in Requests(post[k]) : r = post[k].body[i].id
  /\ \A s \in Session : tenantOf'[s] # tenantOf[s] => s \in Fresh
  /\ \A s \in Session : tenantOf'[s] \notin Outsider
  /\ reader[k].by = Nobody => StrangerOK(post'[k])
  /\ Counts(post'[k], tenantOf') => EntriesOK(post'[k], audit'[post'[k].session])
  /\ \A i, j \in post'[k].owed : i = j

\* An exchange whose entries count belongs to a client, and its session to that
\* client alone.
LEMMA CountedIsClaimed ==
  ASSUME McpInv, AuditInv, NEW k \in Post, Counts(post[k], tenantOf)
  PROVE  /\ reader[k].by \in Client
         /\ post[k].session \in Session
         /\ Claims(reader[k].by, post[k].session)
         /\ tenantOf[post[k].session] \in Tenant
<1>1. post[k].session # NoSession /\ tenantOf[post[k].session] # Lost
      /\ (post[k].pc \in {"dispatching", "streaming"} \/ post[k].status = 200)
  BY DEF Counts
<1>2. post[k].session \in Session \cup {NoSession} /\ reader[k].by \in Client \cup {Nobody}
  BY FieldTypes, TypeParts DEF McpInv, Typed
<1>3. reader[k].by \in Client
  BY <1>1, <1>2 DEF AuditInv, StrangerOK
<1>4. Claims(reader[k].by, post[k].session)
  BY <1>3 DEF Claims
<1>5. tenantOf[post[k].session] \in {TokenOf[reader[k].by], Lost}
  BY <1>1, <1>2, <1>3, <1>4 DEF McpInv, SessionsOK
<1> QED
  BY <1>1, <1>2, <1>3, <1>4, <1>5, McpClientAssumption

LEMMA EntryIds ==
  ASSUME NEW x \in Exchange, NEW i \in Requests(x)
  PROVE  x.body[i].id \in RequestId
<1>1. x.body \in Seq(Request) /\ i \in DOMAIN x.body
  BY FieldTypes DEF Typed, Requests
<1>2. x.body[i] \in Request
  BY <1>1
<1> QED
  BY <1>2 DEF Request

\* The requests of two exchanges that count have entries of their own.
LEMMA OthersEntries ==
  ASSUME McpInv, AuditInv, NEW k \in Post, Served(k), Audited(k),
         NEW l \in Post, l # k, Counts(post'[l], tenantOf')
  PROVE  EntriesOK(post'[l], audit'[post'[l].session])
<1> DEFINE x == post[l]  s == x.session
<1>1. post'[l] = x /\ x \in Exchange
  BY TypeParts DEF Served, McpInv
<1>2. s # NoSession /\ tenantOf'[s] # Lost
      /\ (x.pc \in {"dispatching", "streaming"} \/ (x.pc = "over" /\ x.status = 200 /\ x.connected))
  BY <1>1 DEF Counts
<1>3. s \in Session
  BY <1>1, <1>2, FieldTypes DEF Typed
<1>4. reader[l].by \in Client /\ Claims(reader[l].by, s)
  <2>1. reader[l].by \in Client \cup {Nobody}
    BY TypeParts DEF McpInv
  <2>2. reader[l].by \in Client
    BY <1>2, <2>1 DEF AuditInv, StrangerOK
  <2> QED
    BY <2>2 DEF Claims
<1>5. tenantOf[s] \in {TokenOf[reader[l].by], Lost}
  BY <1>3, <1>4 DEF McpInv, SessionsOK
<1>6. tenantOf'[s] = tenantOf[s]
  BY <1>3, <1>4, <1>5, McpServerAssumption, McpClientAssumption DEF Audited, Fresh
<1>7. EntriesOK(x, audit[s])
  <2>1. Counts(x, tenantOf)
    BY <1>2, <1>6 DEF Counts
  <2> QED
    BY <2>1 DEF AuditInv
<1>8. ASSUME NEW i \in Requests(x) PROVE audit'[s][x.body[i].id] = audit[s][x.body[i].id]
  <2> DEFINE r == x.body[i].id
  <2>1. r \in RequestId
    BY <1>1, <1>8, EntryIds
  <2>2. SUFFICES ASSUME s = post'[k].session, post'[k].pc \in {"dispatching", "streaming"}, NEW j \in Requests(post[k]),
                        r = post[k].body[j].id
                 PROVE  FALSE
    BY <1>3, <2>1 DEF Audited
  <2>3. s = post[k].session
    BY <1>3, <1>4, <1>5, <1>2, <2>2, McpServerAssumption, McpClientAssumption DEF Served, Fresh
  <2>4. reader[k].by = reader[l].by
    <3>1. reader[k].by \in Client \cup {Nobody}
      BY TypeParts DEF McpInv
    <3>2. reader[k].by # Nobody
      BY <1>2, <2>2 DEF Audited, StrangerOK
    <3>3. Claims(reader[k].by, s)
      BY <2>3, <3>1, <3>2 DEF Claims
    <3> QED
      BY <1>3, <1>4, <3>1, <3>2, <3>3 DEF McpInv, SessionsOK
  <2> QED
    BY <1>4, <1>8, <2>2, <2>4, McpClientAssumption DEF McpInv, IdsOK
<1> HIDE DEF x
<1>9. EntriesOK(x, audit'[s])
  BY <1>7, <1>8 DEF EntriesOK
<1> QED
  BY <1>1, <1>9

LEMMA AuditedInv ==
  ASSUME McpInv, AuditInv, NEW k \in Post, Served(k), Audited(k)
  PROVE  AuditInv'
<1>1. reader' = reader
  BY DEF Served, clientVars
<1> SUFFICES ASSUME NEW l \in Post
             PROVE  /\ reader[l].by = Nobody => StrangerOK(post'[l])
                    /\ reader[l].by # Nobody /\ Initializes(post'[l]) => Len(post'[l].body) = 1
                    /\ Counts(post'[l], tenantOf') => EntriesOK(post'[l], audit'[post'[l].session])
                    /\ \A i, j \in post'[l].owed : i = j
  BY <1>1 DEF AuditInv, Audited
<1>2. CASE l = k
  <2>1. post'[k].body = post[k].body
    BY DEF Served
  <2>2. Initializes(post'[k]) <=> Initializes(post[k])
    BY <2>1 DEF Initializes, Requests
  <2> QED
    BY <1>2, <2>1, <2>2 DEF Audited, AuditInv
<1>3. CASE l # k
  <2>1. post'[l] = post[l]
    BY <1>3 DEF Served
  <2>2. Counts(post'[l], tenantOf') => EntriesOK(post'[l], audit'[post'[l].session])
    BY <1>3, OthersEntries
  <2> QED
    BY <2>1, <2>2 DEF AuditInv
<1> QED
  BY <1>2, <1>3

\* A step that enters nothing.
LEMMA AuditedInPlace ==
  ASSUME AuditInv, NEW k \in Post, NEW y,
         post \in [Post -> Exchange], post' = [post EXCEPT ![k] = y],
         UNCHANGED <<tenantOf, audit>>, y.body = post[k].body, y.tenant = post[k].tenant,
         post[k].pc # "idle",
         reader[k].by = Nobody /\ (y.pc \in {"dispatching", "streaming"} \/ y.status = 200) =>
           y.session = NoSession,
         Counts(y, tenantOf) => EntriesOK(y, audit[y.session]),
         \A i, j \in y.owed : i = j
  PROVE  Audited(k)
<1>1. post'[k] = y
  OBVIOUS
<1>2. Initializes(y) <=> Initializes(post[k])
  BY DEF Initializes, Requests
<1>3. reader[k].by = Nobody => StrangerOK(y)
  BY <1>2 DEF AuditInv, StrangerOK
<1> QED
  BY <1>1, <1>3 DEF Audited, AuditInv

LEMMA ReceiveAudited ==
  ASSUME McpInv, AuditInv, NEW k \in Post, NEW wellFormed \in BOOLEAN, Receive(k, wellFormed)
  PROVE  Audited(k)
<1> DEFINE x == post[k]  admission == Admission(x.tenant, x.session)
           y == CASE admission # 200 -> Refused(x, admission)
                  [] admission = 200 /\ ~wellFormed -> Refused(x, 400)
                  [] admission = 200 /\ wellFormed /\ x.body = <<>> ->
                       [x EXCEPT !.pc = "over", !.status = 202]
                  [] OTHER -> [x EXCEPT !.pc = "dispatching"]
<1>1. /\ x \in Exchange /\ ExchangeOK(x) /\ x.pc = "posted" /\ post \in [Post -> Exchange]
      /\ post' = [post EXCEPT ![k] = y] /\ UNCHANGED <<tenantOf, audit>>
  BY Types DEF Receive, ServerTypeOK
<1>2. admission \in {200, 403, 404}
  BY DEF Admission
<1>3. /\ x.status = 0 /\ x.open = {} /\ x.owed = {}
      /\ \A i \in Requests(x) : x.put[i] = <<>>
  BY <1>1 DEF ExchangeOK, PhasesOK
<1>4. reader[k].by = Nobody /\ admission = 200 => x.session = NoSession
  <2>1. SUFFICES ASSUME reader[k].by = Nobody, x.session # NoSession, admission = 200 PROVE FALSE
    OBVIOUS
  <2>2. x.session \in Session /\ x.tenant \in Outsider
    BY <1>1, <2>1, FieldTypes DEF Typed, AuditInv, StrangerOK
  <2>3. tenantOf[x.session] = x.tenant
    BY <2>1, <2>2 DEF Admission
  <2> QED
    BY <2>2, <2>3 DEF AuditInv
<1> HIDE DEF admission
<1>5. \/ y = Refused(x, admission) /\ admission \in {403, 404}
      \/ y = Refused(x, 400)
      \/ y = [x EXCEPT !.pc = "over", !.status = 202]
      \/ y = [x EXCEPT !.pc = "dispatching"] /\ admission = 200
  BY <1>2
<1> HIDE DEF y
<1> HIDE DEF x
<1>6. /\ y.body = x.body /\ y.tenant = x.tenant /\ y.put = x.put
      /\ y.open = x.open /\ y.owed = x.owed
      /\ \/ y.pc = "over" /\ y.status \in {202, 400, 403, 404}
         \/ y.pc = "dispatching" /\ y.status = 0 /\ y.session = x.session /\ admission = 200
  <2>1. CASE y = Refused(x, admission) /\ admission \in {403, 404}
    BY <1>1, <2>1 DEF Refused, Exchange
  <2>2. CASE y = Refused(x, 400)
    BY <1>1, <2>2 DEF Refused, Exchange
  <2>3. CASE y = [x EXCEPT !.pc = "over", !.status = 202]
    BY <1>1, <2>3 DEF Exchange
  <2>4. CASE y = [x EXCEPT !.pc = "dispatching"] /\ admission = 200
    BY <1>1, <1>3, <2>4 DEF Exchange
  <2> QED
    BY <1>5, <2>1, <2>2, <2>3, <2>4
<1>8. Counts(y, tenantOf) => EntriesOK(y, audit[y.session])
  <2>1. Requests(y) = Requests(x)
    BY <1>6 DEF Requests
  <2>2. EntriesOK(y, audit[y.session])
    BY <1>3, <1>6, <2>1 DEF EntriesOK
  <2> QED
    BY <2>2
<1>9. y.pc \in {"dispatching", "streaming"} \/ y.status = 200 =>
        y.session = x.session /\ admission = 200
  BY <1>6
<1>10. /\ reader[k].by = Nobody /\ (y.pc \in {"dispatching", "streaming"} \/ y.status = 200) =>
             y.session = NoSession
       /\ \A i, j \in y.owed : i = j
       /\ post[k].pc # "idle"
  BY <1>1, <1>3, <1>4, <1>6, <1>9 DEF x
<1>11. /\ post \in [Post -> Exchange] /\ post' = [post EXCEPT ![k] = y]
       /\ UNCHANGED <<tenantOf, audit>> /\ y.body = post[k].body /\ y.tenant = post[k].tenant
  BY <1>1, <1>6 DEF x
<1> QED
  BY <1>8, <1>10, <1>11, AuditedInPlace, Zenon

\* A step of the stream neither puts nor enters anything.
LEMMA StreamAudited ==
  ASSUME McpInv, AuditInv, NEW k \in Post, NEW y,
         post' = [post EXCEPT ![k] = y], UNCHANGED <<tenantOf, audit>>,
         post[k].pc \in {"dispatching", "streaming"},
         y.body = post[k].body, y.tenant = post[k].tenant, y.session = post[k].session,
         y.put = post[k].put,
         \/ y.open \cup y.owed = post[k].open \cup post[k].owed
         \/ y.pc = "over" /\ ~y.connected,
         \A i, j \in y.owed : i = j
  PROVE  Audited(k)
<1> DEFINE x == post[k]
<1>1. post \in [Post -> Exchange]
  BY TypeParts DEF McpInv
<1>2. Counts(y, tenantOf) => Counts(x, tenantOf)
  BY DEF Counts
<1>3. Counts(y, tenantOf) => EntriesOK(x, audit[x.session]) /\ y.open \cup y.owed = x.open \cup x.owed
  BY <1>2 DEF AuditInv, Counts
<1>4. Requests(y) = Requests(x)
  BY DEF Requests
<1>5. Counts(y, tenantOf) => EntriesOK(y, audit[y.session])
  BY <1>3, <1>4 DEF EntriesOK
<1>6. reader[k].by = Nobody => y.session = NoSession
  BY DEF AuditInv, StrangerOK
<1> QED
  BY <1>1, <1>5, <1>6, AuditedInPlace

LEMMA ServeAudited ==
  ASSUME McpInv, AuditInv, NEW k \in Post,
         Respond(k) \/ Wait(k) \/ CloseStream(k) \/ Cancel(k) \/ \E i \in post[k].done : Yield(k, i)
  PROVE  Audited(k)
<1> DEFINE x == post[k]
<1>1. /\ x \in Exchange /\ ExchangeOK(x) /\ post \in [Post -> Exchange]
      /\ \A i, j \in x.owed : i = j
  BY Types, TypeParts DEF McpInv, AuditInv
<1>2. CASE Respond(k)
  <2>1. PICK pc, taken, out :
          /\ post' = [post EXCEPT ![k] = [x EXCEPT !.pc = pc, !.status = 200, !.taken = taken,
                                                   !.out = out]]
          /\ x.pc = "dispatching" /\ UNCHANGED <<tenantOf, audit>>
    BY <1>2, ZenonT(40) DEF Respond
  <2> DEFINE y == [x EXCEPT !.pc = pc, !.status = 200, !.taken = taken, !.out = out]
  <2>2. /\ y.body = x.body /\ y.tenant = x.tenant /\ y.session = x.session /\ y.put = x.put
        /\ y.open = x.open /\ y.owed = x.owed
    BY <1>1 DEF Exchange
  <2>3. post' = [post EXCEPT ![k] = y]
    BY <2>1
  <2> HIDE DEF y
  <2>4. post[k].pc \in {"dispatching", "streaming"} /\ UNCHANGED <<tenantOf, audit>>
        /\ (\A i, j \in y.owed : i = j) /\ y.open \cup y.owed = post[k].open \cup post[k].owed
    BY <1>1, <2>1, <2>2
  <2> QED
    BY <2>2, <2>3, <2>4, StreamAudited, Zenon
<1>3. CASE Wait(k)
  <2>1. PICK done : /\ post' = [post EXCEPT ![k] = [x EXCEPT !.done = done]]
                    /\ x.pc = "streaming" /\ UNCHANGED <<tenantOf, audit>>
    BY <1>1, <1>3 DEF Wait
  <2> DEFINE y == [x EXCEPT !.done = done]
  <2>2. /\ y.body = x.body /\ y.tenant = x.tenant /\ y.session = x.session /\ y.put = x.put
        /\ y.open = x.open /\ y.owed = x.owed
    BY <1>1 DEF Exchange
  <2>3. post' = [post EXCEPT ![k] = y]
    BY <2>1
  <2> HIDE DEF y
  <2>4. post[k].pc \in {"dispatching", "streaming"} /\ UNCHANGED <<tenantOf, audit>>
        /\ (\A i, j \in y.owed : i = j) /\ y.open \cup y.owed = post[k].open \cup post[k].owed
    BY <1>1, <2>1, <2>2
  <2> QED
    BY <2>2, <2>3, <2>4, StreamAudited, Zenon
<1>4. CASE CloseStream(k)
  <2> DEFINE y == [x EXCEPT !.pc = "over"]
  <2>1. /\ post' = [post EXCEPT ![k] = y] /\ x.pc = "streaming" /\ UNCHANGED <<tenantOf, audit>>
    BY <1>1, <1>4 DEF CloseStream
  <2>2. /\ y.body = x.body /\ y.tenant = x.tenant /\ y.session = x.session /\ y.put = x.put
        /\ y.open = x.open /\ y.owed = x.owed
    BY <1>1 DEF Exchange
  <2> HIDE DEF y
  <2>3. post[k].pc \in {"dispatching", "streaming"} /\ UNCHANGED <<tenantOf, audit>>
        /\ (\A i, j \in y.owed : i = j) /\ y.open \cup y.owed = post[k].open \cup post[k].owed
    BY <1>1, <2>1, <2>2
  <2> QED
    BY <2>1, <2>2, <2>3, StreamAudited, Zenon
<1>5. CASE Cancel(k)
  <2> DEFINE y == Ended(x)
  <2>1. /\ post' = [post EXCEPT ![k] = y] /\ x.pc = "streaming" /\ ~x.connected
        /\ UNCHANGED <<tenantOf, audit>>
    BY <1>5 DEF Cancel
  <2>2. /\ y.body = x.body /\ y.tenant = x.tenant /\ y.session = x.session /\ y.put = x.put
        /\ y.pc = "over" /\ y.connected = x.connected /\ y.owed = {}
    BY <1>1 DEF Ended, Exchange
  <2> HIDE DEF y
  <2>3. post[k].pc \in {"dispatching", "streaming"} /\ UNCHANGED <<tenantOf, audit>>
        /\ (\A i, j \in y.owed : i = j) /\ y.pc = "over" /\ ~y.connected
    BY <1>1, <2>1, <2>2
  <2> QED
    BY <2>1, <2>2, <2>3, StreamAudited, Zenon
<1>6. ASSUME NEW i \in x.done, Yield(k, i) PROVE Audited(k)
  <2> DEFINE y == AfterYield(x, i)
  <2>1. /\ post' = [post EXCEPT ![k] = y] /\ x.pc = "streaming" /\ x.owed = {}
        /\ UNCHANGED <<tenantOf, audit>>
    BY <1>6 DEF Yield
  <2>2. y.owed \in {{i}, x.owed}
    BY <1>1 DEF AfterYield, Emitted, Exchange
  <2>5. i \in x.done
    BY <1>6
  <2> HIDE DEF x
  <2>6. x \in Exchange /\ ExchangeOK(x) /\ x.pc = "streaming" /\ x.owed = {} /\ y = AfterYield(x, i)
    BY <1>1, <2>1
  <2> HIDE DEF y
  <2>3. /\ y.body = x.body /\ y.tenant = x.tenant /\ y.session = x.session /\ y.put = x.put
        /\ y.open \cup y.owed = x.open
    BY <2>5, <2>6, YieldedOK, Zenon
  <2>4. y.open \cup y.owed = x.open \cup x.owed /\ \A j, l \in y.owed : j = l
    BY <1>1, <2>1, <2>2, <2>3
  <2> QED
    BY <2>1, <2>3, <2>4, StreamAudited DEF x
<1> QED
  BY <1>2, <1>3, <1>4, <1>5, <1>6

\* The response is entered once, for the one request that owes it.
LEMMA TrackAudited ==
  ASSUME McpInv, AuditInv, NEW k \in Post, NEW i \in post[k].owed, Track(k, i)
  PROVE  Audited(k)
<1> DEFINE x == post[k]  s == x.session  r == x.body[i].id  y == [x EXCEPT !.owed = {}]
           item == x.put[i][x.taken[i]]
<1>1. /\ x \in Exchange /\ ExchangeOK(x) /\ ServerTypeOK /\ post \in [Post -> Exchange]
  BY Types, TypeParts DEF McpInv
<1>2. /\ post' = [post EXCEPT ![k] = y] /\ x.pc = "streaming" /\ tenantOf' = tenantOf
      /\ audit' = Entered(s, track_response(audit[s], r, item))
  BY <1>1 DEF Track
<1>3. /\ i \in Requests(x) /\ i \notin x.open /\ x.owed = {i}
      /\ x.put[i] # <<>> /\ item = x.put[i][Len(x.put[i])]
  <2>1. i \in Requests(x) /\ i \notin x.open /\ Complete(x, i)
    BY <1>1, <1>2 DEF ExchangeOK, PhasesOK
  <2>2. \A j \in x.owed : j = i
    BY DEF AuditInv
  <2>3. x.owed = {i}
    BY <2>2
  <2> QED
    BY <2>1, <2>3 DEF Complete
<1>4. r \in RequestId /\ s \in Session \cup {NoSession}
  BY <1>1, <1>3, EntryIds, FieldTypes DEF Typed
<1>5. /\ y.body = x.body /\ y.tenant = x.tenant /\ y.session = x.session /\ y.put = x.put
      /\ y.open = x.open /\ y.owed = {} /\ y.pc = x.pc /\ y.status = x.status
      /\ y.connected = x.connected
  BY <1>1 DEF Exchange
<1>6. post'[k] = y
  BY <1>1, <1>2
<1> HIDE DEF y, item
<1>7. \A u \in Session, q \in RequestId :
        audit'[u][q] # audit[u][q] => u = s /\ q = r
  BY <1>1, <1>2, <1>4 DEF Entered, track_response, ServerTypeOK
<1>8. reader[k].by = Nobody => StrangerOK(y)
  BY <1>5 DEF AuditInv, StrangerOK, Initializes, Requests
<1>9. ASSUME Counts(y, tenantOf) PROVE EntriesOK(y, audit'[s])
  <2>1. Counts(x, tenantOf) /\ s # NoSession
    BY <1>5, <1>9 DEF Counts
  <2>2. EntriesOK(x, audit[s]) /\ s \in Session
    BY <1>4, <2>1 DEF AuditInv
  <2>3. audit[s][r] = "pending"
    BY <1>3, <2>2 DEF EntriesOK
  <2>4. audit'[s] = [audit[s] EXCEPT ![r] = item]
    BY <1>1, <1>2, <2>1, <2>2, <2>3 DEF Entered, track_response, ServerTypeOK
  <2>5. reader[k].by # Nobody
    BY <2>1, <1>2 DEF AuditInv, StrangerOK
  <2>6. \A j \in Requests(x) : x.body[j].id = r => j = i
    BY <1>3, <2>5 DEF McpInv, IdsOK
  <2>7. audit[s] \in [RequestId -> Status]
    BY <1>1, <2>2 DEF ServerTypeOK
  <2>8. Requests(y) = Requests(x)
    BY <1>5 DEF Requests
  <2> SUFFICES ASSUME NEW j \in Requests(x)
               PROVE  /\ j \notin x.open => j \notin y.open \cup y.owed
                      /\ j \in y.open \cup y.owed => audit'[s][x.body[j].id] = "pending"
                      /\ j \notin y.open \cup y.owed /\ x.put[j] # <<>> =>
                           audit'[s][x.body[j].id] = x.put[j][Len(x.put[j])]
    BY <1>5, <2>8 DEF EntriesOK
  <2>9. CASE j = i
    BY <1>3, <1>4, <1>5, <2>4, <2>7, <2>9
  <2>10. CASE j # i
    <3>1. x.body[j].id # r
      BY <2>6, <2>10
    <3>2. audit'[s][x.body[j].id] = audit[s][x.body[j].id]
      <4>1. x.body[j].id \in RequestId
        BY <1>1, EntryIds
      <4> QED
        BY <2>4, <2>7, <3>1, <4>1
    <3>3. j \in x.open \cup x.owed <=> j \in y.open \cup y.owed
      BY <1>3, <1>5, <2>10
    <3> QED
      BY <1>5, <2>2, <3>2, <3>3 DEF EntriesOK
  <2> QED
    BY <2>9, <2>10
<1> HIDE DEF x, s, r
<1>10. \A u \in Session, q \in RequestId :
         audit'[u][q] # audit[u][q] =>
           /\ u = post'[k].session /\ post'[k].pc \in {"dispatching", "streaming"}
           /\ \E j \in Requests(post[k]) : q = post[k].body[j].id
  BY <1>2, <1>3, <1>5, <1>6, <1>7 DEF x, s, r
<1> QED
  BY <1>2, <1>5, <1>6, <1>8, <1>9, <1>10 DEF Audited, AuditInv, s

\* A queue that is filled has not been read to its end.
LEMMA ProduceAudited ==
  ASSUME McpInv, AuditInv, NEW k \in Post, NEW i \in post[k].tasks, NEW item \in Item,
         Produce(k, i, item)
  PROVE  Audited(k)
<1> DEFINE x == post[k]  y == Produced(x, i, item)
<1>1. x \in Exchange /\ ExchangeOK(x) /\ post \in [Post -> Exchange]
  BY Types, TypeParts DEF McpInv
<1>2. post' = [post EXCEPT ![k] = y]
  <2>1. post \in [Post -> Exchange]
    BY <1>1
  <2> QED
    BY <2>1, ZenonT(40) DEF Produce, Produced, Exchange
<1>3. UNCHANGED <<tenantOf, audit>> /\ i \in x.tasks
  BY DEF Produce
<1> HIDE DEF y, x
<1>4. /\ y.body = x.body /\ y.tenant = x.tenant /\ y.session = x.session /\ y.connected = x.connected
      /\ y.pc = x.pc /\ y.status = x.status /\ y.open = x.open /\ y.owed = x.owed
      /\ i \in Requests(x) /\ ~Complete(x, i)
      /\ x.pc = "dispatching" => i \in x.open
      /\ \A j \in Requests(x) \ {i} : y.put[j] = x.put[j]
  BY <1>1, <1>3, ProducedOK DEF y
<1>5. x.pc # "idle"
  BY <1>1, <1>3 DEF ExchangeOK, PhasesOK
<1>6. ASSUME Counts(y, tenantOf) PROVE EntriesOK(y, audit[y.session])
  <2>1. Counts(x, tenantOf)
    BY <1>4, <1>6 DEF Counts
  <2>2. EntriesOK(x, audit[x.session])
    BY <2>1 DEF AuditInv, x
  <2>3. i \in x.open
    BY <1>1, <1>4, <2>1 DEF Counts, ExchangeOK, PhasesOK
  <2>4. Requests(y) = Requests(x)
    BY <1>4 DEF Requests
  <2> QED
    BY <1>4, <2>2, <2>3, <2>4 DEF EntriesOK
<1>7. /\ reader[k].by = Nobody /\ (y.pc \in {"dispatching", "streaming"} \/ y.status = 200) =>
           y.session = NoSession
      /\ \A j, l \in y.owed : j = l
  BY <1>4 DEF AuditInv, StrangerOK, x
<1>8. post[k].pc # "idle" /\ y.body = post[k].body /\ y.tenant = post[k].tenant
  BY <1>4, <1>5 DEF x
<1> QED
  BY <1>1, <1>2, <1>3, <1>6, <1>7, <1>8, AuditedInPlace, Zenon

\* What a dispatch enters.
LEMMA DispatchEnters ==
  ASSUME ServerTypeOK, NEW s \in Session, NEW r \in RequestId, NEW o \in Final \cup {"queue"},
         audit' = Entered(s, IF o = "queue" THEN track_request(audit[s], r)
                             ELSE track_response(track_request(audit[s], r), r, o))
  PROVE  audit' = [audit EXCEPT ![s] = [@ EXCEPT ![r] = IF o = "queue" THEN "pending" ELSE o]]
<1>1. audit[s] \in [RequestId -> Status] /\ s # NoSession
  BY McpServerAssumption DEF ServerTypeOK
<1>2. CASE o = "queue"
  BY <1>1, <1>2 DEF Entered, track_request
<1>3. CASE o # "queue"
  <2> DEFINE records == track_request(audit[s], r)
  <2>1. records \in [RequestId -> Status] /\ records[r] = "pending"
        /\ records = [audit[s] EXCEPT ![r] = "pending"]
    BY <1>1 DEF track_request, Status
  <2>2. track_response(records, r, o) = [records EXCEPT ![r] = o]
    BY <2>1 DEF track_response
  <2>3. [records EXCEPT ![r] = o] = [audit[s] EXCEPT ![r] = o]
    BY <1>1, <2>1
  <2> QED
    BY <1>1, <1>3, <2>2, <2>3 DEF Entered
<1> QED
  BY <1>2, <1>3

LEMMA DispatchAudited ==
  ASSUME OutsidersStayOut, McpInv, AuditInv, NEW k \in Post, NEW i \in Indexes(post[k]),
         NEW o, Dispatch(k, i, o)
  PROVE  Audited(k)
<1> DEFINE x == post[k]  r == x.body[i].id
           s == IF x.body[i].method = "initialize" THEN CHOOSE u \in Fresh : TRUE ELSE x.session
           y == Dispatched(x, i, o, s)
<1>1. /\ x \in Exchange /\ ExchangeOK(x) /\ ServerTypeOK /\ x.pc = "dispatching"
      /\ i \in Running(x) /\ o \in Outcome(x.body[i].method) /\ post \in [Post -> Exchange]
      /\ post' = [post EXCEPT ![k] = y]
  BY Types, TypeParts DEF Dispatch, Dispatched, McpInv
<1>2. x.body[i].method = "initialize" => s \in Fresh /\ s \in Session /\ s # NoSession
  BY McpServerAssumption DEF Dispatch, Fresh
<1>3. /\ tenantOf' = IF x.body[i].method = "initialize" THEN [tenantOf EXCEPT ![s] = x.tenant]
                     ELSE tenantOf
      /\ audit' = Entered(s, IF o = "queue" THEN track_request(audit[s], r)
                             ELSE track_response(track_request(audit[s], r), r, o))
      /\ x.body[i].method # "initialize" => s = x.session
  BY DEF Dispatch
<1>4. s \in Session \cup {NoSession}
  BY <1>1, <1>2, <1>3, FieldTypes DEF Typed
<1> HIDE DEF s, x, r
<1>5. y = Dispatched(x, i, o, s)
      /\ (IF x.body[i].method = "initialize" THEN s # NoSession ELSE s = x.session)
  BY <1>2, <1>3
<1> HIDE DEF y
<1>6. /\ y.body = x.body /\ y.tenant = x.tenant /\ y.session = s
      /\ y.pc = "dispatching" /\ y.status = 0 /\ y.owed = {} /\ i \in Requests(x)
      /\ \A j \in Requests(x) \ {i} : y.put[j] = x.put[j] /\ (j \in y.open <=> j \in x.open)
      /\ o = "queue" => i \in y.open
      /\ o # "queue" => i \notin y.open /\ y.put[i] = <<o>> /\ o \in Final
  BY <1>1, <1>4, <1>5, DispatchedOK, SMTT(30)
<1>7. r \in RequestId /\ o \in Final \cup {"queue"}
  BY <1>1, <1>6, EntryIds DEF r
<1>8. x.body[i].method = "initialize" =>
        reader[k].by \in Client /\ Requests(x) = {i} /\ x.tenant \notin Outsider
  <2>1. SUFFICES ASSUME x.body[i].method = "initialize"
                 PROVE  reader[k].by \in Client /\ Requests(x) = {i} /\ x.tenant \notin Outsider
    OBVIOUS
  <2>2. Initializes(post[k])
    BY <1>6, <2>1 DEF Initializes, x
  <2>3. reader[k].by \in Client
    BY <2>2, TypeParts DEF McpInv, AuditInv, StrangerOK
  <2>4. Len(post[k].body) = 1
    BY <2>2, <2>3, McpClientAssumption DEF AuditInv
  <2>5. Requests(x) = {i}
    BY <1>6, <2>4 DEF Requests, x
  <2>6. x.tenant = TokenOf[reader[k].by]
    BY <2>3, McpClientAssumption DEF McpInv, SessionsOK, x
  <2> QED
    BY <2>3, <2>5, <2>6 DEF OutsidersStayOut
<1>9. \A u \in Session, q \in RequestId :
        audit'[u][q] # audit[u][q] => u = s /\ q = r
  <2>1. CASE s = NoSession
    BY <1>3, <2>1 DEF Entered
  <2>2. CASE s \in Session
    <3>1. audit' = [audit EXCEPT ![s] = [@ EXCEPT ![r] = IF o = "queue" THEN "pending" ELSE o]]
      BY <1>1, <1>3, <1>7, <2>2, DispatchEnters
    <3> QED
      BY <1>1, <1>7, <2>2, <3>1 DEF ServerTypeOK
  <2> QED
    BY <1>4, <2>1, <2>2
<1>10. \A u \in Session : tenantOf'[u] # tenantOf[u] => u \in Fresh
  BY <1>1, <1>2, <1>3 DEF ServerTypeOK
<1>11. \A u \in Session : tenantOf'[u] \notin Outsider
  BY <1>1, <1>2, <1>3, <1>8 DEF ServerTypeOK, AuditInv
<1>12. reader[k].by = Nobody => StrangerOK(y)
  <2>1. SUFFICES ASSUME reader[k].by = Nobody PROVE StrangerOK(y)
    OBVIOUS
  <2>2. StrangerOK(x)
    BY <2>1 DEF AuditInv, x
  <2>3. x.body[i].method # "initialize"
    BY <1>6, <2>2 DEF StrangerOK, Initializes
  <2>4. s = x.session /\ x.session = NoSession
    BY <1>1, <1>3, <2>2, <2>3 DEF StrangerOK
  <2>5. x.pc # "idle"
    BY <1>1
  <2> QED
    BY <1>6, <2>2, <2>4, <2>5 DEF StrangerOK, Initializes, Requests
<1>13. ASSUME Counts(y, tenantOf') PROVE EntriesOK(y, audit'[s])
  <2>1. s \in Session
    BY <1>4, <1>6, <1>13 DEF Counts
  <2>2. audit' = [audit EXCEPT ![s] = [@ EXCEPT ![r] = IF o = "queue" THEN "pending" ELSE o]]
    BY <1>1, <1>3, <1>7, <2>1, DispatchEnters
  <2>3. audit'[s][r] = IF o = "queue" THEN "pending" ELSE o
    BY <1>1, <1>7, <2>1, <2>2 DEF ServerTypeOK
  <2>4. Requests(y) = Requests(x)
    BY <1>6 DEF Requests
  <2>5. /\ i \in y.open \cup y.owed => audit'[s][r] = "pending"
        /\ i \notin y.open \cup y.owed => audit'[s][r] = y.put[i][Len(y.put[i])]
    BY <1>6, <2>3
  <2>6. ASSUME NEW j \in Requests(x), j # i
        PROVE  /\ j \in y.open \cup y.owed => audit'[s][x.body[j].id] = "pending"
               /\ j \notin y.open \cup y.owed /\ y.put[j] # <<>> =>
                    audit'[s][x.body[j].id] = y.put[j][Len(y.put[j])]
    <3>1. x.body[i].method # "initialize"
      BY <1>8, <2>6
    <3>2. s = x.session /\ tenantOf' = tenantOf
      BY <1>3, <3>1
    <3>3. Counts(post[k], tenantOf)
      BY <1>1, <1>6, <1>13, <3>2 DEF Counts, x
    <3>4. EntriesOK(x, audit[s])
      BY <3>2, <3>3 DEF AuditInv, x
    <3>5. reader[k].by \in Client
      BY <3>3, CountedIsClaimed
    <3>6. x.body[j].id # r
      BY <1>6, <2>6, <3>5, McpClientAssumption DEF McpInv, IdsOK, x, r
    <3>7. audit'[s][x.body[j].id] = audit[s][x.body[j].id]
      <4>1. x.body[j].id \in RequestId
        BY <1>1, <2>6, EntryIds
      <4> QED
        BY <1>9, <2>1, <3>6, <4>1
    <3>8. x.owed = {}
      BY <1>1 DEF ExchangeOK, PhasesOK
    <3> QED
      BY <1>6, <2>6, <3>4, <3>7, <3>8 DEF EntriesOK
  <2> QED
    BY <1>6, <2>4, <2>5, <2>6 DEF EntriesOK, r
<1>14. post'[k] = y
  BY <1>1
<1>15. \A u \in Session, q \in RequestId :
         audit'[u][q] # audit[u][q] =>
           /\ u = post'[k].session /\ post'[k].pc \in {"dispatching", "streaming"}
           /\ \E j \in Requests(post[k]) : q = post[k].body[j].id
  BY <1>6, <1>9, <1>14 DEF x, r
<1> QED
  BY <1>6, <1>10, <1>11, <1>12, <1>13, <1>14, <1>15 DEF Audited

LEMMA ServiceAudited ==
  ASSUME OutsidersStayOut, McpInv, AuditInv, NEW k \in Post, Service(k) \/ Broadcast(k)
  PROVE  Audited(k)
<1>1. CASE ReceiveFrom(k)
  BY <1>1, ReceiveAudited DEF ReceiveFrom
<1>2. CASE Handle(k)
  BY <1>2, DispatchAudited, ProduceAudited DEF Handle
<1>3. CASE Serve(k)
  BY <1>3, ServeAudited, TrackAudited DEF Serve
<1>4. CASE Broadcast(k)
  BY <1>4, ProduceAudited DEF Broadcast, Item
<1> QED
  BY <1>1, <1>2, <1>3, <1>4 DEF Service

\* An exchange that is posted has no entries yet.
LEMMA SentAudited ==
  ASSUME McpTypeOK, AuditInv, NEW k \in Post, NEW c \in Client \cup {Nobody}, NEW t, NEW h, NEW body,
         SendTo(k, c, t, h, body),
         c = Nobody => t \in Outsider /\ \A i \in 1 .. Len(body) : body[i].method # "initialize",
         c # Nobody => \A i \in 1 .. Len(body) : body[i].method = "initialize" => Len(body) = 1
  PROVE  AuditInv'
<1> DEFINE y == Posted(t, h, body)
<1>1. /\ post' = [post EXCEPT ![k] = y] /\ reader'[k].by = c
      /\ \A l \in Post \ {k} : reader'[l] = reader[l]
      /\ UNCHANGED <<tenantOf, audit>>
  BY TypeParts DEF SendTo
<1>2. post'[k] = y /\ \A l \in Post \ {k} : post'[l] = post[l]
  BY <1>1, TypeParts
<1>3. y.pc = "posted" /\ y.status = 0 /\ y.owed = {} /\ y.tenant = t /\ y.body = body
  BY DEF Posted, Idle
<1> HIDE DEF y
<1>4. Initializes(y) <=> \E i \in 1 .. Len(body) : body[i].method = "initialize"
  BY <1>3 DEF Initializes, Requests
<1>5. ~Counts(y, tenantOf)
  BY <1>3 DEF Counts
<1>6. c = Nobody => StrangerOK(y)
  BY <1>3, <1>4 DEF StrangerOK
<1>7. c # Nobody /\ Initializes(y) => Len(y.body) = 1
  BY <1>3, <1>4
<1> SUFFICES ASSUME NEW l \in Post
             PROVE  /\ reader'[l].by = Nobody => StrangerOK(post'[l])
                    /\ reader'[l].by # Nobody /\ Initializes(post'[l]) => Len(post'[l].body) = 1
                    /\ Counts(post'[l], tenantOf') => EntriesOK(post'[l], audit'[post'[l].session])
                    /\ \A i, j \in post'[l].owed : i = j
  BY <1>1 DEF AuditInv
<1>8. CASE l = k
  BY <1>1, <1>2, <1>3, <1>5, <1>6, <1>7, <1>8
<1>9. CASE l # k
  BY <1>1, <1>2, <1>9 DEF AuditInv
<1> QED
  BY <1>8, <1>9

LEMMA RequestAudited ==
  ASSUME McpTypeOK, AuditInv, NEW c \in Client, NEW k \in Post, NEW methods \in Seq(Method),
         send_request(c, k, methods),
         \A i \in DOMAIN methods : methods[i] = "initialize" => Len(methods) = 1
  PROVE  AuditInv'
<1> DEFINE body == [i \in DOMAIN methods |-> [id |-> lastId[c] + i, method |-> methods[i]]]
<1>1. SendTo(k, c, TokenOf[c], sid[c], body)
  BY DEF send_request
<1>2. DOMAIN methods = 1 .. Len(methods) /\ Len(methods) \in Nat
  OBVIOUS
<1>3. Len(body) = Len(methods)
  <2>1. DOMAIN body = 1 .. Len(methods)
    BY <1>2
  <2> HIDE DEF body
  <2> QED
    BY <1>2, <2>1, LenProperties
<1>4. \A i \in 1 .. Len(body) : body[i].method = "initialize" => Len(body) = 1
  BY <1>2, <1>3
<1> HIDE DEF body
<1>5. c \in Client \cup {Nobody} /\ c # Nobody
  BY McpClientAssumption
<1> QED
  BY <1>1, <1>4, <1>5, SentAudited

LEMMA SendsAudited ==
  ASSUME InitializeAlone, OutsidersStayOut, McpTypeOK, AuditInv, NEW k \in Post,
         \/ \E c \in Client : \/ Start(c, k)
                              \/ SendInitialized(c, k)
                              \/ \E methods \in Batch : Call(c, k, methods)
         \/ \E t \in Outsider, h \in Session \cup {NoSession}, methods \in HandBatch :
              ByHand(k, t, h, methods)
  PROVE  AuditInv'
<1>1. ASSUME NEW c \in Client, Start(c, k) PROVE AuditInv'
  <2>1. <<"initialize">> \in Seq(Method) /\ Len(<<"initialize">>) = 1
    BY DEF Method
  <2>2. send_request(c, k, <<"initialize">>)
    BY <1>1 DEF Start
  <2> QED
    BY <2>1, <2>2, RequestAudited
<1>2. ASSUME NEW c \in Client, SendInitialized(c, k) PROVE AuditInv'
  <2>1. SendTo(k, c, TokenOf[c], sid[c], <<>>) /\ c # Nobody /\ Len(<<>>) = 0
    BY <1>2, McpClientAssumption DEF SendInitialized
  <2> QED
    BY <2>1, SentAudited
<1>3. ASSUME NEW c \in Client, NEW methods \in Batch, Call(c, k, methods) PROVE AuditInv'
  <2>1. methods \in Seq(Method) /\ send_request(c, k, methods)
    BY <1>3, McpClientAssumption DEF Call
  <2>2. \A i \in DOMAIN methods : methods[i] = "initialize" => Len(methods) = 1
    BY DEF InitializeAlone
  <2> QED
    BY <2>1, <2>2, RequestAudited
<1>4. ASSUME NEW t \in Outsider, NEW h \in Session \cup {NoSession}, NEW methods \in HandBatch,
             ByHand(k, t, h, methods)
      PROVE  AuditInv'
  <2> DEFINE body == [i \in DOMAIN methods |-> [id |-> 1, method |-> methods[i]]]
  <2>1. SendTo(k, Nobody, t, h, body)
    BY <1>4 DEF ByHand
  <2>2. methods \in Seq(Method) /\ \A i \in DOMAIN methods : methods[i] # "initialize"
    BY McpClientAssumption DEF OutsidersStayOut
  <2>3. DOMAIN methods = 1 .. Len(methods) /\ Len(methods) \in Nat
    BY <2>2
  <2>4. Len(body) = Len(methods)
    <3>1. DOMAIN body = 1 .. Len(methods)
      BY <2>3
    <3> HIDE DEF body
    <3> QED
      BY <2>3, <3>1, LenProperties
  <2>5. \A i \in 1 .. Len(body) : body[i].method # "initialize"
    BY <2>2, <2>3, <2>4
  <2> HIDE DEF body
  <2> QED
    BY <2>1, <2>5, SentAudited
<1> QED
  BY <1>1, <1>2, <1>3, <1>4

\* Whoever reads, or stops reading, changes no entry.
LEMMA ReadingAudited ==
  ASSUME McpInv, AuditInv,
         \/ \E k \in Post : Read(k) \/ Disconnect(k) \/ Broken(k) \/ Abandon(k)
         \/ \E c \in Client : HealthFails(c) \/ Close(c)
         \/ UNCHANGED mcpVars
  PROVE  AuditInv'
<1> DEFINE cut(x) == [x EXCEPT !.connected = FALSE, !.out = <<>>]
<1>1. post \in [Post -> Exchange] /\ DOMAIN reader = Post
  BY TypeParts DEF McpInv
<1>2. ASSUME NEW x \in Exchange, NEW out
      PROVE  SameEntries(x, x) /\ SameEntries(x, cut(x)) /\ SameEntries(x, [x EXCEPT !.out = out])
  BY DEF SameEntries, Exchange
<1> HIDE DEF cut
<1>3. ASSUME UNCHANGED <<tenantOf, audit>>,
             \A k \in Post : /\ reader'[k].by = reader[k].by
                             /\ \/ post'[k] = post[k]
                                \/ post'[k] = cut(post[k])
                                \/ \E out : post'[k] = [post[k] EXCEPT !.out = out]
      PROVE  AuditInv'
  <2>1. ASSUME NEW k \in Post PROVE SameEntries(post[k], post'[k])
    <3>1. post[k] \in Exchange
      BY <1>1
    <3>2. ASSUME NEW out, post'[k] = [post[k] EXCEPT !.out = out]
          PROVE  SameEntries(post[k], post'[k])
      BY <1>2, <3>1, <3>2
    <3> QED
      BY <1>2, <1>3, <3>1, <3>2
  <2> QED
    BY <1>3, <2>1, AuditStays
<1>4. ASSUME NEW k \in Post, Fails(k) PROVE AuditInv'
  <2>1. UNCHANGED <<tenantOf, audit>>
    BY <1>4 DEF Fails
  <2>2. post' = [post EXCEPT ![k] = cut(@)] /\ reader' = [reader EXCEPT ![k].at = "failed"]
    BY <1>1, <1>4 DEF Fails, cut
  <2>3. \A l \in Post : reader'[l].by = reader[l].by /\ (post'[l] = post[l] \/ post'[l] = cut(post[l]))
    BY <1>1, <2>2, TypeParts DEF McpInv
  <2> QED
    BY <1>3, <2>1, <2>3
<1>5. ASSUME NEW k \in Post, Read(k) \/ Disconnect(k) \/ Broken(k) \/ Abandon(k) PROVE AuditInv'
  <2>1. CASE HeadAccepted(k) \/ EndOfBody(k)
    <3>1. PICK at : reader' = [reader EXCEPT ![k].at = at]
      BY <2>1 DEF HeadAccepted, EndOfBody
    <3>2. \A l \in Post : reader'[l].by = reader[l].by
      BY <1>1, <3>1, TypeParts DEF McpInv
    <3>3. UNCHANGED <<tenantOf, audit, post>>
      BY <2>1 DEF HeadAccepted, EndOfBody, serverVars
    <3> QED
      BY <1>3, <3>2, <3>3
  <2>2. CASE HeadRefused(k) \/ Broken(k) \/ Abandon(k)
    BY <1>4, <2>2 DEF HeadRefused, Broken, Abandon
  <2>3. CASE Take(k)
    <3>1. UNCHANGED <<tenantOf, audit>> /\ \A l \in Post : reader'[l].by = reader[l].by
      BY <1>1, <2>3, TypeParts DEF McpInv, Take
    <3>2. post' = [post EXCEPT ![k] = [post[k] EXCEPT !.out = Tail(@)]]
      BY <1>1, <2>3 DEF Take
    <3>3. \A l \in Post : post'[l] = post[l] \/ \E out : post'[l] = [post[l] EXCEPT !.out = out]
      BY <1>1, <3>2
    <3> QED
      BY <1>3, <3>1, <3>3
  <2>4. CASE Disconnect(k)
    <3>1. UNCHANGED <<tenantOf, audit, reader>>
      BY <2>4 DEF Disconnect, clientVars
    <3>2. post' = [post EXCEPT ![k] = cut(@)]
      BY <1>1, <2>4 DEF Disconnect, cut
    <3>3. \A l \in Post : post'[l] = post[l] \/ post'[l] = cut(post[l])
      BY <1>1, <3>2
    <3> QED
      BY <1>3, <3>1, <3>3
  <2> QED
    BY <1>5, <2>1, <2>2, <2>3, <2>4 DEF Read
<1>6. ASSUME NEW c \in Client, HealthFails(c) PROVE AuditInv'
  <2>1. UNCHANGED <<tenantOf, audit, post, reader>>
    BY <1>6 DEF HealthFails, serverVars
  <2> QED
    BY <1>3, <2>1
<1>7. ASSUME NEW c \in Client, Close(c) PROVE AuditInv'
  <2>1. UNCHANGED <<tenantOf, audit>> /\ \A l \in Post : reader'[l].by = reader[l].by
    BY <1>7, TypeParts DEF Close, McpInv
  <2>2. \A l \in Post : post'[l] = post[l] \/ post'[l] = cut(post[l])
    BY <1>7 DEF Close, cut
  <2> QED
    BY <1>3, <2>1, <2>2
<1>8. CASE UNCHANGED mcpVars
  <2>1. UNCHANGED <<tenantOf, audit, post, reader>>
    BY <1>8 DEF mcpVars, serverVars, clientVars
  <2> QED
    BY <1>3, <2>1
<1> QED
  BY <1>5, <1>6, <1>7, <1>8

\* After a restart every session that anyone had is forgotten.
LEMMA RestartAudited ==
  ASSUME McpInv, AuditInv, Restart, UNCHANGED clientVars
  PROVE  AuditInv'
<1>1. post \in [Post -> Exchange] /\ reader' = reader
  BY TypeParts DEF McpInv, clientVars
<1>2. /\ \A s \in Session : tenantOf'[s] \in {Unissued, Lost}
      /\ \A s \in Session : tenantOf[s] # Unissued => tenantOf'[s] = Lost
  BY DEF Restart
<1>3. \A s \in Session : tenantOf'[s] \notin Outsider
  BY <1>2, McpServerAssumption, McpClientAssumption
<1> SUFFICES ASSUME NEW k \in Post
             PROVE  /\ reader[k].by = Nobody => StrangerOK(post'[k])
                    /\ reader[k].by # Nobody /\ Initializes(post'[k]) => Len(post'[k].body) = 1
                    /\ ~Counts(post'[k], tenantOf')
                    /\ \A i, j \in post'[k].owed : i = j
  BY <1>1, <1>3 DEF AuditInv
<1> DEFINE x == post[k]  y == post'[k]
<1>4. y = IF x.pc \in {"idle", "over"} THEN [x EXCEPT !.tasks = {}]
          ELSE [Ended(x) EXCEPT !.tasks = {}, !.connected = FALSE, !.out = <<>>]
  BY DEF Restart
<1>5. x \in Exchange
  BY <1>1
<1> HIDE DEF x, y
<1>6. /\ y.body = x.body /\ y.tenant = x.tenant /\ y.session = x.session /\ y.status = x.status
      /\ \/ y.pc = x.pc /\ y.owed = x.owed /\ x.pc \in {"idle", "over"}
         \/ y.pc = "over" /\ y.owed = {} /\ y.connected = FALSE /\ x.pc # "idle"
  <2>1. CASE x.pc \in {"idle", "over"}
    BY <1>4, <1>5, <2>1 DEF Exchange
  <2>2. CASE x.pc \notin {"idle", "over"}
    BY <1>4, <1>5, <2>2 DEF Exchange, Ended
  <2> QED
    BY <2>1, <2>2
<1>7. Initializes(y) <=> Initializes(x)
  BY <1>6 DEF Initializes, Requests
<1>8. reader[k].by = Nobody => StrangerOK(y)
  BY <1>6, <1>7 DEF AuditInv, StrangerOK, x
<1>9. ~Counts(y, tenantOf')
  <2>1. SUFFICES ASSUME Counts(y, tenantOf') PROVE FALSE
    OBVIOUS
  <2>2. /\ x.pc = "over" /\ x.status = 200 /\ x.session # NoSession
        /\ tenantOf'[x.session] # Lost
    BY <1>6, <2>1 DEF Counts
  <2>3. x.session \in Session /\ reader[k].by \in Client \cup {Nobody}
    BY <1>5, <2>2, FieldTypes, TypeParts DEF Typed, McpInv
  <2>4. reader[k].by \in Client
    BY <2>2, <2>3 DEF AuditInv, StrangerOK, x
  <2>5. Claims(reader[k].by, x.session)
    BY <2>4 DEF Claims, x
  <2>6. tenantOf[x.session] \in {TokenOf[reader[k].by], Lost}
    BY <2>3, <2>4, <2>5 DEF McpInv, SessionsOK
  <2> QED
    BY <1>2, <2>2, <2>3, <2>4, <2>6, McpServerAssumption, McpClientAssumption
<1>10. \A i, j \in y.owed : i = j
  BY <1>6 DEF AuditInv, x
<1>11. reader[k].by # Nobody /\ Initializes(y) => Len(y.body) = 1
  BY <1>6, <1>7 DEF AuditInv, x
<1> QED
  BY <1>8, <1>9, <1>10, <1>11 DEF y

LEMMA AuditInitInv ==
  ASSUME McpInit
  PROVE  AuditInv
<1>1. /\ tenantOf = [s \in Session |-> Unissued] /\ post = [k \in Post |-> Idle]
      /\ reader = [k \in Post |-> NoReader]
  BY DEF McpInit, ServerInit
<1>2. /\ Idle.pc = "idle" /\ Idle.status = 0 /\ Idle.owed = {} /\ Idle.body = <<>>
      /\ Requests(Idle) = {}
  BY DEF Idle, Requests
<1>3. ~Counts(Idle, tenantOf) /\ StrangerOK(Idle) /\ ~Initializes(Idle)
  BY <1>2 DEF Counts, StrangerOK, Initializes
<1>4. \A k \in Post : post[k] = Idle
  BY <1>1
<1>5. \A s \in Session : tenantOf[s] \notin Outsider
  BY <1>1, McpServerAssumption, McpClientAssumption
<1> QED
  BY <1>2, <1>3, <1>4, <1>5 DEF AuditInv

LEMMA AuditStep ==
  ASSUME OutsidersStayOut, InitializeAlone, McpInv, AuditInv, [McpNext]_mcpVars
  PROVE  AuditInv'
<1>1. McpTypeOK
  BY DEF McpInv
<1>2. ASSUME NEW c \in Client, NEW k \in Post,
             Start(c, k) \/ SendInitialized(c, k) \/ \E methods \in Batch : Call(c, k, methods)
      PROVE  AuditInv'
  BY <1>1, <1>2, SendsAudited
<1>3. ASSUME NEW c \in Client, HealthFails(c) \/ Close(c)
      PROVE  AuditInv'
  BY <1>3, ReadingAudited
<1>4. ASSUME NEW k \in Post, NEW t \in Outsider, NEW h \in Session \cup {NoSession},
             NEW methods \in HandBatch, ByHand(k, t, h, methods)
      PROVE  AuditInv'
  BY <1>1, <1>4, SendsAudited
<1>5. ASSUME NEW k \in Post, Service(k) \/ (Broadcast(k) /\ UNCHANGED clientVars)
      PROVE  AuditInv'
  BY <1>5, ServiceServes, ServiceAudited, AuditedInv
<1>6. ASSUME NEW k \in Post, Read(k) \/ Disconnect(k) \/ Broken(k) \/ Abandon(k)
      PROVE  AuditInv'
  BY <1>6, ReadingAudited
<1>7. ASSUME Restart, UNCHANGED clientVars
      PROVE  AuditInv'
  BY <1>7, RestartAudited
<1>8. CASE UNCHANGED mcpVars
  BY <1>8, ReadingAudited
<1> QED
  BY <1>2, <1>3, <1>4, <1>5, <1>6, <1>7, <1>8 DEF McpNext

\* As long as those who post by hand keep out of the clients' sessions, the audit of
\* a session shows the answer of every request of an exchange that ended well: none
\* stays pending, in whatever order the streams of a batch end (AuditSettled;
\* mcp_router.py 253-256, jrpc_service.py 396-399).
THEOREM AuditsSettle ==
  ASSUME OutsidersStayOut, InitializeAlone
  PROVE  McpSpec => []AuditSettled
<1>1. McpInit => AuditInv
  BY AuditInitInv
<1>2. McpInv /\ AuditInv /\ [McpNext]_mcpVars => AuditInv'
  BY AuditStep
<1>3. ASSUME McpInv, AuditInv PROVE AuditSettled
  <2> SUFFICES ASSUME NEW k \in Post, post[k].pc = "over", post[k].connected,
                      post[k].status = 200, post[k].session # NoSession,
                      tenantOf[post[k].session] # Lost, NEW i \in Indexes(post[k])
               PROVE  /\ post[k].put[i] # <<>>
                      /\ audit[post[k].session][post[k].body[i].id] =
                           post[k].put[i][Len(post[k].put[i])]
    BY DEF AuditSettled
  <2>1. post[k] \in Exchange /\ PhasesOK(post[k])
    BY <1>3, Types DEF ExchangeOK
  <2>2. i \in Requests(post[k])
    BY <2>1 DEF Exchange, Indexes, Requests
  <2>3. post[k].put[i] # <<>> /\ post[k].open = {} /\ post[k].owed = {}
    BY <2>1, <2>2 DEF PhasesOK, Complete
  <2>4. EntriesOK(post[k], audit[post[k].session])
    BY <1>3 DEF AuditInv, Counts
  <2> QED
    BY <2>2, <2>3, <2>4 DEF EntriesOK
<1> QED
  BY <1>1, <1>2, <1>3, McpInvariance, PTL DEF McpSpec

=============================================================================
