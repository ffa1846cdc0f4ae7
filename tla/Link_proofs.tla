------------------------------ MODULE Link_proofs ------------------------------
(***************************************************************************)
(* Proofs about two engines at the ends of one connection, for any number  *)
(* of channels, any limits of the engine and any messages: what is         *)
(* delivered, and answered, on a channel is what the peer sent, in order,  *)
(* and a channel that was reset stays so.                                  *)
(*                                                                         *)
(* The invariant measures an endpoint against what both ends have sent     *)
(* (Good).  Every operation of Engine, down to its pieces, has a lemma     *)
(* that it keeps Good and undoes nothing that is final (Moved), and that   *)
(* what it hands out is made of what was sent (Outcome).                   *)
(***************************************************************************)
EXTENDS Link, SequenceTheorems, FiniteSetTheorems, WellFoundedInduction, TLAPS

LEMMA IntervalSize ==
  ASSUME NEW n \in Nat
  PROVE  IsFiniteSet(1 .. n) /\ Cardinality(1 .. n) = n
<1>1. IsFiniteSet(1 .. n) /\ Cardinality(1 .. n) = IF 1 > n THEN 0 ELSE n - 1 + 1
  BY FS_Interval
<1>2. QED
  BY <1>1

(* Induction over an initial segment of the numbers. *)
LEMMA UpTo ==
  ASSUME NEW n \in Nat, NEW G, 0 \in G, \A i \in 1 .. n : i - 1 \in G => i \in G
  PROVE  \A i \in 0 .. n : i \in G
<1> DEFINE R == OpToRel(<, Nat)
           Others == { i \in 0 .. n : i \notin G }
<1>1. IsWellFoundedOn(R, Nat)
  BY NatLessThanWellFounded
<1>2. \A i, j \in Nat : << i, j >> \in R <=> i < j
  BY DEF OpToRel
<1> HIDE DEF R
<1>3. SUFFICES ASSUME Others # {} PROVE FALSE
  OBVIOUS
<1>4. Others \subseteq Nat
  OBVIOUS
<1> HIDE DEF Others
<1>5. PICK least \in Others : \A i \in Others : ~ (<< i, least >> \in R)
  BY <1>1, <1>3, <1>4, WFMin
<1>6. least \in 1 .. n /\ least \notin G
  BY DEF Others
<1>7. least - 1 \in Others
  BY <1>6 DEF Others
<1>8. << least - 1, least >> \in R
  BY <1>2, <1>4, <1>7
<1>9. QED
  BY <1>5, <1>7, <1>8

LEMMA RankIs ==
  ASSUME NEW n \in Nat, NEW P \in SUBSET (1 .. n)
  PROVE  /\ IsFiniteSet(P) /\ Cardinality(P) \in Nat
         /\ \A i \in P : Rank(P, i) \in 1 .. Cardinality(P)
         /\ \A i, k \in P : i < k => Rank(P, i) < Rank(P, k)
<1> DEFINE Upto(i) == { j \in P : j <= i }
<1>1. IsFiniteSet(P) /\ Cardinality(P) \in Nat
  BY IntervalSize, FS_Subset, FS_CardinalityType
<1>2. \A i \in P : /\ IsFiniteSet(Upto(i)) /\ Rank(P, i) = Cardinality(Upto(i))
                   /\ Rank(P, i) \in 1 .. Cardinality(P)
  <2> SUFFICES ASSUME NEW i \in P
               PROVE  /\ IsFiniteSet(Upto(i)) /\ Rank(P, i) = Cardinality(Upto(i))
                      /\ Rank(P, i) \in 1 .. Cardinality(P)
    OBVIOUS
  <2>1. Upto(i) \in SUBSET P /\ i \in Upto(i) /\ Rank(P, i) = Cardinality(Upto(i))
    BY DEF Rank
  <2> HIDE DEF Upto
  <2>2. IsFiniteSet(Upto(i)) /\ Cardinality(Upto(i)) <= Cardinality(P)
    BY <1>1, <2>1, FS_Subset, Zenon
  <2>3. Cardinality(Upto(i)) \in Nat /\ Cardinality(Upto(i)) # 0
    BY <2>1, <2>2, FS_CardinalityType, FS_EmptySet
  <2>4. QED
    BY <1>1, <2>1, <2>2, <2>3
<1>3. \A i, k \in P : i < k => Rank(P, i) < Rank(P, k)
  <2> SUFFICES ASSUME NEW i \in P, NEW k \in P, i < k PROVE Rank(P, i) < Rank(P, k)
    OBVIOUS
  <2>1. Upto(i) \in SUBSET Upto(k) /\ k \in Upto(k) /\ k \notin Upto(i)
    <3>1. i \in Nat /\ k \in Nat /\ \A x \in P : x \in Nat
      OBVIOUS
    <3>2. \A x \in P : x <= i => x <= k
      BY <3>1
    <3>3. k <= k /\ ~ (k <= i)
      BY <3>1
    <3>4. QED
      BY <3>2, <3>3
  <2> HIDE DEF Upto
  <2>2. Rank(P, i) \in Nat /\ Rank(P, k) \in Nat
    BY <1>2
  <2>3. Cardinality(Upto(i)) <= Cardinality(Upto(k)) /\ Cardinality(Upto(i)) # Cardinality(Upto(k))
    BY <1>2, <2>1, FS_Subset, Zenon
  <2>4. QED
    BY <1>2, <2>2, <2>3
<1>4. QED
  BY <1>1, <1>2, <1>3

(* Where all members of a set have ranks of their own, every rank is taken. *)
Ranked(S, f) ==
  /\ IsFiniteSet(S) /\ Cardinality(S) \in Nat
  /\ f \in [ S -> 1 .. Cardinality(S) ]
  /\ \A x, y \in S : f[x] = f[y] => x = y

LEMMA RanksTaken ==
  ASSUME NEW S, NEW f, Ranked(S, f)
  PROVE  \A i \in 1 .. Cardinality(S) : \E y \in S : f[y] = i
<1>1. PICK n \in Nat : n = Cardinality(S)
  BY DEF Ranked
<1>2. f \in Injection(S, 1 .. n)
  BY <1>1 DEF Ranked, Injection, IsInjective
<1>3. IsFiniteSet(1 .. n) /\ Cardinality(S) = Cardinality(1 .. n) /\ IsFiniteSet(S)
  BY <1>1, IntervalSize DEF Ranked
<1>4. f \in Surjection(S, 1 .. n)
  BY <1>2, <1>3, FS_Injection, Zenon
<1>5. QED
  BY <1>1, <1>4 DEF Surjection

LEMMA NthIs ==
  ASSUME NEW n \in Nat, NEW kept, kept \in SUBSET (1 .. n)
  PROVE  \A i \in 1 .. Cardinality(kept) : Nth(kept, i) \in kept
<1>1. PICK size \in Nat : size = Cardinality(kept)
  BY RankIs
<1>2. PICK rank : rank = [ p \in kept |-> Rank(kept, p) ]
  OBVIOUS
<1>3. rank \in [ kept -> 1 .. size ] /\ \A p \in kept : rank[p] = Rank(kept, p)
  BY <1>1, <1>2, RankIs
<1>4. \A p, q \in kept : rank[p] = rank[q] => p = q
  <2>1. \A p, q \in kept : p < q => Rank(kept, p) < Rank(kept, q)
    BY RankIs
  <2>2. \A p \in kept : p \in Nat
    OBVIOUS
  <2>3. \A p \in kept : Rank(kept, p) \in 1 .. size
    BY <1>1, RankIs, Zenon
  <2>4. QED
    BY <1>3, <2>1, <2>2, <2>3
<1>5. \A i \in 1 .. size : \E p \in kept : rank[p] = i
  <2>1. IsFiniteSet(kept)
    BY RankIs
  <2>2. Ranked(kept, rank)
    BY <1>1, <1>3, <1>4, <2>1 DEF Ranked
  <2>3. \A i \in 1 .. Cardinality(kept) : \E p \in kept : rank[p] = i
    BY ONLY <2>2, RanksTaken
  <2>4. QED
    BY <1>1, <2>3, Zenon
<1>6. \A i \in 1 .. size : \E p \in kept : Cardinality({ q \in kept : q <= p }) = i
  BY <1>3, <1>5 DEF Rank
<1>7. QED
  BY <1>1, <1>6 DEF Nth

-----------------------------------------------------------------------------
(* Sequences *)

Elements(s) == { s[i] : i \in DOMAIN s }

IsSequence(s) == s \in Seq(Elements(s))

LEMMA SequenceIs ==
  ASSUME NEW S, NEW s \in Seq(S)
  PROVE  IsSequence(s) /\ Elements(s) \subseteq S /\ DOMAIN s = 1 .. Len(s) /\ Len(s) \in Nat
<1>1. /\ DOMAIN s = 1 .. Len(s) /\ Len(s) \in Nat /\ \A i \in 1 .. Len(s) : s[i] \in S
      /\ s \in [ 1 .. Len(s) -> S ]
  BY ElementOfSeq, LenProperties
<1>2. s \in [ 1 .. Len(s) -> Elements(s) ]
  BY <1>1 DEF Elements
<1>3. s \in Seq(Elements(s))
  BY <1>1, <1>2, SeqDef
<1>4. Elements(s) \subseteq S
  BY <1>1 DEF Elements
<1>5. QED
  BY <1>1, <1>3, <1>4 DEF IsSequence

LEMMA SequenceHas ==
  ASSUME NEW s, IsSequence(s)
  PROVE  DOMAIN s = 1 .. Len(s) /\ Len(s) \in Nat /\ \A i \in DOMAIN s : s[i] \in Elements(s)
BY SequenceIs DEF IsSequence, Elements

LEMMA ConcatHas ==
  ASSUME NEW s, NEW t, IsSequence(s), IsSequence(t)
  PROVE  IsSequence(s \o t) /\ Elements(s \o t) \subseteq Elements(s) \cup Elements(t)
<1>1. s \in Seq(Elements(s) \cup Elements(t)) /\ t \in Seq(Elements(s) \cup Elements(t))
  BY SequenceHas, SeqDef DEF IsSequence
<1>2. QED
  BY <1>1, ConcatProperties, SequenceIs

LEMMA AppendHas ==
  ASSUME NEW s, IsSequence(s), NEW x
  PROVE  /\ IsSequence(Append(s, x)) /\ Elements(Append(s, x)) \subseteq Elements(s) \cup { x }
         /\ Len(Append(s, x)) = Len(s) + 1 /\ Append(s, x)[Len(s) + 1] = x
         /\ \A i \in 1 .. Len(s) : Append(s, x)[i] = s[i]
         /\ DOMAIN Append(s, x) = 1 .. Len(s) + 1
<1>1. s \in Seq(Elements(s) \cup { x }) /\ x \in Elements(s) \cup { x }
  BY SequenceHas, SeqDef DEF IsSequence
<1>2. /\ Append(s, x) \in Seq(Elements(s) \cup { x })
      /\ Len(Append(s, x)) = Len(s) + 1 /\ Append(s, x)[Len(s) + 1] = x
      /\ \A i \in 1 .. Len(s) : Append(s, x)[i] = s[i]
  BY <1>1, AppendProperties
<1>3. QED
  BY <1>2, SequenceIs

LEMMA SubSeqHas ==
  ASSUME NEW s, IsSequence(s), NEW m \in Nat \ {0}, NEW n \in 0 .. Len(s)
  PROVE  IsSequence(SubSeq(s, m, n)) /\ Elements(SubSeq(s, m, n)) \subseteq Elements(s)
<1>1. \A i \in m .. n : s[i] \in Elements(s)
  BY SequenceHas
<1>2. SubSeq(s, m, n) \in Seq(Elements(s))
  BY <1>1, SequenceHas, SubSeqProperties
<1>3. QED
  BY <1>2, SequenceIs

LEMMA TailHas ==
  ASSUME NEW s, IsSequence(s), s # << >>
  PROVE  /\ IsSequence(Tail(s)) /\ Elements(Tail(s)) \subseteq Elements(s)
         /\ Head(s) \in Elements(s) /\ Head(s) = s[1] /\ 1 \in DOMAIN s
         /\ Len(s) \in Nat \ {0} /\ Len(Tail(s)) = Len(s) - 1
         /\ \A i \in 1 .. Len(s) - 1 : Tail(s)[i] = s[i + 1]
<1>1. s \in Seq(Elements(s)) /\ Len(s) \in Nat /\ Len(s) # 0 /\ DOMAIN s = 1 .. Len(s)
  BY SequenceHas, EmptySeq DEF IsSequence
<1>2. /\ Tail(s) \in Seq(Elements(s)) /\ Head(s) \in Elements(s) /\ Head(s) = s[1]
      /\ Len(Tail(s)) = Len(s) - 1
      /\ \A i \in 1 .. Len(s) - 1 : Tail(s)[i] = s[i + 1]
  BY <1>1, HeadTailProperties
<1>3. IsSequence(Tail(s)) /\ Elements(Tail(s)) \subseteq Elements(s)
  BY <1>2, SequenceIs
<1>4. QED
  BY <1>1, <1>2, <1>3

LEMMA EntriesHave ==
  ASSUME NEW s, IsSequence(s), NEW kept \in SUBSET DOMAIN s
  PROVE  /\ IsSequence(EntriesAt(s, kept)) /\ Elements(EntriesAt(s, kept)) \subseteq Elements(s)
         /\ Len(EntriesAt(s, kept)) <= Len(s)
<1>1. kept \in SUBSET (1 .. Len(s)) /\ Len(s) \in Nat /\ \A i \in DOMAIN s : s[i] \in Elements(s)
  BY SequenceHas
<1>2. IsFiniteSet(1 .. Len(s)) /\ Cardinality(1 .. Len(s)) = Len(s)
  BY <1>1, IntervalSize
<1>3. IsFiniteSet(kept) /\ Cardinality(kept) \in Nat /\ Cardinality(kept) <= Len(s)
  BY <1>1, <1>2, FS_Subset, FS_CardinalityType
<1>5. \A n \in 1 .. Cardinality(kept) : Nth(kept, n) \in kept
  BY <1>1, NthIs
<1>6. \A n \in 1 .. Cardinality(kept) : s[Nth(kept, n)] \in Elements(s)
  BY <1>1, <1>5
<1>7. EntriesAt(s, kept) \in Seq(Elements(s)) /\ Len(EntriesAt(s, kept)) = Cardinality(kept)
  <2>1. EntriesAt(s, kept) = [ n \in 1 .. Cardinality(kept) |-> s[Nth(kept, n)] ]
    BY DEF EntriesAt
  <2>2. EntriesAt(s, kept) \in [ 1 .. Cardinality(kept) -> Elements(s) ]
    BY <1>6, <2>1
  <2>3. EntriesAt(s, kept) \in Seq(Elements(s))
    BY <1>3, <2>2, SeqDef
  <2>4. DOMAIN EntriesAt(s, kept) = 1 .. Cardinality(kept)
    BY <2>1
  <2>5. QED
    BY <1>3, <2>1, <2>3, IsASeq
<1>8. QED
  BY <1>3, <1>7, SequenceIs

-----------------------------------------------------------------------------
(* The inductive invariant.  h is what an endpoint is measured against:    *)
(* the messages it has sent, those its peer has, and the clock.            *)

Past(p) == [ own |-> sent[p], theirs |-> sent[Peer(p)], clock |-> clock ]

IsId(id) == id = [ number |-> id.number, generation |-> id.generation ]

(* The channel slot n of a table holds or has held. *)
Key(table, n) == [ number |-> n, generation |-> table[n].generation ]

(* The k-th entry of a log is the seq-th message for a channel. *)
Numbered(log, id, seq, k) == k \in SentOn(log, id) /\ Rank(SentOn(log, id), k) = seq

(* A range holds bytes of a message, in their places. *)
PartOf(range, message) ==
  /\ range.offset \in Nat
  /\ IsSequence(range.bytes)
  /\ \A pos \in Positions(range) : ByteAt(range, pos) = message[pos + 1]

FrameTypes == { "hello", "open", "data", "ack", "credit", "ping", "pong", "resume",
                "half_close", "reset", "goaway" }

(* A frame that carries data carries part of a message that was sent. *)
CarriesPart(id, body, log) ==
  /\ IsId(id)
  /\ \E k \in DOMAIN log :
       /\ Numbered(log, id, body.sequence, k)
       /\ body.total = Len(log[k].payload)
       /\ PartOf(body, log[k].payload)

Carried(frame, log) ==
  /\ frame.type \in FrameTypes
  /\ frame.type = "data" => CarriesPart(frame.channel, frame.body, log)

Carries(frames, log) == IsSequence(frames) /\ \A x \in Elements(frames) : Carried(x, log)

LogOK(log) == IsSequence(log) /\ \A k \in DOMAIN log : IsSequence(log[k].payload)

PastOK(h) == LogOK(h.own) /\ LogOK(h.theirs) /\ h.clock \in Nat

-----------------------------------------------------------------------------
TimerKinds == { "handshake", "idle", "pong_deadline", "drain", "fragment_gap" }

IsEndpoint(e) ==
  e = [ state |-> e.state, negotiated |-> e.negotiated, channels |-> e.channels,
        scheduler |-> e.scheduler, window |-> e.window, next_frame_seq |-> e.next_frame_seq,
        timers |-> e.timers, now |-> e.now, pong |-> e.pong,
        tasks |-> e.tasks, events |-> e.events ]

Timed(timers, now, pong, latest) ==
  /\ IsSequence(timers) /\ \A x \in Elements(timers) : x.kind \in TimerKinds
  /\ now \in 0 .. latest
  /\ pong \in 0 .. latest + 1

Phased(state, negotiated, table) ==
  /\ state \in ConnectionState /\ negotiated \in BOOLEAN
  /\ state \in { "created", "negotiating" } => ~ negotiated
  /\ state = "active" => negotiated
  /\ ~ negotiated => table = InitialTable

(* Frames that were recorded, and frames that wait to be written. *)
Kept(window, log) ==
  /\ IsSequence(window) /\ Len(window) <= Capacity
  /\ \A x \in Elements(window) : Carried(x.frame, log)

Waiting(s, q) == IF q = 0 THEN s.control ELSE s.data[q]

ItemOK(item, q, log) ==
  /\ item = [ priority |-> item.priority, channel |-> item.channel,
              sequence |-> item.sequence, left |-> item.left, frame |-> item.frame ]
  /\ item.priority = IF q = 0 THEN "control" ELSE "data"
  /\ item.channel = q \/ q = 0
  /\ item.left = 1
  /\ Carried(item.frame, log)

QueueOK(items, q, log) == IsSequence(items) /\ \A x \in Elements(items) : ItemOK(x, q, log)

(* The places of the items that wait. *)
Places(s) == UNION { { q } \X DOMAIN Waiting(s, q) : q \in DataChannels \cup { 0 } }

Queued(s, log) ==
  /\ s = [ control |-> s.control, data |-> s.data, expected |-> s.expected,
           cursor |-> s.cursor, queued |-> s.queued ]
  /\ s.data = [ c \in DataChannels |-> s.data[c] ]
  /\ \A q \in DataChannels \cup { 0 } : QueueOK(Waiting(s, q), q, log)
  /\ s.cursor \in Nat
  /\ s.queued = Cardinality(Places(s)) /\ s.queued \in 0 .. ByteLimit

IsSlot(s) ==
  s = [ generation |-> s.generation, state |-> s.state,
        next_send_seq |-> s.next_send_seq, next_recv_seq |-> s.next_recv_seq,
        local_half_closed |-> s.local_half_closed, remote_half_closed |-> s.remote_half_closed,
        flow |-> s.flow, reassembler |-> s.reassembler ]

(* What is buffered are parts of messages the peer has sent. *)
BuffersParts(re, id, log) ==
  /\ re = [ pending |-> re.pending, retained |-> re.retained ]
  /\ \A seq \in DOMAIN re.pending : \E k \in DOMAIN log :
       /\ Numbered(log, id, seq, k)
       /\ re.pending[seq] = [ total |-> re.pending[seq].total, ranges |-> re.pending[seq].ranges ]
       /\ re.pending[seq].total = Len(log[k].payload)
       /\ \A range \in re.pending[seq].ranges : PartOf(range, log[k].payload)

(* The id of an entry is that of a slot that is, or was, in use. *)
Used(table, id) ==
  /\ id.number \in Numbers
  /\ table[id.number].state # "free"
  /\ id = Key(table, id.number)

Tabled(table, log, their) ==
  /\ table = [ n \in Numbers |-> table[n] ]
  /\ \A n \in Numbers :
       /\ IsSlot(table[n]) /\ table[n].state \in ChannelState
       /\ table[n].next_send_seq = Cardinality(SentOn(log, Key(table, n))) + 1
       /\ BuffersParts(table[n].reassembler, Key(table, n), their)
  /\ \A k \in DOMAIN log : Used(table, log[k].channel)

Deliveries(events, id) == Raised(events, "message_delivered", id)

(* The answer, an event or a task, follows a delivery before position i. *)
Answers(answer, events, i) ==
  \E j \in DOMAIN events :
    /\ j < i
    /\ events[j].kind = "message_delivered"
    /\ events[j].channel = answer.channel
    /\ events[j].sequence = answer.sequence
    /\ events[j].payload = answer.payload

Delivered(table, events, their) ==
  /\ IsSequence(events)
  /\ \A n \in Numbers : table[n].next_recv_seq = Cardinality(Deliveries(events, Key(table, n))) + 1
  /\ \A i \in DOMAIN events : events[i].kind = "message_delivered" =>
       /\ Used(table, events[i].channel)
       /\ events[i].sequence = Rank(Deliveries(events, events[i].channel), i)
       /\ \E k \in DOMAIN their :
            /\ Numbered(their, events[i].channel, events[i].sequence, k)
            /\ events[i].payload = their[k].payload

Answered(events, tasks) ==
  /\ IsSequence(tasks) /\ Len(tasks) <= ExecutorCapacity /\ (Executor \/ tasks = << >>)
  /\ \A i \in DOMAIN events : events[i].kind = "plugin_response" =>
       /\ Answers(events[i], events, i)
       /\ \A j \in DOMAIN events :
            /\ i < j
            /\ events[j].kind = "plugin_response"
            /\ events[j].channel = events[i].channel
            => events[i].sequence < events[j].sequence
       /\ \A j \in DOMAIN tasks :
            tasks[j].channel = events[i].channel => events[i].sequence < tasks[j].sequence
  /\ \A i \in DOMAIN tasks :
       /\ Answers(tasks[i], events, Len(events) + 1)
       /\ \A j \in DOMAIN tasks :
            i < j /\ tasks[j].channel = tasks[i].channel => tasks[i].sequence < tasks[j].sequence

Good(e, h) ==
  /\ IsEndpoint(e)
  /\ Timed(e.timers, e.now, e.pong, h.clock)
  /\ Phased(e.state, e.negotiated, e.channels)
  /\ Kept(e.window, h.own)
  /\ Queued(e.scheduler, h.own)
  /\ Tabled(e.channels, h.own, h.theirs)
  /\ Delivered(e.channels, e.events, h.theirs)
  /\ Answered(e.events, e.tasks)

IInv ==
  /\ use \in Uses /\ clock \in 0 .. use.time
  /\ ep = [ p \in Endpoints |-> ep[p] ] /\ wire = [ p \in Endpoints |-> wire[p] ]
  /\ sent = [ p \in Endpoints |-> sent[p] ]
  /\ \A p \in Endpoints :
       /\ PastOK(Past(p)) /\ Good(ep[p], Past(p)) /\ Carries(wire[p], sent[Peer(p)])

-----------------------------------------------------------------------------
(* An endpoint with one field changed *)

PutState(e, v)      == [ e EXCEPT !.state = v ]
PutNegotiated(e, v) == [ e EXCEPT !.negotiated = v ]
PutChannels(e, v)   == [ e EXCEPT !.channels = v ]
PutScheduler(e, v)  == [ e EXCEPT !.scheduler = v ]
PutWindow(e, v)     == [ e EXCEPT !.window = v ]
PutNextSeq(e, v)    == [ e EXCEPT !.next_frame_seq = v ]
PutTimers(e, v)     == [ e EXCEPT !.timers = v ]
PutNow(e, v)        == [ e EXCEPT !.now = v ]
PutPong(e, v)       == [ e EXCEPT !.pong = v ]
PutTasks(e, v)      == [ e EXCEPT !.tasks = v ]
PutEvents(e, v)     == [ e EXCEPT !.events = v ]

(* The fields of an endpoint, in their order. *)
Fields(r, a, b, c, d, f, g, i, j, k, l, m) ==
  /\ r.state = a /\ r.negotiated = b /\ r.channels = c /\ r.scheduler = d
  /\ r.window = f /\ r.next_frame_seq = g /\ r.timers = i /\ r.now = j
  /\ r.pong = k /\ r.tasks = l /\ r.events = m

LEMMA FieldPut ==
  ASSUME NEW e, IsEndpoint(e), NEW v
  PROVE  /\ IsEndpoint(PutState(e, v))
         /\ Fields(PutState(e, v), v, e.negotiated, e.channels, e.scheduler, e.window,
                   e.next_frame_seq, e.timers, e.now, e.pong, e.tasks, e.events)
         /\ IsEndpoint(PutNegotiated(e, v))
         /\ Fields(PutNegotiated(e, v), e.state, v, e.channels, e.scheduler, e.window,
                   e.next_frame_seq, e.timers, e.now, e.pong, e.tasks, e.events)
         /\ IsEndpoint(PutChannels(e, v))
         /\ Fields(PutChannels(e, v), e.state, e.negotiated, v, e.scheduler, e.window,
                   e.next_frame_seq, e.timers, e.now, e.pong, e.tasks, e.events)
         /\ IsEndpoint(PutScheduler(e, v))
         /\ Fields(PutScheduler(e, v), e.state, e.negotiated, e.channels, v, e.window,
                   e.next_frame_seq, e.timers, e.now, e.pong, e.tasks, e.events)
         /\ IsEndpoint(PutWindow(e, v))
         /\ Fields(PutWindow(e, v), e.state, e.negotiated, e.channels, e.scheduler, v,
                   e.next_frame_seq, e.timers, e.now, e.pong, e.tasks, e.events)
         /\ IsEndpoint(PutNextSeq(e, v))
         /\ Fields(PutNextSeq(e, v), e.state, e.negotiated, e.channels, e.scheduler, e.window,
                   v, e.timers, e.now, e.pong, e.tasks, e.events)
         /\ IsEndpoint(PutTimers(e, v))
         /\ Fields(PutTimers(e, v), e.state, e.negotiated, e.channels, e.scheduler, e.window,
                   e.next_frame_seq, v, e.now, e.pong, e.tasks, e.events)
         /\ IsEndpoint(PutNow(e, v))
         /\ Fields(PutNow(e, v), e.state, e.negotiated, e.channels, e.scheduler, e.window,
                   e.next_frame_seq, e.timers, v, e.pong, e.tasks, e.events)
         /\ IsEndpoint(PutPong(e, v))
         /\ Fields(PutPong(e, v), e.state, e.negotiated, e.channels, e.scheduler, e.window,
                   e.next_frame_seq, e.timers, e.now, v, e.tasks, e.events)
         /\ IsEndpoint(PutTasks(e, v))
         /\ Fields(PutTasks(e, v), e.state, e.negotiated, e.channels, e.scheduler, e.window,
                   e.next_frame_seq, e.timers, e.now, e.pong, v, e.events)
         /\ IsEndpoint(PutEvents(e, v))
         /\ Fields(PutEvents(e, v), e.state, e.negotiated, e.channels, e.scheduler, e.window,
                   e.next_frame_seq, e.timers, e.now, e.pong, e.tasks, v)
<1>1. /\ IsEndpoint(PutState(e, v))
      /\ Fields(PutState(e, v), v, e.negotiated, e.channels, e.scheduler, e.window,
                e.next_frame_seq, e.timers, e.now, e.pong, e.tasks, e.events)
  BY DEF IsEndpoint, Fields, PutState
<1>2. /\ IsEndpoint(PutNegotiated(e, v))
      /\ Fields(PutNegotiated(e, v), e.state, v, e.channels, e.scheduler, e.window,
                e.next_frame_seq, e.timers, e.now, e.pong, e.tasks, e.events)
  BY DEF IsEndpoint, Fields, PutNegotiated
<1>3. /\ IsEndpoint(PutChannels(e, v))
      /\ Fields(PutChannels(e, v), e.state, e.negotiated, v, e.scheduler, e.window,
                e.next_frame_seq, e.timers, e.now, e.pong, e.tasks, e.events)
  BY DEF IsEndpoint, Fields, PutChannels
<1>4. /\ IsEndpoint(PutScheduler(e, v))
      /\ Fields(PutScheduler(e, v), e.state, e.negotiated, e.channels, v, e.window,
                e.next_frame_seq, e.timers, e.now, e.pong, e.tasks, e.events)
  BY DEF IsEndpoint, Fields, PutScheduler
<1>5. /\ IsEndpoint(PutWindow(e, v))
      /\ Fields(PutWindow(e, v), e.state, e.negotiated, e.channels, e.scheduler, v,
                e.next_frame_seq, e.timers, e.now, e.pong, e.tasks, e.events)
  BY DEF IsEndpoint, Fields, PutWindow
<1>6. /\ IsEndpoint(PutNextSeq(e, v))
      /\ Fields(PutNextSeq(e, v), e.state, e.negotiated, e.channels, e.scheduler, e.window,
                v, e.timers, e.now, e.pong, e.tasks, e.events)
  BY DEF IsEndpoint, Fields, PutNextSeq
<1>7. /\ IsEndpoint(PutTimers(e, v))
      /\ Fields(PutTimers(e, v), e.state, e.negotiated, e.channels, e.scheduler, e.window,
                e.next_frame_seq, v, e.now, e.pong, e.tasks, e.events)
  BY DEF IsEndpoint, Fields, PutTimers
<1>8. /\ IsEndpoint(PutNow(e, v))
      /\ Fields(PutNow(e, v), e.state, e.negotiated, e.channels, e.scheduler, e.window,
                e.next_frame_seq, e.timers, v, e.pong, e.tasks, e.events)
  BY DEF IsEndpoint, Fields, PutNow
<1>9. /\ IsEndpoint(PutPong(e, v))
      /\ Fields(PutPong(e, v), e.state, e.negotiated, e.channels, e.scheduler, e.window,
                e.next_frame_seq, e.timers, e.now, v, e.tasks, e.events)
  BY DEF IsEndpoint, Fields, PutPong
<1>10. /\ IsEndpoint(PutTasks(e, v))
      /\ Fields(PutTasks(e, v), e.state, e.negotiated, e.channels, e.scheduler, e.window,
                e.next_frame_seq, e.timers, e.now, e.pong, v, e.events)
  BY DEF IsEndpoint, Fields, PutTasks
<1>11. /\ IsEndpoint(PutEvents(e, v))
      /\ Fields(PutEvents(e, v), e.state, e.negotiated, e.channels, e.scheduler, e.window,
                e.next_frame_seq, e.timers, e.now, e.pong, e.tasks, v)
  BY DEF IsEndpoint, Fields, PutEvents
<1>12. QED
  BY <1>1, <1>2, <1>3, <1>4, <1>5, <1>6, <1>7, <1>8, <1>9, <1>10, <1>11, Zenon

-----------------------------------------------------------------------------
(* Steps of one endpoint *)

(* On a channel that was reset nothing is delivered or answered.           *)
Final(e, r) ==
  \A n \in Numbers : e.channels[n].state = "tombstone" =>
    /\ r.channels[n] = e.channels[n]
    /\ \A kind \in { "message_delivered", "plugin_response" } :
         Raised(r.events, kind, Key(e.channels, n)) = Raised(e.events, kind, Key(e.channels, n))

Moved(e, r, h) == Good(r, h) /\ Final(e, r)

LEMMA StayFinal ==
  ASSUME NEW e, NEW r, r.channels = e.channels, r.events = e.events
  PROVE  Final(e, r)
BY DEF Final

LEMMA MovedTwice ==
  ASSUME NEW e, NEW r, NEW q, NEW h, Final(e, r), Moved(r, q, h)
  PROVE  Moved(e, q, h)
<1>1. ASSUME NEW n \in Numbers, e.channels[n].state = "tombstone"
      PROVE  /\ q.channels[n] = e.channels[n]
             /\ \A kind \in { "message_delivered", "plugin_response" } :
                  Raised(q.events, kind, Key(e.channels, n)) = Raised(e.events, kind, Key(e.channels, n))
  <2>1. /\ r.channels[n] = e.channels[n]
        /\ \A kind \in { "message_delivered", "plugin_response" } :
             Raised(r.events, kind, Key(e.channels, n)) = Raised(e.events, kind, Key(e.channels, n))
    BY <1>1 DEF Final
  <2>2. r.channels[n].state = "tombstone" /\ Key(r.channels, n) = Key(e.channels, n)
    BY <1>1, <2>1 DEF Key
  <2>3. /\ q.channels[n] = r.channels[n]
        /\ \A kind \in { "message_delivered", "plugin_response" } :
             Raised(q.events, kind, Key(r.channels, n)) = Raised(r.events, kind, Key(r.channels, n))
    BY <2>2 DEF Final, Moved
  <2>4. QED
    BY <2>1, <2>2, <2>3, Zenon
<1>2. QED
  BY <1>1 DEF Final, Moved

LEMMA NextSeqMoves ==
  ASSUME NEW e, NEW h, Good(e, h), NEW v
  PROVE  Moved(e, PutNextSeq(e, v), h)
BY FieldPut, StayFinal DEF Good, Moved, Fields

LEMMA WindowMoves ==
  ASSUME NEW e, NEW h, Good(e, h), NEW v, Kept(v, h.own)
  PROVE  Moved(e, PutWindow(e, v), h)
BY FieldPut, StayFinal DEF Good, Moved, Fields

LEMMA SchedulerMoves ==
  ASSUME NEW e, NEW h, Good(e, h), NEW v, Queued(v, h.own)
  PROVE  Moved(e, PutScheduler(e, v), h)
BY FieldPut, StayFinal DEF Good, Moved, Fields

LEMMA StateMoves ==
  ASSUME NEW e, NEW h, Good(e, h), NEW v, Phased(v, e.negotiated, e.channels)
  PROVE  Moved(e, PutState(e, v), h)
BY FieldPut, StayFinal DEF Good, Moved, Fields

LEMMA TimersMove ==
  ASSUME NEW e, NEW h, Good(e, h), NEW v, Timed(v, e.now, e.pong, h.clock)
  PROVE  Moved(e, PutTimers(e, v), h)
BY FieldPut, StayFinal DEF Good, Moved, Fields

LEMMA NowMoves ==
  ASSUME NEW e, NEW h, Good(e, h), NEW v, Timed(e.timers, v, e.pong, h.clock)
  PROVE  Moved(e, PutNow(e, v), h)
BY FieldPut, StayFinal DEF Good, Moved, Fields

LEMMA PongMoves ==
  ASSUME NEW e, NEW h, Good(e, h), NEW v, Timed(e.timers, e.now, v, h.clock)
  PROVE  Moved(e, PutPong(e, v), h)
BY FieldPut, StayFinal DEF Good, Moved, Fields

LEMMA TasksMove ==
  ASSUME NEW e, NEW h, Good(e, h), NEW v, Answered(e.events, v)
  PROVE  Moved(e, PutTasks(e, v), h)
BY FieldPut, StayFinal DEF Good, Moved, Fields

LEMMA ChannelsMove ==
  ASSUME NEW e, NEW h, Good(e, h), NEW v, Phased(e.state, e.negotiated, v),
         Tabled(v, h.own, h.theirs), Delivered(v, e.events, h.theirs),
         \A n \in Numbers : e.channels[n].state = "tombstone" => v[n] = e.channels[n]
  PROVE  Moved(e, PutChannels(e, v), h)
<1>1. Good(PutChannels(e, v), h)
  BY FieldPut DEF Good, Fields
<1>2. PutChannels(e, v).channels = v /\ PutChannels(e, v).events = e.events
  BY FieldPut DEF Good, Fields
<1>3. Final(e, PutChannels(e, v))
  BY <1>2 DEF Final
<1>4. QED
  BY <1>1, <1>3 DEF Moved

-----------------------------------------------------------------------------
(* Ranks, and logs that grow *)

LEMMA RankGrows ==
  ASSUME NEW n \in Nat, NEW P \in SUBSET (1 .. n)
  PROVE  /\ \A i \in 1 .. n : Rank(P \cup { n + 1 }, i) = Rank(P, i)
         /\ Rank(P \cup { n + 1 }, n + 1) = Cardinality(P) + 1
         /\ Cardinality(P \cup { n + 1 }) = Cardinality(P) + 1
<1>1. \A i \in 1 .. n : { j \in P \cup { n + 1 } : j <= i } = { j \in P : j <= i }
  OBVIOUS
<1>2. { j \in P \cup { n + 1 } : j <= n + 1 } = P \cup { n + 1 }
  <2>1. \A j \in P : j \in Nat /\ j <= n + 1 /\ j # n + 1
    OBVIOUS
  <2>2. \A j \in P \cup { n + 1 } : j <= n + 1
    BY <2>1
  <2>3. QED
    BY <2>2
<1>3. IsFiniteSet(P) /\ n + 1 \notin P
  <2>1. IsFiniteSet(P)
    BY RankIs
  <2>2. QED
    BY <2>1
<1>4. Cardinality(P \cup { n + 1 }) = Cardinality(P) + 1
  BY <1>3, FS_AddElement
<1>5. QED
  BY <1>1, <1>2, <1>4 DEF Rank

LEMMA AppendSentOn ==
  ASSUME NEW log, IsSequence(log), NEW x, NEW id
  PROVE  /\ Len(log) \in Nat /\ SentOn(log, id) \in SUBSET (1 .. Len(log))
         /\ x.channel = id => SentOn(Append(log, x), id) = SentOn(log, id) \cup { Len(log) + 1 }
         /\ x.channel # id => SentOn(Append(log, x), id) = SentOn(log, id)
<1>1. DOMAIN log = 1 .. Len(log) /\ Len(log) \in Nat
  BY SequenceHas
<1>2. /\ DOMAIN Append(log, x) = 1 .. Len(log) + 1 /\ Append(log, x)[Len(log) + 1] = x
      /\ \A i \in 1 .. Len(log) : Append(log, x)[i] = log[i]
  BY AppendHas
<1>3. QED
  BY <1>1, <1>2 DEF SentOn

LEMMA AppendRaised ==
  ASSUME NEW events, IsSequence(events), NEW x, NEW kind, NEW id
  PROVE  /\ Len(events) \in Nat /\ Raised(events, kind, id) \in SUBSET (1 .. Len(events))
         /\ x.kind = kind /\ x.channel = id
              => Raised(Append(events, x), kind, id) = Raised(events, kind, id) \cup { Len(events) + 1 }
         /\ ~ (x.kind = kind /\ x.channel = id)
              => Raised(Append(events, x), kind, id) = Raised(events, kind, id)
<1>1. DOMAIN events = 1 .. Len(events) /\ Len(events) \in Nat
  BY SequenceHas
<1>2. /\ DOMAIN Append(events, x) = 1 .. Len(events) + 1 /\ Append(events, x)[Len(events) + 1] = x
      /\ \A i \in 1 .. Len(events) : Append(events, x)[i] = events[i]
  BY AppendHas
<1>3. QED
  BY <1>1, <1>2 DEF Raised

(* A number names one message for good. *)
LEMMA NumberedOnce ==
  ASSUME NEW log, IsSequence(log), NEW id, NEW seq, NEW k, NEW l,
         Numbered(log, id, seq, k), Numbered(log, id, seq, l)
  PROVE  k = l
<1>1. PICK n \in Nat : n = Len(log) /\ SentOn(log, id) \in SUBSET (1 .. n)
  BY AppendSentOn
<1>2. PICK P \in SUBSET (1 .. n) : P = SentOn(log, id)
  BY <1>1
<1>3. k \in P /\ l \in P /\ Rank(P, k) = Rank(P, l)
  BY <1>2 DEF Numbered
<1>4. \A i, j \in P : i < j => Rank(P, i) < Rank(P, j)
  BY RankIs
<1>5. \A i \in P : Rank(P, i) \in Nat
  <2>1. Cardinality(P) \in Nat /\ \A i \in P : Rank(P, i) \in 1 .. Cardinality(P)
    BY RankIs
  <2>2. QED
    BY <2>1
<1>6. k \in Nat /\ l \in Nat
  BY <1>3
<1>7. QED
  BY <1>3, <1>4, <1>5, <1>6

LEMMA NumberedStays ==
  ASSUME NEW log, IsSequence(log), NEW x, NEW id, NEW seq, NEW k, Numbered(log, id, seq, k)
  PROVE  /\ Numbered(Append(log, x), id, seq, k)
         /\ k \in DOMAIN Append(log, x) /\ k \in DOMAIN log /\ Append(log, x)[k] = log[k]
<1>1. PICK n \in Nat : n = Len(log) /\ SentOn(log, id) \in SUBSET (1 .. n)
  BY AppendSentOn
<1>2. PICK P \in SUBSET (1 .. n) : P = SentOn(log, id)
  BY <1>1
<1>3. k \in P /\ k \in 1 .. n /\ Rank(P, k) = seq
  BY <1>2 DEF Numbered
<1>4. PICK Q : Q = SentOn(Append(log, x), id)
  OBVIOUS
<1>5. Q = P \/ Q = P \cup { n + 1 }
  BY <1>1, <1>2, <1>4, AppendSentOn
<1>6. k \in Q /\ Rank(Q, k) = seq
  BY <1>3, <1>5, RankGrows
<1>7. Numbered(Append(log, x), id, seq, k)
  BY <1>4, <1>6 DEF Numbered
<1>8. DOMAIN log = 1 .. n /\ DOMAIN Append(log, x) = 1 .. n + 1 /\ Append(log, x)[k] = log[k]
  BY <1>1, <1>3, SequenceHas, AppendHas
<1>9. QED
  BY <1>1, <1>3, <1>7, <1>8

(* The next message gets the next number. *)
LEMMA NumberedNext ==
  ASSUME NEW log, IsSequence(log), NEW x
  PROVE  /\ Numbered(Append(log, x), x.channel, Cardinality(SentOn(log, x.channel)) + 1, Len(log) + 1)
         /\ Cardinality(SentOn(Append(log, x), x.channel)) = Cardinality(SentOn(log, x.channel)) + 1
<1>1. PICK n \in Nat : n = Len(log) /\ SentOn(log, x.channel) \in SUBSET (1 .. n)
  BY AppendSentOn
<1>2. PICK P \in SUBSET (1 .. n) : P = SentOn(log, x.channel)
  BY <1>1
<1>3. SentOn(Append(log, x), x.channel) = P \cup { n + 1 }
  BY <1>1, <1>2, AppendSentOn
<1>4. QED
  BY <1>1, <1>2, <1>3, RankGrows DEF Numbered

(* What is true of a log stays true when a message is added to it.         *)
LEMMA CarriesPartStays ==
  ASSUME NEW log, IsSequence(log), NEW x, NEW id, NEW body, CarriesPart(id, body, log)
  PROVE  CarriesPart(id, body, Append(log, x))
<1>1. PICK k \in DOMAIN log : /\ Numbered(log, id, body.sequence, k)
                              /\ body.total = Len(log[k].payload)
                              /\ PartOf(body, log[k].payload)
  BY DEF CarriesPart
<1>2. /\ Numbered(Append(log, x), id, body.sequence, k)
      /\ k \in DOMAIN Append(log, x) /\ Append(log, x)[k] = log[k]
  BY <1>1, NumberedStays
<1>3. /\ body.total = Len(Append(log, x)[k].payload)
      /\ PartOf(body, Append(log, x)[k].payload)
  BY <1>1, <1>2, Zenon
<1>4. QED
  BY <1>2, <1>3 DEF CarriesPart

LEMMA CarriedStays ==
  ASSUME NEW log, IsSequence(log), NEW x, NEW frame, Carried(frame, log)
  PROVE  Carried(frame, Append(log, x))
BY CarriesPartStays DEF Carried

LEMMA CarriesStay ==
  ASSUME NEW log, IsSequence(log), NEW x, NEW frames, Carries(frames, log)
  PROVE  Carries(frames, Append(log, x))
BY CarriedStays DEF Carries

LEMMA KeptStays ==
  ASSUME NEW log, IsSequence(log), NEW x, NEW window, Kept(window, log)
  PROVE  Kept(window, Append(log, x))
BY CarriedStays DEF Kept

LEMMA QueuedStays ==
  ASSUME NEW log, IsSequence(log), NEW x, NEW s, Queued(s, log)
  PROVE  Queued(s, Append(log, x))
<1>1. ASSUME NEW q \in DataChannels \cup { 0 } PROVE QueueOK(Waiting(s, q), q, Append(log, x))
  <2>1. QueueOK(Waiting(s, q), q, log)
    BY DEF Queued
  <2>2. QED
    BY <2>1, CarriedStays DEF QueueOK, ItemOK
<1>2. QED
  BY <1>1, Zenon DEF Queued

LEMMA BuffersStay ==
  ASSUME NEW log, IsSequence(log), NEW x, NEW re, NEW id, BuffersParts(re, id, log)
  PROVE  BuffersParts(re, id, Append(log, x))
<1>1. ASSUME NEW seq \in DOMAIN re.pending
      PROVE  \E k \in DOMAIN Append(log, x) :
               /\ Numbered(Append(log, x), id, seq, k)
               /\ re.pending[seq] = [ total |-> re.pending[seq].total, ranges |-> re.pending[seq].ranges ]
               /\ re.pending[seq].total = Len(Append(log, x)[k].payload)
               /\ \A range \in re.pending[seq].ranges : PartOf(range, Append(log, x)[k].payload)
  <2>1. PICK k \in DOMAIN log :
               /\ Numbered(log, id, seq, k)
               /\ re.pending[seq] = [ total |-> re.pending[seq].total, ranges |-> re.pending[seq].ranges ]
               /\ re.pending[seq].total = Len(log[k].payload)
               /\ \A range \in re.pending[seq].ranges : PartOf(range, log[k].payload)
    BY <1>1, Zenon DEF BuffersParts
  <2>2. /\ Numbered(Append(log, x), id, seq, k)
        /\ k \in DOMAIN Append(log, x) /\ Append(log, x)[k] = log[k]
    BY <2>1, NumberedStays
  <2>3. QED
    BY <2>1, <2>2, Zenon
<1>2. QED
  BY <1>1, Zenon DEF BuffersParts

LEMMA DeliveredStays ==
  ASSUME NEW log, IsSequence(log), NEW x, NEW table, NEW events, Delivered(table, events, log)
  PROVE  Delivered(table, events, Append(log, x))
<1>1. ASSUME NEW i \in DOMAIN events, events[i].kind = "message_delivered"
      PROVE  \E k \in DOMAIN Append(log, x) :
               /\ Numbered(Append(log, x), events[i].channel, events[i].sequence, k)
               /\ events[i].payload = Append(log, x)[k].payload
  <2>1. PICK k \in DOMAIN log :
               /\ Numbered(log, events[i].channel, events[i].sequence, k)
               /\ events[i].payload = log[k].payload
    BY <1>1, Zenon DEF Delivered
  <2>2. /\ Numbered(Append(log, x), events[i].channel, events[i].sequence, k)
        /\ k \in DOMAIN Append(log, x) /\ Append(log, x)[k] = log[k]
    BY <2>1, NumberedStays
  <2>3. QED
    BY <2>1, <2>2, Zenon
<1>2. QED
  BY <1>1, Zenon DEF Delivered

LEMMA PeerSends ==
  ASSUME NEW e, NEW h, Good(e, h), IsSequence(h.theirs), NEW g, NEW x,
         g.own = h.own, g.theirs = Append(h.theirs, x), g.clock = h.clock
  PROVE  Good(e, g)
<1>1. Delivered(e.channels, e.events, g.theirs)
  BY DeliveredStays DEF Good
<1>2. Tabled(e.channels, g.own, g.theirs)
  <2>1. Tabled(e.channels, h.own, h.theirs)
    BY DEF Good
  <2>2. ASSUME NEW n \in Numbers
        PROVE  BuffersParts(e.channels[n].reassembler, Key(e.channels, n), g.theirs)
    <3>1. BuffersParts(e.channels[n].reassembler, Key(e.channels, n), h.theirs)
      BY <2>1 DEF Tabled
    <3>2. QED
      BY <3>1, BuffersStay
  <2>3. QED
    BY <2>1, <2>2, Zenon DEF Tabled
<1>3. QED
  BY <1>1, <1>2 DEF Good

LEMMA ClockPasses ==
  ASSUME NEW e, NEW h, Good(e, h), h.clock \in Nat, NEW g,
         g.own = h.own, g.theirs = h.theirs, g.clock = h.clock + 1
  PROVE  Good(e, g)
<1>1. Timed(e.timers, e.now, e.pong, g.clock)
  BY DEF Good, Timed
<1>2. QED
  BY <1>1 DEF Good

-----------------------------------------------------------------------------
(* Events *)

LEMMA OtherDelivered ==
  ASSUME NEW table, NEW events, NEW their, Delivered(table, events, their),
         NEW x, x.kind # "message_delivered"
  PROVE  Delivered(table, Append(events, x), their)
<1>1. IsSequence(events)
  BY DEF Delivered
<1>2. PICK more : more = Append(events, x)
  OBVIOUS
<1>3. /\ IsSequence(more) /\ DOMAIN more = 1 .. Len(events) + 1 /\ more[Len(events) + 1] = x
      /\ \A i \in 1 .. Len(events) : more[i] = events[i]
      /\ DOMAIN events = 1 .. Len(events) /\ Len(events) \in Nat
  BY <1>1, <1>2, AppendHas, SequenceHas
<1>4. \A id : Deliveries(more, id) = Deliveries(events, id)
  BY <1>1, <1>2, AppendRaised DEF Deliveries
<1>5. \A i \in DOMAIN more : more[i].kind = "message_delivered" =>
        i \in DOMAIN events /\ more[i] = events[i]
  BY <1>3
<1>6. \A n \in Numbers : table[n].next_recv_seq = Cardinality(Deliveries(more, Key(table, n))) + 1
  BY <1>4 DEF Delivered
<1>7. ASSUME NEW i \in DOMAIN more, more[i].kind = "message_delivered"
      PROVE  /\ Used(table, more[i].channel)
             /\ more[i].sequence = Rank(Deliveries(more, more[i].channel), i)
             /\ \E k \in DOMAIN their :
                  /\ Numbered(their, more[i].channel, more[i].sequence, k)
                  /\ more[i].payload = their[k].payload
  <2>1. i \in DOMAIN events /\ more[i] = events[i] /\ events[i].kind = "message_delivered"
    BY <1>5, <1>7
  <2>2. /\ Used(table, events[i].channel)
        /\ events[i].sequence = Rank(Deliveries(events, events[i].channel), i)
        /\ \E k \in DOMAIN their :
             /\ Numbered(their, events[i].channel, events[i].sequence, k)
             /\ events[i].payload = their[k].payload
    BY <2>1, Zenon DEF Delivered
  <2>3. QED
    BY <1>4, <2>1, <2>2, Zenon
<1>8. QED
  BY <1>2, <1>3, <1>6, <1>7, Zenon DEF Delivered

LEMMA AnswersStay ==
  ASSUME NEW events, IsSequence(events), NEW x, NEW answer, NEW i \in Int, NEW j \in Int, i <= j,
         Answers(answer, events, i)
  PROVE  Answers(answer, Append(events, x), j)
<1>1. PICK l \in DOMAIN events : /\ l < i
                                 /\ events[l].kind = "message_delivered"
                                 /\ events[l].channel = answer.channel
                                 /\ events[l].sequence = answer.sequence
                                 /\ events[l].payload = answer.payload
  BY DEF Answers
<1>2. l \in Nat /\ l \in DOMAIN Append(events, x) /\ Append(events, x)[l] = events[l]
  BY SequenceHas, AppendHas
<1>3. l < j
  BY <1>1, <1>2
<1>4. QED
  BY <1>1, <1>2, <1>3, Zenon DEF Answers

LEMMA OtherAnswered ==
  ASSUME NEW events, IsSequence(events), NEW tasks, Answered(events, tasks),
         NEW x, x.kind # "plugin_response"
  PROVE  Answered(Append(events, x), tasks)
<1>1. PICK more : more = Append(events, x)
  OBVIOUS
<1>2. /\ IsSequence(more) /\ DOMAIN more = 1 .. Len(events) + 1 /\ more[Len(events) + 1] = x
      /\ \A i \in 1 .. Len(events) : more[i] = events[i]
      /\ DOMAIN events = 1 .. Len(events) /\ Len(events) \in Nat /\ Len(more) = Len(events) + 1
  BY <1>1, AppendHas, SequenceHas
<1>3. \A i \in DOMAIN more : more[i].kind = "plugin_response" =>
        i \in DOMAIN events /\ more[i] = events[i] /\ i \in Int
  BY <1>2
<1>4. ASSUME NEW i \in DOMAIN more, more[i].kind = "plugin_response"
      PROVE  /\ Answers(more[i], more, i)
             /\ \A j \in DOMAIN more :
                  /\ i < j
                  /\ more[j].kind = "plugin_response"
                  /\ more[j].channel = more[i].channel
                  => more[i].sequence < more[j].sequence
             /\ \A j \in DOMAIN tasks :
                  tasks[j].channel = more[i].channel => more[i].sequence < tasks[j].sequence
  <2>1. i \in DOMAIN events /\ more[i] = events[i] /\ i \in Int /\ events[i].kind = "plugin_response"
    BY <1>3, <1>4
  <2>2. Answers(more[i], more, i)
    <3>1. Answers(events[i], events, i)
      BY <2>1, Zenon DEF Answered
    <3>2. i <= i
      BY <2>1
    <3>3. Answers(events[i], Append(events, x), i)
      BY <2>1, <3>1, <3>2, AnswersStay
    <3>4. QED
      BY <1>1, <2>1, <3>3, Zenon
  <2>3. ASSUME NEW j \in DOMAIN more, i < j, more[j].kind = "plugin_response",
               more[j].channel = more[i].channel
        PROVE  more[i].sequence < more[j].sequence
    <3>1. j \in DOMAIN events /\ more[j] = events[j]
      BY <1>3, <2>3
    <3>2. QED
      BY <2>1, <2>3, <3>1, Zenon DEF Answered
  <2>4. \A j \in DOMAIN tasks :
          tasks[j].channel = more[i].channel => more[i].sequence < tasks[j].sequence
    BY <2>1, Zenon DEF Answered
  <2>5. QED
    BY <2>2, <2>3, <2>4, Zenon
<1>5. ASSUME NEW i \in DOMAIN tasks
      PROVE  Answers(tasks[i], more, Len(more) + 1)
  <2>1. Answers(tasks[i], events, Len(events) + 1)
    BY DEF Answered
  <2>2. Len(events) + 1 \in Int /\ Len(more) + 1 \in Int /\ Len(events) + 1 <= Len(more) + 1
    BY <1>2
  <2>3. QED
    BY <1>1, <2>1, <2>2, AnswersStay
<1>6. Answered(more, tasks)
  BY <1>4, <1>5, Zenon DEF Answered
<1>7. QED
  BY <1>1, <1>6

LEMMA EventMoves ==
  ASSUME NEW e, NEW h, Good(e, h), NEW kind, NEW id, NEW seq, NEW payload,
         kind \notin { "message_delivered", "plugin_response" }
  PROVE  Moved(e, Event(e, kind, id, seq, payload), h)
<1>1. PICK x : x = [ kind |-> kind, channel |-> id, sequence |-> seq, payload |-> payload ]
  OBVIOUS
<1>2. x.kind = kind
  BY <1>1
<1>3. Event(e, kind, id, seq, payload) = PutEvents(e, Append(e.events, x))
  BY <1>1 DEF Event, PutEvents
<1>4. Delivered(e.channels, Append(e.events, x), h.theirs)
  BY <1>2, OtherDelivered DEF Good
<1>5. IsSequence(e.events)
  BY DEF Good, Delivered
<1>6. Answered(Append(e.events, x), e.tasks)
  BY <1>2, <1>5, OtherAnswered DEF Good
<1>7. Good(PutEvents(e, Append(e.events, x)), h)
  BY <1>4, <1>6, FieldPut DEF Good, Fields
<1>8. \A k \in { "message_delivered", "plugin_response" } : \A i :
        Raised(Append(e.events, x), k, i) = Raised(e.events, k, i)
  BY <1>2, <1>5, AppendRaised
<1>9. /\ PutEvents(e, Append(e.events, x)).channels = e.channels
      /\ PutEvents(e, Append(e.events, x)).events = Append(e.events, x)
  <2>1. IsEndpoint(e)
    BY DEF Good
  <2>2. \A v : PutEvents(e, v).channels = e.channels /\ PutEvents(e, v).events = v
    BY <2>1, FieldPut DEF Fields
  <2>3. QED
    BY <2>2, Zenon
<1>10. Final(e, PutEvents(e, Append(e.events, x)))
  BY <1>8, <1>9 DEF Final
<1>11. QED
  BY <1>3, <1>7, <1>10 DEF Moved

LEMMA NoticeMoves ==
  ASSUME NEW e, NEW h, Good(e, h), NEW kind, NEW id,
         kind \notin { "message_delivered", "plugin_response" }
  PROVE  Moved(e, Notice(e, kind, id), h)
BY EventMoves DEF Notice

(* A message is delivered: the table counts it, and nothing else of it     *)
(* that matters here changes.                                              *)
LEMMA NextDelivered ==
  ASSUME NEW table, NEW events, NEW their, Delivered(table, events, their),
         NEW n \in Numbers, NEW x, x.kind = "message_delivered", x.channel = Key(table, n),
         table[n].state # "free", x.sequence = table[n].next_recv_seq,
         \E k \in DOMAIN their : Numbered(their, x.channel, x.sequence, k) /\ x.payload = their[k].payload,
         NEW counted,
         \A m \in Numbers : /\ counted[m].generation = table[m].generation
                            /\ counted[m].state = table[m].state
                            /\ counted[m].next_recv_seq =
                                 IF m = n THEN table[m].next_recv_seq + 1 ELSE table[m].next_recv_seq
  PROVE  Delivered(counted, Append(events, x), their)
<1>1. IsSequence(events)
  BY DEF Delivered
<1>2. PICK more : more = Append(events, x)
  OBVIOUS
<1>3. /\ IsSequence(more) /\ DOMAIN more = 1 .. Len(events) + 1 /\ more[Len(events) + 1] = x
      /\ \A i \in 1 .. Len(events) : more[i] = events[i]
      /\ DOMAIN events = 1 .. Len(events) /\ Len(events) \in Nat
  BY <1>1, <1>2, AppendHas, SequenceHas
<1>4. PICK s \in Nat : s = Len(events)
  BY <1>3
<1>5. /\ \A id : Deliveries(events, id) \in SUBSET (1 .. s)
      /\ \A id : id # x.channel => Deliveries(more, id) = Deliveries(events, id)
      /\ Deliveries(more, x.channel) = Deliveries(events, x.channel) \cup { s + 1 }
  <2>1. \A id : Deliveries(events, id) \in SUBSET (1 .. s)
    BY <1>1, <1>4, AppendRaised DEF Deliveries
  <2>2. \A id : id # x.channel => Deliveries(more, id) = Deliveries(events, id)
    BY <1>1, <1>2, AppendRaised DEF Deliveries
  <2>3. Deliveries(more, x.channel) = Deliveries(events, x.channel) \cup { s + 1 }
    <3>1. Deliveries(Append(events, x), x.channel)
            = Deliveries(events, x.channel) \cup { Len(events) + 1 }
      BY <1>1, AppendRaised DEF Deliveries
    <3>2. QED
      BY <1>2, <1>4, <3>1, Zenon
  <2>4. QED
    BY <2>1, <2>2, <2>3
<1>6. \A m \in Numbers : Key(counted, m) = Key(table, m)
  BY DEF Key
<1>7. ASSUME NEW m \in Numbers
      PROVE  counted[m].next_recv_seq = Cardinality(Deliveries(more, Key(counted, m))) + 1
  <2>1. table[m].next_recv_seq = Cardinality(Deliveries(events, Key(table, m))) + 1
    BY DEF Delivered
  <2>2. CASE m = n
    <3>1. PICK P \in SUBSET (1 .. s) : P = Deliveries(events, x.channel)
      BY <1>5
    <3>2. Cardinality(P \cup { s + 1 }) = Cardinality(P) + 1
      BY RankGrows
    <3>3. counted[m].next_recv_seq = table[m].next_recv_seq + 1
      BY <2>2
    <3>4. QED
      BY <1>5, <1>6, <2>1, <2>2, <3>1, <3>2, <3>3
  <2>3. CASE m # n
    <3>1. Key(table, m) # x.channel
      BY <2>3 DEF Key
    <3>2. counted[m].next_recv_seq = table[m].next_recv_seq
      BY <2>3
    <3>3. QED
      BY <1>5, <1>6, <2>1, <3>1, <3>2
  <2>4. QED
    BY <2>2, <2>3
<1>8. \A id : Used(table, id) => Used(counted, id)
  BY <1>6 DEF Used
<1>9. ASSUME NEW i \in DOMAIN more, more[i].kind = "message_delivered"
      PROVE  /\ Used(counted, more[i].channel)
             /\ more[i].sequence = Rank(Deliveries(more, more[i].channel), i)
             /\ \E k \in DOMAIN their :
                  /\ Numbered(their, more[i].channel, more[i].sequence, k)
                  /\ more[i].payload = their[k].payload
  <2>1. CASE i \in 1 .. s
    <3>1. i \in DOMAIN events /\ more[i] = events[i] /\ events[i].kind = "message_delivered"
      BY <1>3, <1>4, <1>9, <2>1
    <3>2. /\ Used(table, events[i].channel)
          /\ events[i].sequence = Rank(Deliveries(events, events[i].channel), i)
          /\ \E k \in DOMAIN their :
               /\ Numbered(their, events[i].channel, events[i].sequence, k)
               /\ events[i].payload = their[k].payload
      BY <3>1, Zenon DEF Delivered
    <3>3. Rank(Deliveries(more, events[i].channel), i) = Rank(Deliveries(events, events[i].channel), i)
      <4>1. PICK P \in SUBSET (1 .. s) : P = Deliveries(events, events[i].channel)
        BY <1>5
      <4>2. Deliveries(more, events[i].channel) = P \/ Deliveries(more, events[i].channel) = P \cup { s + 1 }
        BY <1>5, <4>1
      <4>3. Rank(P \cup { s + 1 }, i) = Rank(P, i)
        BY <2>1, RankGrows
      <4>4. QED
        BY <4>1, <4>2, <4>3, Zenon
    <3>4. QED
      BY <1>8, <3>1, <3>2, <3>3, Zenon
  <2>2. CASE i = s + 1
    <3>1. more[i] = x
      BY <1>3, <1>4, <2>2
    <3>2. Used(counted, x.channel)
      <4>1. x.channel.number = n
        BY DEF Key
      <4>2. QED
        BY <1>6, <4>1 DEF Used
    <3>3. x.sequence = Rank(Deliveries(more, x.channel), s + 1)
      <4>1. PICK P \in SUBSET (1 .. s) : P = Deliveries(events, x.channel)
        BY <1>5
      <4>2. Rank(P \cup { s + 1 }, s + 1) = Cardinality(P) + 1
        BY RankGrows
      <4>3. x.sequence = Cardinality(P) + 1
        BY <4>1 DEF Delivered
      <4>4. QED
        BY <1>5, <4>1, <4>2, <4>3, Zenon
    <3>4. QED
      BY <2>2, <3>1, <3>2, <3>3, Zenon
  <2>3. QED
    BY <1>3, <1>4, <2>1, <2>2
<1>10. QED
  BY <1>2, <1>3, <1>7, <1>9, Zenon DEF Delivered

(* An answer refers to a message that was delivered, by its number.        *)
LEMMA AnswersOld ==
  ASSUME NEW table, NEW events, NEW their, Delivered(table, events, their),
         NEW answer, NEW i, Answers(answer, events, i)
  PROVE  answer.sequence \in 1 .. Cardinality(Deliveries(events, answer.channel))
<1>1. PICK j \in DOMAIN events : /\ events[j].kind = "message_delivered"
                                 /\ events[j].channel = answer.channel
                                 /\ events[j].sequence = answer.sequence
  BY DEF Answers
<1>2. answer.sequence = Rank(Deliveries(events, answer.channel), j)
  BY <1>1 DEF Delivered
<1>3. PICK s \in Nat : s = Len(events) /\ Deliveries(events, answer.channel) \in SUBSET (1 .. s)
  BY AppendRaised DEF Delivered, Deliveries
<1>4. PICK P \in SUBSET (1 .. s) : P = Deliveries(events, answer.channel)
  BY <1>3
<1>5. j \in P
  BY <1>1, <1>4 DEF Deliveries, Raised
<1>6. QED
  BY <1>2, <1>4, <1>5, RankIs

-----------------------------------------------------------------------------
(* Answers *)

(* Nothing that has been answered, or waits to be, has that number or a    *)
(* later one.                                                              *)
NoneSince(events, tasks, answer) ==
  /\ \A i \in DOMAIN events :
       events[i].kind = "plugin_response" /\ events[i].channel = answer.channel
         => events[i].sequence < answer.sequence
  /\ \A j \in DOMAIN tasks :
       tasks[j].channel = answer.channel => tasks[j].sequence < answer.sequence

LEMMA NewestAnswer ==
  ASSUME NEW table, NEW events, NEW their, Delivered(table, events, their),
         NEW tasks, Answered(events, tasks), NEW answer,
         answer.sequence = Cardinality(Deliveries(events, answer.channel)) + 1
  PROVE  NoneSince(events, tasks, answer)
<1>1. Cardinality(Deliveries(events, answer.channel)) \in Nat
  <2>1. PICK s \in Nat : s = Len(events) /\ Deliveries(events, answer.channel) \in SUBSET (1 .. s)
    BY AppendRaised DEF Delivered, Deliveries
  <2>2. QED
    BY <2>1, RankIs
<1>2. ASSUME NEW i \in DOMAIN events, events[i].kind = "plugin_response",
             events[i].channel = answer.channel
      PROVE  events[i].sequence < answer.sequence
  <2>1. Answers(events[i], events, i)
    BY <1>2 DEF Answered
  <2>2. events[i].sequence \in 1 .. Cardinality(Deliveries(events, answer.channel))
    BY <1>2, <2>1, AnswersOld
  <2>3. QED
    BY <1>1, <2>2
<1>3. ASSUME NEW j \in DOMAIN tasks, tasks[j].channel = answer.channel
      PROVE  tasks[j].sequence < answer.sequence
  <2>1. Answers(tasks[j], events, Len(events) + 1)
    BY <1>3 DEF Answered
  <2>2. tasks[j].sequence \in 1 .. Cardinality(Deliveries(events, answer.channel))
    BY <1>3, <2>1, AnswersOld
  <2>3. QED
    BY <1>1, <2>2
<1>4. QED
  BY <1>2, <1>3 DEF NoneSince

LEMMA NextAnswered ==
  ASSUME NEW events, IsSequence(events), NEW tasks, Answered(events, tasks),
         NEW x, x.kind = "plugin_response", Answers(x, events, Len(events) + 1),
         \A i \in DOMAIN events :
           events[i].kind = "plugin_response" /\ events[i].channel = x.channel
             => events[i].sequence < x.sequence,
         \A j \in DOMAIN tasks : tasks[j].channel = x.channel => x.sequence < tasks[j].sequence
  PROVE  Answered(Append(events, x), tasks)
<1>1. PICK more : more = Append(events, x)
  OBVIOUS
<1>2. /\ IsSequence(more) /\ DOMAIN more = 1 .. Len(events) + 1 /\ more[Len(events) + 1] = x
      /\ \A i \in 1 .. Len(events) : more[i] = events[i]
      /\ DOMAIN events = 1 .. Len(events) /\ Len(events) \in Nat /\ Len(more) = Len(events) + 1
  BY <1>1, AppendHas, SequenceHas
<1>3. PICK s \in Nat : s = Len(events)
  BY <1>2
<1>4. /\ DOMAIN more = 1 .. s + 1 /\ DOMAIN events = 1 .. s /\ more[s + 1] = x
      /\ \A i \in 1 .. s : more[i] = events[i]
  BY <1>2, <1>3
<1>5. ASSUME NEW i \in DOMAIN more, more[i].kind = "plugin_response"
      PROVE  Answers(more[i], more, i)
  <2>1. CASE i \in 1 .. s
    <3>1. Answers(events[i], events, i) /\ more[i] = events[i]
      BY <1>4, <1>5, <2>1 DEF Answered
    <3>2. i \in Int /\ i <= i
      BY <2>1
    <3>3. QED
      BY <1>1, <3>1, <3>2, AnswersStay
  <2>2. CASE i = s + 1
    <3>1. Answers(x, events, s + 1)
      BY <1>3
    <3>2. s + 1 \in Int /\ s + 1 <= s + 1
      OBVIOUS
    <3>3. Answers(x, more, s + 1)
      BY <1>1, <3>1, <3>2, AnswersStay
    <3>4. QED
      BY <1>4, <2>2, <3>3
  <2>3. QED
    BY <1>4, <2>1, <2>2
<1>6. ASSUME NEW i \in DOMAIN more, more[i].kind = "plugin_response",
             NEW j \in DOMAIN more, i < j, more[j].kind = "plugin_response",
             more[j].channel = more[i].channel
      PROVE  more[i].sequence < more[j].sequence
  <2>1. i \in 1 .. s /\ more[i] = events[i]
    BY <1>4, <1>6
  <2>2. CASE j \in 1 .. s
    BY <1>4, <1>6, <2>1, <2>2 DEF Answered
  <2>3. CASE j = s + 1
    BY <1>4, <1>6, <2>1, <2>3
  <2>4. QED
    BY <1>4, <2>2, <2>3
<1>7. ASSUME NEW i \in DOMAIN more, more[i].kind = "plugin_response",
             NEW j \in DOMAIN tasks, tasks[j].channel = more[i].channel
      PROVE  more[i].sequence < tasks[j].sequence
  <2>1. CASE i \in 1 .. s
    BY <1>4, <1>7, <2>1 DEF Answered
  <2>2. CASE i = s + 1
    BY <1>4, <1>7, <2>2
  <2>3. QED
    BY <1>4, <2>1, <2>2
<1>8. ASSUME NEW i \in DOMAIN tasks PROVE Answers(tasks[i], more, Len(more) + 1)
  <2>1. Answers(tasks[i], events, Len(events) + 1)
    BY DEF Answered
  <2>2. Len(events) + 1 \in Int /\ Len(more) + 1 \in Int /\ Len(events) + 1 <= Len(more) + 1
    BY <1>2
  <2>3. QED
    BY <1>1, <2>1, <2>2, AnswersStay
<1>9. Answered(more, tasks)
  BY <1>5, <1>6, <1>7, <1>8, Zenon DEF Answered
<1>10. QED
  BY <1>1, <1>9

LEMMA TaskQueued ==
  ASSUME NEW events, NEW tasks, Answered(events, tasks), NEW task, Executor,
         Len(tasks) < ExecutorCapacity, Answers(task, events, Len(events) + 1),
         NoneSince(events, tasks, task)
  PROVE  Answered(events, Append(tasks, task))
<1>1. PICK more : more = Append(tasks, task)
  OBVIOUS
<1>2. IsSequence(tasks)
  BY DEF Answered
<1>3. PICK s \in Nat : s = Len(tasks)
  BY <1>2, SequenceHas
<1>4. /\ IsSequence(more) /\ DOMAIN more = 1 .. s + 1 /\ DOMAIN tasks = 1 .. s /\ more[s + 1] = task
      /\ \A i \in 1 .. s : more[i] = tasks[i]
      /\ Len(more) = s + 1
  BY <1>1, <1>2, <1>3, AppendHas, SequenceHas
<1>5. Len(more) <= ExecutorCapacity
  BY <1>3, <1>4, EngineAssumption
<1>6. ASSUME NEW i \in DOMAIN events, events[i].kind = "plugin_response",
             NEW j \in DOMAIN more, more[j].channel = events[i].channel
      PROVE  events[i].sequence < more[j].sequence
  <2>1. CASE j \in 1 .. s
    BY <1>4, <1>6, <2>1 DEF Answered
  <2>2. CASE j = s + 1
    BY <1>4, <1>6, <2>2 DEF NoneSince
  <2>3. QED
    BY <1>4, <2>1, <2>2
<1>7. ASSUME NEW i \in DOMAIN more PROVE Answers(more[i], events, Len(events) + 1)
  <2>1. CASE i \in 1 .. s
    BY <1>4, <2>1 DEF Answered
  <2>2. CASE i = s + 1
    BY <1>4, <2>2
  <2>3. QED
    BY <1>4, <2>1, <2>2
<1>8. ASSUME NEW i \in DOMAIN more, NEW j \in DOMAIN more, i < j, more[j].channel = more[i].channel
      PROVE  more[i].sequence < more[j].sequence
  <2>1. i \in 1 .. s /\ more[i] = tasks[i]
    BY <1>4, <1>8
  <2>2. CASE j \in 1 .. s
    BY <1>4, <1>8, <2>1, <2>2 DEF Answered
  <2>3. CASE j = s + 1
    BY <1>4, <1>8, <2>1, <2>3 DEF NoneSince
  <2>4. QED
    BY <1>4, <2>2, <2>3
<1>9. Answered(events, more)
  BY <1>4, <1>5, <1>6, <1>7, <1>8, Zenon DEF Answered
<1>10. QED
  BY <1>1, <1>9

LEMMA TaskTaken ==
  ASSUME NEW events, NEW tasks, Answered(events, tasks), tasks # << >>
  PROVE  /\ Answered(events, Tail(tasks))
         /\ Answers(Head(tasks), events, Len(events) + 1)
         /\ \A i \in DOMAIN events :
              events[i].kind = "plugin_response" /\ events[i].channel = Head(tasks).channel
                => events[i].sequence < Head(tasks).sequence
         /\ \A j \in DOMAIN Tail(tasks) :
              Tail(tasks)[j].channel = Head(tasks).channel
                => Head(tasks).sequence < Tail(tasks)[j].sequence
<1>1. IsSequence(tasks)
  BY DEF Answered
<1>2. PICK rest : rest = Tail(tasks)
  OBVIOUS
<1>3. PICK s \in Nat \ {0} : s = Len(tasks)
  BY <1>1, TailHas
<1>4. /\ IsSequence(rest) /\ Len(rest) = s - 1 /\ DOMAIN tasks = 1 .. s /\ DOMAIN rest = 1 .. s - 1
      /\ Head(tasks) = tasks[1]
      /\ \A i \in 1 .. s - 1 : rest[i] = tasks[i + 1]
  BY <1>1, <1>2, <1>3, TailHas, SequenceHas
<1>5. Len(rest) <= ExecutorCapacity /\ Executor
  BY <1>3, <1>4, EngineAssumption DEF Answered
<1>6. \A i \in DOMAIN rest : i + 1 \in DOMAIN tasks /\ rest[i] = tasks[i + 1] /\ i \in Nat
  BY <1>4
<1>7. 1 \in DOMAIN tasks /\ \A i \in DOMAIN rest : 1 < i + 1
  BY <1>4
<1>8. \A i, j \in DOMAIN rest : i < j => i + 1 < j + 1
  BY <1>4
<1>9. Answered(events, rest)
  BY <1>4, <1>5, <1>6, <1>8 DEF Answered
<1>10. QED
  BY <1>2, <1>4, <1>6, <1>7, <1>9 DEF Answered

-----------------------------------------------------------------------------
(* Changes to one slot *)

LEMMA EmptyBuffer ==
  ASSUME NEW id, NEW log
  PROVE  BuffersParts(EmptyReassembler, id, log)
<1>1. PICK p : p = << >>
  OBVIOUS
<1>2. DOMAIN p = {}
  BY <1>1
<1>3. EmptyReassembler = [ pending |-> p, retained |-> 0 ]
  BY <1>1 DEF EmptyReassembler
<1>4. EmptyReassembler.pending = p /\ EmptyReassembler.retained = 0
  BY <1>3
<1>5. QED
  BY <1>2, <1>3, <1>4 DEF BuffersParts

(* The channel in the slot stays the same, and what it has sent and got. *)
LEMMA SlotChanges ==
  ASSUME NEW t, NEW log, NEW their, NEW events, Tabled(t, log, their), Delivered(t, events, their),
         NEW n \in Numbers, NEW x, IsSlot(x), x.state \in ChannelState, x.state # "free",
         x.generation = t[n].generation, x.next_send_seq = t[n].next_send_seq,
         x.next_recv_seq = t[n].next_recv_seq, BuffersParts(x.reassembler, Key(t, n), their),
         NEW u, u = [ t EXCEPT ![n] = x ]
  PROVE  /\ Tabled(u, log, their) /\ Delivered(u, events, their)
         /\ u[n] = x /\ \A m \in Numbers : m # n => u[m] = t[m]
<1>1. t = [ m \in Numbers |-> t[m] ]
  BY DEF Tabled
<1>2. u[n] = x /\ (\A m \in Numbers : m # n => u[m] = t[m]) /\ u = [ m \in Numbers |-> u[m] ]
  BY <1>1
<1>3. \A m \in Numbers : /\ Key(u, m) = Key(t, m)
                         /\ t[m].state # "free" => u[m].state # "free"
                         /\ u[m].next_send_seq = t[m].next_send_seq
                         /\ u[m].next_recv_seq = t[m].next_recv_seq
                         /\ IsSlot(u[m]) /\ u[m].state \in ChannelState
  BY <1>2 DEF Key, Tabled
<1>4. \A m \in Numbers : BuffersParts(u[m].reassembler, Key(u, m), their)
  BY <1>2, <1>3 DEF Tabled
<1>5. \A id : Used(t, id) => Used(u, id)
  BY <1>3 DEF Used
<1>6. Tabled(u, log, their)
  BY <1>2, <1>3, <1>4, <1>5 DEF Tabled
<1>7. Delivered(u, events, their)
  <2>1. \A m \in Numbers : u[m].next_recv_seq = Cardinality(Deliveries(events, Key(u, m))) + 1
    BY <1>3 DEF Delivered
  <2>2. QED
    BY <1>5, <2>1, Zenon DEF Delivered
<1>8. QED
  BY <1>2, <1>6, <1>7

LEMMA SlotMoves ==
  ASSUME NEW e, NEW h, Good(e, h), NEW n \in Numbers, e.negotiated,
         e.channels[n].state # "tombstone",
         NEW x, IsSlot(x), x.state \in ChannelState, x.state # "free",
         x.generation = e.channels[n].generation, x.next_send_seq = e.channels[n].next_send_seq,
         x.next_recv_seq = e.channels[n].next_recv_seq,
         BuffersParts(x.reassembler, Key(e.channels, n), h.theirs)
  PROVE  Moved(e, PutChannels(e, [ e.channels EXCEPT ![n] = x ]), h)
<1>1. PICK t : t = e.channels
  OBVIOUS
<1>2. PICK u : u = [ t EXCEPT ![n] = x ]
  OBVIOUS
<1>3. /\ Tabled(t, h.own, h.theirs) /\ Delivered(t, e.events, h.theirs)
      /\ Phased(e.state, e.negotiated, t)
  BY <1>1 DEF Good
<1>4. /\ x.generation = t[n].generation /\ x.next_send_seq = t[n].next_send_seq
      /\ x.next_recv_seq = t[n].next_recv_seq
      /\ BuffersParts(x.reassembler, Key(t, n), h.theirs)
  BY <1>1
<1>5. Tabled(u, h.own, h.theirs) /\ Delivered(u, e.events, h.theirs)
  BY <1>2, <1>3, <1>4, SlotChanges
<1>6. \A m \in Numbers : m # n => u[m] = t[m]
  BY <1>2, <1>3 DEF Tabled
<1>7. Phased(e.state, e.negotiated, u)
  BY <1>3 DEF Phased
<1>8. \A m \in Numbers : e.channels[m].state = "tombstone" => u[m] = e.channels[m]
  BY <1>1, <1>6
<1>9. QED
  BY <1>1, <1>2, <1>5, <1>7, <1>8, ChannelsMove

(* A free slot has sent and got nothing under any id. *)
LEMMA NothingYet ==
  ASSUME NEW t, NEW log, NEW their, NEW events, Tabled(t, log, their), Delivered(t, events, their),
         NEW n \in Numbers, t[n].state = "free", NEW g
  PROVE  /\ SentOn(log, [ number |-> n, generation |-> g ]) = {}
         /\ Deliveries(events, [ number |-> n, generation |-> g ]) = {}
<1>1. PICK id : id = [ number |-> n, generation |-> g ]
  OBVIOUS
<1>2. id.number = n
  BY <1>1
<1>3. ~ Used(t, id)
  BY <1>2 DEF Used
<1>4. SentOn(log, id) = {}
  BY <1>3 DEF Tabled, SentOn
<1>5. Deliveries(events, id) = {}
  BY <1>3 DEF Delivered, Deliveries, Raised
<1>6. QED
  BY <1>1, <1>4, <1>5

LEMMA FreshMoves ==
  ASSUME NEW e, NEW h, Good(e, h), NEW n \in Numbers, e.negotiated, e.channels[n].state = "free",
         NEW g, NEW state \in { "opening", "open" }
  PROVE  Moved(e, PutChannels(e, [ e.channels EXCEPT ![n] = FreshSlot(g, state) ]), h)
<1>1. PICK t : t = e.channels
  OBVIOUS
<1>2. PICK x : x = FreshSlot(g, state)
  OBVIOUS
<1>3. PICK u : u = [ t EXCEPT ![n] = x ]
  OBVIOUS
<1>4. /\ Tabled(t, h.own, h.theirs) /\ Delivered(t, e.events, h.theirs)
      /\ Phased(e.state, e.negotiated, t)
  BY <1>1 DEF Good
<1>5. t = [ m \in Numbers |-> t[m] ]
  BY <1>4 DEF Tabled
<1>6. u[n] = x /\ (\A m \in Numbers : m # n => u[m] = t[m]) /\ u = [ m \in Numbers |-> u[m] ]
  BY <1>3, <1>5
<1>7. /\ IsSlot(x) /\ x.state \in ChannelState /\ x.state # "free" /\ x.generation = g
      /\ x.next_send_seq = 1 /\ x.next_recv_seq = 1 /\ x.reassembler = EmptyReassembler
  BY <1>2 DEF FreshSlot, IsSlot, ChannelState
<1>8. Key(u, n) = [ number |-> n, generation |-> g ] /\ \A m \in Numbers : m # n => Key(u, m) = Key(t, m)
  BY <1>6, <1>7 DEF Key
<1>9. /\ Cardinality(SentOn(h.own, Key(u, n))) = 0
      /\ Cardinality(Deliveries(e.events, Key(u, n))) = 0
  <2>1. t[n].state = "free"
    BY <1>1
  <2>2. SentOn(h.own, Key(u, n)) = {} /\ Deliveries(e.events, Key(u, n)) = {}
    BY <1>4, <1>8, <2>1, NothingYet
  <2>3. QED
    BY <2>2, FS_EmptySet
<1>10. \A id : Used(t, id) => Used(u, id)
  BY <1>1, <1>6, <1>8 DEF Used
<1>11. ASSUME NEW m \in Numbers
       PROVE  /\ IsSlot(u[m]) /\ u[m].state \in ChannelState
              /\ u[m].next_send_seq = Cardinality(SentOn(h.own, Key(u, m))) + 1
              /\ u[m].next_recv_seq = Cardinality(Deliveries(e.events, Key(u, m))) + 1
              /\ BuffersParts(u[m].reassembler, Key(u, m), h.theirs)
  <2>1. CASE m = n
    BY <1>6, <1>7, <1>9, <2>1, EmptyBuffer
  <2>2. CASE m # n
    BY <1>4, <1>6, <1>8, <2>2 DEF Tabled, Delivered
  <2>3. QED
    BY <2>1, <2>2
<1>12. Tabled(u, h.own, h.theirs)
  BY <1>4, <1>6, <1>10, <1>11, Zenon DEF Tabled
<1>13. Delivered(u, e.events, h.theirs)
  BY <1>4, <1>10, <1>11, Zenon DEF Delivered
<1>14. Phased(e.state, e.negotiated, u)
  BY <1>4 DEF Phased
<1>15. \A m \in Numbers : t[m].state = "tombstone" => u[m] = t[m]
  BY <1>1, <1>6
<1>16. QED
  BY <1>1, <1>2, <1>3, <1>12, <1>13, <1>14, <1>15, ChannelsMove

LEMMA SameTableMoves ==
  ASSUME NEW e, NEW h, Good(e, h)
  PROVE  Moved(e, PutChannels(e, e.channels), h)
BY ChannelsMove DEF Good

(* A channel is there only after negotiation. *)
LEMMA FoundNegotiated ==
  ASSUME NEW e, NEW h, Good(e, h), NEW id, Found(e.channels, id)
  PROVE  /\ e.negotiated /\ id.number \in Numbers
         /\ e.channels[id.number].state \in LiveState
         /\ e.channels[id.number].state \notin { "free", "tombstone" }
         /\ e.channels[id.number].state \in ChannelState
         /\ IsSlot(e.channels[id.number])
         /\ e.channels[id.number].generation = id.generation
         /\ BuffersParts(e.channels[id.number].reassembler, Key(e.channels, id.number), h.theirs)
<1>1. /\ id.number \in Numbers /\ e.channels[id.number].state \in LiveState
      /\ e.channels[id.number].generation = id.generation
  BY DEF Found
<1>2. e.channels[id.number].state \notin { "free", "tombstone" }
  BY <1>1 DEF LiveState
<1>3. ASSUME ~ e.negotiated PROVE FALSE
  <2>1. e.channels = InitialTable
    BY <1>3 DEF Good, Phased
  <2>2. e.channels[id.number].state = "free"
    BY <1>1, <2>1 DEF InitialTable, FreshSlot
  <2>3. QED
    BY <1>2, <2>2
<1>4. /\ e.channels[id.number].state \in ChannelState /\ IsSlot(e.channels[id.number])
      /\ BuffersParts(e.channels[id.number].reassembler, Key(e.channels, id.number), h.theirs)
  BY <1>1 DEF Good, Tabled
<1>5. QED
  BY <1>1, <1>2, <1>3, <1>4

-----------------------------------------------------------------------------
(* Changes to the channel table *)

LEMMA ActivateMoves ==
  ASSUME NEW e, NEW h, Good(e, h), NEW id
  PROVE  Moved(e, PutChannels(e, Activate(e.channels, id).table), h)
<1>1. CASE Found(e.channels, id) /\ e.channels[id.number].state = "opening"
  <2>1. PICK n \in Numbers : n = id.number
    BY <1>1 DEF Found
  <2>2. PICK s : s = e.channels[n]
    OBVIOUS
  <2>3. PICK x : x = [ s EXCEPT !.state = "open" ]
    OBVIOUS
  <2>4. /\ e.negotiated /\ s.state \notin { "free", "tombstone" } /\ IsSlot(s)
        /\ BuffersParts(s.reassembler, Key(e.channels, n), h.theirs)
    BY <1>1, <2>1, <2>2, FoundNegotiated
  <2>5. /\ IsSlot(x) /\ x.state = "open" /\ x.generation = s.generation
        /\ x.next_send_seq = s.next_send_seq /\ x.next_recv_seq = s.next_recv_seq
        /\ x.reassembler = s.reassembler
    BY <2>3, <2>4 DEF IsSlot
  <2>6. Moved(e, PutChannels(e, [ e.channels EXCEPT ![n] = x ]), h)
    BY <2>2, <2>4, <2>5, SlotMoves DEF ChannelState
  <2>7. Activate(e.channels, id) = Done([ e.channels EXCEPT ![n] = x ])
    BY <1>1, <2>1, <2>2, <2>3 DEF Activate
  <2>8. QED
    BY <2>6, <2>7 DEF Done
<1>2. CASE ~ (Found(e.channels, id) /\ e.channels[id.number].state = "opening")
  <2>1. Activate(e.channels, id).table = e.channels
    BY <1>2, Zenon DEF Activate, Refused
  <2>2. QED
    BY <2>1, SameTableMoves
<1>3. QED
  BY <1>1, <1>2

LEMMA ResetMoves ==
  ASSUME NEW e, NEW h, Good(e, h), NEW id
  PROVE  Moved(e, PutChannels(e, Reset(e.channels, id).table), h)
<1>1. CASE Found(e.channels, id)
  <2>1. PICK n \in Numbers : n = id.number
    BY <1>1 DEF Found
  <2>2. PICK s : s = e.channels[n]
    OBVIOUS
  <2>3. PICK x : x = Emptied(s)
    OBVIOUS
  <2>4. e.negotiated /\ s.state \notin { "free", "tombstone" } /\ IsSlot(s)
    BY <1>1, <2>1, <2>2, FoundNegotiated
  <2>5. /\ IsSlot(x) /\ x.state = "tombstone" /\ x.generation = s.generation
        /\ x.next_send_seq = s.next_send_seq /\ x.next_recv_seq = s.next_recv_seq
        /\ x.reassembler = EmptyReassembler
    BY <2>3, <2>4 DEF IsSlot, Emptied
  <2>6. BuffersParts(x.reassembler, Key(e.channels, n), h.theirs)
    BY <2>5, EmptyBuffer
  <2>7. Moved(e, PutChannels(e, [ e.channels EXCEPT ![n] = x ]), h)
    BY <2>2, <2>4, <2>5, <2>6, SlotMoves DEF ChannelState
  <2>8. Reset(e.channels, id) = Done([ e.channels EXCEPT ![n] = x ])
    BY <1>1, <2>1, <2>2, <2>3 DEF Reset
  <2>9. QED
    BY <2>7, <2>8 DEF Done
<1>2. CASE ~ Found(e.channels, id)
  <2>1. Reset(e.channels, id).table = e.channels
    BY <1>2, Zenon DEF Reset, Refused
  <2>2. QED
    BY <2>1, SameTableMoves
<1>3. QED
  BY <1>1, <1>2

LEMMA HalfCloseMoves ==
  ASSUME NEW e, NEW h, Good(e, h), NEW id, NEW direction
  PROVE  Moved(e, PutChannels(e, HalfClose(e.channels, id, direction).table), h)
<1>1. CASE Found(e.channels, id) /\ e.channels[id.number].state \in { "open", "local_closed", "remote_closed" }
  <2>1. PICK n \in Numbers : n = id.number
    BY <1>1 DEF Found
  <2>2. PICK s : s = e.channels[n]
    OBVIOUS
  <2>3. PICK x : x = HalfClosed(s, direction)
    OBVIOUS
  <2>4. /\ e.negotiated /\ s.state \notin { "free", "tombstone" } /\ IsSlot(s)
        /\ BuffersParts(s.reassembler, Key(e.channels, n), h.theirs)
    BY <1>1, <2>1, <2>2, FoundNegotiated
  <2>5. /\ IsSlot(x) /\ x.state \in { "closing", "local_closed", "remote_closed" }
        /\ x.generation = s.generation
        /\ x.next_send_seq = s.next_send_seq /\ x.next_recv_seq = s.next_recv_seq
        /\ x.reassembler = s.reassembler
    <3>1. PICK state \in { "closing", "local_closed", "remote_closed" } :
            \/ x = [ s EXCEPT !.local_half_closed = TRUE, !.state = state ]
            \/ x = [ s EXCEPT !.remote_half_closed = TRUE, !.state = state ]
      BY <2>3 DEF HalfClosed
    <3>2. CASE x = [ s EXCEPT !.local_half_closed = TRUE, !.state = state ]
      BY <2>4, <3>2 DEF IsSlot
    <3>3. CASE x = [ s EXCEPT !.remote_half_closed = TRUE, !.state = state ]
      BY <2>4, <3>3 DEF IsSlot
    <3>4. QED
      BY <3>1, <3>2, <3>3
  <2>6. Moved(e, PutChannels(e, [ e.channels EXCEPT ![n] = x ]), h)
    BY <2>2, <2>4, <2>5, SlotMoves DEF ChannelState
  <2>7. HalfClose(e.channels, id, direction) = Done([ e.channels EXCEPT ![n] = x ])
    BY <1>1, <2>1, <2>2, <2>3 DEF HalfClose
  <2>8. QED
    BY <2>6, <2>7 DEF Done
<1>2. CASE ~ (Found(e.channels, id) /\ e.channels[id.number].state \in { "open", "local_closed", "remote_closed" })
  <2>1. HalfClose(e.channels, id, direction).table = e.channels
    BY <1>2, Zenon DEF HalfClose, Refused
  <2>2. QED
    BY <2>1, SameTableMoves
<1>3. QED
  BY <1>1, <1>2

LEMMA FlowMoves ==
  ASSUME NEW e, NEW h, Good(e, h), NEW id, Found(e.channels, id), NEW flow
  PROVE  Moved(e, [ e EXCEPT !.channels[id.number].flow = flow ], h)
<1>1. PICK n \in Numbers : n = id.number
  BY DEF Found
<1>2. PICK s : s = e.channels[n]
  OBVIOUS
<1>3. PICK x : x = [ s EXCEPT !.flow = flow ]
  OBVIOUS
<1>4. /\ e.negotiated /\ s.state \notin { "free", "tombstone" } /\ IsSlot(s) /\ s.state \in ChannelState
      /\ BuffersParts(s.reassembler, Key(e.channels, n), h.theirs)
  BY <1>1, <1>2, FoundNegotiated
<1>5. /\ IsSlot(x) /\ x.state = s.state /\ x.generation = s.generation
      /\ x.next_send_seq = s.next_send_seq /\ x.next_recv_seq = s.next_recv_seq
      /\ x.reassembler = s.reassembler
  BY <1>3, <1>4 DEF IsSlot
<1>6. Moved(e, PutChannels(e, [ e.channels EXCEPT ![n] = x ]), h)
  BY <1>2, <1>4, <1>5, SlotMoves
<1>7. [ e EXCEPT !.channels[id.number].flow = flow ] = PutChannels(e, [ e.channels EXCEPT ![n] = x ])
  BY <1>1, <1>2, <1>3 DEF PutChannels
<1>8. QED
  BY <1>6, <1>7

LEMMA AllocateMoves ==
  ASSUME NEW e, NEW h, Good(e, h), e.negotiated, NEW n \in Numbers, e.channels[n].state = "free"
  PROVE  Moved(e, PutChannels(e, AllocateAt(e.channels, n).table), h)
<1>1. PICK g : g = NextGeneration(e.channels[n].generation)
  OBVIOUS
<1>2. Moved(e, PutChannels(e, [ e.channels EXCEPT ![n] = FreshSlot(g, "opening") ]), h)
  BY FreshMoves
<1>3. AllocateAt(e.channels, n).table \in { e.channels, [ e.channels EXCEPT ![n] = FreshSlot(g, "opening") ] }
  BY <1>1 DEF AllocateAt, Done, Refused
<1>4. QED
  BY <1>2, <1>3, SameTableMoves

LEMMA AcceptMoves ==
  ASSUME NEW e, NEW h, Good(e, h), e.negotiated, NEW id
  PROVE  Moved(e, PutChannels(e, AcceptRemote(e.channels, id).table), h)
<1>1. CASE id.number \in Numbers /\ e.channels[id.number].state = "free"
  <2>1. PICK n \in Numbers : n = id.number
    BY <1>1
  <2>2. Moved(e, PutChannels(e, [ e.channels EXCEPT ![n] = FreshSlot(id.generation, "open") ]), h)
    BY <1>1, <2>1, FreshMoves
  <2>3. AcceptRemote(e.channels, id).table \in { e.channels, [ e.channels EXCEPT ![n] = FreshSlot(id.generation, "open") ] }
    BY <2>1 DEF AcceptRemote, Done, Refused
  <2>4. QED
    BY <2>2, <2>3, SameTableMoves
<1>2. CASE ~ (id.number \in Numbers /\ e.channels[id.number].state = "free")
  <2>1. AcceptRemote(e.channels, id).table = e.channels
    BY <1>2, Zenon DEF AcceptRemote, Refused
  <2>2. QED
    BY <2>1, SameTableMoves
<1>3. QED
  BY <1>1, <1>2

-----------------------------------------------------------------------------
(* The scheduler *)

(* The channels that can be served. *)
Turn(s) == { c \in DataChannels : InTurn(s, c) }

(* Some of the channels, seen from a cursor, and those ahead of one.       *)
Ahead(turn, k, c) == { d \in turn : Sooner(k, d, c) }

LEMMA AheadIs ==
  ASSUME NEW turn \in SUBSET Nat, IsFiniteSet(turn), NEW k \in Nat
  PROVE  /\ \A c \in turn : Cardinality(Ahead(turn, k, c)) \in 0 .. Cardinality(turn) - 1
         /\ \A c, d \in turn :
              Cardinality(Ahead(turn, k, c)) = Cardinality(Ahead(turn, k, d)) => c = d
<1>0. /\ \A c \in turn : ~ Sooner(k, c, c)
      /\ \A c, d \in turn : Sooner(k, c, d) \/ c = d \/ Sooner(k, d, c)
      /\ \A c, d, e \in turn : Sooner(k, e, c) /\ Sooner(k, c, d) => Sooner(k, e, d)
  BY DEF Sooner
<1>1. ASSUME NEW c \in turn
      PROVE  /\ IsFiniteSet(Ahead(turn, k, c)) /\ Cardinality(Ahead(turn, k, c)) \in Nat
             /\ Cardinality(Ahead(turn, k, c)) <= Cardinality(turn) - 1
  <2>1. Ahead(turn, k, c) \subseteq turn \ {c}
    BY <1>0, Zenon DEF Ahead
  <2>2. IsFiniteSet(turn \ {c}) /\ Cardinality(turn \ {c}) = Cardinality(turn) - 1
    BY FS_RemoveElement
  <2>3. QED
    BY <2>1, <2>2, FS_Subset, FS_CardinalityType
<1>2. ASSUME NEW c \in turn, NEW d \in turn, Sooner(k, c, d)
      PROVE  Cardinality(Ahead(turn, k, c)) < Cardinality(Ahead(turn, k, d))
  <2> DEFINE A == Ahead(turn, k, c)
             B == Ahead(turn, k, d)
  <2>1. A \subseteq B \ {c} /\ c \in B
    BY <1>0, <1>2, Zenon DEF Ahead
  <2>2. IsFiniteSet(A) /\ IsFiniteSet(B) /\ Cardinality(A) \in Nat /\ Cardinality(B) \in Nat
    BY <1>1
  <2> HIDE DEF A, B
  <2>3. IsFiniteSet(B \ {c}) /\ Cardinality(B \ {c}) = Cardinality(B) - 1
    BY <2>1, <2>2, FS_RemoveElement
  <2>4. Cardinality(A) <= Cardinality(B \ {c})
    BY <2>1, <2>3, FS_Subset
  <2>5. Cardinality(A) < Cardinality(B)
    BY <2>2, <2>3, <2>4
  <2>6. QED
    BY <2>5 DEF A, B
<1>3. Cardinality(turn) \in Nat
  BY FS_CardinalityType
<1>4. \A c \in turn : Cardinality(Ahead(turn, k, c)) \in 0 .. Cardinality(turn) - 1
  BY <1>1, <1>3
<1>5. QED
  BY <1>0, <1>2, <1>4

(* Every channel in turn has one place in the rotation. *)
LEMMA RotationHas ==
  ASSUME NEW s, s.cursor \in Nat
  PROVE  /\ Turn(s) \subseteq DataChannels /\ Cardinality(Turn(s)) \in Nat
         /\ DOMAIN Rotation(s) = 1 .. Cardinality(Turn(s))
         /\ \A i \in DOMAIN Rotation(s) : Rotation(s)[i] \in Turn(s)
         /\ \A c \in Turn(s) : \E i \in DOMAIN Rotation(s) : Rotation(s)[i] = c
         /\ \A i, j \in DOMAIN Rotation(s) : Rotation(s)[i] = Rotation(s)[j] => i = j
<1>1. PICK turn : turn = Turn(s)
  OBVIOUS
<1>2. PICK k \in Nat : k = s.cursor
  OBVIOUS
<1>3. turn \subseteq DataChannels /\ turn \in SUBSET Nat /\ IsFiniteSet(turn)
  BY <1>1, SchedulerAssumption, FS_Subset DEF Turn
<1>4. PICK n \in Nat : n = Cardinality(turn)
  BY <1>3, FS_CardinalityType
<1>5. PICK rank : rank = [ c \in turn |-> Cardinality(Ahead(turn, k, c)) + 1 ]
  OBVIOUS
<1>6. /\ rank \in [ turn -> 1 .. n ]
      /\ \A c \in turn : rank[c] = Cardinality(Ahead(turn, k, c)) + 1
                         /\ Cardinality(Ahead(turn, k, c)) \in Nat
  <2>1. \A c \in turn : Cardinality(Ahead(turn, k, c)) \in 0 .. n - 1
    BY <1>3, <1>4, AheadIs
  <2>2. QED
    BY <1>4, <1>5, <2>1
<1>7. \A c, d \in turn : rank[c] = rank[d] => c = d
  <2>1. \A c, d \in turn :
          Cardinality(Ahead(turn, k, c)) = Cardinality(Ahead(turn, k, d)) => c = d
    BY <1>3, AheadIs
  <2>2. QED
    BY <1>6, <2>1
<1>8. \A i \in 1 .. n : \E c \in turn : rank[c] = i
  <2>1. Ranked(turn, rank)
    BY <1>3, <1>4, <1>6, <1>7 DEF Ranked
  <2>2. QED
    BY <1>4, <2>1, RanksTaken
<1>9. PICK r : r = Rotation(s)
  OBVIOUS
<1>10. r = [ i \in 1 .. n |-> CHOOSE c \in turn : Cardinality(Ahead(turn, k, c)) = i - 1 ]
  BY <1>1, <1>2, <1>4, <1>9 DEF Rotation, Turn, Ahead
<1>11. DOMAIN r = 1 .. n /\ \A i \in 1 .. n : r[i] \in turn /\ rank[r[i]] = i
  <2>1. \A i \in 1 .. n : \E c \in turn : Cardinality(Ahead(turn, k, c)) = i - 1
    BY <1>6, <1>8
  <2>2. \A i \in 1 .. n : r[i] \in turn /\ Cardinality(Ahead(turn, k, r[i])) = i - 1
    BY <1>10, <2>1
  <2>3. QED
    BY <1>6, <1>10, <2>2
<1>12. \A c \in turn : rank[c] \in 1 .. n /\ r[rank[c]] = c
  BY <1>6, <1>7, <1>11
<1>13. QED
  BY <1>1, <1>3, <1>4, <1>9, <1>11, <1>12

(* A sum of ones. *)
LEMMA TotalOnes ==
  ASSUME NEW n \in Nat, NEW bytes, DOMAIN bytes = 1 .. n, \A i \in 1 .. n : bytes[i] = 1
  PROVE  Total(bytes) = n
<1>1. UNION { {i} \X (1 .. bytes[i]) : i \in DOMAIN bytes } = (1 .. n) \X { 1 }
  <2>1. \A i \in 1 .. n : 1 .. bytes[i] = { 1 }
    OBVIOUS
  <2>2. QED
    BY <2>1
<1>2. IsFiniteSet(1 .. n) /\ Cardinality(1 .. n) = n
  BY IntervalSize
<1>3. IsFiniteSet({ 1 }) /\ Cardinality({ 1 }) = 1
  BY FS_Singleton
<1>4. Cardinality((1 .. n) \X { 1 }) = Cardinality(1 .. n) * Cardinality({ 1 })
  BY <1>2, <1>3, FS_Product
<1>5. Cardinality((1 .. n) \X { 1 }) = n
  BY <1>2, <1>3, <1>4
<1>6. QED
  BY <1>1, <1>5 DEF Total

(* The items a drain gets to: those of the control queue, and the first of *)
(* each queue in turn.                                                     *)
LEMMA OrderHas ==
  ASSUME NEW s, NEW log, Queued(s, log)
  PROVE  /\ Len(s.control) \in Nat /\ Cardinality(Turn(s)) \in Nat
         /\ DOMAIN ServiceOrder(s) = 1 .. Len(s.control) + Cardinality(Turn(s))
         /\ \A i \in 1 .. Len(s.control) :
              ServiceOrder(s)[i] = s.control[i] /\ ItemOK(ServiceOrder(s)[i], 0, log)
         /\ \A i \in 1 .. Cardinality(Turn(s)) :
              /\ Rotation(s)[i] \in Turn(s)
              /\ ServiceOrder(s)[Len(s.control) + i] = s.data[Rotation(s)[i]][1]
              /\ ItemOK(ServiceOrder(s)[Len(s.control) + i], Rotation(s)[i], log)
<1>1. PICK r : r = Rotation(s)
  OBVIOUS
<1>2. PICK n \in Nat : n = Cardinality(Turn(s))
  BY RotationHas DEF Queued
<1>3. DOMAIN r = 1 .. n /\ (\A i \in 1 .. n : r[i] \in Turn(s)) /\ Turn(s) \subseteq DataChannels
  BY <1>1, <1>2, RotationHas DEF Queued
<1>4. 0 \notin DataChannels
  BY SchedulerAssumption
<1>5. IsSequence(s.control) /\ \A x \in Elements(s.control) : ItemOK(x, 0, log)
  <2>1. QueueOK(Waiting(s, 0), 0, log)
    BY DEF Queued
  <2>2. QED
    BY <2>1 DEF QueueOK, Waiting
<1>6. ASSUME NEW i \in 1 .. n
      PROVE  Head(s.data[r[i]]) = s.data[r[i]][1] /\ ItemOK(s.data[r[i]][1], r[i], log)
  <2>1. PICK c \in DataChannels : c = r[i] /\ c # 0 /\ InTurn(s, c)
    BY <1>3, <1>4 DEF Turn
  <2>2. QueueOK(s.data[c], c, log)
    <3>1. QueueOK(Waiting(s, c), c, log)
      BY DEF Queued
    <3>2. QED
      BY <2>1, <3>1 DEF Waiting
  <2>3. PICK t : t = s.data[c]
    OBVIOUS
  <2>4. IsSequence(t) /\ t # << >> /\ \A x \in Elements(t) : ItemOK(x, c, log)
    BY <2>1, <2>2, <2>3 DEF QueueOK, InTurn
  <2>5. Head(t) = t[1] /\ t[1] \in Elements(t)
    BY <2>4, TailHas
  <2>6. QED
    BY <2>1, <2>3, <2>4, <2>5
<1>7. PICK heads : heads = Heads(s)
  OBVIOUS
<1>8. /\ heads = [ i \in 1 .. n |-> Head(s.data[r[i]]) ]
      /\ \A i \in 1 .. n : heads[i] = s.data[r[i]][1]
  BY <1>1, <1>3, <1>6, <1>7 DEF Heads
<1>9. IsSequence(heads) /\ Len(heads) = n
  <2>1. heads \in [ 1 .. n -> Elements(heads) ]
    BY <1>8 DEF Elements
  <2>2. heads \in Seq(Elements(heads))
    BY <2>1, SeqDef
  <2>3. DOMAIN heads = 1 .. n
    BY <1>8
  <2>4. DOMAIN heads = 1 .. Len(heads) /\ Len(heads) \in Nat
    BY <2>2, LenProperties
  <2>5. QED
    BY <2>2, <2>3, <2>4 DEF IsSequence
<1>10. PICK m \in Nat : m = Len(s.control) /\ DOMAIN s.control = 1 .. m
  BY <1>5, SequenceHas
<1>11. PICK S : s.control \in Seq(S) /\ heads \in Seq(S)
  <2>1. s.control \in Seq(Elements(s.control) \cup Elements(heads))
    BY <1>5, SequenceHas, SeqDef DEF IsSequence
  <2>2. heads \in Seq(Elements(s.control) \cup Elements(heads))
    BY <1>9, SequenceHas, SeqDef DEF IsSequence
  <2>3. QED
    BY <2>1, <2>2
<1>12. PICK order : order = s.control \o heads
  OBVIOUS
<1>13. /\ Len(order) = m + n /\ order \in Seq(S)
       /\ \A i \in 1 .. m + n : order[i] = IF i <= m THEN s.control[i] ELSE heads[i - m]
  BY <1>9, <1>10, <1>11, <1>12, ConcatProperties
<1>14. DOMAIN order = 1 .. m + n
  BY <1>13, LenProperties
<1>15. \A i \in 1 .. m : order[i] = s.control[i] /\ ItemOK(order[i], 0, log)
  <2>1. \A i \in 1 .. m : i \in 1 .. m + n /\ i <= m
    OBVIOUS
  <2>2. \A i \in 1 .. m : s.control[i] \in Elements(s.control)
    BY <1>5, <1>10, SequenceHas
  <2>3. QED
    BY <1>5, <1>13, <2>1, <2>2
<1>16. \A i \in 1 .. n : order[m + i] = s.data[r[i]][1] /\ ItemOK(order[m + i], r[i], log)
  <2>1. \A i \in 1 .. n : m + i \in 1 .. m + n /\ ~ (m + i <= m) /\ (m + i) - m = i
    OBVIOUS
  <2>2. \A i \in 1 .. n : order[m + i] = heads[i]
    BY <1>13, <2>1
  <2>3. QED
    BY <1>6, <1>8, <2>2
<1>17. order = ServiceOrder(s)
  BY <1>7, <1>12 DEF ServiceOrder
<1>18. QED
  BY <1>1, <1>2, <1>3, <1>10, <1>14, <1>15, <1>16, <1>17

(* Where they wait. *)
Leaving(s) ==
  { << 0, i >> : i \in DOMAIN s.control } \cup { << c, Len(s.data[c]) >> : c \in Turn(s) }

LEMMA LeavingIs ==
  ASSUME NEW s, NEW log, Queued(s, log)
  PROVE  /\ IsFiniteSet(Places(s)) /\ Leaving(s) \subseteq Places(s)
         /\ Cardinality(Leaving(s)) = Len(s.control) + Cardinality(Turn(s))
<1>1. PICK m \in Nat : m = Len(s.control) /\ DOMAIN s.control = 1 .. m
  <2>1. QueueOK(Waiting(s, 0), 0, log)
    BY DEF Queued
  <2>2. IsSequence(s.control)
    BY <2>1 DEF QueueOK, Waiting
  <2>3. QED
    BY <2>2, SequenceHas
<1>2. 0 \notin DataChannels /\ IsFiniteSet(DataChannels)
  BY SchedulerAssumption
<1>3. ASSUME NEW q \in DataChannels \cup { 0 } PROVE IsFiniteSet({ q } \X DOMAIN Waiting(s, q))
  <2>1. QueueOK(Waiting(s, q), q, log)
    BY DEF Queued
  <2>2. DOMAIN Waiting(s, q) = 1 .. Len(Waiting(s, q)) /\ Len(Waiting(s, q)) \in Nat
    BY <2>1, SequenceHas DEF QueueOK
  <2>3. IsFiniteSet(DOMAIN Waiting(s, q))
    BY <2>2, IntervalSize
  <2>4. IsFiniteSet({ q })
    BY FS_Singleton
  <2>5. QED
    BY <2>3, <2>4, FS_Product
<1>4. IsFiniteSet(Places(s))
  <2> DEFINE f == [ q \in DataChannels \cup { 0 } |-> { q } \X DOMAIN Waiting(s, q) ]
             T == { { q } \X DOMAIN Waiting(s, q) : q \in DataChannels \cup { 0 } }
  <2>1. IsFiniteSet(DataChannels \cup { 0 })
    BY <1>2, FS_AddElement
  <2>2. f \in Surjection(DataChannels \cup { 0 }, T)
    BY DEF Surjection
  <2>3. \A t \in T : IsFiniteSet(t)
    BY <1>3
  <2>4. Places(s) = UNION T
    BY DEF Places
  <2> HIDE DEF f, T
  <2>5. IsFiniteSet(T)
    BY <2>1, <2>2, FS_Surjection
  <2>6. QED
    BY <2>3, <2>4, <2>5, FS_UNION
<1>5. Leaving(s) \subseteq Places(s)
  <2>1. ASSUME NEW i \in DOMAIN s.control PROVE << 0, i >> \in Places(s)
    <3>1. << 0, i >> \in { 0 } \X DOMAIN Waiting(s, 0)
      BY <2>1 DEF Waiting
    <3>2. QED
      BY <3>1 DEF Places
  <2>2. ASSUME NEW c \in Turn(s) PROVE << c, Len(s.data[c]) >> \in Places(s)
    <3>1. c \in DataChannels /\ c # 0 /\ s.data[c] # << >>
      BY <1>2 DEF Turn, InTurn
    <3>2. QueueOK(Waiting(s, c), c, log) /\ Waiting(s, c) = s.data[c]
      BY <3>1 DEF Queued, Waiting
    <3>3. PICK t : t = s.data[c]
      OBVIOUS
    <3>4. IsSequence(t) /\ t # << >>
      BY <3>1, <3>2, <3>3 DEF QueueOK
    <3>5. Len(t) \in DOMAIN t
      BY <3>4, TailHas, SequenceHas
    <3>6. << c, Len(t) >> \in { c } \X DOMAIN Waiting(s, c)
      BY <3>2, <3>3, <3>5
    <3>7. QED
      BY <3>1, <3>3, <3>6 DEF Places
  <2>3. QED
    BY <2>1, <2>2 DEF Leaving
<1>6. Cardinality(Leaving(s)) = Len(s.control) + Cardinality(Turn(s))
  <2> DEFINE A == { 0 } \X (1 .. m)
             B == { << c, Len(s.data[c]) >> : c \in Turn(s) }
             g == [ c \in Turn(s) |-> << c, Len(s.data[c]) >> ]
  <2>1. IsFiniteSet(A) /\ Cardinality(A) = m
    <3>1. IsFiniteSet({ 0 }) /\ Cardinality({ 0 }) = 1
      BY FS_Singleton
    <3>2. IsFiniteSet(1 .. m) /\ Cardinality(1 .. m) = m
      BY IntervalSize
    <3>3. IsFiniteSet(A) /\ Cardinality(A) = Cardinality({ 0 }) * Cardinality(1 .. m)
      BY <3>1, <3>2, FS_Product
    <3>4. QED
      BY <3>1, <3>2, <3>3
  <2>2. IsFiniteSet(Turn(s)) /\ Cardinality(Turn(s)) \in Nat
    BY <1>2, FS_Subset, FS_CardinalityType DEF Turn
  <2>3. g \in Bijection(Turn(s), B)
    <3>1. g \in [ Turn(s) -> B ]
      OBVIOUS
    <3>2. \A c, d \in Turn(s) : g[c] = g[d] => c = d
      OBVIOUS
    <3>3. \A b \in B : \E c \in Turn(s) : g[c] = b
      OBVIOUS
    <3> HIDE DEF g, B
    <3>4. g \in Injection(Turn(s), B)
      BY <3>1, <3>2 DEF Injection, IsInjective
    <3>5. g \in Surjection(Turn(s), B)
      BY <3>1, <3>3 DEF Surjection
    <3>6. QED
      BY <3>4, <3>5 DEF Bijection
  <2>4. A \cap B = {}
    BY <1>2 DEF Turn
  <2>5. Leaving(s) = A \cup B
    BY <1>1 DEF Leaving
  <2> HIDE DEF A, B, g
  <2>6. IsFiniteSet(B) /\ Cardinality(B) = Cardinality(Turn(s))
    BY <2>2, <2>3, FS_Bijection DEF ExistsBijection
  <2>7. Cardinality(A \cup B) = Cardinality(A) + Cardinality(B) - Cardinality(A \cap B)
    BY <2>1, <2>6, FS_Union
  <2>8. Cardinality(A \cap B) = 0
    BY <2>4, FS_EmptySet
  <2>9. QED
    BY <1>1, <2>1, <2>2, <2>5, <2>6, <2>7, <2>8
<1>7. QED
  BY <1>4, <1>5, <1>6

(* There is room for all of them. *)
LEMMA AllTaken ==
  ASSUME NEW s, NEW log, Queued(s, log)
  PROVE  /\ Len(s.control) + Cardinality(Turn(s)) <= ByteLimit
         /\ DOMAIN Taken(ServiceOrder(s), ByteLimit) = DOMAIN ServiceOrder(s)
         /\ \A i \in DOMAIN ServiceOrder(s) :
              ServiceOrder(s)[i].left = 1 /\ Taken(ServiceOrder(s), ByteLimit)[i] = 1
         /\ Total(Taken(ServiceOrder(s), ByteLimit)) = Len(s.control) + Cardinality(Turn(s))
<1>1. PICK order : order = ServiceOrder(s)
  OBVIOUS
<1>2. PICK m \in Nat : m = Len(s.control)
  BY OrderHas
<1>3. PICK n \in Nat : n = Cardinality(Turn(s))
  BY OrderHas
<1>4. m + n <= ByteLimit
  <2>1. Cardinality(Leaving(s)) <= Cardinality(Places(s)) /\ Cardinality(Leaving(s)) = m + n
    BY <1>2, <1>3, LeavingIs, FS_Subset
  <2>2. Cardinality(Places(s)) \in Nat /\ Cardinality(Places(s)) <= ByteLimit
    BY SchedulerAssumption DEF Queued
  <2>3. QED
    BY <2>1, <2>2, SchedulerAssumption
<1>5. DOMAIN order = 1 .. m + n /\ \A i \in 1 .. m + n : order[i].left = 1
  <2>1. DOMAIN order = 1 .. m + n
    BY <1>1, <1>2, <1>3, OrderHas
  <2>2. \A i \in 1 .. m : order[i].left = 1
    BY <1>1, <1>2, OrderHas DEF ItemOK
  <2>3. \A i \in 1 .. n : order[m + i].left = 1
    BY <1>1, <1>2, <1>3, OrderHas DEF ItemOK
  <2>4. \A i \in 1 .. m + n : i \in 1 .. m \/ (i - m \in 1 .. n /\ m + (i - m) = i)
    OBVIOUS
  <2>5. QED
    BY <2>1, <2>2, <2>3, <2>4
<1>6. PICK taken : taken = Taken(order, ByteLimit)
  OBVIOUS
<1>7. DOMAIN taken = 1 .. m + n
  BY <1>5, <1>6 DEF Taken
<1>8. ASSUME NEW i \in 1 .. m + n PROVE taken[i] = 1
  <2> DEFINE before == [ j \in 1 .. i - 1 |-> order[j].left ]
             free == ByteLimit - Total(before)
  <2>1. taken[i] = IF free <= 0 THEN 0 ELSE IF free < order[i].left THEN free ELSE order[i].left
    BY <1>5, <1>6 DEF Taken
  <2>2. DOMAIN before = 1 .. i - 1 /\ i - 1 \in Nat
    OBVIOUS
  <2>3. \A j \in 1 .. i - 1 : before[j] = 1
    <3>1. \A j \in 1 .. i - 1 : j \in 1 .. m + n
      OBVIOUS
    <3>2. QED
      BY <1>5, <3>1
  <2> HIDE DEF before
  <2>4. Total(before) = i - 1
    BY <2>2, <2>3, TotalOnes
  <2>5. free >= 1
    BY <1>4, <2>4, SchedulerAssumption
  <2>6. QED
    BY <1>5, <2>1, <2>4, <2>5, SchedulerAssumption
<1>9. Total(taken) = m + n
  BY <1>7, <1>8, TotalOnes
<1>10. QED
  BY <1>1, <1>2, <1>3, <1>4, <1>5, <1>6, <1>7, <1>8, <1>9

(* A drain leaves an empty control queue and takes one item from each      *)
(* queue in turn.                                                          *)
LEMMA DrainedHas ==
  ASSUME NEW s, NEW log, Queued(s, log), NEW d,
         d = Drained(s, ServiceOrder(s), Taken(ServiceOrder(s), ByteLimit))
  PROVE  /\ d = [ control |-> d.control, data |-> d.data, expected |-> d.expected,
                  cursor |-> d.cursor, queued |-> d.queued ]
         /\ d.control = << >>
         /\ d.data = [ c \in DataChannels |->
                         IF c \in Turn(s) THEN Tail(s.data[c]) ELSE s.data[c] ]
         /\ d.cursor \in Nat
         /\ d.queued = s.queued - (Len(s.control) + Cardinality(Turn(s)))
<1>1. PICK order : order = ServiceOrder(s)
  OBVIOUS
<1>2. PICK taken : taken = Taken(order, ByteLimit)
  OBVIOUS
<1>3. PICK m \in Nat : m = Len(s.control)
  BY OrderHas
<1>4. PICK n \in Nat : n = Cardinality(Turn(s))
  BY OrderHas
<1>5. PICK r : r = Rotation(s)
  OBVIOUS
<1>6. /\ DOMAIN order = 1 .. m + n /\ DOMAIN taken = 1 .. m + n
      /\ \A i \in 1 .. m + n : order[i].left = 1 /\ taken[i] = 1
      /\ Total(taken) = m + n
  BY <1>1, <1>2, <1>3, <1>4, OrderHas, AllTaken
<1>7. /\ \A i \in 1 .. m : ItemOK(order[i], 0, log)
      /\ \A i \in 1 .. n : r[i] \in Turn(s) /\ ItemOK(order[m + i], r[i], log)
  BY <1>1, <1>3, <1>4, <1>5, OrderHas
<1>8. /\ \A c \in Turn(s) : \E i \in 1 .. n : r[i] = c
      /\ \A i, j \in 1 .. n : r[i] = r[j] => i = j
      /\ Turn(s) \subseteq DataChannels
  BY <1>4, <1>5, RotationHas DEF Queued
<1>9. 0 \notin DataChannels /\ DataChannels \subseteq Nat
  BY SchedulerAssumption
<1>10. \A i \in 1 .. m + n : i \in 1 .. m \/ (i - m \in 1 .. n /\ m + (i - m) = i)
  OBVIOUS
<1>11. \A i \in 1 .. m : order[i].priority = "control"
  BY <1>7 DEF ItemOK
<1>12. \A i \in 1 .. n : order[m + i].priority = "data" /\ order[m + i].channel = r[i]
  <2> SUFFICES ASSUME NEW i \in 1 .. n
               PROVE  order[m + i].priority = "data" /\ order[m + i].channel = r[i]
    OBVIOUS
  <2>1. PICK x : x = order[m + i]
    OBVIOUS
  <2>2. r[i] # 0 /\ ItemOK(x, r[i], log)
    BY <1>7, <1>8, <1>9, <2>1
  <2>3. QED
    BY <2>1, <2>2 DEF ItemOK
<1>13. \A i \in 1 .. m + n : Rest(order[i], taken[i]).left = 0
  <2> SUFFICES ASSUME NEW i \in 1 .. m + n PROVE Rest(order[i], taken[i]).left = 0
    OBVIOUS
  <2>1. PICK x : x = order[i]
    OBVIOUS
  <2>2. \E q : ItemOK(x, q, log)
    BY <1>7, <1>10, <2>1
  <2>3. x = [ priority |-> x.priority, channel |-> x.channel,
              sequence |-> x.sequence, left |-> x.left, frame |-> x.frame ]
    BY <2>2 DEF ItemOK
  <2>4. x.left = 1 /\ taken[i] = 1
    BY <1>6, <2>1
  <2>5. [ x EXCEPT !.left = @ - 1 ].left = 0
    BY <2>3, <2>4
  <2>6. QED
    BY <2>1, <2>4, <2>5 DEF Rest
<1> DEFINE At(c) == { i \in DOMAIN order : /\ order[i].priority = "data"
                                           /\ order[i].channel = c
                                           /\ taken[i] > 0 }
<1>14. ASSUME NEW c \in DataChannels
       PROVE  IF c \in Turn(s) THEN Served(order, taken, c) \in 1 .. m + n
              ELSE Served(order, taken, c) = 0
  <2>1. \A i \in At(c) : i \in 1 .. m + n
    BY <1>6
  <2>2. c \in Turn(s) => At(c) # {}
    <3>1. SUFFICES ASSUME c \in Turn(s) PROVE At(c) # {}
      OBVIOUS
    <3>2. PICK i \in 1 .. n : r[i] = c
      BY <1>8, <3>1
    <3>3. m + i \in 1 .. m + n
      OBVIOUS
    <3>4. m + i \in At(c)
      BY <1>6, <1>12, <3>2, <3>3
    <3>5. QED
      BY <3>4
  <2>3. c \notin Turn(s) => At(c) = {}
    <3>1. SUFFICES ASSUME NEW i \in At(c) PROVE c \in Turn(s)
      OBVIOUS
    <3>2. i \in 1 .. m + n /\ order[i].priority = "data" /\ order[i].channel = c
      BY <1>6, <3>1
    <3>3. i - m \in 1 .. n /\ m + (i - m) = i
      BY <1>10, <1>11, <3>2
    <3>4. order[i].channel = r[i - m]
      BY <1>12, <3>3
    <3>5. QED
      BY <1>7, <3>2, <3>3, <3>4
  <2>4. Served(order, taken, c) = IF At(c) = {} THEN 0 ELSE CHOOSE i \in At(c) : TRUE
    BY DEF Served
  <2> HIDE DEF At
  <2>5. QED
    BY <2>1, <2>2, <2>3, <2>4
<1> DEFINE rest == [ i \in DOMAIN order |-> Rest(order[i], taken[i]) ]
           at == [ c \in DataChannels |-> Served(order, taken, c) ]
           gone == Cardinality({ i \in 1 .. m : rest[i].left = 0 })
           last == Cardinality({ i \in DOMAIN order : taken[i] > 0 })
<1>15. gone = m
  <2>1. \A i \in 1 .. m : rest[i].left = 0
    <3>1. \A i \in 1 .. m : i \in 1 .. m + n
      OBVIOUS
    <3>2. QED
      BY <1>6, <1>13, <3>1
  <2> HIDE DEF rest
  <2>2. { i \in 1 .. m : rest[i].left = 0 } = 1 .. m
    BY <2>1
  <2>3. QED
    BY <2>2, IntervalSize
<1>16. last = m + n
  <2>1. { i \in DOMAIN order : taken[i] > 0 } = 1 .. m + n
    BY <1>6
  <2>2. Cardinality(1 .. m + n) = m + n
    BY IntervalSize
  <2>3. QED
    BY <2>1, <2>2
<1>17. d.control = << >>
  <2>1. d.control = SubSeq(rest, gone + 1, m)
    BY <1>1, <1>2, <1>3 DEF Drained
  <2>2. \A t : SubSeq(t, m + 1, m) = << >>
    OBVIOUS
  <2> HIDE DEF rest, gone
  <2>3. QED
    BY <1>15, <2>1, <2>2
<1>18. d.data = [ c \in DataChannels |->
                    IF c \in Turn(s) THEN Tail(s.data[c]) ELSE s.data[c] ]
  <2>1. d.data = [ c \in DataChannels |->
                     IF at[c] = 0 THEN s.data[c]
                     ELSE IF rest[at[c]].left = 0 THEN Tail(s.data[c])
                     ELSE [ s.data[c] EXCEPT ![1] = rest[at[c]] ] ]
    BY <1>1, <1>2 DEF Drained
  <2>2. ASSUME NEW c \in DataChannels
        PROVE  IF c \in Turn(s) THEN at[c] # 0 /\ rest[at[c]].left = 0 ELSE at[c] = 0
    <3>1. CASE c \in Turn(s)
      <4>1. PICK i \in 1 .. m + n : i = at[c]
        BY <1>14, <3>1
      <4>2. rest[i].left = 0 /\ i # 0
        BY <1>6, <1>13
      <4>3. QED
        BY <3>1, <4>1, <4>2
    <3>2. CASE c \notin Turn(s)
      BY <1>14, <3>2
    <3>3. QED
      BY <3>1, <3>2
  <2> HIDE DEF rest, at
  <2>3. QED
    BY <2>1, <2>2
<1>19. d.cursor \in Nat
  <2>1. d.cursor = IF last <= m THEN s.cursor ELSE CursorAfter(order[last].channel)
    BY <1>1, <1>2, <1>3 DEF Drained
  <2>2. CASE n = 0
    <3>1. last <= m
      BY <1>16, <2>2
    <3>2. QED
      BY <2>1, <3>1 DEF Queued
  <2>3. CASE n # 0
    <3>1. n \in 1 .. n /\ ~ (m + n <= m)
      BY <2>3
    <3>2. order[m + n].channel \in Nat
      BY <1>7, <1>8, <1>9, <1>12, <3>1
    <3> HIDE DEF last
    <3>3. QED
      BY <1>16, <2>1, <3>1, <3>2 DEF CursorAfter
  <2>4. QED
    BY <2>2, <2>3
<1>20. d.queued = s.queued - (m + n)
  BY <1>1, <1>2, <1>6 DEF Drained
<1>21. d = [ control |-> d.control, data |-> d.data, expected |-> d.expected,
             cursor |-> d.cursor, queued |-> d.queued ]
  BY DEF Drained
<1>22. QED
  BY <1>3, <1>4, <1>17, <1>18, <1>19, <1>20, <1>21, Zenon

LEMMA PlaceIs ==
  ASSUME NEW s
  PROVE  /\ \A q, i : << q, i >> \in Places(s) <=> (q \in DataChannels \cup { 0 } /\ i \in DOMAIN Waiting(s, q))
         /\ \A x \in Places(s) : \E q \in DataChannels \cup { 0 } : \E i \in DOMAIN Waiting(s, q) : x = << q, i >>
BY DEF Places

LEMMA DrainedQueued ==
  ASSUME NEW s, NEW log, Queued(s, log)
  PROVE  Queued(Drained(s, ServiceOrder(s), Taken(ServiceOrder(s), ByteLimit)), log)
<1>1. PICK d : d = Drained(s, ServiceOrder(s), Taken(ServiceOrder(s), ByteLimit))
  OBVIOUS
<1>2. /\ d = [ control |-> d.control, data |-> d.data, expected |-> d.expected,
               cursor |-> d.cursor, queued |-> d.queued ]
      /\ d.control = << >>
      /\ d.data = [ c \in DataChannels |-> IF c \in Turn(s) THEN Tail(s.data[c]) ELSE s.data[c] ]
      /\ d.cursor \in Nat
      /\ d.queued = s.queued - (Len(s.control) + Cardinality(Turn(s)))
  BY <1>1, DrainedHas
<1>3. 0 \notin DataChannels
  BY SchedulerAssumption
<1>4. Waiting(d, 0) = << >>
  BY <1>2 DEF Waiting
<1>5. ASSUME NEW c \in DataChannels
      PROVE  /\ QueueOK(Waiting(s, c), c, log) /\ Waiting(s, c) = s.data[c]
             /\ c \in Turn(s) => Waiting(s, c) # << >> /\ Waiting(d, c) = Tail(Waiting(s, c))
             /\ c \notin Turn(s) => Waiting(d, c) = Waiting(s, c)
  BY <1>2, <1>3 DEF Waiting, Turn, InTurn, Queued
<1>6. ASSUME NEW q \in DataChannels \cup { 0 } PROVE QueueOK(Waiting(d, q), q, log)
  <2>1. CASE q = 0
    <3>1. IsSequence(<< >>) /\ Elements(<< >>) = {}
      BY DEF IsSequence, Elements
    <3>2. QED
      BY <1>4, <2>1, <3>1 DEF QueueOK
  <2>2. CASE q \in DataChannels
    <3>1. PICK t : t = Waiting(s, q)
      OBVIOUS
    <3>2. PICK u : u = Waiting(d, q)
      OBVIOUS
    <3>3. IsSequence(t) /\ \A x \in Elements(t) : ItemOK(x, q, log)
      BY <1>5, <2>2, <3>1 DEF QueueOK
    <3>4. u = t \/ (t # << >> /\ u = Tail(t))
      BY <1>5, <2>2, <3>1, <3>2
    <3>5. IsSequence(u) /\ Elements(u) \subseteq Elements(t)
      BY <3>3, <3>4, TailHas
    <3>6. QED
      BY <3>2, <3>3, <3>5 DEF QueueOK
  <2>3. QED
    BY <2>1, <2>2
<1>7. \A q, i : << q, i >> \in Places(d) <=> (<< q, i >> \in Places(s) /\ << q, i >> \notin Leaving(s))
  <2> SUFFICES ASSUME NEW q, NEW i
               PROVE  << q, i >> \in Places(d) <=> (<< q, i >> \in Places(s) /\ << q, i >> \notin Leaving(s))
    OBVIOUS
  <2>1. CASE q = 0
    <3>1. << q, i >> \notin Places(d)
      BY <1>4, <2>1, PlaceIs
    <3>2. << q, i >> \in Places(s) => << q, i >> \in Leaving(s)
      BY <2>1, PlaceIs DEF Leaving, Waiting
    <3>3. QED
      BY <3>1, <3>2
  <2>2. CASE q \in DataChannels
    <3>1. PICK t : t = Waiting(s, q)
      OBVIOUS
    <3>2. IsSequence(t) /\ DOMAIN t = 1 .. Len(t) /\ Len(t) \in Nat
      BY <1>5, <2>2, <3>1, SequenceHas DEF QueueOK
    <3>3. << q, i >> \in Leaving(s) <=> (q \in Turn(s) /\ i = Len(t))
      BY <1>3, <1>5, <2>2, <3>1 DEF Leaving
    <3>4. CASE q \in Turn(s)
      <4>1. t # << >> /\ Waiting(d, q) = Tail(t)
        BY <1>5, <2>2, <3>1, <3>4
      <4>2. IsSequence(Tail(t)) /\ Len(Tail(t)) = Len(t) - 1
        BY <3>2, <4>1, TailHas
      <4>3. DOMAIN Tail(t) = 1 .. Len(t) - 1
        BY <4>2, SequenceHas
      <4>4. i \in DOMAIN Tail(t) <=> (i \in DOMAIN t /\ i # Len(t))
        BY <3>2, <4>3
      <4>5. QED
        BY <2>2, <3>1, <3>3, <3>4, <4>1, <4>4, PlaceIs
    <3>5. CASE q \notin Turn(s)
      BY <1>5, <2>2, <3>3, <3>5, PlaceIs
    <3>6. QED
      BY <3>4, <3>5
  <2>3. CASE q \notin DataChannels \cup { 0 }
    BY <2>3, PlaceIs
  <2>4. QED
    BY <2>1, <2>2, <2>3
<1>8. Places(d) = Places(s) \ Leaving(s)
  <2>1. \A x \in Places(d) : x \in Places(s) \ Leaving(s)
    BY <1>7, PlaceIs
  <2>2. \A x \in Places(s) \ Leaving(s) : x \in Places(d)
    BY <1>7, PlaceIs
  <2>3. QED
    BY <2>1, <2>2
<1>9. PICK k : k = Len(s.control) + Cardinality(Turn(s))
  OBVIOUS
<1>10. k \in Nat
  BY <1>9, OrderHas
<1>11. d.queued = Cardinality(Places(d)) /\ d.queued \in 0 .. ByteLimit
  <2>1. /\ IsFiniteSet(Places(s)) /\ Places(s) \cap Leaving(s) = Leaving(s)
        /\ Cardinality(Leaving(s)) = k
    BY <1>9, LeavingIs
  <2>2. Cardinality(Places(s) \ Leaving(s)) = Cardinality(Places(s)) - k
    BY <2>1, FS_Difference
  <2>3. Cardinality(Leaving(s)) <= Cardinality(Places(s))
    BY <2>1, FS_Subset, LeavingIs
  <2>4. s.queued = Cardinality(Places(s)) /\ s.queued \in 0 .. ByteLimit /\ d.queued = s.queued - k
    BY <1>2, <1>9 DEF Queued
  <2>5. QED
    BY <1>8, <1>10, <2>1, <2>2, <2>3, <2>4, SchedulerAssumption
<1>12. d.data = [ c \in DataChannels |-> d.data[c] ]
  BY <1>2
<1>13. QED
  BY <1>1, <1>2, <1>6, <1>11, <1>12, Zenon DEF Queued

LEMMA OrderCarried ==
  ASSUME NEW s, NEW log, Queued(s, log)
  PROVE  Carries([ i \in DOMAIN ServiceOrder(s) |-> ServiceOrder(s)[i].frame ], log)
<1>1. PICK order : order = ServiceOrder(s)
  OBVIOUS
<1>2. PICK m \in Nat : m = Len(s.control)
  BY OrderHas
<1>3. PICK n \in Nat : n = Cardinality(Turn(s))
  BY OrderHas
<1>4. DOMAIN order = 1 .. m + n /\ \A i \in 1 .. m + n : Carried(order[i].frame, log)
  <2>1. DOMAIN order = 1 .. m + n
    BY <1>1, <1>2, <1>3, OrderHas
  <2>2. \A i \in 1 .. m : Carried(order[i].frame, log)
    BY <1>1, <1>2, OrderHas DEF ItemOK
  <2>3. \A i \in 1 .. n : Carried(order[m + i].frame, log)
    BY <1>1, <1>2, <1>3, OrderHas DEF ItemOK
  <2>4. \A i \in 1 .. m + n : i \in 1 .. m \/ (i - m \in 1 .. n /\ m + (i - m) = i)
    OBVIOUS
  <2>5. QED
    BY <2>1, <2>2, <2>3, <2>4
<1>5. PICK out : out = [ i \in DOMAIN order |-> order[i].frame ]
  OBVIOUS
<1>6. DOMAIN out = 1 .. m + n /\ \A i \in 1 .. m + n : Carried(out[i], log)
  BY <1>4, <1>5
<1>7. IsSequence(out)
  <2>1. out \in [ 1 .. m + n -> Elements(out) ]
    BY <1>4, <1>5, <1>6 DEF Elements
  <2>2. QED
    BY <2>1, SeqDef DEF IsSequence
<1>8. Carries(out, log)
  BY <1>6, <1>7 DEF Carries, Elements
<1>9. QED
  BY <1>1, <1>5, <1>8

LEMMA EnqueueQueued ==
  ASSUME NEW s, NEW log, Queued(s, log), NEW q \in DataChannels \cup { 0 }, NEW item,
         ItemOK(item, q, log), s.queued + 1 <= ByteLimit
  PROVE  Queued(Enqueue(s, item), log)
<1>1. PICK d : d = Enqueue(s, item)
  OBVIOUS
<1>2. 0 \notin DataChannels
  BY SchedulerAssumption
<1>3. /\ s = [ control |-> s.control, data |-> s.data, expected |-> s.expected,
               cursor |-> s.cursor, queued |-> s.queued ]
      /\ s.data = [ c \in DataChannels |-> s.data[c] ]
      /\ s.cursor \in Nat /\ s.queued = Cardinality(Places(s)) /\ s.queued \in 0 .. ByteLimit
  BY DEF Queued
<1>4. /\ item.left = 1 /\ (item.priority = "control" <=> q = 0)
      /\ q # 0 => item.channel = q /\ q \in DataChannels
  BY DEF ItemOK
<1>5. /\ d = [ control |-> d.control, data |-> d.data, expected |-> d.expected,
               cursor |-> d.cursor, queued |-> d.queued ]
      /\ d.data = [ c \in DataChannels |-> d.data[c] ]
      /\ d.cursor = s.cursor /\ d.queued = s.queued + 1
      /\ d.control = IF q = 0 THEN Append(s.control, item) ELSE s.control
      /\ \A c \in DataChannels : d.data[c] = IF c = q THEN Append(s.data[c], item) ELSE s.data[c]
  <2>1. CASE q = 0
    <3>1. d = [ control |-> Append(s.control, item), data |-> s.data, expected |-> s.expected,
                cursor |-> s.cursor, queued |-> s.queued + 1 ]
      BY <1>1, <1>3, <1>4, <2>1 DEF Enqueue
    <3>2. QED
      BY <1>2, <1>3, <2>1, <3>1
  <2>2. CASE q # 0
    <3>1. d = [ control |-> s.control, data |-> [ s.data EXCEPT ![q] = Append(s.data[q], item) ],
                expected |-> s.expected, cursor |-> s.cursor, queued |-> s.queued + 1 ]
      BY <1>1, <1>3, <1>4, <2>2 DEF Enqueue
    <3>2. PICK t : t = s.data
      OBVIOUS
    <3>3. PICK u : u = [ t EXCEPT ![q] = Append(t[q], item) ]
      OBVIOUS
    <3>4. t = [ c \in DataChannels |-> t[c] ]
      BY <1>3, <3>2
    <3>5. /\ u = [ c \in DataChannels |-> u[c] ]
          /\ \A c \in DataChannels : u[c] = IF c = q THEN Append(t[c], item) ELSE t[c]
      BY <3>3, <3>4
    <3>6. d.data = u
      BY <3>1, <3>2, <3>3
    <3>7. QED
      BY <2>2, <3>1, <3>2, <3>5, <3>6
  <2>3. QED
    BY <2>1, <2>2
<1>6. ASSUME NEW c \in DataChannels \cup { 0 }
      PROVE  Waiting(d, c) = IF c = q THEN Append(Waiting(s, c), item) ELSE Waiting(s, c)
  BY <1>2, <1>5 DEF Waiting
<1>7. ASSUME NEW c \in DataChannels \cup { 0 }
      PROVE  IsSequence(Waiting(s, c)) /\ \A x \in Elements(Waiting(s, c)) : ItemOK(x, c, log)
  BY DEF Queued, QueueOK
<1>8. ASSUME NEW c \in DataChannels \cup { 0 } PROVE QueueOK(Waiting(d, c), c, log)
  <2>1. PICK t : t = Waiting(s, c)
    OBVIOUS
  <2>2. CASE c = q
    <3>1. IsSequence(Append(t, item)) /\ Elements(Append(t, item)) \subseteq Elements(t) \cup { item }
      BY <1>7, <2>1, AppendHas
    <3>2. QED
      BY <1>6, <1>7, <2>1, <2>2, <3>1 DEF QueueOK
  <2>3. CASE c # q
    BY <1>6, <1>7, <2>3 DEF QueueOK
  <2>4. QED
    BY <2>2, <2>3
<1>9. PICK w : w = Waiting(s, q)
  OBVIOUS
<1>10. PICK l \in Nat : l = Len(w) /\ DOMAIN w = 1 .. l /\ DOMAIN Append(w, item) = 1 .. l + 1
  BY <1>7, <1>9, SequenceHas, AppendHas
<1>11. Places(d) = Places(s) \cup { << q, l + 1 >> }
  <2>1. \A c, i : << c, i >> \in Places(d) <=> (<< c, i >> \in Places(s) \/ << c, i >> = << q, l + 1 >>)
    <3> SUFFICES ASSUME NEW c, NEW i
                 PROVE  << c, i >> \in Places(d) <=> (<< c, i >> \in Places(s) \/ << c, i >> = << q, l + 1 >>)
      OBVIOUS
    <3>1. CASE c = q
      <4>1. i \in 1 .. l + 1 <=> (i \in 1 .. l \/ i = l + 1)
        OBVIOUS
      <4>2. QED
        BY <1>6, <1>9, <1>10, <3>1, <4>1, PlaceIs
    <3>2. CASE c # q
      BY <1>6, <3>2, PlaceIs
    <3>3. QED
      BY <3>1, <3>2
  <2>2. \A x \in Places(d) : x \in Places(s) \cup { << q, l + 1 >> }
    BY <2>1, PlaceIs
  <2>3. \A x \in Places(s) \cup { << q, l + 1 >> } : x \in Places(d)
    BY <2>1, PlaceIs
  <2>4. QED
    BY <2>2, <2>3
<1>12. d.queued = Cardinality(Places(d)) /\ d.queued \in 0 .. ByteLimit
  <2>1. << q, l + 1 >> \notin Places(s)
    BY <1>9, <1>10, PlaceIs
  <2>2. IsFiniteSet(Places(s))
    BY LeavingIs
  <2>3. Cardinality(Places(d)) = Cardinality(Places(s)) + 1
    BY <1>11, <2>1, <2>2, FS_AddElement
  <2>4. QED
    BY <1>3, <1>5, <2>3, SchedulerAssumption
<1>13. d.cursor \in Nat
  BY <1>3, <1>5
<1>14. QED
  BY <1>1, <1>5, <1>8, <1>12, <1>13, Zenon DEF Queued

-----------------------------------------------------------------------------
(* What a call makes of an endpoint and hands to its caller *)

Outcome(e, result, h) ==
  /\ result = [ error |-> result.error, endpoint |-> result.endpoint, out |-> result.out ]
  /\ Moved(e, result.endpoint, h) /\ Carries(result.out, h.own)

(* The channels are left alone, and nothing is told to the application. *)
Unseen(e, r) == r.channels = e.channels /\ r.events = e.events

LEMMA NothingCarried ==
  ASSUME NEW log
  PROVE  Carries(<< >>, log)
BY DEF Carries, IsSequence, Elements

LEMMA StayMoves ==
  ASSUME NEW e, NEW h, Good(e, h)
  PROVE  Moved(e, e, h)
BY StayFinal DEF Moved

LEMMA ReturnedIs ==
  ASSUME NEW e, NEW h, NEW r, Moved(e, r, h), NEW out, Carries(out, h.own), NEW error
  PROVE  /\ Outcome(e, Returned(r, out), h) /\ Outcome(e, Returned(r, << >>), h)
         /\ Outcome(e, Failed(error, r), h)
BY NothingCarried DEF Outcome, Returned, Failed

(* The same when the frames are none. *)
LEMMA ReturnedNone ==
  ASSUME NEW e, NEW h, NEW r, Moved(e, r, h), NEW error
  PROVE  Outcome(e, Returned(r, << >>), h) /\ Outcome(e, Failed(error, r), h)
BY NothingCarried, ReturnedIs

(* A refusal leaves the endpoint as it was. *)
LEMMA Refusal ==
  ASSUME NEW e, NEW h, Good(e, h), NEW error
  PROVE  Outcome(e, Failed(error, e), h) /\ Outcome(e, Returned(e, << >>), h)
BY StayMoves, ReturnedNone

LEMMA OutcomeTwice ==
  ASSUME NEW e, NEW r, NEW h, Moved(e, r, h), NEW result, Outcome(r, result, h)
  PROVE  Outcome(e, result, h)
BY MovedTwice DEF Outcome, Moved

LEMMA ContinuedIs ==
  ASSUME NEW e, NEW result, NEW h, Outcome(e, result, h), NEW out, Carries(out, h.own)
  PROVE  Outcome(e, Continued(out, result), h)
<1>1. Carries(out \o result.out, h.own)
  BY ConcatHas DEF Outcome, Carries
<1>2. Outcome(e, Returned(result.endpoint, out \o result.out), h)
  BY <1>1, ReturnedIs DEF Outcome
<1>3. QED
  BY <1>2 DEF Continued

LEMMA KeptRecord ==
  ASSUME NEW window, NEW log, Kept(window, log), NEW frame, Carried(frame, log)
  PROVE  Kept(Record(window, frame), log)
<1>1. PICK entry : entry = [ frame |-> frame, retries |-> 0 ]
  OBVIOUS
<1>2. PICK w : w = IF Len(window) >= Capacity THEN Tail(window) ELSE window
  OBVIOUS
<1>3. IsSequence(window) /\ Len(window) <= Capacity /\ Len(window) \in Nat
  BY SequenceHas DEF Kept
<1>4. IsSequence(w) /\ Elements(w) \subseteq Elements(window) /\ Len(w) + 1 <= Capacity
  <2>1. CASE Len(window) >= Capacity
    <3>1. window # << >>
      <4>1. Len(window) # 0
        BY <1>3, <2>1, CapacityAssumption
      <4>2. QED
        BY <4>1
    <3>2. IsSequence(Tail(window)) /\ Elements(Tail(window)) \subseteq Elements(window)
          /\ Len(Tail(window)) = Len(window) - 1
      BY <1>3, <3>1, TailHas
    <3>3. QED
      BY <1>2, <1>3, <2>1, <3>2, CapacityAssumption
  <2>2. CASE ~ (Len(window) >= Capacity)
    BY <1>2, <1>3, <2>2, CapacityAssumption
  <2>3. QED
    BY <2>1, <2>2
<1>5. /\ IsSequence(Append(w, entry)) /\ Elements(Append(w, entry)) \subseteq Elements(w) \cup { entry }
      /\ Len(Append(w, entry)) = Len(w) + 1
  BY <1>4, AppendHas
<1>6. entry.frame = frame
  BY <1>1
<1>7. \A x \in Elements(Append(w, entry)) : Carried(x.frame, log)
  BY <1>4, <1>5, <1>6 DEF Kept
<1>8. Kept(Append(w, entry), log)
  BY <1>4, <1>5, <1>7 DEF Kept
<1>9. QED
  BY <1>1, <1>2, <1>8 DEF Record

LEMMA FlushOutcome ==
  ASSUME NEW e, NEW h, Good(e, h)
  PROVE  Outcome(e, Flush(e), h) /\ Unseen(e, Flush(e).endpoint)
<1>1. PICK s : s = e.scheduler
  OBVIOUS
<1>2. PICK d : d = Drained(s, ServiceOrder(s), Taken(ServiceOrder(s), ByteLimit))
  OBVIOUS
<1>3. PICK out : out = [ i \in DOMAIN ServiceOrder(s) |-> ServiceOrder(s)[i].frame ]
  OBVIOUS
<1>4. Flush(e) = Returned(PutScheduler(e, d), out)
  BY <1>1, <1>2, <1>3 DEF Flush, PutScheduler
<1>5. Queued(s, h.own)
  BY <1>1 DEF Good
<1>6. Queued(d, h.own) /\ Carries(out, h.own)
  BY <1>2, <1>3, <1>5, DrainedQueued, OrderCarried
<1>7. Moved(e, PutScheduler(e, d), h)
  BY <1>6, SchedulerMoves
<1>8. Outcome(e, Flush(e), h)
  BY <1>4, <1>6, <1>7, ReturnedIs
<1>9. Unseen(e, PutScheduler(e, d))
  <2>1. IsEndpoint(e)
    BY DEF Good
  <2>2. \A v : Unseen(e, PutScheduler(e, v))
    BY <2>1, FieldPut DEF Fields, Unseen
  <2>3. QED
    BY <2>2, Zenon
<1>10. QED
  BY <1>4, <1>8, <1>9 DEF Returned

LEMMA EmitOutcome ==
  ASSUME NEW e, NEW h, Good(e, h), NEW type \in FrameTypes, NEW id, NEW body,
         type = "data" => CarriesPart(id, body, h.own) /\ id.number \in DataChannels
  PROVE  Outcome(e, Emit(e, type, id, body), h) /\ Unseen(e, Emit(e, type, id, body).endpoint)
<1>1. PICK frame : frame = [ type |-> type, channel |-> id, seq |-> e.next_frame_seq, body |-> body ]
  OBVIOUS
<1>2. PICK item : item = [ priority |-> IF IsControlFrame(type) THEN "control" ELSE "data",
                           channel |-> id.number, sequence |-> frame.seq, left |-> 1, frame |-> frame ]
  OBVIOUS
<1>3. PICK made : made = PutNextSeq(e, e.next_frame_seq + 1)
  OBVIOUS
<1>4. PICK kept : kept = PutWindow(made, Record(e.window, frame))
  OBVIOUS
<1>5. PICK queued : queued = PutScheduler(kept, Enqueue(e.scheduler, item))
  OBVIOUS
<1>6. Carried(frame, h.own)
  BY <1>1 DEF Carried
<1>7. Moved(e, made, h) /\ IsEndpoint(e) /\ IsEndpoint(made)
  BY <1>3, NextSeqMoves DEF Moved, Good
<1>8. /\ Unseen(e, made) /\ made.window = e.window /\ made.scheduler = e.scheduler
  <2>1. \A v : /\ Unseen(e, PutNextSeq(e, v)) /\ PutNextSeq(e, v).window = e.window
               /\ PutNextSeq(e, v).scheduler = e.scheduler
    BY <1>7, FieldPut DEF Fields, Unseen
  <2>2. QED
    BY <1>3, <2>1, Zenon
<1>9. Moved(made, kept, h) /\ IsEndpoint(kept)
  <2>1. Kept(Record(e.window, frame), h.own)
    BY <1>6, KeptRecord DEF Good
  <2>2. QED
    BY <1>4, <1>7, <2>1, WindowMoves DEF Moved, Good
<1>10. Unseen(made, kept) /\ kept.scheduler = e.scheduler
  <2>1. \A v : Unseen(made, PutWindow(made, v)) /\ PutWindow(made, v).scheduler = made.scheduler
    BY <1>7, FieldPut DEF Fields, Unseen
  <2>2. QED
    BY <1>4, <1>8, <2>1, Zenon
<1>11. Moved(e, kept, h) /\ Unseen(e, kept)
  BY <1>7, <1>8, <1>9, <1>10, MovedTwice DEF Moved, Unseen
<1>12. kept = [ made EXCEPT !.window = Record(@, frame) ]
  BY <1>4, <1>8 DEF PutWindow
<1>13. queued = [ kept EXCEPT !.scheduler = Enqueue(@, item) ]
  BY <1>5, <1>10 DEF PutScheduler
<1>14. PICK error : error = EnqueueError(e.scheduler, item)
  OBVIOUS
<1>15. Emit(e, type, id, body) =
         IF Recorded(e.window, frame.seq) THEN Failed("duplicate_frame", made)
         ELSE IF error # "none" THEN Failed(error, kept)
         ELSE Flush(queued)
  <2>1. made = [ e EXCEPT !.next_frame_seq = @ + 1 ]
    BY <1>3 DEF PutNextSeq
  <2>2. QED
    BY <1>1, <1>2, <1>12, <1>13, <1>14, <2>1 DEF Emit
<1>16. Outcome(e, Failed("duplicate_frame", made), h) /\ Unseen(e, Failed("duplicate_frame", made).endpoint)
  BY <1>7, <1>8, ReturnedNone DEF Failed
<1>17. Outcome(e, Failed(error, kept), h) /\ Unseen(e, Failed(error, kept).endpoint)
  BY <1>11, ReturnedNone DEF Failed
<1>18. ASSUME error = "none"
       PROVE  Outcome(e, Flush(queued), h) /\ Unseen(e, Flush(queued).endpoint)
  <2>1. PICK q \in DataChannels \cup { 0 } : q = IF type = "data" THEN id.number ELSE 0
    OBVIOUS
  <2>2. 0 \notin DataChannels
    BY SchedulerAssumption
  <2>3. /\ item.priority = IF q = 0 THEN "control" ELSE "data"
        /\ item.channel = q \/ q = 0
    BY <1>2, <2>1, <2>2 DEF IsControlFrame
  <2>4. /\ item = [ priority |-> item.priority, channel |-> item.channel,
                    sequence |-> item.sequence, left |-> item.left, frame |-> item.frame ]
        /\ item.left = 1 /\ item.frame = frame
    BY <1>2
  <2>5. ItemOK(item, q, h.own)
    BY <1>6, <2>3, <2>4 DEF ItemOK
  <2>6. Queued(e.scheduler, h.own)
    BY DEF Good
  <2>7. e.scheduler.queued + 1 <= ByteLimit
    <3>1. ~ (e.scheduler.queued + item.left > ByteLimit)
      BY <1>14, <1>18 DEF EnqueueError
    <3>2. e.scheduler.queued \in Int /\ ByteLimit \in Int
      BY <2>6, SchedulerAssumption DEF Queued
    <3>3. QED
      BY <2>4, <3>1, <3>2
  <2>8. Queued(Enqueue(e.scheduler, item), h.own)
    BY <2>5, <2>6, <2>7, EnqueueQueued
  <2>9. Moved(kept, queued, h)
    BY <1>5, <1>11, <2>8, SchedulerMoves DEF Moved
  <2>10. Unseen(kept, queued)
    <3>1. \A v : Unseen(kept, PutScheduler(kept, v))
      BY <1>9, FieldPut DEF Fields, Unseen
    <3>2. QED
      BY <1>5, <3>1, Zenon
  <2>11. Moved(e, queued, h) /\ Unseen(e, queued) /\ Good(queued, h)
    BY <1>11, <2>9, <2>10, MovedTwice DEF Moved, Unseen
  <2>12. Outcome(queued, Flush(queued), h) /\ Unseen(queued, Flush(queued).endpoint)
    BY <2>11, FlushOutcome
  <2>13. QED
    BY <2>11, <2>12, OutcomeTwice DEF Unseen
<1>19. QED
  BY <1>15, <1>16, <1>17, <1>18, Zenon

-----------------------------------------------------------------------------
(* Steps the calls and the handlers share *)

(* Fields a step leaves alone. *)
LEMMA PutLeaves ==
  ASSUME NEW e, NEW h, Good(e, h)
  PROVE  /\ \A v : Unseen(e, PutTimers(e, v)) /\ PutTimers(e, v).state = e.state
                   /\ PutTimers(e, v).negotiated = e.negotiated /\ PutTimers(e, v).now = e.now
                   /\ PutTimers(e, v).pong = e.pong
         /\ \A v : Unseen(e, PutState(e, v)) /\ PutState(e, v).state = v
                   /\ PutState(e, v).negotiated = e.negotiated /\ PutState(e, v).now = e.now
         /\ \A v : PutChannels(e, v).channels = v /\ PutChannels(e, v).state = e.state
                   /\ PutChannels(e, v).negotiated = e.negotiated
                   /\ PutChannels(e, v).events = e.events /\ PutChannels(e, v).tasks = e.tasks
         /\ \A v : PutEvents(e, v).channels = e.channels /\ PutEvents(e, v).state = e.state
                   /\ PutEvents(e, v).negotiated = e.negotiated /\ PutEvents(e, v).events = v
                   /\ PutEvents(e, v).tasks = e.tasks
         /\ \A v : Unseen(e, PutTasks(e, v)) /\ PutTasks(e, v).tasks = v
                   /\ PutTasks(e, v).state = e.state
         /\ \A v : Unseen(e, PutPong(e, v)) /\ PutPong(e, v).now = e.now /\ PutPong(e, v).pong = v
         /\ \A v, w : PutChannels(PutChannels(e, v), w) = PutChannels(e, w)
<1>1. IsEndpoint(e)
  BY DEF Good
<1>2. \A v : Unseen(e, PutTimers(e, v)) /\ PutTimers(e, v).state = e.state
             /\ PutTimers(e, v).negotiated = e.negotiated /\ PutTimers(e, v).now = e.now
             /\ PutTimers(e, v).pong = e.pong
  BY <1>1, FieldPut DEF Fields, Unseen
<1>3. \A v : Unseen(e, PutState(e, v)) /\ PutState(e, v).state = v
             /\ PutState(e, v).negotiated = e.negotiated /\ PutState(e, v).now = e.now
  BY <1>1, FieldPut DEF Fields, Unseen
<1>4. \A v : PutChannels(e, v).channels = v /\ PutChannels(e, v).state = e.state
             /\ PutChannels(e, v).negotiated = e.negotiated
             /\ PutChannels(e, v).events = e.events /\ PutChannels(e, v).tasks = e.tasks
  BY <1>1, FieldPut DEF Fields
<1>5. \A v : PutEvents(e, v).channels = e.channels /\ PutEvents(e, v).state = e.state
             /\ PutEvents(e, v).negotiated = e.negotiated /\ PutEvents(e, v).events = v
             /\ PutEvents(e, v).tasks = e.tasks
  BY <1>1, FieldPut DEF Fields
<1>6. \A v : Unseen(e, PutTasks(e, v)) /\ PutTasks(e, v).tasks = v
             /\ PutTasks(e, v).state = e.state
  BY <1>1, FieldPut DEF Fields, Unseen
<1>7. \A v : Unseen(e, PutPong(e, v)) /\ PutPong(e, v).now = e.now /\ PutPong(e, v).pong = v
  BY <1>1, FieldPut DEF Fields, Unseen
<1>8. \A v, w : PutChannels(PutChannels(e, v), w) = PutChannels(e, w)
  BY <1>1 DEF PutChannels, IsEndpoint
<1>9. QED
  BY <1>2, <1>3, <1>4, <1>5, <1>6, <1>7, <1>8, Zenon

LEMMA ScheduleMoves ==
  ASSUME NEW e, NEW h, Good(e, h), NEW kind \in TimerKinds, NEW id, NEW delay
  PROVE  /\ Moved(e, Schedule(e, kind, id, delay), h) /\ Unseen(e, Schedule(e, kind, id, delay))
         /\ Schedule(e, kind, id, delay).state = e.state
         /\ Schedule(e, kind, id, delay).negotiated = e.negotiated
<1>1. PICK timer : timer = [ kind |-> kind, channel |-> id, due |-> e.now + delay ]
  OBVIOUS
<1>2. PICK t : t = e.timers
  OBVIOUS
<1>3. PICK before : before = DueBy(t, timer.due)
  OBVIOUS
<1>4. PICK after : after = DueAfter(t, timer.due)
  OBVIOUS
<1>5. Timed(t, e.now, e.pong, h.clock)
  BY <1>2 DEF Good
<1>6. IsSequence(t) /\ \A x \in Elements(t) : x.kind \in TimerKinds
  BY <1>5 DEF Timed
<1>7. IsSequence(before) /\ Elements(before) \subseteq Elements(t)
  BY <1>3, <1>6, EntriesHave DEF DueBy
<1>8. IsSequence(after) /\ Elements(after) \subseteq Elements(t)
  BY <1>4, <1>6, EntriesHave DEF DueAfter
<1>9. IsSequence(<< timer >>) /\ Elements(<< timer >>) = { timer } /\ timer.kind = kind
  BY <1>1 DEF IsSequence, Elements
<1>10. PICK first : first = before \o << timer >>
  OBVIOUS
<1>11. IsSequence(first) /\ Elements(first) \subseteq Elements(before) \cup { timer }
  BY <1>7, <1>9, <1>10, ConcatHas
<1>12. PICK v : v = first \o after
  OBVIOUS
<1>13. IsSequence(v) /\ Elements(v) \subseteq Elements(first) \cup Elements(after)
  BY <1>8, <1>11, <1>12, ConcatHas
<1>14. Timed(v, e.now, e.pong, h.clock)
  BY <1>5, <1>6, <1>7, <1>8, <1>9, <1>11, <1>13 DEF Timed
<1>15. Schedule(e, kind, id, delay) = PutTimers(e, v)
  BY <1>1, <1>2, <1>3, <1>4, <1>10, <1>12 DEF Schedule, PutTimers
<1>16. Moved(e, PutTimers(e, v), h)
  BY <1>14, TimersMove
<1>17. QED
  BY <1>15, <1>16, PutLeaves

(* Draining and closing are possible in any state. *)
LEMMA EndMoves ==
  ASSUME NEW e, NEW h, Good(e, h), NEW state \in { "draining", "closed" }
  PROVE  Moved(e, PutState(e, state), h) /\ Unseen(e, PutState(e, state))
<1>1. Phased(state, e.negotiated, e.channels)
  BY DEF Good, Phased, ConnectionState
<1>2. QED
  BY <1>1, StateMoves, PutLeaves

LEMMA WithNoticeIs ==
  ASSUME NEW e, NEW result, NEW h, Outcome(e, result, h), NEW kind, NEW id,
         kind \notin { "message_delivered", "plugin_response" }
  PROVE  Outcome(e, WithNotice(result, kind, id), h)
<1>1. PICK r : r = result.endpoint
  OBVIOUS
<1>2. PICK q : q = Notice(r, kind, id)
  OBVIOUS
<1>3. Moved(e, r, h)
  BY <1>1 DEF Outcome
<1>4. Moved(r, q, h)
  BY <1>2, <1>3, NoticeMoves DEF Moved
<1>5. Moved(e, q, h)
  BY <1>3, <1>4, MovedTwice DEF Moved
<1>6. result = [ error |-> result.error, endpoint |-> r, out |-> result.out ]
  BY <1>1 DEF Outcome
<1>7. [ result EXCEPT !.endpoint = q ] = [ error |-> result.error, endpoint |-> q, out |-> result.out ]
  BY <1>6
<1>8. Outcome(e, [ result EXCEPT !.endpoint = q ], h)
  BY <1>5, <1>7 DEF Outcome
<1>9. WithNotice(result, kind, id) \in { result, [ result EXCEPT !.endpoint = q ] }
  BY <1>1, <1>2 DEF WithNotice
<1>10. QED
  BY <1>8, <1>9

(* A step that goes on from where another one has got. *)
LEMMA EmitAfter ==
  ASSUME NEW e, NEW h, NEW r, Moved(e, r, h), NEW type \in FrameTypes, NEW id, NEW body,
         type # "data"
  PROVE  Outcome(e, Emit(r, type, id, body), h)
BY EmitOutcome, OutcomeTwice DEF Moved

LEMMA NoticeAfter ==
  ASSUME NEW e, NEW h, NEW r, Moved(e, r, h), NEW kind, NEW id,
         kind \notin { "message_delivered", "plugin_response" }
  PROVE  Moved(e, Notice(r, kind, id), h)
BY NoticeMoves, MovedTwice DEF Moved

LEMMA ScheduleAfter ==
  ASSUME NEW e, NEW h, NEW r, Moved(e, r, h), NEW kind \in TimerKinds, NEW id, NEW delay
  PROVE  Moved(e, Schedule(r, kind, id, delay), h)
BY ScheduleMoves, MovedTwice DEF Moved

-----------------------------------------------------------------------------
(* The calls of the application *)

LEMMA StartOutcome ==
  ASSUME NEW e, NEW h, Good(e, h)
  PROVE  Outcome(e, Start(e), h)
<1>1. ASSUME e.state = "created"
      PROVE  Outcome(e, Emit(Schedule([ e EXCEPT !.state = "negotiating" ], "handshake",
                                      ControlId, HandshakeTimeout),
                             "hello", ControlId, 0), h)
  <2>1. Phased("negotiating", e.negotiated, e.channels)
    BY <1>1 DEF Good, Phased, ConnectionState
  <2>2. PICK r : r = [ e EXCEPT !.state = "negotiating" ]
    OBVIOUS
  <2>3. Moved(e, r, h)
    BY <2>1, <2>2, StateMoves DEF PutState
  <2>4. Moved(e, Schedule(r, "handshake", ControlId, HandshakeTimeout), h)
    BY <2>3, ScheduleAfter DEF TimerKinds
  <2>5. QED
    BY <2>2, <2>4, EmitAfter DEF FrameTypes
<1>2. QED
  BY <1>1, Refusal, Zenon DEF Start

(* Of the free slots there is a first one. *)
LEMMA FirstFreeIs ==
  ASSUME NEW table, ~ NoneFree(table)
  PROVE  \E n \in Numbers : FirstFree(table, n)
<1>1. SUFFICES ASSUME \A n \in Numbers : ~ FirstFree(table, n) PROVE FALSE
  OBVIOUS
<1> DEFINE G == { k \in 0 .. MaxChannels : \A m \in 1 .. k : table[m].state # "free" }
<1>2. 0 \in G
  BY ChannelsAssumption
<1>3. \A i \in 1 .. MaxChannels : i - 1 \in G => i \in G
  <2> SUFFICES ASSUME NEW i \in 1 .. MaxChannels, i - 1 \in G PROVE i \in G
    OBVIOUS
  <2>1. i \in Numbers /\ i \in 0 .. MaxChannels /\ \A m \in 1 .. i : m \in 1 .. i - 1 \/ m = i
    BY ChannelsAssumption DEF Numbers
  <2>2. table[i].state # "free"
    BY <1>1, <2>1 DEF FirstFree
  <2>3. QED
    BY <2>1, <2>2
<1> HIDE DEF G
<1>4. \A i \in 0 .. MaxChannels : i \in G
  BY <1>2, <1>3, ChannelsAssumption, UpTo
<1>5. MaxChannels \in G
  BY <1>4, ChannelsAssumption
<1>6. \A m \in Numbers : table[m].state # "free"
  BY <1>5 DEF G, Numbers
<1>7. QED
  BY <1>6 DEF NoneFree

LEMMA OpenChannelOutcome ==
  ASSUME NEW e, NEW h, Good(e, h)
  PROVE  Outcome(e, OpenChannel(e), h)
<1>1. PICK n : n = CHOOSE m \in Numbers : FirstFree(e.channels, m)
  OBVIOUS
<1>2. PICK made : made = AllocateAt(e.channels, n)
  OBVIOUS
<1>3. PICK id : id = [ number |-> n, generation |-> made.table[n].generation ]
  OBVIOUS
<1>4. PICK opened : opened = PutChannels(e, Activate(made.table, id).table)
  OBVIOUS
<1>5. OpenChannel(e) =
        IF e.state # "active" THEN Failed("illegal_state", e)
        ELSE IF NoneFree(e.channels) THEN Failed("resource_limit", e)
        ELSE IF made.error # "none" THEN Failed(made.error, e)
        ELSE WithNotice(Emit(opened, "open", id, 0), "channel_opened", id)
  BY <1>1, <1>2, <1>3, <1>4 DEF OpenChannel, PutChannels
<1>6. ASSUME e.state = "active", ~ NoneFree(e.channels)
      PROVE  Outcome(e, WithNotice(Emit(opened, "open", id, 0), "channel_opened", id), h)
  <2>1. e.negotiated
    BY <1>6 DEF Good, Phased
  <2>2. n \in Numbers /\ e.channels[n].state = "free"
    <3>1. \E m \in Numbers : FirstFree(e.channels, m)
      BY <1>6, FirstFreeIs
    <3>2. n \in Numbers /\ FirstFree(e.channels, n)
      BY <1>1, <3>1
    <3>3. QED
      BY <3>2 DEF FirstFree
  <2>3. PICK r : r = PutChannels(e, made.table)
    OBVIOUS
  <2>4. Moved(e, r, h)
    BY <1>2, <2>1, <2>2, <2>3, AllocateMoves
  <2>5. r.channels = made.table
    BY <2>3, PutLeaves
  <2>6. PICK t : t = Activate(made.table, id).table
    OBVIOUS
  <2>7. Moved(r, PutChannels(r, t), h)
    BY <2>4, <2>5, <2>6, ActivateMoves DEF Moved
  <2>8. PutChannels(r, t) = opened
    BY <1>4, <2>3, <2>6, PutLeaves
  <2>9. Moved(e, opened, h)
    BY <2>4, <2>7, <2>8, MovedTwice DEF Moved
  <2>10. Outcome(e, Emit(opened, "open", id, 0), h)
    BY <2>9, EmitAfter DEF FrameTypes
  <2>11. QED
    BY <2>10, WithNoticeIs
<1>7. QED
  BY <1>5, <1>6, Refusal, Zenon

LEMMA HalfCloseOutcome ==
  ASSUME NEW e, NEW h, Good(e, h), NEW id, NEW direction
  PROVE  Outcome(e, HalfCloseCall(e, id, direction), h)
<1>1. PICK close : close = HalfClose(e.channels, id, direction)
  OBVIOUS
<1>2. PICK r : r = PutChannels(e, close.table)
  OBVIOUS
<1>3. HalfCloseCall(e, id, direction) =
        IF ~ e.negotiated THEN Failed("illegal_state", e)
        ELSE IF close.error # "none" THEN Failed(close.error, e)
        ELSE Emit(Notice(r, "half_closed", id), "half_close", id, direction)
  BY <1>1, <1>2 DEF HalfCloseCall, PutChannels
<1>4. Moved(e, r, h)
  BY <1>1, <1>2, HalfCloseMoves
<1>5. Moved(e, Notice(r, "half_closed", id), h)
  BY <1>4, NoticeAfter
<1>6. Outcome(e, Emit(Notice(r, "half_closed", id), "half_close", id, direction), h)
  BY <1>5, EmitAfter DEF FrameTypes
<1>7. QED
  BY <1>3, <1>6, Refusal, Zenon

LEMMA ResetOutcome ==
  ASSUME NEW e, NEW h, Good(e, h), NEW id
  PROVE  Outcome(e, ResetCall(e, id), h)
<1>1. PICK reset : reset = Reset(e.channels, id)
  OBVIOUS
<1>2. PICK r : r = PutChannels(e, reset.table)
  OBVIOUS
<1>3. ResetCall(e, id) =
        IF ~ e.negotiated THEN Failed("illegal_state", e)
        ELSE IF reset.error # "none" THEN Failed(reset.error, e)
        ELSE Emit(Notice(r, "channel_reset", id), "reset", id, 0)
  BY <1>1, <1>2 DEF ResetCall, PutChannels
<1>4. Moved(e, r, h)
  BY <1>1, <1>2, ResetMoves
<1>5. Moved(e, Notice(r, "channel_reset", id), h)
  BY <1>4, NoticeAfter
<1>6. Outcome(e, Emit(Notice(r, "channel_reset", id), "reset", id, 0), h)
  BY <1>5, EmitAfter DEF FrameTypes
<1>7. QED
  BY <1>3, <1>6, Refusal, Zenon

LEMMA GoAwayOutcome ==
  ASSUME NEW e, NEW h, Good(e, h)
  PROVE  Outcome(e, GoAway(e), h)
<1>1. PICK r : r = [ e EXCEPT !.state = "draining" ]
  OBVIOUS
<1>2. Moved(e, r, h)
  BY <1>1, EndMoves DEF PutState
<1>3. Moved(e, Schedule(r, "drain", ControlId, DrainTimeout), h)
  BY <1>2, ScheduleAfter DEF TimerKinds
<1>4. Outcome(e, Emit(Schedule(r, "drain", ControlId, DrainTimeout), "goaway", ControlId, 0), h)
  BY <1>3, EmitAfter DEF FrameTypes
<1>5. QED
  BY <1>1, <1>4 DEF GoAway

LEMMA FrameOutcomes ==
  ASSUME NEW e, NEW h, Good(e, h)
  PROVE  /\ \A id, amount : Outcome(e, GrantCredit(e, id, amount), h)
         /\ \A token : Outcome(e, PingCall(e, token), h)
         /\ \A token : Outcome(e, HandlePing(e, token), h)
         /\ \A first : Outcome(e, ResumeCall(e, first), h)
         /\ \A ranges : Outcome(e, AcknowledgeCall(e, ranges), h)
<1>1. \A type \in FrameTypes \ { "data" } : \A id, body : Outcome(e, Emit(e, type, id, body), h)
  BY EmitOutcome
<1>2. { "credit", "ping", "pong", "resume", "ack" } \subseteq FrameTypes \ { "data" }
  BY DEF FrameTypes
<1>3. \A ranges : Outcome(e, AcknowledgeCall(e, ranges), h)
  BY <1>1, <1>2, Refusal, Zenon DEF AcknowledgeCall
<1>4. QED
  BY <1>1, <1>2, <1>3 DEF GrantCredit, PingCall, HandlePing, ResumeCall

-----------------------------------------------------------------------------
(* Results of plugins *)

(* An event about a live channel is none about a channel that was reset. *)
LEMMA LiveEventFinal ==
  ASSUME NEW e, NEW r, IsSequence(e.events), NEW id, Found(e.channels, id), NEW x, x.channel = id,
         r.events = Append(e.events, x),
         \A n \in Numbers : e.channels[n].state = "tombstone" => r.channels[n] = e.channels[n]
  PROVE  Final(e, r)
<1>1. ASSUME NEW n \in Numbers, e.channels[n].state = "tombstone"
      PROVE  \A kind \in { "message_delivered", "plugin_response" } :
               Raised(r.events, kind, Key(e.channels, n)) = Raised(e.events, kind, Key(e.channels, n))
  <2>1. Key(e.channels, n) # id
    <3>1. SUFFICES ASSUME Key(e.channels, n) = id PROVE FALSE
      OBVIOUS
    <3>2. id.number = n
      BY <3>1 DEF Key
    <3>3. QED
      BY <1>1, <3>2 DEF Found, LiveState
  <2>2. \A kind : Raised(Append(e.events, x), kind, Key(e.channels, n)) = Raised(e.events, kind, Key(e.channels, n))
    BY <2>1, AppendRaised
  <2>3. QED
    BY <2>2
<1>2. QED
  BY <1>1 DEF Final

LEMMA ResponseMoves ==
  ASSUME NEW e, NEW h, Good(e, h), NEW done, Found(e.channels, done.channel),
         Answers(done, e.events, Len(e.events) + 1),
         \A i \in DOMAIN e.events :
           e.events[i].kind = "plugin_response" /\ e.events[i].channel = done.channel
             => e.events[i].sequence < done.sequence,
         \A j \in DOMAIN e.tasks :
           e.tasks[j].channel = done.channel => done.sequence < e.tasks[j].sequence
  PROVE  Moved(e, Event(e, "plugin_response", done.channel, done.sequence, done.payload), h)
<1>1. PICK x : x = [ kind |-> "plugin_response", channel |-> done.channel,
                     sequence |-> done.sequence, payload |-> done.payload ]
  OBVIOUS
<1>2. /\ x.kind = "plugin_response" /\ x.channel = done.channel
      /\ x.sequence = done.sequence /\ x.payload = done.payload
  BY <1>1
<1>3. PICK r : r = PutEvents(e, Append(e.events, x))
  OBVIOUS
<1>4. r = Event(e, "plugin_response", done.channel, done.sequence, done.payload)
  BY <1>1, <1>3 DEF Event, PutEvents
<1>5. IsSequence(e.events) /\ Answered(e.events, e.tasks) /\ IsEndpoint(e)
  BY DEF Good, Delivered
<1>6. Delivered(e.channels, Append(e.events, x), h.theirs)
  BY <1>2, OtherDelivered DEF Good
<1>7. Answers(x, e.events, Len(e.events) + 1)
  BY <1>2 DEF Answers
<1>8. Answered(Append(e.events, x), e.tasks)
  BY <1>2, <1>5, <1>7, NextAnswered
<1>9. Good(r, h)
  BY <1>3, <1>6, <1>8, FieldPut DEF Good, Fields
<1>10. r.channels = e.channels /\ r.events = Append(e.events, x)
  <2>1. \A v : PutEvents(e, v).channels = e.channels /\ PutEvents(e, v).events = v
    BY PutLeaves
  <2>2. QED
    BY <1>3, <2>1, Zenon
<1>11. Final(e, r)
  BY <1>2, <1>5, <1>10, LiveEventFinal
<1>12. QED
  BY <1>4, <1>9, <1>11 DEF Moved

LEMMA CompleteOutcome ==
  ASSUME NEW e, NEW h, Good(e, h), NEW done,
         Answers(done, e.events, Len(e.events) + 1),
         \A i \in DOMAIN e.events :
           e.events[i].kind = "plugin_response" /\ e.events[i].channel = done.channel
             => e.events[i].sequence < done.sequence,
         \A j \in DOMAIN e.tasks :
           e.tasks[j].channel = done.channel => done.sequence < e.tasks[j].sequence
  PROVE  Outcome(e, CompletePlugin(e, done), h)
<1>1. ASSUME Found(e.channels, done.channel)
      PROVE  Outcome(e, Returned(Event(e, "plugin_response", done.channel, done.sequence,
                                       done.payload), << >>), h)
  BY <1>1, ResponseMoves, ReturnedNone
<1>2. QED
  BY <1>1, Refusal, Zenon DEF CompletePlugin

LEMMA DrainOneOutcome ==
  ASSUME NEW e, NEW h, Good(e, h), e.tasks # << >>
  PROVE  Outcome(e, DrainOne(e), h)
<1>1. PICK done : done = Head(e.tasks)
  OBVIOUS
<1>2. PICK rest : rest = Tail(e.tasks)
  OBVIOUS
<1>3. PICK r : r = PutTasks(e, rest)
  OBVIOUS
<1>4. Answered(e.events, e.tasks)
  BY DEF Good
<1>5. /\ Answered(e.events, rest)
      /\ Answers(done, e.events, Len(e.events) + 1)
      /\ \A i \in DOMAIN e.events :
           e.events[i].kind = "plugin_response" /\ e.events[i].channel = done.channel
             => e.events[i].sequence < done.sequence
      /\ \A j \in DOMAIN rest : rest[j].channel = done.channel => done.sequence < rest[j].sequence
  BY <1>1, <1>2, <1>4, TaskTaken
<1>6. Moved(e, r, h)
  BY <1>3, <1>5, TasksMove
<1>7. r.events = e.events /\ r.tasks = rest
  BY <1>3, PutLeaves DEF Unseen
<1>8. Good(r, h)
  BY <1>6 DEF Moved
<1>9. Outcome(r, CompletePlugin(r, done), h)
  BY <1>5, <1>7, <1>8, CompleteOutcome
<1>10. DrainOne(e) = CompletePlugin(r, done)
  BY <1>1, <1>2, <1>3 DEF DrainOne, PutTasks
<1>11. QED
  BY <1>6, <1>9, <1>10, OutcomeTwice

-----------------------------------------------------------------------------
(* The reassembler *)

LEMMA ResetParts ==
  ASSUME NEW re, NEW id, NEW log, BuffersParts(re, id, log), NEW seq
  PROVE  BuffersParts(ResetMessage(re, seq), id, log)
<1>1. CASE seq \notin DOMAIN re.pending
  BY <1>1 DEF ResetMessage
<1>2. CASE seq \in DOMAIN re.pending
  <2>1. PICK p : p = Restrict(re.pending, DOMAIN re.pending \ { seq })
    OBVIOUS
  <2>2. DOMAIN p \subseteq DOMAIN re.pending /\ \A s \in DOMAIN p : p[s] = re.pending[s]
    BY <2>1 DEF Restrict
  <2>3. PICK n : ResetMessage(re, seq) = [ pending |-> p, retained |-> n ]
    BY <1>2, <2>1 DEF ResetMessage
  <2>4. PICK q : q = ResetMessage(re, seq)
    OBVIOUS
  <2>5. q = [ pending |-> q.pending, retained |-> q.retained ] /\ q.pending = p
    BY <2>3, <2>4
  <2>6. ASSUME NEW s \in DOMAIN p
        PROVE  \E k \in DOMAIN log :
                 /\ Numbered(log, id, s, k)
                 /\ p[s] = [ total |-> p[s].total, ranges |-> p[s].ranges ]
                 /\ p[s].total = Len(log[k].payload)
                 /\ \A range \in p[s].ranges : PartOf(range, log[k].payload)
    <3>1. s \in DOMAIN re.pending /\ p[s] = re.pending[s]
      BY <2>2
    <3>2. \E k \in DOMAIN log :
                 /\ Numbered(log, id, s, k)
                 /\ re.pending[s] = [ total |-> re.pending[s].total, ranges |-> re.pending[s].ranges ]
                 /\ re.pending[s].total = Len(log[k].payload)
                 /\ \A range \in re.pending[s].ranges : PartOf(range, log[k].payload)
      BY <3>1, Zenon DEF BuffersParts
    <3>3. QED
      BY <3>1, <3>2, Zenon
  <2>7. BuffersParts(q, id, log)
    BY <2>5, <2>6, Zenon DEF BuffersParts
  <2>8. QED
    BY <2>4, <2>7
<1>3. QED
  BY <1>1, <1>2

(* A fragment of a message joins those that are there. *)
LEMMA RetainParts ==
  ASSUME NEW re, NEW id, NEW log, BuffersParts(re, id, log), IsSequence(log),
         NEW seq, NEW k \in DOMAIN log, Numbered(log, id, seq, k), IsSequence(log[k].payload),
         NEW total, total = Len(log[k].payload), NEW frag, PartOf(frag, log[k].payload)
  PROVE  /\ BuffersParts(Retain(re, seq, total, frag).reassembler, id, log)
         /\ Retain(re, seq, total, frag).message \in { NoMessage, log[k].payload }
<1>1. PICK m : m = log[k].payload
  OBVIOUS
<1>2. PICK ranges : ranges = RangesOf(re, seq) \cup { frag }
  OBVIOUS
<1>3. \A r \in ranges : PartOf(r, m)
  <2>1. ASSUME NEW r \in RangesOf(re, seq) PROVE PartOf(r, m)
    <3>1. seq \in DOMAIN re.pending /\ r \in re.pending[seq].ranges
      BY <2>1 DEF RangesOf
    <3>2. PICK l \in DOMAIN log :
            Numbered(log, id, seq, l) /\ \A range \in re.pending[seq].ranges : PartOf(range, log[l].payload)
      BY <3>1, Zenon DEF BuffersParts
    <3>3. l = k
      BY <3>2, NumberedOnce
    <3>4. QED
      BY <1>1, <3>1, <3>2, <3>3, Zenon
  <2>2. PartOf(frag, m)
    BY <1>1
  <2>3. QED
    BY <1>2, <2>1, <2>2
<1>4. PICK entry : entry = [ total |-> total, ranges |-> ranges ]
  OBVIOUS
<1>5. PICK p : p = [ s \in DOMAIN re.pending \cup { seq } |-> IF s = seq THEN entry ELSE re.pending[s] ]
  OBVIOUS
<1>6. PICK kept : kept = [ pending |-> p, retained |-> re.retained + Len(frag.bytes) ]
  OBVIOUS
<1>7. /\ DOMAIN p = DOMAIN re.pending \cup { seq } /\ p[seq] = entry
      /\ \A s \in DOMAIN re.pending : s # seq => p[s] = re.pending[s]
  BY <1>5
<1>8. ASSUME NEW s \in DOMAIN p
      PROVE  \E l \in DOMAIN log :
               /\ Numbered(log, id, s, l)
               /\ p[s] = [ total |-> p[s].total, ranges |-> p[s].ranges ]
               /\ p[s].total = Len(log[l].payload)
               /\ \A range \in p[s].ranges : PartOf(range, log[l].payload)
  <2>1. CASE s = seq
    <3>1. /\ p[s].total = total /\ p[s].ranges = ranges
          /\ p[s] = [ total |-> p[s].total, ranges |-> p[s].ranges ]
      BY <1>4, <1>7, <2>1
    <3>2. \A range \in p[s].ranges : PartOf(range, log[k].payload)
      BY <1>1, <1>3, <3>1, Zenon
    <3>3. QED
      BY <2>1, <3>1, <3>2
  <2>2. CASE s # seq
    <3>1. s \in DOMAIN re.pending /\ p[s] = re.pending[s]
      BY <1>7, <2>2
    <3>2. \E l \in DOMAIN log :
            /\ Numbered(log, id, s, l)
            /\ re.pending[s] = [ total |-> re.pending[s].total, ranges |-> re.pending[s].ranges ]
            /\ re.pending[s].total = Len(log[l].payload)
            /\ \A range \in re.pending[s].ranges : PartOf(range, log[l].payload)
      BY <3>1, Zenon DEF BuffersParts
    <3>3. QED
      BY <3>1, <3>2, Zenon
  <2>3. QED
    BY <2>1, <2>2
<1>9. BuffersParts(kept, id, log)
  <2>1. kept = [ pending |-> kept.pending, retained |-> kept.retained ] /\ kept.pending = p
    BY <1>6
  <2>2. QED
    BY <1>8, <2>1, Zenon DEF BuffersParts
<1>10. BuffersParts(ResetMessage(kept, seq), id, log)
  BY <1>9, ResetParts
<1>11. ASSUME Covers(ranges, total) PROVE Assemble(ranges, total) = m
  <2>1. total \in Nat /\ DOMAIN m = 1 .. total /\ m = [ i \in 1 .. total |-> m[i] ]
    <3>1. IsSequence(m) /\ total = Len(m)
      BY <1>1
    <3>2. DOMAIN m = 1 .. Len(m) /\ Len(m) \in Nat /\ m \in Seq(Elements(m))
      BY <3>1, SequenceHas DEF IsSequence
    <3>3. m \in [ 1 .. Len(m) -> Elements(m) ]
      BY <3>2, ElementOfSeq, SeqDef, LenProperties
    <3>4. QED
      BY <3>1, <3>2, <3>3
  <2>2. ASSUME NEW i \in 1 .. total
        PROVE  ByteAt(CHOOSE r \in ranges : i - 1 \in Positions(r), i - 1) = m[i]
    <3>1. PICK pos : pos = i - 1
      OBVIOUS
    <3>2. pos \in 0 .. total - 1 /\ pos + 1 = i
      BY <2>1, <3>1
    <3>3. PICK r : r = CHOOSE x \in ranges : pos \in Positions(x)
      OBVIOUS
    <3>4. \E x \in ranges : pos \in Positions(x)
      BY <1>11, <3>2 DEF Covers
    <3>5. r \in ranges /\ pos \in Positions(r)
      BY <3>3, <3>4
    <3>6. ByteAt(r, pos) = m[pos + 1]
      BY <1>3, <3>5 DEF PartOf
    <3>7. QED
      BY <3>1, <3>2, <3>3, <3>6
  <2>3. Assemble(ranges, total) = [ i \in 1 .. total |-> m[i] ]
    BY <2>2 DEF Assemble
  <2>4. QED
    BY <2>1, <2>3
<1>12. Retain(re, seq, total, frag) =
         IF Covers(ranges, total)
         THEN Inserted("none", ResetMessage(kept, seq), Assemble(ranges, total))
         ELSE Inserted("none", kept, NoMessage)
  BY <1>2, <1>4, <1>5, <1>6, Zenon DEF Retain
<1>13. CASE Covers(ranges, total)
  BY <1>1, <1>10, <1>11, <1>12, <1>13 DEF Inserted
<1>14. CASE ~ Covers(ranges, total)
  BY <1>9, <1>12, <1>14 DEF Inserted
<1>15. QED
  BY <1>13, <1>14

LEMMA InsertParts ==
  ASSUME NEW re, NEW id, NEW log, BuffersParts(re, id, log), IsSequence(log),
         NEW seq, NEW k \in DOMAIN log, Numbered(log, id, seq, k), IsSequence(log[k].payload),
         NEW total, total = Len(log[k].payload), NEW frag, PartOf(frag, log[k].payload)
  PROVE  /\ BuffersParts(Insert(re, seq, total, frag).reassembler, id, log)
         /\ Insert(re, seq, total, frag).message \in { NoMessage, log[k].payload }
<1>1. PICK retain : retain = Retain(re, seq, total, frag)
  OBVIOUS
<1>2. PICK reset : reset = ResetMessage(re, seq)
  OBVIOUS
<1>3. BuffersParts(retain.reassembler, id, log) /\ retain.message \in { NoMessage, log[k].payload }
  BY <1>1, RetainParts
<1>4. BuffersParts(reset, id, log)
  BY <1>2, ResetParts
<1>5. \/ Insert(re, seq, total, frag) = retain
      \/ \E error : Insert(re, seq, total, frag) = Inserted(error, re, NoMessage)
      \/ \E error : Insert(re, seq, total, frag) = Inserted(error, reset, NoMessage)
  BY <1>1, <1>2, Zenon DEF Insert
<1>6. \A error, r : /\ Inserted(error, r, NoMessage).reassembler = r
                    /\ Inserted(error, r, NoMessage).message = NoMessage
  BY DEF Inserted
<1>7. PICK result : result = Insert(re, seq, total, frag)
  OBVIOUS
<1>8. BuffersParts(result.reassembler, id, log) /\ result.message \in { NoMessage, log[k].payload }
  <2>1. CASE result = retain
    BY <1>3, <2>1
  <2>2. ASSUME NEW error, result = Inserted(error, re, NoMessage)
        PROVE  BuffersParts(result.reassembler, id, log) /\ result.message = NoMessage
    BY <1>6, <2>2, Zenon
  <2>3. ASSUME NEW error, result = Inserted(error, reset, NoMessage)
        PROVE  BuffersParts(result.reassembler, id, log) /\ result.message = NoMessage
    BY <1>4, <1>6, <2>3, Zenon
  <2>4. QED
    BY <1>5, <1>7, <2>1, <2>2, <2>3
<1>9. QED
  BY <1>7, <1>8, Zenon

-----------------------------------------------------------------------------
(* Delivery *)

(* The next message of a live channel is counted and told. *)
(* The endpoint that expects the next message of a channel, and the event   *)
(* that this one was delivered.                                            *)
OneMore(e, id) == [ e EXCEPT !.channels[id.number].next_recv_seq = @ + 1 ]

DeliveryOf(id, seq, message) ==
  [ kind |-> "message_delivered", channel |-> id, sequence |-> seq, payload |-> message ]

LEMMA DeliveryMoves ==
  ASSUME NEW e, NEW h, Good(e, h), NEW id, Found(e.channels, id), IsId(id),
         NEW seq, seq = e.channels[id.number].next_recv_seq,
         NEW k \in DOMAIN h.theirs, Numbered(h.theirs, id, seq, k),
         NEW message, message = h.theirs[k].payload, NEW r,
         r = Event(OneMore(e, id), "message_delivered", id, seq, message)
  PROVE  /\ Moved(e, r, h) /\ r.tasks = e.tasks
         /\ r.events = Append(e.events, DeliveryOf(id, seq, message))
<1>1. PICK x : x = DeliveryOf(id, seq, message)
  OBVIOUS
<1>2. x.kind = "message_delivered" /\ x.channel = id /\ x.sequence = seq /\ x.payload = message
  BY <1>1 DEF DeliveryOf
<1>3. PICK n \in Numbers : n = id.number
  BY DEF Found
<1>4. PICK t : t = e.channels
  OBVIOUS
<1>5. PICK s : s = t[n]
  OBVIOUS
<1>6. PICK y : y = [ s EXCEPT !.next_recv_seq = @ + 1 ]
  OBVIOUS
<1>7. PICK u : u = [ t EXCEPT ![n] = y ]
  OBVIOUS
<1>8. PICK c : c = PutChannels(e, u)
  OBVIOUS
<1>9. c = OneMore(e, id)
  BY <1>3, <1>4, <1>5, <1>6, <1>7, <1>8 DEF PutChannels, OneMore
<1>10. /\ e.negotiated /\ s.state \notin { "free", "tombstone" } /\ s.state \in ChannelState
       /\ IsSlot(s) /\ s.generation = id.generation
       /\ BuffersParts(s.reassembler, Key(t, n), h.theirs)
  BY <1>3, <1>4, <1>5, FoundNegotiated
<1>11. id = Key(t, n)
  BY <1>3, <1>5, <1>10 DEF IsId, Key
<1>12. /\ IsSlot(y) /\ y.state = s.state /\ y.generation = s.generation
       /\ y.next_send_seq = s.next_send_seq /\ y.next_recv_seq = s.next_recv_seq + 1
       /\ y.reassembler = s.reassembler
  BY <1>6, <1>10 DEF IsSlot
<1>13. /\ Tabled(t, h.own, h.theirs) /\ Delivered(t, e.events, h.theirs)
       /\ Phased(e.state, e.negotiated, t) /\ Answered(e.events, e.tasks) /\ IsEndpoint(e)
  BY <1>4 DEF Good
<1>14. u[n] = y /\ (\A m \in Numbers : m # n => u[m] = t[m]) /\ u = [ m \in Numbers |-> u[m] ]
  <2>1. t = [ m \in Numbers |-> t[m] ]
    BY <1>13 DEF Tabled
  <2>2. QED
    BY <1>7, <2>1
<1>15. \A m \in Numbers : /\ u[m].generation = t[m].generation
                          /\ u[m].state = t[m].state
                          /\ u[m].next_send_seq = t[m].next_send_seq
                          /\ u[m].reassembler = t[m].reassembler
                          /\ IsSlot(u[m]) /\ Key(u, m) = Key(t, m)
                          /\ u[m].next_recv_seq =
                               IF m = n THEN t[m].next_recv_seq + 1 ELSE t[m].next_recv_seq
  BY <1>5, <1>12, <1>13, <1>14 DEF Key, Tabled
<1>16. Tabled(u, h.own, h.theirs)
  BY <1>13, <1>14, <1>15 DEF Tabled, Used
<1>17. Delivered(u, Append(e.events, x), h.theirs)
  <2>1. x.sequence = t[n].next_recv_seq /\ t[n].state # "free"
    BY <1>2, <1>3, <1>4, <1>5, <1>10
  <2>2. Numbered(h.theirs, x.channel, x.sequence, k) /\ x.payload = h.theirs[k].payload
    BY <1>2
  <2>3. QED
    BY <1>2, <1>11, <1>13, <1>15, <2>1, <2>2, NextDelivered
<1>18. IsSequence(e.events)
  BY <1>13 DEF Delivered
<1>19. Answered(Append(e.events, x), e.tasks)
  BY <1>2, <1>13, <1>18, OtherAnswered
<1>20. PICK more : more = Append(e.events, x)
  OBVIOUS
<1>21. r = PutEvents(c, more)
  <2>1. c.events = e.events
    BY <1>8, PutLeaves
  <2>2. QED
    BY <1>1, <1>9, <1>20, <2>1 DEF Event, PutEvents, DeliveryOf
<1>22. IsEndpoint(c) /\ Fields(c, e.state, e.negotiated, u, e.scheduler, e.window,
                               e.next_frame_seq, e.timers, e.now, e.pong, e.tasks, e.events)
  BY <1>8, <1>13, FieldPut
<1>23. IsEndpoint(r) /\ Fields(r, e.state, e.negotiated, u, e.scheduler, e.window,
                               e.next_frame_seq, e.timers, e.now, e.pong, e.tasks, more)
  <2>1. /\ IsEndpoint(PutEvents(c, more))
        /\ Fields(PutEvents(c, more), c.state, c.negotiated, c.channels, c.scheduler, c.window,
                  c.next_frame_seq, c.timers, c.now, c.pong, c.tasks, more)
    BY <1>22, FieldPut
  <2>2. QED
    BY <1>21, <1>22, <2>1 DEF Fields
<1>24. Phased(e.state, e.negotiated, u)
  BY <1>10, <1>13 DEF Phased
<1>25. Good(r, h)
  BY <1>16, <1>17, <1>19, <1>20, <1>23, <1>24 DEF Good, Fields
<1>26. Final(e, r)
  <2>1. \A m \in Numbers : e.channels[m].state = "tombstone" => r.channels[m] = e.channels[m]
    BY <1>4, <1>5, <1>10, <1>14, <1>23 DEF Fields
  <2>2. r.events = Append(e.events, x)
    BY <1>20, <1>23 DEF Fields
  <2>3. Found(e.channels, id) /\ x.channel = id
    BY <1>2
  <2>4. QED
    BY ONLY <1>18, <2>1, <2>2, <2>3, LiveEventFinal
<1>27. r.tasks = e.tasks /\ r.events = Append(e.events, x)
  BY <1>20, <1>23 DEF Fields
<1>28. QED
  BY <1>1, <1>25, <1>26, <1>27 DEF Moved

LEMMA SubmitOutcome ==
  ASSUME NEW e, NEW h, Good(e, h), NEW task, Executor, Answers(task, e.events, Len(e.events) + 1),
         NoneSince(e.events, e.tasks, task)
  PROVE  Outcome(e, Submit(e, task), h)
<1>1. PICK r : r = PutTasks(e, Append(e.tasks, task))
  OBVIOUS
<1>2. ASSUME ~ (Len(e.tasks) >= ExecutorCapacity) PROVE Moved(e, r, h)
  <2>1. Answered(e.events, e.tasks) /\ Len(e.tasks) \in Nat
    BY SequenceHas DEF Good, Answered
  <2>2. Len(e.tasks) < ExecutorCapacity
    BY <1>2, <2>1, EngineAssumption
  <2>3. Answered(e.events, Append(e.tasks, task))
    BY <2>1, <2>2, TaskQueued
  <2>4. QED
    BY <1>1, <2>3, TasksMove
<1>3. Submit(e, task) = IF Len(e.tasks) >= ExecutorCapacity THEN Failed("would_block", e)
                        ELSE Returned(r, << >>)
  BY <1>1 DEF Submit, PutTasks
<1>4. QED
  BY <1>2, <1>3, Refusal, ReturnedNone, Zenon

LEMMA DeliverOutcome ==
  ASSUME NEW e, NEW h, Good(e, h), NEW id, Found(e.channels, id), IsId(id),
         NEW seq, seq = e.channels[id.number].next_recv_seq,
         NEW k \in DOMAIN h.theirs, Numbered(h.theirs, id, seq, k),
         NEW message, message = h.theirs[k].payload
  PROVE  Outcome(e, Deliver([ e EXCEPT !.channels[id.number].next_recv_seq = @ + 1 ],
                            id, seq, message), h)
<1>1. PICK task : task = [ channel |-> id, sequence |-> seq, payload |-> message ]
  OBVIOUS
<1>2. PICK x : x = DeliveryOf(id, seq, message)
  OBVIOUS
<1>3. /\ task.channel = id /\ task.sequence = seq /\ task.payload = message
      /\ x.kind = "message_delivered" /\ x.channel = id /\ x.sequence = seq /\ x.payload = message
  BY <1>1, <1>2 DEF DeliveryOf
<1>4. PICK c : c = OneMore(e, id)
  OBVIOUS
<1>5. PICK r : r = Event(c, "message_delivered", id, seq, message)
  OBVIOUS
<1>6. Moved(e, r, h) /\ r.tasks = e.tasks /\ r.events = Append(e.events, x)
  BY <1>2, <1>4, <1>5, DeliveryMoves
<1>7. /\ Delivered(e.channels, e.events, h.theirs) /\ Answered(e.events, e.tasks)
      /\ IsSequence(e.events)
  BY DEF Good, Delivered
<1>8. id = Key(e.channels, id.number) /\ id.number \in Numbers
  BY DEF Found, IsId, Key
<1>9. task.sequence = Cardinality(Deliveries(e.events, task.channel)) + 1
  <2>1. e.channels[id.number].next_recv_seq
          = Cardinality(Deliveries(e.events, Key(e.channels, id.number))) + 1
    BY <1>7, <1>8 DEF Delivered
  <2>2. QED
    BY <1>3, <1>8, <2>1
<1>10. NoneSince(e.events, e.tasks, task)
  BY <1>7, <1>9, NewestAnswer
<1>11. PICK l \in Nat : l = Len(e.events)
  BY <1>7, SequenceHas
<1>12. /\ DOMAIN r.events = 1 .. l + 1 /\ DOMAIN e.events = 1 .. l /\ Len(r.events) = l + 1
       /\ r.events[l + 1] = x /\ \A i \in 1 .. l : r.events[i] = e.events[i]
  BY <1>6, <1>7, <1>11, AppendHas, SequenceHas
<1>13. Answers(task, r.events, Len(r.events) + 1)
  BY <1>3, <1>12 DEF Answers
<1>14. NoneSince(r.events, r.tasks, task)
  <2>1. ASSUME NEW i \in DOMAIN r.events, r.events[i].kind = "plugin_response",
               r.events[i].channel = task.channel
        PROVE  r.events[i].sequence < task.sequence
    <3>1. i # l + 1
      BY <1>3, <1>12, <2>1
    <3>2. i \in DOMAIN e.events /\ r.events[i] = e.events[i]
      BY <1>12, <3>1
    <3>3. QED
      BY <1>10, <2>1, <3>2 DEF NoneSince
  <2>2. QED
    BY <1>6, <1>10, <2>1 DEF NoneSince
<1>15. Good(r, h)
  BY <1>6 DEF Moved
<1>16. ASSUME Executor PROVE Outcome(e, Submit(r, task), h)
  BY <1>6, <1>13, <1>14, <1>15, <1>16, SubmitOutcome, OutcomeTwice
<1>17. ASSUME ~ Executor PROVE Outcome(e, CompletePlugin(r, task), h)
  <2>1. r.tasks = << >>
    BY <1>15, <1>17 DEF Good, Answered
  <2>2. DOMAIN r.tasks = {}
    BY <2>1
  <2>3. Outcome(r, CompletePlugin(r, task), h)
    BY <1>13, <1>14, <1>15, <2>2, CompleteOutcome DEF NoneSince
  <2>4. QED
    BY <1>6, <2>3, OutcomeTwice
<1>18. Deliver(c, id, seq, message) = IF Executor THEN Submit(r, task) ELSE CompletePlugin(r, task)
  BY <1>1, <1>5 DEF Deliver
<1>19. Outcome(e, Deliver(OneMore(e, id), id, seq, message), h)
  BY <1>4, <1>16, <1>17, <1>18
<1>20. QED
  BY <1>19, Zenon DEF OneMore

(* A fragment of a message the peer has sent. *)
LEMMA DataOutcome ==
  ASSUME NEW e, NEW h, Good(e, h), LogOK(h.theirs), NEW id, NEW body, CarriesPart(id, body, h.theirs)
  PROVE  Outcome(e, HandleData(e, id, body), h)
<1>1. PICK slot : slot = e.channels[id.number]
  OBVIOUS
<1>2. PICK frag : frag = [ offset |-> body.offset, bytes |-> body.bytes ]
  OBVIOUS
<1>3. PICK result : result = Insert(slot.reassembler, body.sequence, body.total, frag)
  OBVIOUS
<1>4. PICK taken : taken = [ e EXCEPT !.channels[id.number].reassembler = result.reassembler ]
  OBVIOUS
<1>5. PICK delivery : delivery = Deliver([ taken EXCEPT !.channels[id.number].next_recv_seq = @ + 1 ],
                                         id, body.sequence, result.message)
  OBVIOUS
<1>6. HandleData(e, id, body) =
        IF e.state # "active" THEN Failed("not_active", e)
        ELSE IF ~ Found(e.channels, id) THEN Failed("stale_generation", e)
        ELSE IF slot.remote_half_closed THEN Failed("illegal_state", e)
        ELSE IF body.sequence < slot.next_recv_seq THEN Failed("sequence_error", e)
        ELSE IF ~ CanReserve(slot.flow, Len(body.bytes)) THEN Failed("would_block", e)
        ELSE IF result.error # "none" THEN Failed(result.error, taken)
        ELSE IF result.message = NoMessage
          THEN Returned(Schedule(taken, "fragment_gap", id, FragmentGap), << >>)
        ELSE IF ~ InOrder(slot, body.sequence) THEN Failed("sequence_error", taken)
        ELSE delivery
  BY <1>1, <1>2, <1>3, <1>4, <1>5 DEF HandleData
<1>7. ASSUME Found(e.channels, id)
      PROVE  /\ Moved(e, taken, h)
             /\ result.message # NoMessage /\ InOrder(slot, body.sequence) => Outcome(e, delivery, h)
  <2>1. PICK n \in Numbers : n = id.number
    BY <1>7 DEF Found
  <2>2. PICK t : t = e.channels
    OBVIOUS
  <2>3. /\ e.negotiated /\ slot.state \notin { "free", "tombstone" } /\ slot.state \in ChannelState
        /\ slot.state \in LiveState
        /\ IsSlot(slot) /\ slot.generation = id.generation
        /\ BuffersParts(slot.reassembler, Key(t, n), h.theirs)
    BY <1>1, <1>7, <2>1, <2>2, FoundNegotiated
  <2>4. IsId(id) /\ id = Key(t, n) /\ slot = t[n]
    BY <1>1, <2>1, <2>2, <2>3 DEF CarriesPart, IsId, Key
  <2>5. PICK k \in DOMAIN h.theirs :
          /\ Numbered(h.theirs, id, body.sequence, k)
          /\ body.total = Len(h.theirs[k].payload)
          /\ PartOf(body, h.theirs[k].payload)
    BY DEF CarriesPart
  <2>6. IsSequence(h.theirs) /\ IsSequence(h.theirs[k].payload)
    BY DEF LogOK
  <2>7. PartOf(frag, h.theirs[k].payload)
    <3>1. frag.offset = body.offset /\ frag.bytes = body.bytes
      BY <1>2
    <3>2. QED
      BY <2>5, <3>1 DEF PartOf, Positions, RangeEnd, ByteAt
  <2>8. /\ BuffersParts(result.reassembler, id, h.theirs)
        /\ result.message \in { NoMessage, h.theirs[k].payload }
    BY <1>3, <2>3, <2>4, <2>5, <2>6, <2>7, InsertParts
  <2>9. PICK x : x = [ slot EXCEPT !.reassembler = result.reassembler ]
    OBVIOUS
  <2>10. /\ IsSlot(x) /\ x.state = slot.state /\ x.generation = slot.generation
         /\ x.next_send_seq = slot.next_send_seq /\ x.next_recv_seq = slot.next_recv_seq
         /\ x.reassembler = result.reassembler
    BY <2>3, <2>9 DEF IsSlot
  <2>11. PICK u : u = [ t EXCEPT ![n] = x ]
    OBVIOUS
  <2>12. taken = PutChannels(e, u)
    BY <1>1, <1>4, <2>1, <2>2, <2>9, <2>11 DEF PutChannels
  <2>13. Moved(e, PutChannels(e, u), h)
    BY <2>2, <2>3, <2>4, <2>8, <2>10, <2>11, SlotMoves
  <2>14. taken.channels = u
    BY <2>12, PutLeaves
  <2>15. u[n] = x
    <3>1. t = [ m \in Numbers |-> t[m] ]
      BY <2>2 DEF Good, Tabled
    <3>2. QED
      BY <2>11, <3>1
  <2>16. ASSUME result.message # NoMessage, InOrder(slot, body.sequence)
         PROVE  Outcome(e, delivery, h)
    <3>1. result.message = h.theirs[k].payload
      BY <2>8, <2>16
    <3>2. Found(taken.channels, id)
      BY <2>1, <2>3, <2>10, <2>14, <2>15 DEF Found
    <3>3. body.sequence = taken.channels[id.number].next_recv_seq
      BY <2>1, <2>10, <2>14, <2>15, <2>16 DEF InOrder
    <3>4. Moved(e, taken, h) /\ Good(taken, h)
      BY <2>12, <2>13 DEF Moved
    <3>5. PICK message : message = result.message
      OBVIOUS
    <3>6. PICK seq : seq = body.sequence
      OBVIOUS
    <3>7. Outcome(taken, Deliver([ taken EXCEPT !.channels[id.number].next_recv_seq = @ + 1 ],
                                 id, seq, message), h)
      BY <2>4, <2>5, <3>1, <3>2, <3>3, <3>4, <3>5, <3>6, DeliverOutcome
    <3>8. Outcome(taken, delivery, h)
      BY <1>5, <3>5, <3>6, <3>7
    <3>9. QED
      BY <3>4, <3>8, OutcomeTwice
  <2>17. QED
    BY <2>12, <2>13, <2>16
<1>8. ASSUME Found(e.channels, id)
      PROVE  /\ Outcome(e, Failed(result.error, taken), h)
             /\ Outcome(e, Failed("sequence_error", taken), h)
             /\ Outcome(e, Returned(Schedule(taken, "fragment_gap", id, FragmentGap), << >>), h)
  <2>1. Moved(e, taken, h)
    BY <1>7, <1>8
  <2>2. Moved(e, Schedule(taken, "fragment_gap", id, FragmentGap), h)
    BY <2>1, ScheduleAfter DEF TimerKinds
  <2>3. QED
    BY <2>1, <2>2, ReturnedNone
<1>9. QED
  BY <1>6, <1>7, <1>8, Refusal, Zenon

-----------------------------------------------------------------------------
(* The frame handlers *)

LEMMA HelloOutcome ==
  ASSUME NEW e, NEW h, Good(e, h)
  PROVE  Outcome(e, HandleHello(e), h)
<1>1. PICK r : r = [ e EXCEPT !.state = "active", !.negotiated = TRUE, !.channels = InitialTable ]
  OBVIOUS
<1>2. HandleHello(e) =
        IF e.state # "negotiating" THEN Failed("unexpected_hello", e)
        ELSE Returned(Notice(Schedule(r, "idle", ControlId, IdlePing), "negotiated", ControlId), << >>)
  BY <1>1 DEF HandleHello
<1>3. ASSUME e.state = "negotiating" PROVE Moved(e, r, h)
  <2>1. ~ e.negotiated /\ e.channels = InitialTable
    BY <1>3 DEF Good, Phased
  <2>2. IsEndpoint(e)
    BY DEF Good
  <2>3. /\ r.state = "active" /\ r.negotiated = TRUE /\ r.channels = InitialTable
        /\ IsEndpoint(r) /\ r.scheduler = e.scheduler /\ r.window = e.window
        /\ r.timers = e.timers /\ r.now = e.now /\ r.pong = e.pong
        /\ r.tasks = e.tasks /\ r.events = e.events
    BY <1>1, <2>2 DEF IsEndpoint
  <2>4. Phased(r.state, r.negotiated, r.channels)
    BY <2>3 DEF Phased, ConnectionState
  <2>5. Good(r, h)
    BY <2>1, <2>3, <2>4 DEF Good
  <2>6. Final(e, r)
    BY <2>1, <2>3, StayFinal
  <2>7. QED
    BY <2>5, <2>6 DEF Moved
<1>4. ASSUME e.state = "negotiating"
      PROVE  Outcome(e, Returned(Notice(Schedule(r, "idle", ControlId, IdlePing),
                                        "negotiated", ControlId), << >>), h)
  <2>1. Moved(e, Schedule(r, "idle", ControlId, IdlePing), h)
    BY <1>3, <1>4, ScheduleAfter DEF TimerKinds
  <2>2. Moved(e, Notice(Schedule(r, "idle", ControlId, IdlePing), "negotiated", ControlId), h)
    BY <2>1, NoticeAfter
  <2>3. QED
    BY <2>2, ReturnedNone
<1>5. QED
  BY <1>2, <1>4, Refusal, Zenon

LEMMA OpenOutcome ==
  ASSUME NEW e, NEW h, Good(e, h), NEW id
  PROVE  Outcome(e, HandleOpen(e, id), h)
<1>1. PICK accepted : accepted = AcceptRemote(e.channels, id)
  OBVIOUS
<1>2. PICK r : r = PutChannels(e, accepted.table)
  OBVIOUS
<1>3. HandleOpen(e, id) =
        IF e.state # "active" THEN Failed("not_active", e)
        ELSE IF accepted.error # "none" THEN Failed(accepted.error, e)
        ELSE Returned(Notice(r, "channel_opened", id), << >>)
  BY <1>1, <1>2 DEF HandleOpen, PutChannels
<1>4. ASSUME e.state = "active" PROVE Outcome(e, Returned(Notice(r, "channel_opened", id), << >>), h)
  <2>1. e.negotiated
    BY <1>4 DEF Good, Phased
  <2>2. Moved(e, r, h)
    BY <1>1, <1>2, <2>1, AcceptMoves
  <2>3. Moved(e, Notice(r, "channel_opened", id), h)
    BY <2>2, NoticeAfter
  <2>4. QED
    BY <2>3, ReturnedNone
<1>5. QED
  BY <1>3, <1>4, Refusal, Zenon

LEMMA CreditOutcome ==
  ASSUME NEW e, NEW h, Good(e, h), NEW id, NEW amount
  PROVE  Outcome(e, HandleCredit(e, id, amount), h)
<1>1. PICK flow : flow = e.channels[id.number].flow
  OBVIOUS
<1>2. PICK granted : granted = Grant(flow, amount)
  OBVIOUS
<1>3. PICK error : error = GrantError(flow, amount)
  OBVIOUS
<1>4. PICK r : r = [ e EXCEPT !.channels[id.number].flow = granted ]
  OBVIOUS
<1>5. HandleCredit(e, id, amount) =
        IF ~ e.negotiated THEN Failed("illegal_state", e)
        ELSE IF ~ Found(e.channels, id) THEN Failed("stale_generation", e)
        ELSE IF error # "none" THEN Failed(error, e)
        ELSE Returned(r, << >>)
  BY <1>1, <1>2, <1>3, <1>4 DEF HandleCredit
<1>6. ASSUME Found(e.channels, id) PROVE Outcome(e, Returned(r, << >>), h)
  <2>1. Moved(e, r, h)
    BY <1>4, <1>6, FlowMoves
  <2>2. QED
    BY <2>1, ReturnedNone
<1>7. QED
  BY <1>5, <1>6, Refusal, Zenon

LEMMA AckOutcome ==
  ASSUME NEW e, NEW h, Good(e, h), NEW ranges
  PROVE  Outcome(e, HandleAck(e, ranges), h)
<1>1. PICK w : w = RetainedAfter(e.window, ranges)
  OBVIOUS
<1>2. PICK r : r = PutWindow(e, w)
  OBVIOUS
<1>3. HandleAck(e, ranges) =
        IF AckRejected(e.window, ranges) THEN Failed("ack_rejected", e) ELSE Returned(r, << >>)
  BY <1>1, <1>2 DEF HandleAck, PutWindow
<1>4. Kept(w, h.own)
  <2>1. Kept(e.window, h.own)
    BY DEF Good
  <2>2. IsSequence(e.window) /\ Len(e.window) \in Nat
    BY <2>1, SequenceHas DEF Kept
  <2>3. PICK kept \in SUBSET DOMAIN e.window : w = EntriesAt(e.window, kept)
    BY <1>1 DEF RetainedAfter
  <2>4. IsSequence(w) /\ Elements(w) \subseteq Elements(e.window) /\ Len(w) <= Len(e.window)
    BY <2>2, <2>3, EntriesHave
  <2>5. Len(w) \in Nat
    BY <2>4, SequenceHas
  <2>6. Len(w) <= Capacity
    BY <2>1, <2>2, <2>4, <2>5, CapacityAssumption DEF Kept
  <2>7. QED
    BY <2>1, <2>4, <2>6 DEF Kept
<1>5. Moved(e, r, h)
  BY <1>2, <1>4, WindowMoves
<1>6. QED
  BY <1>3, <1>5, ReturnedNone, Refusal, Zenon

LEMMA PongOutcome ==
  ASSUME NEW e, NEW h, Good(e, h), h.clock \in Nat, NEW token
  PROVE  Outcome(e, HandlePong(e, token), h)
<1>1. PICK v : v = AwaitedAfter(e.pong, token)
  OBVIOUS
<1>2. PICK r : r = PutPong(e, v)
  OBVIOUS
<1>3. HandlePong(e, token) = Returned(Event(r, "pong_received", ControlId, token, NoMessage), << >>)
  BY <1>1, <1>2 DEF HandlePong, PutPong
<1>4. Timed(e.timers, e.now, v, h.clock)
  BY <1>1 DEF Good, Timed, AwaitedAfter, NoToken
<1>5. Moved(e, r, h)
  BY <1>2, <1>4, PongMoves
<1>6. Moved(r, Event(r, "pong_received", ControlId, token, NoMessage), h)
  BY <1>5, EventMoves DEF Moved
<1>7. Moved(e, Event(r, "pong_received", ControlId, token, NoMessage), h)
  BY <1>5, <1>6, MovedTwice DEF Moved
<1>8. QED
  BY <1>3, <1>7, ReturnedNone

(* What a RESUME asks for again are frames that were recorded.             *)
LEMMA ResumeOutcome ==
  ASSUME NEW e, NEW h, Good(e, h), NEW first
  PROVE  Outcome(e, HandleResume(e, first), h)
<1>1. PICK suffix : suffix = RetainedFrom(e.window, first)
  OBVIOUS
<1>2. PICK frames : frames = [ i \in DOMAIN suffix |-> suffix[i].frame ]
  OBVIOUS
<1>3. PICK r : r = PutState(e, "active")
  OBVIOUS
<1>4. HandleResume(e, first) =
        IF ~ e.negotiated \/ ~ CanResume(e.window, first) THEN Failed("resume_rejected", e)
        ELSE Returned(Notice(r, "resumed", ControlId), frames)
  BY <1>1, <1>2, <1>3 DEF HandleResume, PutState
<1>5. Carries(frames, h.own)
  <2>1. Kept(e.window, h.own)
    BY DEF Good
  <2>2. PICK kept \in SUBSET DOMAIN e.window : suffix = EntriesAt(e.window, kept)
    BY <1>1 DEF RetainedFrom
  <2>3. IsSequence(suffix) /\ Elements(suffix) \subseteq Elements(e.window)
    BY <2>1, <2>2, EntriesHave DEF Kept
  <2>4. DOMAIN suffix = 1 .. Len(suffix) /\ Len(suffix) \in Nat
        /\ \A i \in DOMAIN suffix : suffix[i] \in Elements(suffix)
    BY <2>3, SequenceHas
  <2>5. \A i \in DOMAIN suffix : Carried(suffix[i].frame, h.own)
    BY <2>1, <2>3, <2>4 DEF Kept
  <2>6. DOMAIN frames = 1 .. Len(suffix) /\ \A i \in 1 .. Len(suffix) : frames[i] = suffix[i].frame
    BY <1>2, <2>4
  <2>7. frames \in [ 1 .. Len(suffix) -> Elements(frames) ]
    BY <1>2, <2>4 DEF Elements
  <2>8. frames \in Seq(Elements(frames))
    BY <2>4, <2>7, SeqDef
  <2>9. QED
    BY <2>4, <2>5, <2>6, <2>8 DEF Carries, IsSequence, Elements
<1>6. ASSUME e.negotiated PROVE Outcome(e, Returned(Notice(r, "resumed", ControlId), frames), h)
  <2>1. Phased("active", e.negotiated, e.channels)
    BY <1>6 DEF Good, Phased, ConnectionState
  <2>2. Moved(e, r, h)
    BY <1>3, <2>1, StateMoves
  <2>3. Moved(e, Notice(r, "resumed", ControlId), h)
    BY <2>2, NoticeAfter
  <2>4. QED
    BY <1>5, <2>3, ReturnedIs
<1>7. QED
  BY <1>4, <1>6, Refusal, Zenon

LEMMA PeerHalfCloseOutcome ==
  ASSUME NEW e, NEW h, Good(e, h), NEW id, NEW direction
  PROVE  Outcome(e, HandleHalfClose(e, id, direction), h)
<1>1. PICK close : close = HalfClose(e.channels, id, Opposite(direction))
  OBVIOUS
<1>2. PICK r : r = PutChannels(e, close.table)
  OBVIOUS
<1>3. HandleHalfClose(e, id, direction) =
        IF ~ e.negotiated THEN Failed("illegal_state", e)
        ELSE IF close.error # "none" THEN Failed(close.error, e)
        ELSE Returned(Notice(r, "half_closed", id), << >>)
  BY <1>1, <1>2 DEF HandleHalfClose, PutChannels
<1>4. Moved(e, r, h)
  BY <1>1, <1>2, HalfCloseMoves
<1>5. Moved(e, Notice(r, "half_closed", id), h)
  BY <1>4, NoticeAfter
<1>6. QED
  BY <1>3, <1>5, ReturnedNone, Refusal, Zenon

LEMMA PeerResetOutcome ==
  ASSUME NEW e, NEW h, Good(e, h), NEW id
  PROVE  Moved(e, Notice([ e EXCEPT !.channels = Reset(@, id).table ], "channel_reset", id), h)
         /\ Outcome(e, HandleReset(e, id), h)
<1>1. PICK table : table = Reset(e.channels, id).table
  OBVIOUS
<1>2. PICK r : r = PutChannels(e, table)
  OBVIOUS
<1>3. [ e EXCEPT !.channels = Reset(@, id).table ] = r
  BY <1>1, <1>2 DEF PutChannels
<1>4. Moved(e, r, h)
  BY <1>1, <1>2, ResetMoves
<1>5. Moved(e, Notice(r, "channel_reset", id), h)
  BY <1>4, NoticeAfter
<1>6. QED
  BY <1>3, <1>5, ReturnedNone, Zenon DEF HandleReset

LEMMA PeerGoAwayOutcome ==
  ASSUME NEW e, NEW h, Good(e, h), NEW id
  PROVE  Outcome(e, HandleGoAway(e, id), h)
<1>1. PICK r : r = [ e EXCEPT !.state = "draining" ]
  OBVIOUS
<1>2. Moved(e, r, h)
  BY <1>1, EndMoves DEF PutState
<1>3. Moved(e, Schedule(r, "drain", ControlId, DrainTimeout), h)
  BY <1>2, ScheduleAfter DEF TimerKinds
<1>4. Moved(e, Notice(Schedule(r, "drain", ControlId, DrainTimeout), "closed", id), h)
  BY <1>3, NoticeAfter
<1>5. HandleGoAway(e, id) =
        Returned(Notice(Schedule(r, "drain", ControlId, DrainTimeout), "closed", id), << >>)
  BY <1>1 DEF HandleGoAway
<1>6. QED
  BY <1>4, <1>5, ReturnedNone

LEMMA FrameOutcome ==
  ASSUME NEW e, NEW h, Good(e, h), PastOK(h), NEW frame, Carried(frame, h.theirs)
  PROVE  Outcome(e, HandleFrame(e, frame), h)
<1>1. frame.type \in FrameTypes /\ LogOK(h.theirs) /\ h.clock \in Nat
  BY DEF Carried, PastOK
<1>2. CASE frame.type = "hello"
  <2>1. HandleFrame(e, frame) = HandleHello(e)
    BY <1>2 DEF HandleFrame
  <2>2. QED
    BY <2>1, HelloOutcome
<1>3. CASE frame.type = "open"
  <2>1. HandleFrame(e, frame) = HandleOpen(e, frame.channel)
    BY <1>3 DEF HandleFrame
  <2>2. QED
    BY <2>1, OpenOutcome
<1>4. CASE frame.type = "data"
  <2>1. HandleFrame(e, frame) = HandleData(e, frame.channel, frame.body)
    BY <1>4 DEF HandleFrame
  <2>2. CarriesPart(frame.channel, frame.body, h.theirs)
    BY <1>4 DEF Carried
  <2>3. QED
    BY <1>1, <2>1, <2>2, DataOutcome
<1>5. CASE frame.type = "ack"
  <2>1. HandleFrame(e, frame) = HandleAck(e, frame.body)
    BY <1>5 DEF HandleFrame
  <2>2. QED
    BY <2>1, AckOutcome
<1>6. CASE frame.type = "credit"
  <2>1. HandleFrame(e, frame) = HandleCredit(e, frame.channel, frame.body)
    BY <1>6 DEF HandleFrame
  <2>2. QED
    BY <2>1, CreditOutcome
<1>7. CASE frame.type = "ping"
  <2>1. HandleFrame(e, frame) = HandlePing(e, frame.body)
    BY <1>7 DEF HandleFrame
  <2>2. QED
    BY <2>1, FrameOutcomes
<1>8. CASE frame.type = "pong"
  <2>1. HandleFrame(e, frame) = HandlePong(e, frame.body)
    BY <1>8 DEF HandleFrame
  <2>2. QED
    BY <1>1, <2>1, PongOutcome
<1>9. CASE frame.type = "resume"
  <2>1. HandleFrame(e, frame) = HandleResume(e, frame.body)
    BY <1>9 DEF HandleFrame
  <2>2. QED
    BY <2>1, ResumeOutcome
<1>10. CASE frame.type = "half_close"
  <2>1. HandleFrame(e, frame) = HandleHalfClose(e, frame.channel, frame.body)
    BY <1>10 DEF HandleFrame
  <2>2. QED
    BY <2>1, PeerHalfCloseOutcome
<1>11. CASE frame.type = "reset"
  <2>1. HandleFrame(e, frame) = HandleReset(e, frame.channel)
    BY <1>11 DEF HandleFrame
  <2>2. QED
    BY <2>1, PeerResetOutcome
<1>12. CASE frame.type = "goaway"
  <2>1. HandleFrame(e, frame) = HandleGoAway(e, frame.channel)
    BY <1>12 DEF HandleFrame
  <2>2. QED
    BY <2>1, PeerGoAwayOutcome
<1>13. QED
  BY <1>1, <1>2, <1>3, <1>4, <1>5, <1>6, <1>7, <1>8, <1>9, <1>10, <1>11, <1>12 DEF FrameTypes

(* One frame of a chunk *)
LEMMA HandledOutcome ==
  ASSUME NEW e, NEW h, PastOK(h), NEW got, Outcome(e, got, h), NEW frame, Carried(frame, h.theirs)
  PROVE  Outcome(e, Handled(got, frame), h)
<1>1. PICK r : r = HandleFrame(got.endpoint, frame)
  OBVIOUS
<1>2. PICK state : state = IF r.error \in Fatal THEN "closed" ELSE r.endpoint.state
  OBVIOUS
<1>3. PICK ended : ended = PutState(r.endpoint, state)
  OBVIOUS
<1>4. Handled(got, frame) =
        IF got.error # "none" THEN got
        ELSE IF r.error = "none" THEN Returned(r.endpoint, got.out \o r.out)
        ELSE Failed(r.error, Notice(ended, "diagnostic", ControlId))
  BY <1>1, <1>2, <1>3 DEF Handled, PutState
<1>5. Moved(e, got.endpoint, h) /\ Good(got.endpoint, h) /\ Carries(got.out, h.own)
  BY DEF Outcome, Moved
<1>6. Outcome(got.endpoint, r, h)
  BY <1>1, <1>5, FrameOutcome
<1>7. Outcome(e, r, h)
  BY <1>5, <1>6, OutcomeTwice
<1>8. Moved(e, r.endpoint, h) /\ Good(r.endpoint, h) /\ Carries(r.out, h.own)
  BY <1>7 DEF Outcome, Moved
<1>9. Carries(got.out \o r.out, h.own)
  BY <1>5, <1>8, ConcatHas DEF Carries
<1>10. Outcome(e, Returned(r.endpoint, got.out \o r.out), h)
  BY <1>8, <1>9, ReturnedIs
<1>11. Moved(r.endpoint, ended, h)
  <2>1. Phased(r.endpoint.state, r.endpoint.negotiated, r.endpoint.channels)
    BY <1>8 DEF Good
  <2>2. Phased(state, r.endpoint.negotiated, r.endpoint.channels)
    BY <1>2, <2>1 DEF Phased, ConnectionState
  <2>3. QED
    BY <1>3, <1>8, <2>2, StateMoves
<1>12. Moved(e, ended, h)
  BY <1>8, <1>11, MovedTwice DEF Moved
<1>13. Moved(e, Notice(ended, "diagnostic", ControlId), h)
  BY <1>12, NoticeAfter
<1>14. Outcome(e, Failed(r.error, Notice(ended, "diagnostic", ControlId)), h)
  BY <1>13, ReturnedNone
<1>15. QED
  BY <1>4, <1>10, <1>14, Zenon

-----------------------------------------------------------------------------
(* Calls that take one step after the other.  Their recursive functions    *)
(* are there: one step of a call of any of the three kinds, and a function *)
(* that takes the steps.                                                   *)

OneStep(kind, got, x, id) ==
  IF kind = "emit" THEN EmitNext(got, id, x)
  ELSE IF kind = "receive" THEN Handled(got, x)
  ELSE Ticked(got, x)

Stepped(f, kind, first, xs, id, n) ==
  /\ f = [ i \in 0 .. n |-> f[i] ]
  /\ f[0] = first
  /\ \A i \in 1 .. n : f[i] = OneStep(kind, f[i - 1], xs[i], id)

LEMMA SteppedDefined ==
  ASSUME NEW kind, NEW first, NEW xs, Len(xs) \in Nat, NEW id
  PROVE  \E f : Stepped(f, kind, first, xs, id, Len(xs))
<1>0. PICK N \in Nat : N = Len(xs)
  OBVIOUS
<1> DEFINE G == { n \in 0 .. N : \E f : Stepped(f, kind, first, xs, id, n) }
<1>1. 0 \in G
  <2>1. PICK f : f = [ i \in 0 .. 0 |-> first ]
    OBVIOUS
  <2>2. Stepped(f, kind, first, xs, id, 0)
    BY <2>1 DEF Stepped
  <2>3. QED
    BY <2>2
<1>2. ASSUME NEW n \in 1 .. N, n - 1 \in G PROVE n \in G
  <2>0. n \in Nat /\ n # 0 /\ n - 1 \in Nat
    BY <1>2
  <2>1. PICK g : Stepped(g, kind, first, xs, id, n - 1)
    BY <1>2
  <2> HIDE DEF G
  <2>2. PICK last : last = OneStep(kind, g[n - 1], xs[n], id)
    OBVIOUS
  <2>3. PICK f : f = [ i \in 0 .. n |-> IF i = n THEN last ELSE g[i] ]
    OBVIOUS
  <2>4. /\ f = [ i \in 0 .. n |-> f[i] ] /\ f[n] = last
        /\ \A i \in 0 .. n - 1 : f[i] = g[i]
    BY <2>0, <2>3
  <2> HIDE <2>3
  <2>5. f[0] = first
    <3>1. 0 \in 0 .. n - 1 /\ g[0] = first
      BY <2>0, <2>1 DEF Stepped
    <3>2. QED
      BY <2>4, <3>1
  <2>6. ASSUME NEW i \in 1 .. n PROVE f[i] = OneStep(kind, f[i - 1], xs[i], id)
    <3>0. i \in Nat /\ i # 0 /\ i <= n
      BY <2>0
    <3>1. i - 1 \in 0 .. n - 1 /\ f[i - 1] = g[i - 1]
      <4>1. i - 1 \in 0 .. n - 1
        BY <2>0, <3>0
      <4>2. QED
        BY <2>4, <4>1
    <3>2. CASE i = n
      BY <2>2, <2>4, <3>1, <3>2, Zenon
    <3>3. CASE i # n
      <4>0. i \in 1 .. n - 1 /\ i \in 0 .. n - 1
        BY <2>0, <3>0, <3>3
      <4>1. i \in 1 .. n - 1 /\ f[i] = g[i]
        BY <2>4, <4>0
      <4>2. g[i] = OneStep(kind, g[i - 1], xs[i], id)
        BY <2>1, <4>1 DEF Stepped
      <4>3. QED
        BY <3>1, <4>1, <4>2, Zenon
    <3>4. QED
      BY <3>2, <3>3
  <2>7. Stepped(f, kind, first, xs, id, n)
    BY <2>4, <2>5, <2>6 DEF Stepped
  <2>8. QED
    BY <2>0, <2>7 DEF G
<1>3. N \in G
  <2> HIDE DEF G
  <2>1. \A i \in 1 .. N : i - 1 \in G => i \in G
    BY <1>2
  <2>2. \A i \in 0 .. N : i \in G
    BY <1>1, <2>1, UpTo
  <2>3. QED
    BY <2>2
<1>4. QED
  BY <1>0, <1>3

LEMMA EmitAllIs ==
  ASSUME NEW e, NEW id, NEW bodies, Len(bodies) \in Nat
  PROVE  \E after :
           /\ EmitAll(e, id, bodies) = after[Len(bodies)]
           /\ after[0] = Returned(e, << >>)
           /\ \A i \in 1 .. Len(bodies) : after[i] = EmitNext(after[i - 1], id, bodies[i])
<1> DEFINE P(f) == f = [ i \in 0 .. Len(bodies) |->
                           IF i = 0 THEN Returned(e, << >>) ELSE EmitNext(f[i - 1], id, bodies[i]) ]
<1>1. PICK g : Stepped(g, "emit", Returned(e, << >>), bodies, id, Len(bodies))
  BY SteppedDefined
<1>2. \A i \in 0 .. Len(bodies) :
        g[i] = IF i = 0 THEN Returned(e, << >>) ELSE EmitNext(g[i - 1], id, bodies[i])
  <2>1. \A i \in 1 .. Len(bodies) : g[i] = EmitNext(g[i - 1], id, bodies[i])
    BY <1>1 DEF Stepped, OneStep
  <2>2. g[0] = Returned(e, << >>)
    BY <1>1 DEF Stepped
  <2>3. \A i \in 0 .. Len(bodies) : i = 0 \/ i \in 1 .. Len(bodies)
    OBVIOUS
  <2>4. QED
    BY <2>1, <2>2, <2>3, Zenon
<1>3. [ i \in 0 .. Len(bodies) |-> g[i] ] =
        [ i \in 0 .. Len(bodies) |->
            IF i = 0 THEN Returned(e, << >>) ELSE EmitNext(g[i - 1], id, bodies[i]) ]
  BY <1>2, Zenon
<1>4. P(g)
  BY <1>1, <1>3, Zenon DEF Stepped
<1>5. PICK after : after = CHOOSE f : P(f)
  OBVIOUS
<1>6. P(after)
  BY <1>4, <1>5, Zenon
<1>7. EmitAll(e, id, bodies) = after[Len(bodies)]
  BY <1>5, Zenon DEF EmitAll
<1>8. \A i \in 0 .. Len(bodies) :
        after[i] = IF i = 0 THEN Returned(e, << >>) ELSE EmitNext(after[i - 1], id, bodies[i])
  <2>1. PICK g2 : g2 = [ i \in 0 .. Len(bodies) |->
                   IF i = 0 THEN Returned(e, << >>) ELSE EmitNext(after[i - 1], id, bodies[i]) ]
    OBVIOUS
  <2>2. \A i \in 0 .. Len(bodies) :
          g2[i] = IF i = 0 THEN Returned(e, << >>) ELSE EmitNext(after[i - 1], id, bodies[i])
    BY <2>1, Zenon
  <2>3. after = g2
    BY <1>6, <2>1, Zenon
  <2>4. QED
    BY <2>2, <2>3, Zenon
<1> HIDE <1>5, <1>6 DEF P
<1>9. after[0] = Returned(e, << >>)
  BY <1>8
<1>10. \A i \in 1 .. Len(bodies) : after[i] = EmitNext(after[i - 1], id, bodies[i])
  BY <1>8
<1>11. QED
  BY <1>7, <1>9, <1>10

LEMMA ReceiveIs ==
  ASSUME NEW e, NEW frames, Len(frames) \in Nat
  PROVE  \E after :
           /\ Receive(e, frames) = after[Len(frames)]
           /\ after[0] = Returned(e, << >>)
           /\ \A i \in 1 .. Len(frames) : after[i] = Handled(after[i - 1], frames[i])
<1> DEFINE P(f) == f = [ i \in 0 .. Len(frames) |->
                           IF i = 0 THEN Returned(e, << >>) ELSE Handled(f[i - 1], frames[i]) ]
<1>1. PICK g : Stepped(g, "receive", Returned(e, << >>), frames, 0, Len(frames))
  BY SteppedDefined
<1>2. \A i \in 0 .. Len(frames) :
        g[i] = IF i = 0 THEN Returned(e, << >>) ELSE Handled(g[i - 1], frames[i])
  <2>1. \A i \in 1 .. Len(frames) : g[i] = Handled(g[i - 1], frames[i])
    BY <1>1 DEF Stepped, OneStep
  <2>2. g[0] = Returned(e, << >>)
    BY <1>1 DEF Stepped
  <2>3. \A i \in 0 .. Len(frames) : i = 0 \/ i \in 1 .. Len(frames)
    OBVIOUS
  <2>4. QED
    BY <2>1, <2>2, <2>3, Zenon
<1>3. [ i \in 0 .. Len(frames) |-> g[i] ] =
        [ i \in 0 .. Len(frames) |->
            IF i = 0 THEN Returned(e, << >>) ELSE Handled(g[i - 1], frames[i]) ]
  BY <1>2, Zenon
<1>4. P(g)
  BY <1>1, <1>3, Zenon DEF Stepped
<1>5. PICK after : after = CHOOSE f : P(f)
  OBVIOUS
<1>6. P(after)
  BY <1>4, <1>5, Zenon
<1>7. Receive(e, frames) = after[Len(frames)]
  BY <1>5, Zenon DEF Receive
<1>8. \A i \in 0 .. Len(frames) :
        after[i] = IF i = 0 THEN Returned(e, << >>) ELSE Handled(after[i - 1], frames[i])
  <2>1. PICK g2 : g2 = [ i \in 0 .. Len(frames) |->
                   IF i = 0 THEN Returned(e, << >>) ELSE Handled(after[i - 1], frames[i]) ]
    OBVIOUS
  <2>2. \A i \in 0 .. Len(frames) :
          g2[i] = IF i = 0 THEN Returned(e, << >>) ELSE Handled(after[i - 1], frames[i])
    BY <2>1, Zenon
  <2>3. after = g2
    BY <1>6, <2>1, Zenon
  <2>4. QED
    BY <2>2, <2>3, Zenon
<1> HIDE <1>5, <1>6 DEF P
<1>9. after[0] = Returned(e, << >>)
  BY <1>8
<1>10. \A i \in 1 .. Len(frames) : after[i] = Handled(after[i - 1], frames[i])
  BY <1>8
<1>11. QED
  BY <1>7, <1>9, <1>10

(* The timers that are due have left the wheel. *)
Begun(e, now) == Returned([ e EXCEPT !.now = now, !.timers = DueAfter(@, now) ], << >>)

LEMMA AdvanceTimeIs ==
  ASSUME NEW e, NEW now, NEW due, due = DueBy(e.timers, now), Len(due) \in Nat,
         NEW first, first = Begun(e, now)
  PROVE  \E after :
           /\ AdvanceTime(e, now) = after[Len(due)]
           /\ after[0] = first
           /\ \A i \in 1 .. Len(due) : after[i] = Ticked(after[i - 1], due[i])
<1> DEFINE P(f) == f = [ i \in 0 .. Len(due) |->
                           IF i = 0 THEN first ELSE Ticked(f[i - 1], due[i]) ]
<1>1. PICK g : Stepped(g, "tick", first, due, 0, Len(due))
  BY SteppedDefined
<1>2. \A i \in 0 .. Len(due) :
        g[i] = IF i = 0 THEN first ELSE Ticked(g[i - 1], due[i])
  <2>1. \A i \in 1 .. Len(due) : g[i] = Ticked(g[i - 1], due[i])
    BY <1>1 DEF Stepped, OneStep
  <2>2. g[0] = first
    BY <1>1 DEF Stepped
  <2>3. \A i \in 0 .. Len(due) : i = 0 \/ i \in 1 .. Len(due)
    OBVIOUS
  <2>4. QED
    BY <2>1, <2>2, <2>3, Zenon
<1>3. [ i \in 0 .. Len(due) |-> g[i] ] =
        [ i \in 0 .. Len(due) |->
            IF i = 0 THEN first ELSE Ticked(g[i - 1], due[i]) ]
  BY <1>2, Zenon
<1>4. P(g)
  BY <1>1, <1>3, Zenon DEF Stepped
<1>5. PICK after : after = CHOOSE f : P(f)
  OBVIOUS
<1>6. P(after)
  BY <1>4, <1>5, Zenon
<1>7. AdvanceTime(e, now) = after[Len(due)]
  BY <1>5, Zenon DEF AdvanceTime, Begun
<1>8. \A i \in 0 .. Len(due) :
        after[i] = IF i = 0 THEN first ELSE Ticked(after[i - 1], due[i])
  <2>1. PICK g2 : g2 = [ i \in 0 .. Len(due) |->
                   IF i = 0 THEN first ELSE Ticked(after[i - 1], due[i]) ]
    OBVIOUS
  <2>2. \A i \in 0 .. Len(due) :
          g2[i] = IF i = 0 THEN first ELSE Ticked(after[i - 1], due[i])
    BY <2>1, Zenon
  <2>3. after = g2
    BY <1>6, <2>1, Zenon
  <2>4. QED
    BY <2>2, <2>3, Zenon
<1> HIDE <1>5, <1>6 DEF P
<1>9. after[0] = first
  BY <1>8
<1>10. \A i \in 1 .. Len(due) : after[i] = Ticked(after[i - 1], due[i])
  BY <1>8
<1>11. QED
  BY <1>7, <1>9, <1>10

-----------------------------------------------------------------------------
(* What the calls of several steps come to *)

LEMMA ReceiveOutcome ==
  ASSUME NEW e, NEW h, Good(e, h), PastOK(h), NEW frames, Carries(frames, h.theirs)
  PROVE  Outcome(e, Receive(e, frames), h)
<1>1. PICK n \in Nat : n = Len(frames)
  BY SequenceHas DEF Carries
<1>2. \A i \in 1 .. n : Carried(frames[i], h.theirs)
  BY <1>1, SequenceHas DEF Carries
<1>3. PICK after : /\ Receive(e, frames) = after[n]
                   /\ after[0] = Returned(e, << >>)
                   /\ \A i \in 1 .. n : after[i] = Handled(after[i - 1], frames[i])
  BY <1>1, ReceiveIs
<1> DEFINE G == { i \in 0 .. n : Outcome(e, after[i], h) }
<1>4. 0 \in G
  <2>1. Outcome(e, Returned(e, << >>), h)
    BY Refusal
  <2>2. QED
    BY <1>3, <2>1
<1>5. ASSUME NEW i \in 1 .. n, i - 1 \in G PROVE i \in G
  <2>1. Outcome(e, Handled(after[i - 1], frames[i]), h)
    BY <1>2, <1>5, HandledOutcome
  <2>2. QED
    BY <1>3, <2>1
<1> HIDE DEF G
<1>6. \A i \in 0 .. n : i \in G
  BY <1>4, <1>5, UpTo
<1>7. n \in G
  BY <1>6
<1>8. QED
  BY <1>3, <1>7 DEF G

LEMMA TimeoutMoves ==
  ASSUME NEW e, NEW h, Good(e, h)
  PROVE  /\ Moved(e, Timeout(e).endpoint, h)
         /\ Outcome(e, Timeout(e), h)
<1>1. PICK r : r = [ e EXCEPT !.state = "closed" ]
  OBVIOUS
<1>2. Moved(e, r, h)
  BY <1>1, EndMoves DEF PutState
<1>3. Moved(e, Notice(r, "diagnostic", ControlId), h)
  BY <1>2, NoticeAfter
<1>4. Timeout(e) = Failed("timeout", Notice(r, "diagnostic", ControlId))
  BY <1>1 DEF Timeout
<1>5. QED
  BY <1>3, <1>4, ReturnedNone DEF Failed

LEMMA IdleOutcome ==
  ASSUME NEW e, NEW h, Good(e, h), h.clock \in Nat
  PROVE  Outcome(e, IdleExpired(e), h)
<1>1. PICK token : token = Max({ 1, e.now })
  OBVIOUS
<1>2. PICK r : r = PutPong(e, token)
  OBVIOUS
<1>3. PICK result : result = PingCall(r, token)
  OBVIOUS
<1>4. PICK awaited : awaited = Schedule(result.endpoint, "pong_deadline", ControlId, PongTimeout)
  OBVIOUS
<1>5. IdleExpired(e) =
        IF result.error # "none" THEN result
        ELSE Returned(Schedule(awaited, "idle", ControlId, IdlePing), result.out)
  BY <1>1, <1>2, <1>3, <1>4 DEF IdleExpired, PutPong
<1>6. e.now \in 0 .. h.clock
  BY DEF Good, Timed
<1>7. token \in { 1, e.now }
  <2>1. \E m \in { 1, e.now } : \A x \in { 1, e.now } : m >= x
    BY <1>6
  <2>2. QED
    BY <1>1, <2>1 DEF Max
<1>8. Timed(e.timers, e.now, token, h.clock)
  BY <1>6, <1>7 DEF Good, Timed
<1>9. Moved(e, r, h)
  BY <1>2, <1>8, PongMoves
<1>10. Outcome(r, result, h)
  BY <1>3, <1>9, FrameOutcomes DEF Moved
<1>11. Outcome(e, result, h)
  BY <1>9, <1>10, OutcomeTwice
<1>12. Moved(e, result.endpoint, h) /\ Carries(result.out, h.own)
  BY <1>11 DEF Outcome
<1>13. Moved(e, awaited, h)
  BY <1>4, <1>12, ScheduleAfter DEF TimerKinds
<1>14. Moved(e, Schedule(awaited, "idle", ControlId, IdlePing), h)
  BY <1>13, ScheduleAfter DEF TimerKinds
<1>15. Outcome(e, Returned(Schedule(awaited, "idle", ControlId, IdlePing), result.out), h)
  BY <1>12, <1>14, ReturnedIs
<1>16. QED
  BY <1>5, <1>11, <1>15, Zenon

LEMMA ExpiredOutcome ==
  ASSUME NEW e, NEW h, Good(e, h), h.clock \in Nat, NEW timer, timer.kind \in TimerKinds
  PROVE  Outcome(e, Expired(e, timer), h)
<1>1. CASE timer.kind = "handshake"
  <2>1. Expired(e, timer) = IF e.state = "negotiating" THEN Timeout(e) ELSE Returned(e, << >>)
    BY <1>1 DEF Expired
  <2>2. QED
    BY <2>1, TimeoutMoves, Refusal, Zenon
<1>2. CASE timer.kind = "idle"
  <2>1. Expired(e, timer) = IdleExpired(e)
    BY <1>2 DEF Expired
  <2>2. QED
    BY <2>1, IdleOutcome
<1>3. CASE timer.kind = "pong_deadline"
  <2>1. Expired(e, timer) =
          IF e.pong = NoToken THEN Returned(e, << >>)
          ELSE Failed("timeout", Notice(Timeout(e).endpoint, "closed", ControlId))
    BY <1>3 DEF Expired
  <2>2. Moved(e, Notice(Timeout(e).endpoint, "closed", ControlId), h)
    BY TimeoutMoves, NoticeAfter
  <2>3. QED
    BY <2>1, <2>2, ReturnedNone, Refusal, Zenon
<1>4. CASE timer.kind = "drain"
  <2>1. PICK r : r = [ e EXCEPT !.state = "closed" ]
    OBVIOUS
  <2>2. Expired(e, timer) =
          IF e.state # "draining" THEN Returned(e, << >>)
          ELSE Returned(Notice(r, "closed", ControlId), << >>)
    BY <1>4, <2>1 DEF Expired
  <2>3. Moved(e, r, h)
    BY <2>1, EndMoves DEF PutState
  <2>4. Moved(e, Notice(r, "closed", ControlId), h)
    BY <2>3, NoticeAfter
  <2>5. QED
    BY <2>2, <2>4, ReturnedNone, Refusal, Zenon
<1>5. CASE timer.kind = "fragment_gap"
  <2>1. PICK r : r = Notice([ e EXCEPT !.channels = Reset(@, timer.channel).table ],
                            "channel_reset", timer.channel)
    OBVIOUS
  <2>2. Expired(e, timer) = Returned(r, << >>)
    BY <1>5, <2>1 DEF Expired
  <2>3. Moved(e, r, h)
    BY <2>1, PeerResetOutcome
  <2>4. QED
    BY <2>2, <2>3, ReturnedNone
<1>6. QED
  BY <1>1, <1>2, <1>3, <1>4, <1>5 DEF TimerKinds

LEMMA TickedOutcome ==
  ASSUME NEW e, NEW h, h.clock \in Nat, NEW got, Outcome(e, got, h),
         NEW timer, timer.kind \in TimerKinds
  PROVE  Outcome(e, Ticked(got, timer), h)
<1>1. PICK seen : seen = Notice(got.endpoint, "timer_expired", timer.channel)
  OBVIOUS
<1>2. PICK result : result = Expired(seen, timer)
  OBVIOUS
<1>3. Ticked(got, timer) =
        IF got.error # "none" THEN got
        ELSE IF seen.state = "closed" THEN Returned(seen, got.out)
        ELSE Continued(got.out, result)
  BY <1>1, <1>2 DEF Ticked
<1>4. Moved(e, got.endpoint, h) /\ Carries(got.out, h.own)
  BY DEF Outcome
<1>5. Moved(e, seen, h)
  BY <1>1, <1>4, NoticeAfter
<1>6. Outcome(seen, result, h)
  BY <1>2, <1>5, ExpiredOutcome DEF Moved
<1>7. Outcome(e, result, h)
  BY <1>5, <1>6, OutcomeTwice
<1>8. Outcome(e, Continued(got.out, result), h)
  BY <1>4, <1>7, ContinuedIs
<1>9. Outcome(e, Returned(seen, got.out), h)
  BY <1>4, <1>5, ReturnedIs
<1>10. QED
  BY <1>3, <1>8, <1>9, Zenon

LEMMA AdvanceOutcome ==
  ASSUME NEW e, NEW h, Good(e, h), h.clock \in Nat, NEW now \in 0 .. h.clock
  PROVE  Outcome(e, AdvanceTime(e, now), h)
<1>1. PICK due : due = DueBy(e.timers, now)
  OBVIOUS
<1>2. PICK left : left = DueAfter(e.timers, now)
  OBVIOUS
<1>3. PICK r : r = PutTimers(PutNow(e, now), left)
  OBVIOUS
<1>4. Timed(e.timers, e.now, e.pong, h.clock)
  BY DEF Good
<1>5. IsSequence(e.timers) /\ \A x \in Elements(e.timers) : x.kind \in TimerKinds
  BY <1>4 DEF Timed
<1>6. /\ IsSequence(due) /\ Elements(due) \subseteq Elements(e.timers)
      /\ IsSequence(left) /\ Elements(left) \subseteq Elements(e.timers)
  BY <1>1, <1>2, <1>5, EntriesHave DEF DueBy, DueAfter
<1>7. r = [ e EXCEPT !.now = now, !.timers = DueAfter(@, now) ]
  <2>1. IsEndpoint(e)
    BY DEF Good
  <2>2. PICK b : b = PutNow(e, now)
    OBVIOUS
  <2>3. IsEndpoint(b) /\ Fields(b, e.state, e.negotiated, e.channels, e.scheduler, e.window,
          e.next_frame_seq, e.timers, now, e.pong, e.tasks, e.events)
    BY <2>1, <2>2, FieldPut
  <2>4. r = PutTimers(b, left)
    BY <1>3, <2>2
  <2>5. IsEndpoint(r) /\ Fields(r, e.state, e.negotiated, e.channels, e.scheduler, e.window,
          e.next_frame_seq, left, now, e.pong, e.tasks, e.events)
    <3>1. IsEndpoint(r) /\ Fields(r, b.state, b.negotiated, b.channels, b.scheduler, b.window,
            b.next_frame_seq, left, b.now, b.pong, b.tasks, b.events)
      BY <2>3, <2>4, FieldPut
    <3>2. QED
      BY <2>3, <3>1 DEF Fields
  <2>6. PICK q : q = [ e EXCEPT !.now = now, !.timers = DueAfter(@, now) ]
    OBVIOUS
  <2>7. IsEndpoint(q) /\ Fields(q, e.state, e.negotiated, e.channels, e.scheduler, e.window,
          e.next_frame_seq, left, now, e.pong, e.tasks, e.events)
    BY <1>2, <2>1, <2>6 DEF IsEndpoint, Fields
  <2>8. r = q
    BY <2>5, <2>7 DEF IsEndpoint, Fields
  <2>9. QED
    BY <2>6, <2>8
<1>8. Moved(e, r, h)
  <2>1. PICK b : b = PutNow(e, now)
    OBVIOUS
  <2>2. Timed(e.timers, now, e.pong, h.clock)
    BY <1>4 DEF Timed
  <2>3. Moved(e, b, h)
    BY <2>1, <2>2, NowMoves
  <2>4. Timed(b.timers, b.now, b.pong, h.clock)
    BY <2>3 DEF Moved, Good
  <2>5. Timed(left, b.now, b.pong, h.clock)
    BY <1>5, <1>6, <2>4 DEF Timed
  <2>6. Moved(b, PutTimers(b, left), h)
    BY <2>3, <2>5, TimersMove DEF Moved
  <2>7. QED
    BY <1>3, <2>1, <2>3, <2>6, MovedTwice DEF Moved
<1>9. PICK n \in Nat : n = Len(due)
  BY <1>6, SequenceHas
<1>10. \A i \in 1 .. n : due[i].kind \in TimerKinds
  BY <1>5, <1>6, <1>9, SequenceHas
<1>11. PICK first : first = Returned(r, << >>)
  OBVIOUS
<1>12. PICK after : /\ AdvanceTime(e, now) = after[n]
                    /\ after[0] = first
                    /\ \A i \in 1 .. n : after[i] = Ticked(after[i - 1], due[i])
  <2>1. first = Begun(e, now)
    BY <1>7, <1>11, Zenon DEF Begun
  <2>2. Len(due) \in Nat
    BY <1>9
  <2>3. \E after : /\ AdvanceTime(e, now) = after[Len(due)]
                   /\ after[0] = first
                   /\ \A i \in 1 .. Len(due) : after[i] = Ticked(after[i - 1], due[i])
    BY ONLY <1>1, <2>1, <2>2, AdvanceTimeIs
  <2>4. QED
    BY <1>9, <2>3, Zenon
<1> DEFINE G == { i \in 0 .. n : Outcome(e, after[i], h) }
<1>13. 0 \in G
  <2>1. Outcome(e, first, h)
    BY <1>8, <1>11, ReturnedNone
  <2>2. QED
    BY <1>12, <2>1
<1>14. ASSUME NEW i \in 1 .. n, i - 1 \in G PROVE i \in G
  <2>1. Outcome(e, Ticked(after[i - 1], due[i]), h)
    BY <1>10, <1>14, TickedOutcome
  <2>2. QED
    BY <1>12, <2>1
<1> HIDE DEF G
<1>15. \A i \in 0 .. n : i \in G
  BY <1>13, <1>14, UpTo
<1>16. n \in G
  BY <1>15
<1>17. QED
  BY <1>12, <1>16 DEF G

-----------------------------------------------------------------------------
(* send *)

LEMMA NextOutcome ==
  ASSUME NEW e, NEW h, NEW got, Outcome(e, got, h), Unseen(e, got.endpoint),
         NEW id, id.number \in DataChannels, NEW body, CarriesPart(id, body, h.own)
  PROVE  Outcome(e, EmitNext(got, id, body), h) /\ Unseen(e, EmitNext(got, id, body).endpoint)
<1>1. PICK result : result = Emit(got.endpoint, "data", id, body)
  OBVIOUS
<1>2. EmitNext(got, id, body) = IF got.error # "none" THEN got ELSE Continued(got.out, result)
  BY <1>1 DEF EmitNext
<1>3. Moved(e, got.endpoint, h) /\ Good(got.endpoint, h) /\ Carries(got.out, h.own)
  BY DEF Outcome, Moved
<1>4. Outcome(got.endpoint, result, h) /\ Unseen(got.endpoint, result.endpoint)
  BY <1>1, <1>3, EmitOutcome DEF FrameTypes
<1>5. Outcome(e, Continued(got.out, result), h)
  <2>1. Outcome(e, result, h)
    BY <1>3, <1>4, OutcomeTwice
  <2>2. QED
    BY <1>3, <2>1, ContinuedIs
<1>6. Unseen(e, Continued(got.out, result).endpoint)
  <2>1. Continued(got.out, result).endpoint = result.endpoint
    BY DEF Continued, Returned
  <2>2. QED
    BY <1>4, <2>1 DEF Unseen
<1>7. QED
  BY <1>2, <1>5, <1>6, Zenon

LEMMA EmitAllOutcome ==
  ASSUME NEW e, NEW h, Good(e, h), NEW id, id.number \in DataChannels,
         NEW bodies, NEW n \in Nat, n = Len(bodies),
         \A i \in 1 .. n : CarriesPart(id, bodies[i], h.own)
  PROVE  Outcome(e, EmitAll(e, id, bodies), h) /\ Unseen(e, EmitAll(e, id, bodies).endpoint)
<1>1. PICK after : /\ EmitAll(e, id, bodies) = after[n]
                   /\ after[0] = Returned(e, << >>)
                   /\ \A i \in 1 .. n : after[i] = EmitNext(after[i - 1], id, bodies[i])
  <2>1. Len(bodies) \in Nat
    OBVIOUS
  <2>2. PICK after : /\ EmitAll(e, id, bodies) = after[Len(bodies)]
                    /\ after[0] = Returned(e, << >>)
                    /\ \A i \in 1 .. Len(bodies) : after[i] = EmitNext(after[i - 1], id, bodies[i])
    BY ONLY <2>1, EmitAllIs
  <2>3. QED
    BY <2>2
<1> DEFINE G == { i \in 0 .. n : Outcome(e, after[i], h) /\ Unseen(e, after[i].endpoint) }
<1>2. 0 \in G
  <2>1. Outcome(e, Returned(e, << >>), h)
    BY Refusal
  <2>2. Unseen(e, Returned(e, << >>).endpoint)
    BY DEF Unseen, Returned
  <2>3. QED
    BY <1>1, <2>1, <2>2
<1>3. ASSUME NEW i \in 1 .. n, i - 1 \in G PROVE i \in G
  <2>1. Outcome(e, after[i - 1], h) /\ Unseen(e, after[i - 1].endpoint)
    BY <1>3
  <2>2. /\ Outcome(e, EmitNext(after[i - 1], id, bodies[i]), h)
        /\ Unseen(e, EmitNext(after[i - 1], id, bodies[i]).endpoint)
    BY <2>1, NextOutcome
  <2>3. QED
    BY <1>1, <2>2
<1> HIDE DEF G
<1>4. \A i \in 0 .. n : i \in G
  BY <1>2, <1>3, UpTo
<1>5. n \in G
  BY <1>4
<1>6. QED
  BY <1>1, <1>5 DEF G

(* The fragments of a message are parts of it.                             *)
LEMMA FragmentsAreParts ==
  ASSUME NEW seq, NEW payload, IsSequence(payload)
  PROVE  /\ Len(FragmentsOf(seq, payload)) \in Nat
         /\ \A i \in 1 .. Len(FragmentsOf(seq, payload)) :
              /\ FragmentsOf(seq, payload)[i].sequence = seq
              /\ FragmentsOf(seq, payload)[i].total = Len(payload)
              /\ PartOf(FragmentsOf(seq, payload)[i], payload)
<1>1. PICK size \in Nat \ {0} : size = FragmentSize
  BY EngineAssumption
<1>2. PICK len \in Nat : len = Len(payload)
  BY SequenceHas
<1>3. PICK n \in Nat : n = (len + size - 1) \div size
  OBVIOUS
<1>4. PICK bodies : bodies = FragmentsOf(seq, payload)
  OBVIOUS
<1> DEFINE Begins(i) == (i - 1) * size + 1
           Ends(i)  == Min({ Begins(i) + size - 1, len })
<1>5. bodies = [ i \in 1 .. n |->
                   [ sequence |-> seq, offset |-> Begins(i) - 1, total |-> len,
                     bytes |-> SubSeq(payload, Begins(i), Ends(i)) ] ]
  BY <1>1, <1>2, <1>3, <1>4 DEF FragmentsOf
<1>6. \A i \in 1 .. n :
        /\ bodies[i].sequence = seq /\ bodies[i].total = len /\ bodies[i].offset = Begins(i) - 1
        /\ bodies[i].bytes = SubSeq(payload, Begins(i), Ends(i))
  BY <1>5
<1>7. Len(bodies) = n
  <2> HIDE DEF Begins, Ends
  <2>1. DOMAIN bodies = 1 .. n /\ bodies = [ i \in 1 .. n |-> bodies[i] ]
    BY <1>5
  <2>2. bodies \in [ 1 .. n -> { bodies[i] : i \in 1 .. n } ]
    BY <2>1
  <2>3. bodies \in Seq({ bodies[i] : i \in 1 .. n })
    BY <2>2, SeqDef
  <2>4. DOMAIN bodies = 1 .. Len(bodies) /\ Len(bodies) \in Nat
    BY <2>3, LenProperties
  <2>5. QED
    BY <2>1, <2>4
<1>8. ASSUME NEW i \in 1 .. n PROVE PartOf(bodies[i], payload)
  <2>1. (i - 1) * size \in Nat
    BY <1>1
  <2>2. PICK first \in Nat \ {0} : first = Begins(i)
    BY <2>1
  <2>3. PICK last : last = Ends(i)
    OBVIOUS
  <2>4. last \in 0 .. len
    <3>1. PICK S : S = { first + size - 1, len }
      OBVIOUS
    <3>2. \E m \in S : \A x \in S : m =< x
      BY <3>1
    <3>3. Min(S) \in S /\ Min(S) <= len
      BY <3>1, <3>2 DEF Min
    <3>4. Min(S) \in Nat
      BY <3>1, <3>3
    <3>5. last = Min(S)
      BY <2>2, <2>3, <3>1
    <3>6. QED
      BY <3>3, <3>4, <3>5
  <2>5. PICK range : range = bodies[i]
    OBVIOUS
  <2>6. range.offset = first - 1 /\ range.bytes = SubSeq(payload, first, last)
    BY <1>6, <2>2, <2>3, <2>5
  <2> HIDE DEF Begins, Ends
  <2>7. payload \in Seq(Elements(payload)) /\ \A j \in 1 .. len : payload[j] \in Elements(payload)
    BY <1>2, SequenceHas DEF IsSequence
  <2>8. IsSequence(range.bytes)
    BY <1>2, <2>4, <2>6, SubSeqHas
  <2>9. /\ Len(SubSeq(payload, first, last)) = IF first <= last THEN last - first + 1 ELSE 0
        /\ \A j \in 1 .. last - first + 1 : SubSeq(payload, first, last)[j] = payload[first + j - 1]
    <3>1. \A j \in first .. last : payload[j] \in Elements(payload)
      BY <2>4, <2>7
    <3>2. QED
      BY <2>4, <2>7, <3>1, SubSeqProperties
  <2>10. ASSUME NEW pos \in Positions(range)
         PROVE  ByteAt(range, pos) = payload[pos + 1]
    <3>1. PICK size2 : size2 = Len(range.bytes)
      OBVIOUS
    <3>2. size2 = IF first <= last THEN last - first + 1 ELSE 0
      BY <2>6, <2>9, <3>1
    <3>3. pos \in first - 1 .. ((first - 1) + size2) - 1
      <4>1. pos \in range.offset .. (range.offset + size2) - 1
        <5>1. Positions(range) = range.offset .. (range.offset + size2) - 1
          BY <3>1 DEF Positions, RangeEnd
        <5>2. QED
          BY <5>1, Zenon
      <4>2. QED
        BY <2>6, <4>1
    <3>4. PICK j \in 1 .. last - first + 1 : j = pos - (first - 1) + 1
      BY <2>4, <3>2, <3>3
    <3>5. ByteAt(range, pos) = SubSeq(payload, first, last)[j]
      BY <2>6, <3>4 DEF ByteAt
    <3>6. first + j - 1 = pos + 1
      BY <3>3, <3>4
    <3>7. QED
      BY <2>9, <3>5, <3>6
  <2>11. QED
    BY <2>5, <2>6, <2>8, <2>10 DEF PartOf
<1>9. QED
  BY <1>2, <1>4, <1>6, <1>7, <1>8

-----------------------------------------------------------------------------
(* A message takes its number: what the endpoint is measured against grows *)
(* by that message.                                                        *)

Grown(h, g, x) == g.own = Append(h.own, x) /\ g.theirs = h.theirs /\ g.clock = h.clock

LEMMA SendCounted ==
  ASSUME NEW e, NEW h, Good(e, h), LogOK(h.own), NEW id, IsId(id), Found(e.channels, id),
         NEW x, x.channel = id, NEW g, Grown(h, g, x),
         NEW r, r = PutChannels(e, [ e.channels EXCEPT ![id.number].next_send_seq = @ + 1 ])
  PROVE  /\ Good(r, g) /\ Final(e, r)
         /\ r.channels[id.number].next_send_seq # e.channels[id.number].next_send_seq
         /\ e.channels[id.number].next_send_seq = Cardinality(SentOn(h.own, id)) + 1
<1>1. PICK t : t = e.channels
  OBVIOUS
<1>2. PICK n \in Numbers : n = id.number
  BY FoundNegotiated
<1>3. PICK slot : slot = t[n]
  OBVIOUS
<1>4. PICK u : u = [ t EXCEPT ![n].next_send_seq = @ + 1 ]
  OBVIOUS
<1>5. r = PutChannels(e, u)
  BY <1>1, <1>2, <1>4
<1>6. /\ e.negotiated /\ slot.state \in LiveState /\ slot.state \notin { "free", "tombstone" }
      /\ slot.state \in ChannelState /\ IsSlot(slot) /\ slot.generation = id.generation
  BY <1>1, <1>2, <1>3, FoundNegotiated
<1>7. id = Key(t, n)
  BY <1>2, <1>3, <1>6 DEF IsId, Key
<1>8. Tabled(t, h.own, h.theirs) /\ Delivered(t, e.events, h.theirs) /\ IsSequence(h.own)
  BY <1>1 DEF Good, LogOK
<1>9. t = [ m \in Numbers |-> t[m] ]
  BY <1>8 DEF Tabled
<1>10. PICK y : y = [ slot EXCEPT !.next_send_seq = @ + 1 ]
  OBVIOUS
<1>11. /\ IsSlot(y) /\ y.next_send_seq = slot.next_send_seq + 1
       /\ y.state = slot.state /\ y.generation = slot.generation
       /\ y.next_recv_seq = slot.next_recv_seq /\ y.reassembler = slot.reassembler
  BY <1>6, <1>10 DEF IsSlot
<1>12. u = [ t EXCEPT ![n] = y ]
  BY <1>3, <1>4, <1>9, <1>10
<1>13. /\ u = [ m \in Numbers |-> u[m] ] /\ u[n] = y
       /\ \A m \in Numbers : m # n => u[m] = t[m]
  BY <1>9, <1>12
<1>14. \A m \in Numbers : /\ u[m].state = t[m].state /\ u[m].generation = t[m].generation
                          /\ u[m].next_recv_seq = t[m].next_recv_seq
                          /\ u[m].reassembler = t[m].reassembler
                          /\ Key(u, m) = Key(t, m)
  BY <1>3, <1>11, <1>13 DEF Key
<1>15. PICK size : size = Cardinality(SentOn(h.own, id))
  OBVIOUS
<1>16. size \in Nat /\ slot.next_send_seq = size + 1
  <2>1. SentOn(h.own, id) \in SUBSET (1 .. Len(h.own)) /\ Len(h.own) \in Nat
    BY <1>8, AppendSentOn
  <2>2. size \in Nat
    BY <1>15, <2>1, RankIs
  <2>3. slot.next_send_seq = Cardinality(SentOn(h.own, Key(t, n))) + 1
    BY <1>3, <1>8 DEF Tabled
  <2>4. QED
    BY <1>7, <1>15, <2>2, <2>3
<1>17. PICK log : log = Append(h.own, x)
  OBVIOUS
<1>18. \A m \in Numbers : u[m].next_send_seq = Cardinality(SentOn(log, Key(u, m))) + 1
  <2> SUFFICES ASSUME NEW m \in Numbers
               PROVE  u[m].next_send_seq = Cardinality(SentOn(log, Key(u, m))) + 1
    OBVIOUS
  <2>1. CASE m = n
    <3>1. Cardinality(SentOn(log, id)) = size + 1
      BY <1>8, <1>15, <1>17, NumberedNext
    <3>2. Key(u, m) = id
      BY <1>7, <1>14, <2>1
    <3>3. u[m].next_send_seq = (size + 1) + 1
      BY <1>11, <1>13, <1>16, <2>1
    <3>4. QED
      BY <3>1, <3>2, <3>3, Zenon
  <2>2. CASE m # n
    <3>1. Key(t, m) # id
      BY <1>2, <2>2 DEF Key
    <3>2. SentOn(log, Key(t, m)) = SentOn(h.own, Key(t, m))
      BY <1>8, <1>17, <3>1, AppendSentOn
    <3>3. t[m].next_send_seq = Cardinality(SentOn(h.own, Key(t, m))) + 1
      BY <1>8 DEF Tabled
    <3>4. u[m] = t[m] /\ Key(u, m) = Key(t, m)
      BY <1>13, <1>14, <2>2
    <3>5. QED
      BY <3>2, <3>3, <3>4, Zenon
  <2>3. QED
    BY <2>1, <2>2
<1>19. \A k \in DOMAIN log : Used(u, log[k].channel)
  <2>1. /\ DOMAIN log = 1 .. Len(h.own) + 1 /\ Len(h.own) \in Nat
        /\ log[Len(h.own) + 1] = x /\ \A k \in 1 .. Len(h.own) : log[k] = h.own[k]
        /\ DOMAIN h.own = 1 .. Len(h.own)
    BY <1>8, <1>17, AppendHas, SequenceHas
  <2>2. \A c : Used(t, c) => Used(u, c)
    BY <1>14 DEF Used
  <2>3. Used(t, id)
    BY <1>2, <1>3, <1>6, <1>7 DEF Used
  <2>4. \A k \in DOMAIN h.own : Used(t, h.own[k].channel)
    BY <1>8 DEF Tabled
  <2>5. QED
    BY <2>1, <2>2, <2>3, <2>4
<1>20. Tabled(u, log, h.theirs)
  <2>1. \A m \in Numbers : /\ IsSlot(t[m]) /\ t[m].state \in ChannelState
                           /\ BuffersParts(t[m].reassembler, Key(t, m), h.theirs)
    BY <1>8 DEF Tabled
  <2>2. \A m \in Numbers : IsSlot(u[m])
    BY <1>11, <1>13, <2>1
  <2>3. \A m \in Numbers : /\ u[m].state \in ChannelState
                           /\ BuffersParts(u[m].reassembler, Key(u, m), h.theirs)
    BY <1>14, <2>1, Zenon
  <2>4. QED
    BY <1>13, <1>18, <1>19, <2>2, <2>3 DEF Tabled
<1>21. Delivered(u, e.events, h.theirs)
  <2>1. \A c : Used(t, c) => Used(u, c)
    BY <1>14 DEF Used
  <2>2. \A m \in Numbers : u[m].next_recv_seq = Cardinality(Deliveries(e.events, Key(u, m))) + 1
    BY <1>8, <1>14, Zenon DEF Delivered
  <2>3. QED
    BY <1>8, <2>1, <2>2, Zenon DEF Delivered
<1>22. IsEndpoint(e)
  BY DEF Good
<1>23. /\ IsEndpoint(r) /\ Fields(r, e.state, e.negotiated, u, e.scheduler, e.window,
             e.next_frame_seq, e.timers, e.now, e.pong, e.tasks, e.events)
  BY <1>5, <1>22, FieldPut
<1>24. g.own = log /\ g.theirs = h.theirs /\ g.clock = h.clock
  BY <1>17 DEF Grown
<1>25. Good(r, g)
  <2>1. Kept(e.window, h.own) /\ Queued(e.scheduler, h.own)
    BY DEF Good
  <2>2. Kept(e.window, g.own)
    BY <1>8, <1>17, <1>24, <2>1, KeptStays
  <2>3. Queued(e.scheduler, g.own)
    BY <1>8, <1>17, <1>24, <2>1, QueuedStays
  <2>4. Timed(e.timers, e.now, e.pong, g.clock)
    BY <1>24 DEF Good
  <2>5. Phased(e.state, e.negotiated, u)
    BY <1>6 DEF Good, Phased
  <2>6. Answered(e.events, e.tasks)
    BY DEF Good
  <2>7. Tabled(u, g.own, g.theirs) /\ Delivered(u, e.events, g.theirs)
    BY <1>20, <1>21, <1>24
  <2>8. QED
    BY <1>23, <2>2, <2>3, <2>4, <2>5, <2>6, <2>7 DEF Good, Fields
<1>26. r.channels = u /\ r.events = e.events
  BY <1>23 DEF Fields
<1>27. Final(e, r)
  <2>1. \A m \in Numbers : t[m].state = "tombstone" => u[m] = t[m]
    BY <1>3, <1>6, <1>13
  <2>2. QED
    BY <1>1, <1>26, <2>1 DEF Final
<1>28. u[n].next_send_seq # slot.next_send_seq
  BY <1>11, <1>13, <1>16
<1>29. QED
  BY <1>1, <1>2, <1>3, <1>15, <1>16, <1>25, <1>26, <1>27, <1>28

(* A send numbers the message, or leaves the endpoint as it was.           *)
LEMMA SendOutcome ==
  ASSUME NEW e, NEW h, Good(e, h), LogOK(h.own), NEW id, IsId(id), NEW payload, IsSequence(payload),
         NEW x, x = [ channel |-> id, payload |-> payload ], NEW g, Grown(h, g, x)
  PROVE  \/ Outcome(e, Send(e, id, payload), h) /\ Send(e, id, payload).endpoint = e
         \/ /\ Outcome(e, Send(e, id, payload), g)
            /\ Send(e, id, payload).endpoint.channels[id.number].next_send_seq
                 # e.channels[id.number].next_send_seq
<1>1. PICK seq : seq = e.channels[id.number].next_send_seq
  OBVIOUS
<1>2. PICK next : next = ReserveSendSequence(e.channels, id)
  OBVIOUS
<1>3. PICK bodies : bodies = FragmentsOf(seq, payload)
  OBVIOUS
<1>4. PICK r : r = PutChannels(e, next.table)
  OBVIOUS
<1>5. PICK slot : slot = e.channels[id.number]
  OBVIOUS
<1>6. Send(e, id, payload) =
        IF e.state # "active" THEN Failed("illegal_state", e)
        ELSE IF ~ Found(e.channels, id) THEN Failed("stale_generation", e)
        ELSE IF slot.local_half_closed THEN Failed("illegal_state", e)
        ELSE IF Len(payload) > MaxMessage THEN Failed("resource_limit", e)
        ELSE IF ~ CanReserve(slot.flow, Len(payload)) THEN Failed("would_block", e)
        ELSE IF next.error # "none" THEN Failed(next.error, e)
        ELSE EmitAll(r, id, bodies)
  BY <1>1, <1>2, <1>3, <1>4, <1>5 DEF Send, PutChannels
<1>7. ASSUME NEW error
      PROVE  Outcome(e, Failed(error, e), h) /\ Failed(error, e).endpoint = e
  BY Refusal DEF Failed
<1>8. ASSUME Found(e.channels, id), next.error = "none"
      PROVE  /\ Outcome(e, EmitAll(r, id, bodies), g)
             /\ EmitAll(r, id, bodies).endpoint.channels[id.number].next_send_seq # seq
  <2>1. next.table = [ e.channels EXCEPT ![id.number].next_send_seq = @ + 1 ]
    BY <1>2, <1>8 DEF ReserveSendSequence, Done, Refused
  <2>2. /\ Good(r, g) /\ Final(e, r) /\ r.channels[id.number].next_send_seq # seq
        /\ seq = Cardinality(SentOn(h.own, id)) + 1
    <3>1. x.channel = id
      OBVIOUS
    <3>2. r = PutChannels(e, [ e.channels EXCEPT ![id.number].next_send_seq = @ + 1 ])
      BY <1>4, <2>1, Zenon
    <3>3. QED
      BY <1>1, <1>8, <3>1, <3>2, SendCounted
  <2>3. PICK k : k = Len(h.own) + 1
    OBVIOUS
  <2>4. IsSequence(h.own) /\ g.own = Append(h.own, x)
    BY DEF LogOK, Grown
  <2>5. Numbered(g.own, id, seq, k) /\ k \in DOMAIN g.own /\ g.own[k] = x
    <3>1. Numbered(Append(h.own, x), x.channel, Cardinality(SentOn(h.own, x.channel)) + 1, Len(h.own) + 1)
      BY <2>4, NumberedNext
    <3>2. x.channel = id
      OBVIOUS
    <3>3. Numbered(g.own, id, seq, k)
      BY <2>2, <2>3, <2>4, <3>1, <3>2, Zenon
    <3>4. k \in DOMAIN Append(h.own, x) /\ Append(h.own, x)[k] = x
      BY <2>3, <2>4, AppendHas, SequenceHas
    <3>5. QED
      BY <2>4, <3>3, <3>4, Zenon
  <2>6. PICK n \in Nat : n = Len(bodies)
    BY <1>3, FragmentsAreParts
  <2>7. \A i \in 1 .. n : CarriesPart(id, bodies[i], g.own)
    <3>1. g.own[k].payload = payload
      BY <2>5
    <3>2. \A i \in 1 .. n : /\ bodies[i].sequence = seq /\ bodies[i].total = Len(payload)
                            /\ PartOf(bodies[i], payload)
      BY <1>3, <2>6, FragmentsAreParts
    <3>3. QED
      BY <2>5, <3>1, <3>2 DEF CarriesPart
  <2>8. id.number \in DataChannels
    BY <1>8, EngineAssumption DEF Found
  <2>9. Outcome(r, EmitAll(r, id, bodies), g) /\ Unseen(r, EmitAll(r, id, bodies).endpoint)
    BY <2>2, <2>6, <2>7, <2>8, EmitAllOutcome
  <2>10. Moved(e, r, g)
    BY <2>2 DEF Moved
  <2>11. Outcome(e, EmitAll(r, id, bodies), g)
    BY <2>9, <2>10, OutcomeTwice
  <2>12. EmitAll(r, id, bodies).endpoint.channels = r.channels
    BY <2>9 DEF Unseen
  <2>13. QED
    BY <2>2, <2>11, <2>12
<1>9. QED
  BY <1>1, <1>6, <1>7, <1>8, Zenon

-----------------------------------------------------------------------------
(* The two ends *)

LEMMA PeerIs ==
  \A p \in Endpoints : /\ Peer(p) \in Endpoints /\ Peer(p) # p /\ Peer(Peer(p)) = p
                       /\ \A q \in Endpoints : q = p \/ q = Peer(p)
<1> SUFFICES ASSUME NEW p \in Endpoints
             PROVE  /\ Peer(p) \in Endpoints /\ Peer(p) # p /\ Peer(Peer(p)) = p
                    /\ \A q \in Endpoints : q = p \/ q = Peer(p)
  OBVIOUS
<1>1. IsFiniteSet(Endpoints \ { p }) /\ Cardinality(Endpoints \ { p }) = 1
  <2>1. IsFiniteSet(Endpoints) /\ Cardinality(Endpoints) = 2
    BY LinkAssumption
  <2>2. /\ IsFiniteSet(Endpoints \ { p })
        /\ Cardinality(Endpoints \ { p }) = Cardinality(Endpoints) - 1
    BY <2>1, FS_RemoveElement
  <2>3. QED
    BY <2>1, <2>2
<1>2. PICK o : Endpoints \ { p } = { o }
  BY <1>1, FS_Singleton
<1>3. o \in Endpoints /\ o # p /\ \A q \in Endpoints : q = p \/ q = o
  BY <1>2
<1>4. Peer(p) = o /\ Peer(o) = p
  BY <1>3 DEF Peer
<1>5. QED
  BY <1>3, <1>4

(* An engine that has just been created has done nothing.                  *)
LEMMA CreatedGood ==
  ASSUME NEW h, h.own = << >>, h.theirs = << >>, h.clock = 0
  PROVE  PastOK(h) /\ Good(Created, h)
<1>1. Elements(<< >>) = {} /\ IsSequence(<< >>) /\ DOMAIN << >> = {} /\ Len(<< >>) = 0
  BY DEF Elements, IsSequence
<1>2. PastOK(h)
  BY <1>1 DEF PastOK, LogOK
<1>3. \A id : SentOn(<< >>, id) = {}
  BY <1>1 DEF SentOn
<1>4. \A kind, id : Raised(<< >>, kind, id) = {}
  BY <1>1 DEF Raised
<1>5. Cardinality({}) = 0
  BY FS_EmptySet
<1>6. Queued(EmptyScheduler, h.own)
  <2>1. PICK s : s = EmptyScheduler
    OBVIOUS
  <2>2. /\ s = [ control |-> s.control, data |-> s.data, expected |-> s.expected,
                 cursor |-> s.cursor, queued |-> s.queued ]
        /\ s.data = [ c \in DataChannels |-> s.data[c] ]
        /\ s.control = << >> /\ (\A c \in DataChannels : s.data[c] = << >>)
        /\ s.cursor = 0 /\ s.queued = 0
    BY <2>1 DEF EmptyScheduler
  <2>3. \A q \in DataChannels \cup { 0 } : Waiting(s, q) = << >>
    BY <2>2 DEF Waiting
  <2>4. \A q \in DataChannels \cup { 0 } : QueueOK(Waiting(s, q), q, h.own)
    BY <1>1, <2>3 DEF QueueOK
  <2>5. Places(s) = {}
    <3>1. \A x \in Places(s) : FALSE
      BY <1>1, <2>3, PlaceIs
    <3>2. QED
      BY <3>1
  <2>6. 0 \in 0 .. ByteLimit
    BY SchedulerAssumption
  <2>7. QED
    BY <1>5, <2>1, <2>2, <2>4, <2>5, <2>6 DEF Queued
<1>7. PICK t : t = InitialTable
  OBVIOUS
<1>8. /\ t = [ n \in Numbers |-> t[n] ]
      /\ \A n \in Numbers : t[n] = FreshSlot(0, "free")
  BY <1>7 DEF InitialTable
<1>9. \A n \in Numbers : /\ IsSlot(t[n]) /\ t[n].state = "free"
                         /\ t[n].next_send_seq = 1 /\ t[n].next_recv_seq = 1
                         /\ t[n].reassembler = EmptyReassembler
  BY <1>8 DEF FreshSlot, IsSlot
<1>10. Tabled(t, h.own, h.theirs)
  <2>1. \A n \in Numbers : t[n].next_send_seq = Cardinality(SentOn(h.own, Key(t, n))) + 1
    <3>1. \A n \in Numbers : Cardinality(SentOn(h.own, Key(t, n))) = 0
      BY <1>3, <1>5, Zenon
    <3>2. QED
      BY <1>9, <3>1
  <2>2. \A n \in Numbers : t[n].state \in ChannelState /\ BuffersParts(t[n].reassembler, Key(t, n), h.theirs)
    BY <1>9, EmptyBuffer DEF ChannelState
  <2>3. QED
    BY <1>1, <1>8, <1>9, <2>1, <2>2 DEF Tabled
<1>11. Delivered(t, << >>, h.theirs)
  <2>1. \A n \in Numbers : t[n].next_recv_seq = Cardinality(Deliveries(<< >>, Key(t, n))) + 1
    <3>1. \A n \in Numbers : Cardinality(Deliveries(<< >>, Key(t, n))) = 0
      BY <1>4, <1>5, Zenon DEF Deliveries
    <3>2. QED
      BY <1>9, <3>1
  <2>2. QED
    BY <1>1, <2>1 DEF Delivered
<1>12. Answered(<< >>, << >>)
  BY <1>1, EngineAssumption DEF Answered
<1>13. Kept(<< >>, h.own)
  BY <1>1, CapacityAssumption DEF Kept
<1>14. Timed(<< >>, 0, NoToken, h.clock)
  BY <1>1 DEF Timed, NoToken
<1>15. PICK e : e = Created
  OBVIOUS
<1>16. /\ IsEndpoint(e) /\ e.state = "created" /\ e.negotiated = FALSE /\ e.channels = t
       /\ e.scheduler = EmptyScheduler /\ e.window = << >> /\ e.timers = << >> /\ e.now = 0
       /\ e.pong = NoToken /\ e.tasks = << >> /\ e.events = << >>
  BY <1>7, <1>15 DEF Created, IsEndpoint
<1>17. Phased("created", FALSE, t)
  BY <1>7 DEF Phased, ConnectionState
<1>18. Good(e, h)
  BY <1>6, <1>10, <1>11, <1>12, <1>13, <1>14, <1>16, <1>17 DEF Good
<1>19. QED
  BY <1>2, <1>15, <1>18

LEMMA InitIInv == Init => IInv
<1> SUFFICES ASSUME Init PROVE IInv
  OBVIOUS
<1>1. /\ use \in Uses /\ clock = 0
      /\ ep = [ p \in Endpoints |-> Created ]
      /\ wire = [ p \in Endpoints |-> << >> ] /\ sent = [ p \in Endpoints |-> << >> ]
  BY DEF Init
<1>2. clock \in 0 .. use.time
  BY <1>1, LinkAssumption
<1>3. \A p \in Endpoints : PastOK(Past(p)) /\ Good(ep[p], Past(p)) /\ Carries(wire[p], sent[Peer(p)])
  <2> SUFFICES ASSUME NEW p \in Endpoints
               PROVE  PastOK(Past(p)) /\ Good(ep[p], Past(p)) /\ Carries(wire[p], sent[Peer(p)])
    OBVIOUS
  <2>1. ep[p] = Created /\ wire[p] = << >> /\ sent[p] = << >> /\ sent[Peer(p)] = << >>
    BY <1>1, PeerIs
  <2>2. Past(p).own = << >> /\ Past(p).theirs = << >> /\ Past(p).clock = 0
    BY <1>1, <2>1 DEF Past
  <2>3. QED
    BY <2>1, <2>2, CreatedGood, NothingCarried
<1>4. /\ ep = [ p \in Endpoints |-> ep[p] ] /\ wire = [ p \in Endpoints |-> wire[p] ]
      /\ sent = [ p \in Endpoints |-> sent[p] ]
  BY <1>1
<1>5. QED
  BY <1>1, <1>2, <1>3, <1>4 DEF IInv

-----------------------------------------------------------------------------
(* The steps of the link *)

(* The invariant, and what a step may not do to a channel that was reset.  *)
Keeps == IInv' /\ \A p \in Endpoints : Final(ep[p], ep'[p])

(* One end takes a step: some frames have left the wire to it, and those   *)
(* it puts out follow what is under way to its peer.                       *)
LEMMA EndSteps ==
  ASSUME IInv, NEW p \in Endpoints, NEW result, Outcome(ep[p], result, Past(p)),
         NEW rest, Carries(rest, sent[Peer(p)]),
         ep' = [ ep EXCEPT ![p] = result.endpoint ],
         wire' = [ wire EXCEPT ![p] = rest, ![Peer(p)] = @ \o result.out ],
         use' = use, clock' = clock, sent' = sent
  PROVE  Keeps
<1>1. PICK o \in Endpoints : o = Peer(p) /\ o # p /\ Peer(o) = p /\ \A q \in Endpoints : q = p \/ q = o
  BY PeerIs
<1>2. /\ ep = [ q \in Endpoints |-> ep[q] ] /\ wire = [ q \in Endpoints |-> wire[q] ]
      /\ sent = [ q \in Endpoints |-> sent[q] ]
      /\ use \in Uses /\ clock \in 0 .. use.time
      /\ \A q \in Endpoints : PastOK(Past(q)) /\ Good(ep[q], Past(q)) /\ Carries(wire[q], sent[Peer(q)])
  BY DEF IInv
<1>3. \A q \in Endpoints : Past(q)' = Past(q)
  BY DEF Past
<1>4. ep' = [ q \in Endpoints |-> ep'[q] ] /\ ep'[p] = result.endpoint /\ ep'[o] = ep[o]
  BY <1>1, <1>2
<1>5. wire' = [ q \in Endpoints |-> wire'[q] ] /\ wire'[p] = rest /\ wire'[o] = wire[o] \o result.out
  BY <1>1, <1>2
<1>6. Good(result.endpoint, Past(p)) /\ Final(ep[p], result.endpoint) /\ Carries(result.out, sent[p])
  BY DEF Outcome, Moved, Past
<1>7. Carries(wire[o] \o result.out, sent[p])
  <2>1. Carries(wire[o], sent[p])
    BY <1>1, <1>2
  <2>2. QED
    BY <1>6, <2>1, ConcatHas DEF Carries
<1>8. Final(ep[o], ep[o])
  BY StayFinal
<1>9. \A q \in Endpoints : Final(ep[q], ep'[q])
  BY <1>1, <1>4, <1>6, <1>8, Zenon
<1>10. ASSUME NEW q \in Endpoints
       PROVE  PastOK(Past(q)') /\ Good(ep'[q], Past(q)') /\ Carries(wire'[q], sent'[Peer(q)])
  <2>1. CASE q = p
    BY <1>2, <1>3, <1>4, <1>5, <1>6, <2>1
  <2>2. CASE q = o
    BY <1>1, <1>2, <1>3, <1>4, <1>5, <1>7, <2>2
  <2>3. QED
    BY <1>1, <2>1, <2>2
<1>11. sent' = [ q \in Endpoints |-> sent'[q] ] /\ use' \in Uses /\ clock' \in 0 .. use'.time
  BY <1>2
<1>12. IInv'
  BY <1>4, <1>5, <1>10, <1>11 DEF IInv
<1>13. QED
  BY <1>9, <1>12 DEF Keeps

(* A step that reads nothing. *)
LEMMA CallSteps ==
  ASSUME IInv, NEW p \in Endpoints, NEW result, Outcome(ep[p], result, Past(p)),
         Result(p, result), use' = use, clock' = clock, sent' = sent
  PROVE  Keeps
<1>1. Peer(p) \in Endpoints /\ Peer(p) # p
  BY PeerIs
<1>2. wire = [ q \in Endpoints |-> wire[q] ]
  BY DEF IInv
<1>3. PICK rest : rest = wire[p]
  OBVIOUS
<1>4. Carries(rest, sent[Peer(p)])
  BY <1>3 DEF IInv
<1>5. wire' = [ wire EXCEPT ![p] = rest, ![Peer(p)] = @ \o result.out ]
  <2>1. wire' = [ wire EXCEPT ![Peer(p)] = @ \o result.out ]
    BY DEF Result
  <2>2. [ wire EXCEPT ![p] = rest ] = wire
    BY <1>2, <1>3
  <2>3. QED
    BY <1>1, <1>2, <1>3, <2>1, <2>2
<1>6. ep' = [ ep EXCEPT ![p] = result.endpoint ]
  BY DEF Result
<1>7. QED
  BY <1>4, <1>5, <1>6, EndSteps

(* A message that takes its number.                                        *)
LEMMA SendSteps ==
  ASSUME IInv, NEW p \in Endpoints, NEW id \in Ids(p), NEW size \in use.sizes, SendMessage(p, id, size)
  PROVE  Keeps
<1>1. PICK o \in Endpoints : o = Peer(p) /\ o # p /\ Peer(o) = p /\ \A q \in Endpoints : q = p \/ q = o
  BY PeerIs
<1>2. /\ ep = [ q \in Endpoints |-> ep[q] ] /\ wire = [ q \in Endpoints |-> wire[q] ]
      /\ sent = [ q \in Endpoints |-> sent[q] ]
      /\ use \in Uses /\ clock \in 0 .. use.time
      /\ \A q \in Endpoints : PastOK(Past(q)) /\ Good(ep[q], Past(q)) /\ Carries(wire[q], sent[Peer(q)])
  BY DEF IInv
<1>3. PICK payload : payload = Message(p, size)
  OBVIOUS
<1>4. IsSequence(payload)
  <2>1. size \in Nat
    BY <1>2, LinkAssumption
  <2>2. payload = [ i \in 1 .. size |-> << p, Len(sent[p]) + 1, i >> ]
    BY <1>3 DEF Message
  <2>3. payload \in [ 1 .. size -> { payload[i] : i \in 1 .. size } ]
    BY <2>2
  <2>4. payload \in Seq({ payload[i] : i \in 1 .. size })
    BY <2>1, <2>3, SeqDef
  <2>5. QED
    BY <2>4, SequenceIs
<1>5. PICK result : result = Send(ep[p], id, payload)
  OBVIOUS
<1>6. PICK x : x = [ channel |-> id, payload |-> payload ]
  OBVIOUS
<1>7. /\ Result(p, result)
      /\ sent' = IF result.endpoint.channels[id.number].next_send_seq
                      = ep[p].channels[id.number].next_send_seq
                 THEN sent ELSE [ sent EXCEPT ![p] = Append(@, x) ]
      /\ use' = use /\ clock' = clock
  BY <1>3, <1>5, <1>6 DEF SendMessage
<1>8. IsId(id)
  BY DEF Ids, IsId
<1>9. LogOK(sent[p]) /\ LogOK(sent[o]) /\ clock \in Nat /\ IsSequence(sent[p])
  BY <1>1, <1>2 DEF PastOK, Past, LogOK
<1>10. PICK g : g = [ own |-> Append(sent[p], x), theirs |-> sent[o], clock |-> clock ]
  OBVIOUS
<1>11. Grown(Past(p), g, x)
  BY <1>1, <1>10 DEF Grown, Past
<1>12. \/ Outcome(ep[p], result, Past(p)) /\ result.endpoint = ep[p]
       \/ /\ Outcome(ep[p], result, g)
          /\ result.endpoint.channels[id.number].next_send_seq
               # ep[p].channels[id.number].next_send_seq
  <2>1. LogOK(Past(p).own) /\ Good(ep[p], Past(p))
    BY <1>2, <1>9 DEF Past
  <2>2. QED
    BY <1>4, <1>5, <1>6, <1>8, <1>11, <2>1, SendOutcome
<1>13. CASE Outcome(ep[p], result, Past(p)) /\ result.endpoint = ep[p]
  <2>1. sent' = sent
    BY <1>7, <1>13
  <2>2. QED
    BY <1>7, <1>13, <2>1, CallSteps
<1>14. CASE /\ Outcome(ep[p], result, g)
            /\ result.endpoint.channels[id.number].next_send_seq
                 # ep[p].channels[id.number].next_send_seq
  <2>1. sent' = [ sent EXCEPT ![p] = Append(@, x) ]
    BY <1>7, <1>14
  <2>2. sent' = [ q \in Endpoints |-> sent'[q] ] /\ sent'[p] = Append(sent[p], x) /\ sent'[o] = sent[o]
    BY <1>1, <1>2, <2>1
  <2>3. Past(p)' = g
    BY <1>1, <1>7, <1>10, <2>2 DEF Past
  <2>4. /\ Past(o)'.own = Past(o).own /\ Past(o)'.theirs = Append(Past(o).theirs, x)
        /\ Past(o)'.clock = Past(o).clock
    BY <1>1, <1>7, <2>2 DEF Past
  <2>5. Past(o).theirs = sent[p]
    BY <1>1 DEF Past
  <2>6. ep' = [ q \in Endpoints |-> ep'[q] ] /\ ep'[p] = result.endpoint /\ ep'[o] = ep[o]
    BY <1>1, <1>2, <1>7 DEF Result
  <2>7. /\ wire' = [ q \in Endpoints |-> wire'[q] ] /\ wire'[p] = wire[p]
        /\ wire'[o] = wire[o] \o result.out
    BY <1>1, <1>2, <1>7 DEF Result
  <2>8. Good(result.endpoint, g) /\ Final(ep[p], result.endpoint) /\ Carries(result.out, Append(sent[p], x))
    BY <1>10, <1>14 DEF Outcome, Moved
  <2>9. Good(ep[o], Past(o)')
    <3>1. Good(ep[o], Past(o)) /\ IsSequence(Past(o).theirs)
      BY <1>2, <1>9, <2>5
    <3>2. QED
      BY <2>4, <3>1, PeerSends
  <2>10. Carries(wire[o] \o result.out, Append(sent[p], x))
    <3>1. Carries(wire[o], sent[p])
      BY <1>1, <1>2
    <3>2. Carries(wire[o], Append(sent[p], x))
      BY <1>9, <3>1, CarriesStay
    <3>3. QED
      BY <2>8, <3>2, ConcatHas DEF Carries
  <2>11. LogOK(Append(sent[p], x))
    <3>1. x.payload = payload
      BY <1>6
    <3>2. QED
      BY <1>4, <1>9, <3>1, AppendHas, SequenceHas DEF LogOK
  <2>12. PastOK(Past(p)') /\ PastOK(Past(o)')
    <3>1. g.own = Append(sent[p], x) /\ g.theirs = sent[o] /\ g.clock = clock
      BY <1>10
    <3>2. Past(o).own = sent[o] /\ Past(o).clock = clock
      BY DEF Past
    <3>3. PastOK(g)
      BY <1>9, <2>11, <3>1 DEF PastOK
    <3>4. QED
      BY <1>9, <2>3, <2>4, <2>5, <2>11, <3>2, <3>3 DEF PastOK
  <2>13. ASSUME NEW q \in Endpoints
         PROVE  PastOK(Past(q)') /\ Good(ep'[q], Past(q)') /\ Carries(wire'[q], sent'[Peer(q)])
    <3>1. CASE q = p
      <4>1. Carries(wire'[p], sent'[o])
        BY <1>1, <1>2, <2>2, <2>7
      <4>2. QED
        BY <1>1, <2>3, <2>6, <2>8, <2>12, <3>1, <4>1
    <3>2. CASE q = o
      BY <1>1, <2>2, <2>6, <2>7, <2>9, <2>10, <2>12, <3>2
    <3>3. QED
      BY <1>1, <3>1, <3>2
  <2>14. use' \in Uses /\ clock' \in 0 .. use'.time
    BY <1>2, <1>7
  <2>15. IInv'
    BY <2>2, <2>6, <2>7, <2>13, <2>14 DEF IInv
  <2>16. Final(ep[o], ep[o])
    BY StayFinal
  <2>17. \A q \in Endpoints : Final(ep[q], ep'[q])
    BY <1>1, <2>6, <2>8, <2>16, Zenon
  <2>18. QED
    BY <2>15, <2>17 DEF Keeps
<1>15. QED
  BY <1>12, <1>13, <1>14

(* Nothing happens to the ends and the wires.                              *)
LEMMA RestSteps ==
  ASSUME IInv, ep' = ep, wire' = wire, use' = use, sent' = sent, clock' = clock
  PROVE  Keeps
<1>1. \A q \in Endpoints : Past(q)' = Past(q)
  BY DEF Past
<1>2. \A q \in Endpoints : PastOK(Past(q)') /\ Good(ep'[q], Past(q)') /\ Carries(wire'[q], sent'[Peer(q)])
  BY <1>1 DEF IInv
<1>3. IInv'
  BY <1>2 DEF IInv
<1>4. \A q \in Endpoints : Final(ep[q], ep'[q])
  BY StayFinal
<1>5. QED
  BY <1>3, <1>4 DEF Keeps

LEMMA TickSteps ==
  ASSUME IInv, Tick
  PROVE  Keeps
<1>1. /\ ep' = ep /\ wire' = wire /\ sent' = sent /\ use' = use
      /\ clock < use.time /\ clock' = clock + 1
  BY DEF Tick
<1>2. /\ ep = [ q \in Endpoints |-> ep[q] ] /\ wire = [ q \in Endpoints |-> wire[q] ]
      /\ sent = [ q \in Endpoints |-> sent[q] ]
      /\ use \in Uses /\ clock \in 0 .. use.time
      /\ \A q \in Endpoints : PastOK(Past(q)) /\ Good(ep[q], Past(q)) /\ Carries(wire[q], sent[Peer(q)])
  BY DEF IInv
<1>3. clock \in Nat /\ use.time \in Nat
  BY <1>2, LinkAssumption
<1>4. \A q \in Endpoints : /\ Past(q)'.own = Past(q).own /\ Past(q)'.theirs = Past(q).theirs
                           /\ Past(q)'.clock = Past(q).clock + 1 /\ Past(q).clock = clock
  BY <1>1 DEF Past
<1>5. ASSUME NEW q \in Endpoints
      PROVE  PastOK(Past(q)') /\ Good(ep'[q], Past(q)') /\ Carries(wire'[q], sent'[Peer(q)])
  <2>1. PastOK(Past(q)')
    <3>1. LogOK(Past(q).own) /\ LogOK(Past(q).theirs)
      BY <1>2 DEF PastOK
    <3>2. LogOK(Past(q)'.own) /\ LogOK(Past(q)'.theirs)
      BY <1>4, <3>1, Zenon
    <3>3. Past(q)'.clock \in Nat
      BY <1>3, <1>4
    <3>4. QED
      BY <3>2, <3>3 DEF PastOK
  <2>2. Good(ep[q], Past(q)) /\ Past(q).clock \in Nat
    BY <1>2, <1>3, <1>4
  <2>3. PICK g : g = Past(q)'
    OBVIOUS
  <2>4. g.own = Past(q).own /\ g.theirs = Past(q).theirs /\ g.clock = Past(q).clock + 1
    BY <1>4, <2>3
  <2>5. Good(ep[q], g)
    BY <2>2, <2>4, ClockPasses
  <2>6. QED
    BY <1>1, <1>2, <2>1, <2>3, <2>5
<1>6. clock' \in 0 .. use'.time
  BY <1>1, <1>2, <1>3
<1>7. IInv'
  BY <1>1, <1>2, <1>5, <1>6 DEF IInv
<1>8. \A q \in Endpoints : Final(ep[q], ep'[q])
  BY <1>1, StayFinal
<1>9. QED
  BY <1>7, <1>8 DEF Keeps

LEMMA ReceiveSteps ==
  ASSUME IInv, NEW p \in Endpoints, NEW frames \in 1 .. use.chunk, ReceiveChunk(p, frames)
  PROVE  Keeps
<1>1. PICK read : read = SubSeq(wire[p], 1, frames)
  OBVIOUS
<1>2. PICK rest : rest = SubSeq(wire[p], frames + 1, Len(wire[p]))
  OBVIOUS
<1>3. PICK result : result = Receive(ep[p], read)
  OBVIOUS
<1>4. /\ frames <= Len(wire[p])
      /\ ep' = [ ep EXCEPT ![p] = result.endpoint ]
      /\ wire' = [ wire EXCEPT ![p] = rest, ![Peer(p)] = @ \o result.out ]
      /\ use' = use /\ clock' = clock /\ sent' = sent
  BY <1>1, <1>2, <1>3 DEF ReceiveChunk
<1>5. /\ use \in Uses /\ PastOK(Past(p)) /\ Good(ep[p], Past(p)) /\ Carries(wire[p], sent[Peer(p)])
  BY DEF IInv
<1>6. IsSequence(wire[p]) /\ Len(wire[p]) \in Nat
  BY <1>5, SequenceHas DEF Carries
<1>7. frames \in Nat \ {0} /\ frames \in 0 .. Len(wire[p])
  BY <1>4, <1>5, <1>6, LinkAssumption
<1>8. Carries(read, sent[Peer(p)])
  <2>1. IsSequence(read) /\ Elements(read) \subseteq Elements(wire[p])
    BY <1>1, <1>6, <1>7, SubSeqHas
  <2>2. QED
    BY <1>5, <2>1 DEF Carries
<1>9. Carries(rest, sent[Peer(p)])
  <2>1. frames + 1 \in Nat \ {0} /\ Len(wire[p]) \in 0 .. Len(wire[p])
    BY <1>6, <1>7
  <2>2. IsSequence(rest) /\ Elements(rest) \subseteq Elements(wire[p])
    BY <1>2, <1>6, <2>1, SubSeqHas
  <2>3. QED
    BY <1>5, <2>2 DEF Carries
<1>10. Outcome(ep[p], result, Past(p))
  <2>1. Carries(read, Past(p).theirs)
    BY <1>8 DEF Past
  <2>2. QED
    BY <1>3, <1>5, <2>1, ReceiveOutcome
<1>11. QED
  BY <1>4, <1>9, <1>10, EndSteps

LEMMA NextKeeps ==
  ASSUME IInv, [Next]_vars
  PROVE  Keeps
<1>1. CASE UNCHANGED vars
  BY <1>1, RestSteps DEF vars
<1>2. CASE Next
  <2>1. PICK p \in Endpoints :
          \/ StartEngine(p)
          \/ Call(p, "open", { OpenChannel(ep[p]) })
          \/ \E id \in Ids(p), size \in use.sizes : SendMessage(p, id, size)
          \/ \E id \in Ids(p), direction \in Direction :
               Call(p, "half_close", { HalfCloseCall(ep[p], id, direction) })
          \/ \E id \in Ids(p) : Call(p, "reset", { ResetCall(ep[p], id) })
          \/ Call(p, "flush", { Flush(ep[p]) })
          \/ \E id \in Ids(p) : Call(p, "credit", { GrantCredit(ep[p], id, 1) })
          \/ Call(p, "goaway", { GoAway(ep[p]) })
          \/ Call(p, "ping", { PingCall(ep[p], use.time + 1) })
          \/ \E first \in 1 .. 3 : Call(p, "resume", { ResumeCall(ep[p], first) })
          \/ Call(p, "ack", { AcknowledgeCall(ep[p], << [ first |-> 1, last |-> 1 ] >>) })
          \/ \E frames \in 1 .. use.chunk : ReceiveChunk(p, frames)
          \/ RunTask(p)
          \/ Tick
          \/ ReportTime(p)
          \/ Cut(p)
    BY <1>2 DEF Next
  <2>2. /\ Good(ep[p], Past(p)) /\ PastOK(Past(p)) /\ use \in Uses /\ clock \in 0 .. use.time
    BY DEF IInv
  <2>3. Past(p).clock = clock /\ clock \in Nat
    BY <2>2, LinkAssumption DEF Past
  <2>4. ASSUME NEW operation, NEW result, Outcome(ep[p], result, Past(p)),
               Call(p, operation, { result })
        PROVE  Keeps
    <3>1. Result(p, result) /\ use' = use /\ clock' = clock /\ sent' = sent
      BY <2>4 DEF Call
    <3>2. QED
      BY <2>4, <3>1, CallSteps
  <2>5. CASE StartEngine(p)
    <3>1. PICK result : result = Start(ep[p])
      OBVIOUS
    <3>2. Result(p, result) /\ use' = use /\ clock' = clock /\ sent' = sent
      BY <2>5, <3>1 DEF StartEngine
    <3>3. Outcome(ep[p], result, Past(p))
      BY <2>2, <3>1, StartOutcome
    <3>4. QED
      BY <3>2, <3>3, CallSteps
  <2>6. CASE Call(p, "open", { OpenChannel(ep[p]) })
    BY <2>2, <2>4, <2>6, OpenChannelOutcome
  <2>7. CASE \E id \in Ids(p), size \in use.sizes : SendMessage(p, id, size)
    BY <2>7, SendSteps
  <2>8. CASE \E id \in Ids(p), direction \in Direction :
               Call(p, "half_close", { HalfCloseCall(ep[p], id, direction) })
    BY <2>2, <2>4, <2>8, HalfCloseOutcome
  <2>9. CASE \E id \in Ids(p) : Call(p, "reset", { ResetCall(ep[p], id) })
    BY <2>2, <2>4, <2>9, ResetOutcome
  <2>10. CASE Call(p, "flush", { Flush(ep[p]) })
    BY <2>2, <2>4, <2>10, FlushOutcome
  <2>11. CASE \E id \in Ids(p) : Call(p, "credit", { GrantCredit(ep[p], id, 1) })
    BY <2>2, <2>4, <2>11, FrameOutcomes
  <2>12. CASE Call(p, "goaway", { GoAway(ep[p]) })
    BY <2>2, <2>4, <2>12, GoAwayOutcome
  <2>13. CASE Call(p, "ping", { PingCall(ep[p], use.time + 1) })
    BY <2>2, <2>4, <2>13, FrameOutcomes
  <2>14. CASE \E first \in 1 .. 3 : Call(p, "resume", { ResumeCall(ep[p], first) })
    BY <2>2, <2>4, <2>14, FrameOutcomes
  <2>15. CASE Call(p, "ack", { AcknowledgeCall(ep[p], << [ first |-> 1, last |-> 1 ] >>) })
    BY <2>2, <2>4, <2>15, FrameOutcomes
  <2>16. CASE \E frames \in 1 .. use.chunk : ReceiveChunk(p, frames)
    BY <2>16, ReceiveSteps
  <2>17. CASE RunTask(p)
    <3>1. PICK result : result = DrainOne(ep[p])
      OBVIOUS
    <3>2. Result(p, result) /\ use' = use /\ clock' = clock /\ sent' = sent /\ ep[p].tasks # << >>
      BY <2>17, <3>1 DEF RunTask
    <3>3. Outcome(ep[p], result, Past(p))
      BY <2>2, <3>1, <3>2, DrainOneOutcome
    <3>4. QED
      BY <3>2, <3>3, CallSteps
  <2>18. CASE Tick
    BY <2>18, TickSteps
  <2>19. CASE ReportTime(p)
    <3>1. PICK result : result = AdvanceTime(ep[p], clock)
      OBVIOUS
    <3>2. Result(p, result) /\ use' = use /\ clock' = clock /\ sent' = sent
      BY <2>19, <3>1 DEF ReportTime
    <3>3. Outcome(ep[p], result, Past(p))
      <4>1. clock \in 0 .. Past(p).clock
        BY <2>3
      <4>2. QED
        BY <2>2, <2>3, <3>1, <4>1, AdvanceOutcome
    <3>4. QED
      BY <3>2, <3>3, CallSteps
  <2>20. CASE Cut(p)
    <3>1. ep' = ep /\ wire' = wire /\ use' = use /\ sent' = sent /\ clock' = clock
      BY <2>20 DEF Cut
    <3>2. QED
      BY <3>1, RestSteps
  <2>21. QED
    BY <2>1, <2>5, <2>6, <2>7, <2>8, <2>9, <2>10, <2>11, <2>12, <2>13, <2>14, <2>15, <2>16,
       <2>17, <2>18, <2>19, <2>20
<1>3. QED
  BY <1>1, <1>2

-----------------------------------------------------------------------------
(* Theorems *)

LEMMA Inductive == Spec => []IInv
<1>1. IInv /\ [Next]_vars => IInv'
  BY NextKeeps DEF Keeps
<1>2. QED
  BY InitIInv, <1>1, PTL DEF Spec

LEMMA IInvTypeOK == IInv => TypeOK
<1> SUFFICES ASSUME IInv, NEW p \in Endpoints
             PROVE  /\ ep[p].state \in ConnectionState
                    /\ ep[p].pong \in 0 .. use.time + 1
                    /\ ep[p].now <= clock
                    /\ Len(ep[p].tasks) <= ExecutorCapacity
                    /\ ep[p].scheduler.queued \in 0 .. ByteLimit
                    /\ Len(ep[p].window) <= Capacity
  BY DEF TypeOK
<1>1. Good(ep[p], Past(p)) /\ use \in Uses /\ clock \in 0 .. use.time /\ Past(p).clock = clock
  BY DEF IInv, Past
<1>2. use.time \in Nat /\ clock \in Nat /\ clock <= use.time
  BY <1>1, LinkAssumption
<1>3. ep[p].now \in 0 .. clock /\ ep[p].pong \in 0 .. clock + 1
  BY <1>1 DEF Good, Timed
<1>4. ep[p].state \in ConnectionState /\ Len(ep[p].window) <= Capacity
  BY <1>1 DEF Good, Phased, Kept
<1>5. ep[p].scheduler.queued \in 0 .. ByteLimit /\ Len(ep[p].tasks) <= ExecutorCapacity
  BY <1>1 DEF Good, Queued, Answered
<1>6. ep[p].pong \in 0 .. use.time + 1 /\ ep[p].now <= clock
  BY <1>2, <1>3
<1>7. QED
  BY <1>4, <1>5, <1>6

LEMMA IInvDelivered == IInv => DeliveredIsPrefix
<1> SUFFICES ASSUME IInv, NEW p \in Endpoints, NEW id \in Ids(p),
                    NEW i \in Raised(ep[p].events, "message_delivered", id)
             PROVE  /\ ep[p].events[i].sequence = Rank(Raised(ep[p].events, "message_delivered", id), i)
                    /\ \E k \in SentOn(sent[Peer(p)], id) :
                         /\ Rank(SentOn(sent[Peer(p)], id), k)
                              = Rank(Raised(ep[p].events, "message_delivered", id), i)
                         /\ ep[p].events[i].payload = sent[Peer(p)][k].payload
  BY IInvTypeOK DEF DeliveredIsPrefix
<1>1. PICK events : events = ep[p].events
  OBVIOUS
<1>2. PICK their : their = sent[Peer(p)]
  OBVIOUS
<1>3. Delivered(ep[p].channels, events, their)
  BY <1>1, <1>2 DEF IInv, Good, Past
<1>4. i \in DOMAIN events /\ events[i].kind = "message_delivered" /\ events[i].channel = id
  BY <1>1 DEF Raised
<1>5. events[i].sequence = Rank(Deliveries(events, id), i)
  BY <1>3, <1>4 DEF Delivered
<1>6. PICK k \in DOMAIN their : /\ Numbered(their, id, events[i].sequence, k)
                                /\ events[i].payload = their[k].payload
  BY <1>3, <1>4 DEF Delivered
<1>7. k \in SentOn(their, id) /\ Rank(SentOn(their, id), k) = events[i].sequence
  BY <1>6 DEF Numbered
<1>8. QED
  BY <1>1, <1>2, <1>5, <1>6, <1>7 DEF Deliveries

(* The same of one engine's events for one channel.                        *)
LEMMA ResultsFollow ==
  ASSUME NEW events, NEW tasks, Answered(events, tasks), NEW id,
         NEW results, results = Raised(events, "plugin_response", id),
         NEW got, got = Raised(events, "message_delivered", id)
  PROVE  /\ \A i, j \in results : i < j => events[i].sequence < events[j].sequence
         /\ \A i \in results : \E j \in got :
              /\ j < i
              /\ events[j].sequence = events[i].sequence
              /\ events[j].payload = events[i].payload
<1>1. \A i \in results : i \in DOMAIN events /\ events[i].kind = "plugin_response" /\ events[i].channel = id
  BY DEF Raised
<1>2. \A i, j \in results : i < j => events[i].sequence < events[j].sequence
  BY <1>1 DEF Answered
<1>3. ASSUME NEW i \in results
      PROVE  \E j \in got : /\ j < i
                            /\ events[j].sequence = events[i].sequence
                            /\ events[j].payload = events[i].payload
  <2>1. Answers(events[i], events, i)
    BY <1>1 DEF Answered
  <2>2. PICK j \in DOMAIN events :
          /\ j < i
          /\ events[j].kind = "message_delivered"
          /\ events[j].channel = events[i].channel
          /\ events[j].sequence = events[i].sequence
          /\ events[j].payload = events[i].payload
    BY <2>1 DEF Answers
  <2>3. j \in got
    BY <1>1, <2>2 DEF Raised
  <2>4. QED
    BY <2>2, <2>3
<1>4. QED
  BY <1>2, <1>3


LEMMA IInvResponses == IInv => ResponsesFollowDelivery
<1>1. ASSUME IInv, NEW p \in Endpoints PROVE Answered(ep[p].events, ep[p].tasks)
  BY <1>1 DEF IInv, Good
<1>2. QED
  BY <1>1, ResultsFollow DEF ResponsesFollowDelivery

(* What arrives is what was sent, in order and without a gap: what an      *)
(* engine has told its application of a channel is a prefix of the         *)
(* messages for which the peer's send took a number.                       *)
THEOREM DeliveryInOrder == Spec => []DeliveredIsPrefix
<1>1. QED
  BY Inductive, IInvDelivered, PTL

(* A plugin's results come in the order of the messages, one each at most. *)
THEOREM ResponsesInOrder == Spec => []ResponsesFollowDelivery
<1>1. QED
  BY Inductive, IInvResponses, PTL

(* Whatever is still under way, buffered or queued for a channel that was  *)
(* reset, its application hears no more of it.                             *)
THEOREM ResetForGood == Spec => ResetIsFinal
<1>1. ASSUME IInv, [Next]_vars, NEW p \in Endpoints, NEW id \in Ids(p),
             ep[p].channels[id.number].state = "tombstone"
      PROVE  /\ ep'[p].channels[id.number] = ep[p].channels[id.number]
             /\ \A kind \in { "message_delivered", "plugin_response" } :
                  Raised(ep'[p].events, kind, id) = Raised(ep[p].events, kind, id)
  <2>1. PICK n \in Numbers : id = Key(ep[p].channels, n)
    BY DEF Ids, Key
  <2>2. id.number = n
    BY <2>1 DEF Key
  <2>3. Final(ep[p], ep'[p])
    BY <1>1, NextKeeps DEF Keeps
  <2>4. /\ ep'[p].channels[n] = ep[p].channels[n]
        /\ \A kind \in { "message_delivered", "plugin_response" } :
             Raised(ep'[p].events, kind, Key(ep[p].channels, n))
               = Raised(ep[p].events, kind, Key(ep[p].channels, n))
    BY <1>1, <2>2, <2>3 DEF Final
  <2>5. QED
    BY <2>1, <2>2, <2>4, Zenon
<1>2. IInv /\ [Next]_vars =>
        [ \A p \in Endpoints : \A id \in Ids(p) :
            ep[p].channels[id.number].state = "tombstone" =>
              /\ ep'[p].channels[id.number] = ep[p].channels[id.number]
              /\ \A kind \in { "message_delivered", "plugin_response" } :
                   Raised(ep'[p].events, kind, id) = Raised(ep[p].events, kind, id) ]_vars
  BY <1>1
<1>3. QED
  BY Inductive, <1>2, PTL DEF Spec, ResetIsFinal
=============================================================================
