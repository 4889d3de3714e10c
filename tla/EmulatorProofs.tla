---------------------------- MODULE EmulatorProofs ----------------------------
(***************************************************************************)
(* Safety of CEmulator for any number of launchers and of reads: the       *)
(* listener is never started twice, no buffer is read into twice at once,  *)
(* and no session gets what belongs to another, although completions are   *)
(* handled late and do not know their session.                             *)
(***************************************************************************)
EXTENDS Emulator, FiniteSetTheorems, SequenceTheorems, TLAPS

(* Completions of accepts and of reads from the server list carry the      *)
(* token; those of reads from the launcher do not.                         *)
Carries(c) == c.op \in {"accept", "server"}
NoneQueued(q) == \A i \in 1..Len(q) : ~Carries(q[i])
OneQueued(q) ==
  \E i \in 1..Len(q) : Carries(q[i]) /\ \A j \in 1..Len(q) : j # i => ~Carries(q[j])

(* Where the token is: OneToken without counting.                          *)
TokenGone(o, q) == o["accept"] = 0 /\ o["server"] = 0 /\ NoneQueued(q)
TokenThere(o, q) ==
  \/ o["accept"] = 1 /\ o["server"] = 0 /\ NoneQueued(q)
  \/ o["accept"] = 0 /\ o["server"] = 1 /\ NoneQueued(q)
  \/ o["accept"] = 0 /\ o["server"] = 0 /\ OneQueued(q)
Token(o, q, there) == IF there THEN TokenThere(o, q) ELSE TokenGone(o, q)

(* Data from the launcher that is yet to be handled.                       *)
IsData(c) == c.op = "client" /\ c.ok
NoData(q) == \A i \in 1..Len(q) : ~IsData(q[i])
OneDatum(q) == \A i, j \in 1..Len(q) : IsData(q[i]) /\ IsData(q[j]) => i = j
AcceptQueued(q) == \E i \in 1..Len(q) : q[i].op = "accept"
DataFirst(q) == \A i, j \in 1..Len(q) : q[i].op = "accept" /\ IsData(q[j]) => j < i

(* The launcher's buffer is read into once at a time; while it is listened *)
(* for the next launcher nothing is read from this one any more, and its   *)
(* data is handled before the next one is accepted.                        *)
ClientInv(o, q, isOpen) ==
  /\ OneDatum(q) /\ DataFirst(q)
  /\ o["client"] = 1 => NoData(q)
  /\ o["accept"] = 1 \/ AcceptQueued(q) => ~isOpen["client"] /\ o["client"] = 0

(* Completions while session s is served: all data is from that session.   *)
Served(s) ==
  {c \in [op : Ops, ok : BOOLEAN, session : 0..MaxSessions, no : Nat] :
     c.op \in Sides /\ c.ok => c.session = s /\ c.no \in 1..MaxReads}

(* A pair of outstanding operations and queue in session s, with the token *)
(* among them or with the handler that is running.                         *)
Good(state, there, isOpen, s) ==
  /\ state.outstanding \in [Ops -> 0..1]
  /\ state.queue \in Seq(Served(s))
  /\ Token(state.outstanding, state.queue, there)
  /\ ClientInv(state.outstanding, state.queue, isOpen)

Transfer == [from : 0..MaxSessions, to : 0..MaxSessions, no : 1..MaxReads]

IInv ==
  /\ Good(State(outstanding, queue), ~unreachable, open, session["client"])
  /\ open \in [Sides -> BOOLEAN]
  /\ session \in [Sides -> 0..MaxSessions] /\ session["client"] = session["server"]
  /\ sessions \in 0..MaxSessions /\ reads \in 0..MaxReads
  /\ passed \in Seq(Transfer) /\ NoCrossing
  /\ unreachable \in BOOLEAN

-------------------------------------------------------------------------------
(* What appending a completion and taking the oldest do to the predicates  *)
(* on the queue.                                                           *)

LEMMA SequenceFacts ==
  ASSUME NEW S, NEW q \in Seq(S)
  PROVE  /\ Len(q) \in Nat /\ DOMAIN q = 1..Len(q)
         /\ \A i \in 1..Len(q) : q[i] \in S
  OBVIOUS

LEMMA AppendFacts ==
  ASSUME NEW S, NEW q \in Seq(S), NEW c \in S
  PROVE  /\ Append(q, c) \in Seq(S) /\ Len(Append(q, c)) = Len(q) + 1
         /\ Append(q, c)[Len(q) + 1] = c
         /\ \A i \in 1..Len(q) : Append(q, c)[i] = q[i]
  OBVIOUS

LEMMA TailFacts ==
  ASSUME NEW S, NEW q \in Seq(S), q # <<>>
  PROVE  /\ Head(q) = q[1] /\ Len(q) >= 1 /\ Head(q) \in S
         /\ Tail(q) \in Seq(S) /\ Len(Tail(q)) = Len(q) - 1
         /\ \A i \in 1..Len(q) - 1 : Tail(q)[i] = q[i + 1]
  OBVIOUS

LEMMA Appended ==
  ASSUME NEW S, NEW q \in Seq(S), NEW c \in S
  PROVE  LET r == Append(q, c)
         IN  /\ ~Carries(c) /\ NoneQueued(q) => NoneQueued(r)
             /\ ~Carries(c) /\ OneQueued(q) => OneQueued(r)
             /\ Carries(c) /\ NoneQueued(q) => OneQueued(r)
             /\ ~IsData(c) /\ NoData(q) => NoData(r)
             /\ ~IsData(c) /\ OneDatum(q) => OneDatum(r)
             /\ NoData(q) => OneDatum(r)
             /\ ~IsData(c) /\ DataFirst(q) => DataFirst(r)
             /\ ~AcceptQueued(q) /\ c.op # "accept" => ~AcceptQueued(r) /\ DataFirst(r)
             /\ AcceptQueued(r) => AcceptQueued(q) \/ c.op = "accept"
  <1> DEFINE r == Append(q, c)
             n == Len(q)
  <1>1. /\ Len(r) = n + 1 /\ n \in Nat /\ r[n + 1] = c
        /\ \A i \in 1..n : r[i] = q[i]
    BY AppendFacts
  <1> HIDE DEF r, n
  <1>2. n = Len(q)
    BY DEF n
  <1>3. \A i \in 1..n + 1 : i = n + 1 \/ i \in 1..n
    BY <1>1
  <1>4. ~Carries(c) /\ NoneQueued(q) => NoneQueued(r)
    BY <1>1, <1>2, <1>3 DEF NoneQueued
  <1>5. ~Carries(c) /\ OneQueued(q) => OneQueued(r)
    <2>1. SUFFICES ASSUME ~Carries(c), OneQueued(q) PROVE OneQueued(r)
      OBVIOUS
    <2>2. PICK i \in 1..n : Carries(q[i]) /\ \A j \in 1..n : j # i => ~Carries(q[j])
      BY <1>2, <2>1 DEF OneQueued
    <2>3. i \in 1..Len(r) /\ Carries(r[i])
      BY <1>1, <2>2
    <2>4. \A j \in 1..Len(r) : j # i => ~Carries(r[j])
      BY <1>1, <1>3, <2>1, <2>2
    <2>5. QED
      BY <2>3, <2>4 DEF OneQueued
  <1>6. Carries(c) /\ NoneQueued(q) => OneQueued(r)
    <2>1. SUFFICES ASSUME Carries(c), NoneQueued(q) PROVE OneQueued(r)
      OBVIOUS
    <2>2. n + 1 \in 1..Len(r) /\ Carries(r[n + 1])
      BY <1>1, <2>1
    <2>3. \A j \in 1..Len(r) : j # n + 1 => ~Carries(r[j])
      BY <1>1, <1>2, <1>3, <2>1 DEF NoneQueued
    <2>4. QED
      BY <2>2, <2>3 DEF OneQueued
  <1>7. ~IsData(c) /\ NoData(q) => NoData(r)
    BY <1>1, <1>2, <1>3 DEF NoData
  <1>8. ~IsData(c) /\ OneDatum(q) => OneDatum(r)
    BY <1>1, <1>2, <1>3 DEF OneDatum
  <1>9. NoData(q) => OneDatum(r)
    BY <1>1, <1>2, <1>3 DEF NoData, OneDatum
  <1>10. ~IsData(c) /\ DataFirst(q) => DataFirst(r)
    <2>1. SUFFICES ASSUME ~IsData(c), DataFirst(q), NEW i \in 1..Len(r), NEW j \in 1..Len(r),
                          r[i].op = "accept", IsData(r[j])
                   PROVE  j < i
      BY DEF DataFirst
    <2>2. j \in 1..n /\ r[j] = q[j]
      BY <1>1, <1>3, <2>1
    <2>3. CASE i = n + 1
      BY <1>1, <2>2, <2>3
    <2>4. CASE i \in 1..n
      BY <1>1, <1>2, <2>1, <2>2, <2>4 DEF DataFirst
    <2>5. QED
      BY <1>1, <1>3, <2>3, <2>4
  <1>11. AcceptQueued(r) => AcceptQueued(q) \/ c.op = "accept"
    BY <1>1, <1>2, <1>3 DEF AcceptQueued
  <1>12. ~AcceptQueued(r) => DataFirst(r)
    BY DEF AcceptQueued, DataFirst
  <1>13. QED
    BY <1>4, <1>5, <1>6, <1>7, <1>8, <1>9, <1>10, <1>11, <1>12 DEF r

LEMMA TailTaken ==
  ASSUME NEW S, NEW q \in Seq(S), q # <<>>
  PROVE  LET r == Tail(q)
             h == Head(q)
         IN  /\ NoneQueued(q) => ~Carries(h) /\ NoneQueued(r)
             /\ ~Carries(h) /\ OneQueued(q) => OneQueued(r)
             /\ Carries(h) /\ OneQueued(q) => NoneQueued(r)
             /\ NoData(q) => NoData(r)
             /\ OneDatum(q) => OneDatum(r)
             /\ IsData(h) /\ OneDatum(q) => NoData(r)
             /\ DataFirst(q) => DataFirst(r)
             /\ h.op = "accept" => AcceptQueued(q)
             /\ h.op = "accept" /\ DataFirst(q) => NoData(r)
             /\ AcceptQueued(r) => AcceptQueued(q)
  <1> DEFINE r == Tail(q)
             h == Head(q)
             n == Len(r)
  <1>1. /\ n \in Nat /\ Len(q) = n + 1 /\ h = q[1]
        /\ \A i \in 1..n : r[i] = q[i + 1]
    BY TailFacts, SequenceFacts
  <1> HIDE DEF r, h, n
  <1>2. n = Len(r)
    BY DEF n
  <1>3. /\ \A i \in 1..n : i + 1 \in 1..n + 1 /\ i + 1 # 1
        /\ 1 \in 1..n + 1
        /\ \A i \in 1..n + 1 : i = 1 \/ (i - 1 \in 1..n /\ (i - 1) + 1 = i)
    BY <1>1
  <1>4. NoneQueued(q) => ~Carries(h) /\ NoneQueued(r)
    BY <1>1, <1>2, <1>3 DEF NoneQueued
  <1>5. ~Carries(h) /\ OneQueued(q) => OneQueued(r)
    <2>1. SUFFICES ASSUME ~Carries(h), OneQueued(q) PROVE OneQueued(r)
      OBVIOUS
    <2>2. PICK i \in 1..n + 1 : Carries(q[i]) /\ \A j \in 1..n + 1 : j # i => ~Carries(q[j])
      BY <1>1, <2>1 DEF OneQueued
    <2>3. i - 1 \in 1..n /\ r[i - 1] = q[i]
      BY <1>1, <1>3, <2>1, <2>2
    <2>4. \A j \in 1..n : j # i - 1 => ~Carries(r[j])
      BY <1>1, <1>3, <2>2
    <2>5. QED
      BY <1>2, <2>2, <2>3, <2>4 DEF OneQueued
  <1>6. Carries(h) /\ OneQueued(q) => NoneQueued(r)
    <2>1. SUFFICES ASSUME Carries(h), OneQueued(q) PROVE NoneQueued(r)
      OBVIOUS
    <2>2. PICK i \in 1..n + 1 : Carries(q[i]) /\ \A j \in 1..n + 1 : j # i => ~Carries(q[j])
      BY <1>1, <2>1 DEF OneQueued
    <2>3. i = 1
      BY <1>1, <1>3, <2>1, <2>2
    <2>4. QED
      BY <1>1, <1>2, <1>3, <2>2, <2>3 DEF NoneQueued
  <1>7. NoData(q) => NoData(r)
    BY <1>1, <1>2, <1>3 DEF NoData
  <1>8. OneDatum(q) => OneDatum(r)
    <2>1. SUFFICES ASSUME OneDatum(q), NEW i \in 1..n, NEW j \in 1..n,
                          IsData(r[i]), IsData(r[j])
                   PROVE  i = j
      BY <1>2 DEF OneDatum
    <2>2. i + 1 = j + 1
      BY <1>1, <1>3, <2>1 DEF OneDatum
    <2>3. QED
      BY <2>2
  <1>9. IsData(h) /\ OneDatum(q) => NoData(r)
    BY <1>1, <1>2, <1>3 DEF OneDatum, NoData
  <1>10. DataFirst(q) => DataFirst(r)
    <2>1. SUFFICES ASSUME DataFirst(q), NEW i \in 1..n, NEW j \in 1..n,
                          r[i].op = "accept", IsData(r[j])
                   PROVE  j < i
      BY <1>2 DEF DataFirst
    <2>2. j + 1 < i + 1
      BY <1>1, <1>3, <2>1 DEF DataFirst
    <2>3. QED
      BY <2>2
  <1>11. h.op = "accept" => AcceptQueued(q)
    BY <1>1, <1>3 DEF AcceptQueued
  <1>12. h.op = "accept" /\ DataFirst(q) => NoData(r)
    <2>1. SUFFICES ASSUME h.op = "accept", DataFirst(q), NEW j \in 1..n, IsData(r[j])
                   PROVE  FALSE
      BY <1>2 DEF NoData
    <2>2. j + 1 < 1
      BY <1>1, <1>3, <2>1 DEF DataFirst
    <2>3. QED
      BY <2>2
  <1>13. AcceptQueued(r) => AcceptQueued(q)
    BY <1>1, <1>2, <1>3 DEF AcceptQueued
  <1>14. QED
    BY <1>4, <1>5, <1>6, <1>7, <1>8, <1>9, <1>10, <1>11, <1>12, <1>13 DEF r, h

-------------------------------------------------------------------------------
(* The operations on a pair of outstanding operations and queue.           *)

LEMMA StateParts ==
  ASSUME NEW o, NEW q PROVE State(o, q).outstanding = o /\ State(o, q).queue = q
  BY DEF State

LEMMA GoodParts ==
  ASSUME NEW o, NEW q, NEW there, NEW isOpen, NEW s
  PROVE  Good(State(o, q), there, isOpen, s) <=>
           /\ o \in [Ops -> 0..1] /\ q \in Seq(Served(s))
           /\ Token(o, q, there) /\ ClientInv(o, q, isOpen)
  BY Zenon, StateParts DEF Good

LEMMA FailedIsServed ==
  ASSUME MaxSessions \in Nat, NEW op \in Ops, NEW s
  PROVE  /\ Failed(op) \in Served(s) /\ Failed(op).op = op /\ ~IsData(Failed(op))
         /\ Carries(Failed(op)) <=> op # "client"
  BY DEF Failed, Done, Served, IsData, Carries, Ops, Sides

(* The first completion is taken: the token with it, if it carries it.     *)
LEMMA TakenIsGood ==
  ASSUME NEW o, NEW q, NEW there \in BOOLEAN, NEW isOpen, NEW s,
         Good(State(o, q), there, isOpen, s), q # <<>>
  PROVE  /\ Head(q) \in Served(s)
         /\ Carries(Head(q)) => there
         /\ Good(State(o, Tail(q)), there /\ ~Carries(Head(q)), isOpen, s)
         /\ IsData(Head(q)) => NoData(Tail(q)) /\ o["client"] = 0
         /\ Head(q).op = "accept" => NoData(Tail(q)) /\ o["client"] = 0
  <1>1. /\ o \in [Ops -> 0..1] /\ q \in Seq(Served(s)) /\ Token(o, q, there)
        /\ ClientInv(o, q, isOpen)
    BY Zenon, GoodParts
  <1> DEFINE h == Head(q)
             r == Tail(q)
  <1>2. h \in Served(s) /\ r \in Seq(Served(s))
    BY <1>1, TailFacts
  <1>3. /\ NoneQueued(q) => ~Carries(h) /\ NoneQueued(r)
        /\ ~Carries(h) /\ OneQueued(q) => OneQueued(r)
        /\ Carries(h) /\ OneQueued(q) => NoneQueued(r)
        /\ NoData(q) => NoData(r)
        /\ OneDatum(q) => OneDatum(r)
        /\ IsData(h) /\ OneDatum(q) => NoData(r)
        /\ DataFirst(q) => DataFirst(r)
        /\ h.op = "accept" => AcceptQueued(q)
        /\ h.op = "accept" /\ DataFirst(q) => NoData(r)
        /\ AcceptQueued(r) => AcceptQueued(q)
    BY <1>1, TailTaken
  <1>4. IsData(h) => ~NoData(q)
    <2>1. h = q[1] /\ 1 \in 1..Len(q)
      BY <1>1, TailFacts, SequenceFacts
    <2>2. QED
      BY <2>1 DEF NoData
  <1> HIDE DEF h, r
  <1>5. Carries(h) => there
    BY <1>1, <1>3 DEF Token, TokenGone, TokenThere
  <1>6. Token(o, r, there /\ ~Carries(h))
    BY <1>1, <1>3 DEF Token, TokenGone, TokenThere
  <1>7. ClientInv(o, r, isOpen)
    BY <1>1, <1>3 DEF ClientInv
  <1>8. Good(State(o, r), there /\ ~Carries(h), isOpen, s)
    BY <1>1, <1>2, <1>6, <1>7, GoodParts, Zenon
  <1>9. o["client"] \in 0..1
    BY <1>1 DEF Ops, Sides
  <1>10. /\ IsData(h) => NoData(r) /\ o["client"] = 0
         /\ h.op = "accept" => NoData(r) /\ o["client"] = 0
    BY <1>1, <1>3, <1>4, <1>9 DEF ClientInv
  <1>11. QED
    BY <1>2, <1>5, <1>8, <1>10 DEF h, r

(* Cancelling moves what is outstanding into the queue, the token too.     *)
IsAborted(o, q, side, r) ==
  /\ Aborted(State(o, q), side) = State([o EXCEPT ![side] = 0], r)
  /\ NoData(q) => NoData(r)
  /\ o[side] = 0 => [o EXCEPT ![side] = 0] = o /\ r = q

LEMMA AbortedIsGood ==
  ASSUME NEW o, NEW q, NEW there \in BOOLEAN, NEW isOpen, NEW s, NEW side \in Sides,
         Good(State(o, q), there, isOpen, s)
  PROVE  \E r : /\ IsAborted(o, q, side, r)
                /\ Good(State([o EXCEPT ![side] = 0], r), there, isOpen, s)
  <1> DEFINE p == [o EXCEPT ![side] = 0]
             f == Failed(side)
  <1>1. /\ o \in [Ops -> 0..1] /\ q \in Seq(Served(s)) /\ Token(o, q, there)
        /\ ClientInv(o, q, isOpen)
    BY Zenon, GoodParts
  <1>2. /\ p \in [Ops -> 0..1] /\ p[side] = 0 /\ side \in Ops
        /\ \A op \in Ops : op # side => p[op] = o[op]
        /\ o[side] \in 0..1 /\ "client" \in Ops /\ "server" \in Ops /\ "accept" \in Ops
        /\ o["client"] \in 0..1 /\ o["server"] \in 0..1 /\ o["accept"] \in 0..1
    BY <1>1 DEF Ops, Sides
  <1>3. Aborted(State(o, q), side) = State(p, q \o [i \in 1..o[side] |-> f])
    BY StateParts DEF Aborted
  <1>4. /\ f \in Served(s) /\ f.op = side /\ ~IsData(f)
        /\ Carries(f) <=> side # "client"
    BY <1>2, FailedIsServed, MaxAssumption
  <1> HIDE DEF p, f
  <1>5. CASE o[side] = 0
    <2>1. q \o [i \in 1..o[side] |-> f] = q
      <3>1. [i \in 1..o[side] |-> f] = <<>>
        BY <1>5
      <3>2. QED
        BY <1>1, <3>1, ConcatEmptySeq
    <2>2. p = o
      BY <1>2, <1>5, <1>1
    <2>3. IsAborted(o, q, side, q)
      BY <1>3, <2>1, <2>2 DEF IsAborted, p
    <2>4. QED
      BY <2>2, <2>3 DEF p
  <1>6. CASE o[side] = 1
    <2> DEFINE r == Append(q, f)
    <2>1. q \o [i \in 1..o[side] |-> f] = r
      <3>1. [i \in 1..1 |-> f] = <<f>>
        OBVIOUS
      <3>2. QED
        BY <1>1, <1>4, <1>6, <3>1, AppendIsConcat
    <2>2. r \in Seq(Served(s))
      BY <1>1, <1>4, AppendFacts
    <2>3. /\ ~Carries(f) /\ NoneQueued(q) => NoneQueued(r)
          /\ ~Carries(f) /\ OneQueued(q) => OneQueued(r)
          /\ Carries(f) /\ NoneQueued(q) => OneQueued(r)
          /\ ~IsData(f) /\ NoData(q) => NoData(r)
          /\ ~IsData(f) /\ OneDatum(q) => OneDatum(r)
          /\ ~IsData(f) /\ DataFirst(q) => DataFirst(r)
          /\ AcceptQueued(r) => AcceptQueued(q) \/ f.op = "accept"
      BY <1>1, <1>4, Appended
    <2> HIDE DEF r
    <2>4. side # "accept"
      BY DEF Sides
    <2>5. AcceptQueued(r) => AcceptQueued(q)
      BY <1>4, <2>3, <2>4
    <2>6. Token(p, r, there)
      <3>1. CASE side = "client"
        BY <1>1, <1>2, <1>4, <2>3, <3>1 DEF Token, TokenGone, TokenThere
      <3>2. CASE side = "server"
        BY <1>1, <1>2, <1>4, <1>6, <2>3, <3>2 DEF Token, TokenGone, TokenThere
      <3>3. QED
        BY <3>1, <3>2 DEF Sides
    <2>7. ClientInv(p, r, isOpen)
      <3>1. p["accept"] = o["accept"] /\ (p["client"] = 1 => o["client"] = 1)
            /\ (o["client"] = 0 => p["client"] = 0)
        BY <1>2, <2>4
      <3>2. QED
        BY <1>1, <1>4, <2>3, <2>5, <3>1 DEF ClientInv
    <2>8. Good(State(p, r), there, isOpen, s)
      BY <1>2, <2>2, <2>6, <2>7, GoodParts, Zenon
    <2>9. IsAborted(o, q, side, r)
      <3>1. Aborted(State(o, q), side) = State(p, r)
        BY <1>3, <2>1, Zenon
      <3>2. NoData(q) => NoData(r)
        BY <1>4, <2>3
      <3>3. o[side] # 0
        BY <1>6
      <3>4. QED
        BY <3>1, <3>2, <3>3, Zenon DEF IsAborted, p
    <2>10. QED
      BY <2>8, <2>9 DEF p
  <1>7. o[side] = 0 \/ o[side] = 1
    BY <1>2
  <1>8. QED
    BY <1>5, <1>6, <1>7, Zenon

IsClosed(o, q, p, r) ==
  /\ CLIENT_OnClose(State(o, q)) = State(p, r)
  /\ p["client"] = 0
  /\ NoData(q) => NoData(r)

LEMMA ClosedIsGood ==
  ASSUME NEW o, NEW q, NEW there \in BOOLEAN, NEW isOpen, NEW s,
         Good(State(o, q), there, isOpen, s)
  PROVE  \E p, r : IsClosed(o, q, p, r) /\ Good(State(p, r), there, isOpen, s)
  <1>0. "client" \in Sides /\ "server" \in Sides
    BY DEF Sides
  <1>1. o \in [Ops -> 0..1]
    BY Zenon, GoodParts
  <1> DEFINE p == [o EXCEPT !["server"] = 0]
             p2 == [p EXCEPT !["client"] = 0]
  <1>2. PICK r : IsAborted(o, q, "server", r) /\ Good(State(p, r), there, isOpen, s)
    BY <1>0, AbortedIsGood, Zenon
  <1>3. p2["client"] = 0
    BY <1>1 DEF Ops, Sides
  <1> HIDE DEF p
  <1>4. PICK r2 : IsAborted(p, r, "client", r2) /\ Good(State(p2, r2), there, isOpen, s)
    BY <1>0, <1>2, AbortedIsGood, Zenon
  <1> HIDE DEF p2
  <1>5. /\ Aborted(State(o, q), "server") = State(p, r)
        /\ Aborted(State(p, r), "client") = State(p2, r2)
        /\ NoData(q) => NoData(r2)
    BY <1>2, <1>4 DEF IsAborted, p, p2
  <1>6. IsClosed(o, q, p2, r2)
    BY <1>3, <1>5 DEF IsClosed, CLIENT_OnClose
  <1>7. QED
    BY <1>4, <1>6

(* A closed socket is listened on: the handler hands the token on.         *)
LEMMA ListenIsGood ==
  ASSUME NEW o, NEW q, NEW isOpen, NEW s,
         Good(State(o, q), FALSE, isOpen, s), o["client"] = 0, ~isOpen["client"]
  PROVE  Good(Listen(State(o, q), isOpen), TRUE, isOpen, s)
  <1> DEFINE p == [o EXCEPT !["accept"] = @ + 1]
  <1>1. /\ o \in [Ops -> 0..1] /\ q \in Seq(Served(s)) /\ Token(o, q, FALSE)
        /\ ClientInv(o, q, isOpen)
    BY Zenon, GoodParts
  <1>2. o["accept"] = 0 /\ o["server"] = 0 /\ NoneQueued(q)
    BY <1>1 DEF Token, TokenGone
  <1>3. /\ p \in [Ops -> 0..1] /\ p["accept"] = 1 /\ p["server"] = 0
        /\ p["client"] = 0
    BY <1>1, <1>2 DEF Ops, Sides
  <1>4. Listen(State(o, q), isOpen) = State(p, q)
    BY StateParts DEF Listen
  <1> HIDE DEF p
  <1>5. Token(p, q, TRUE)
    BY <1>2, <1>3 DEF Token, TokenThere
  <1>6. ClientInv(p, q, isOpen)
    BY <1>1, <1>3 DEF ClientInv
  <1>7. QED
    BY <1>1, <1>3, <1>4, <1>5, <1>6, GoodParts, Zenon

(* A read from the server list takes the token, whether it waits or fails. *)
IsServerRead(o, q, isOpen, p, r) ==
  /\ StartRead(State(o, q), "server", isOpen) = State(p, r)
  /\ p["client"] = o["client"]
  /\ NoData(q) => NoData(r)

LEMMA ServerReadIsGood ==
  ASSUME NEW o, NEW q, NEW isOpen, NEW s, Good(State(o, q), FALSE, isOpen, s)
  PROVE  \E p, r : IsServerRead(o, q, isOpen, p, r) /\ Good(State(p, r), TRUE, isOpen, s)
  <1> DEFINE p == [o EXCEPT !["server"] = @ + 1]
             f == Failed("server")
             r == Append(q, f)
  <1>1. /\ o \in [Ops -> 0..1] /\ q \in Seq(Served(s)) /\ Token(o, q, FALSE)
        /\ ClientInv(o, q, isOpen)
    BY Zenon, GoodParts
  <1>2. o["accept"] = 0 /\ o["server"] = 0 /\ NoneQueued(q)
    BY <1>1 DEF Token, TokenGone
  <1>3. CASE isOpen["server"]
    <2>1. /\ p \in [Ops -> 0..1] /\ p["accept"] = 0 /\ p["server"] = 1
          /\ p["client"] = o["client"]
      BY <1>1, <1>2 DEF Ops, Sides
    <2>2. StartRead(State(o, q), "server", isOpen) = State(p, q)
      BY <1>3, StateParts DEF StartRead
    <2> HIDE DEF p
    <2>3. Token(p, q, TRUE)
      BY <1>2, <2>1 DEF Token, TokenThere
    <2>4. ClientInv(p, q, isOpen)
      BY <1>1, <1>2, <2>1 DEF ClientInv
    <2>5. IsServerRead(o, q, isOpen, p, q)
      BY <2>1, <2>2 DEF IsServerRead
    <2>6. QED
      BY <1>1, <2>1, <2>3, <2>4, <2>5, GoodParts, Zenon
  <1>4. CASE ~isOpen["server"]
    <2>1. StartRead(State(o, q), "server", isOpen) = State(o, r)
      BY <1>4, StateParts DEF StartRead
    <2>2. f \in Served(s) /\ f.op = "server" /\ ~IsData(f) /\ Carries(f)
      BY FailedIsServed, MaxAssumption DEF Ops, Sides
    <2> HIDE DEF f
    <2>3. /\ r \in Seq(Served(s)) /\ OneQueued(r)
          /\ NoData(q) => NoData(r)
          /\ OneDatum(q) => OneDatum(r)
          /\ DataFirst(q) => DataFirst(r)
          /\ AcceptQueued(r) => AcceptQueued(q)
      BY <1>1, <1>2, <2>2, Appended, AppendFacts
    <2> HIDE DEF r
    <2>4. Token(o, r, TRUE)
      BY <1>2, <2>3 DEF Token, TokenThere
    <2>5. ClientInv(o, r, isOpen)
      BY <1>1, <2>3 DEF ClientInv
    <2>6. IsServerRead(o, q, isOpen, o, r)
      BY <2>1, <2>3 DEF IsServerRead
    <2>7. QED
      BY <1>1, <2>3, <2>4, <2>5, <2>6, GoodParts, Zenon
  <1>5. QED
    BY <1>3, <1>4

(* The launcher's socket is read from when nothing is read or to be read.  *)
LEMMA ClientReadIsGood ==
  ASSUME NEW o, NEW q, NEW there \in BOOLEAN, NEW isOpen, NEW s,
         Good(State(o, q), there, isOpen, s), o["client"] = 0, NoData(q)
  PROVE  Good(StartRead(State(o, q), "client", isOpen), there, isOpen, s)
  <1> DEFINE p == [o EXCEPT !["client"] = @ + 1]
             f == Failed("client")
             r == Append(q, f)
  <1>1. /\ o \in [Ops -> 0..1] /\ q \in Seq(Served(s)) /\ Token(o, q, there)
        /\ ClientInv(o, q, isOpen)
    BY Zenon, GoodParts
  <1>2. CASE isOpen["client"]
    <2>1. /\ p \in [Ops -> 0..1] /\ p["accept"] = o["accept"]
          /\ p["server"] = o["server"] /\ p["client"] = 1
      BY <1>1 DEF Ops, Sides
    <2>2. StartRead(State(o, q), "client", isOpen) = State(p, q)
      BY <1>2, StateParts DEF StartRead
    <2> HIDE DEF p
    <2>3. Token(p, q, there)
      BY <1>1, <2>1 DEF Token, TokenThere, TokenGone
    <2>4. ClientInv(p, q, isOpen)
      BY <1>1, <1>2, <2>1 DEF ClientInv
    <2>5. QED
      BY <1>1, <2>1, <2>2, <2>3, <2>4, GoodParts, Zenon
  <1>3. CASE ~isOpen["client"]
    <2>1. StartRead(State(o, q), "client", isOpen) = State(o, r)
      BY <1>3, StateParts DEF StartRead
    <2>2. f \in Served(s) /\ f.op = "client" /\ ~IsData(f) /\ ~Carries(f)
      BY FailedIsServed, MaxAssumption DEF Ops, Sides
    <2> HIDE DEF f
    <2>3. /\ r \in Seq(Served(s))
          /\ NoneQueued(q) => NoneQueued(r)
          /\ OneQueued(q) => OneQueued(r)
          /\ NoData(r)
          /\ OneDatum(q) => OneDatum(r)
          /\ DataFirst(q) => DataFirst(r)
          /\ AcceptQueued(r) => AcceptQueued(q)
      BY <1>1, <2>2, Appended, AppendFacts
    <2> HIDE DEF r
    <2>4. Token(o, r, there)
      BY <1>1, <2>3 DEF Token, TokenThere, TokenGone
    <2>5. ClientInv(o, r, isOpen)
      BY <1>1, <2>3 DEF ClientInv
    <2>6. QED
      BY <1>1, <2>1, <2>3, <2>4, <2>5, GoodParts, Zenon
  <1>4. QED
    BY <1>2, <1>3

(* An outstanding operation completes: what it carried is in the queue.    *)
LEMMA CompletedIsGood ==
  ASSUME NEW o, NEW q, NEW there \in BOOLEAN, NEW isOpen, NEW s,
         Good(State(o, q), there, isOpen, s),
         NEW op \in Ops, NEW c \in Served(s), c.op = op, o[op] > 0
  PROVE  Good(State([o EXCEPT ![op] = @ - 1], Append(q, c)), there, isOpen, s)
  <1> DEFINE p == [o EXCEPT ![op] = @ - 1]
             r == Append(q, c)
  <1>1. /\ o \in [Ops -> 0..1] /\ q \in Seq(Served(s)) /\ Token(o, q, there)
        /\ ClientInv(o, q, isOpen)
    BY Zenon, GoodParts
  <1>2. /\ p \in [Ops -> 0..1] /\ p[op] = 0 /\ o[op] = 1
        /\ \A x \in Ops : x # op => p[x] = o[x]
        /\ "client" \in Ops /\ "server" \in Ops /\ "accept" \in Ops
    BY <1>1 DEF Ops, Sides
  <1>3. Carries(c) <=> op # "client"
    BY DEF Carries, Ops, Sides
  <1>4. r \in Seq(Served(s))
    BY <1>1, AppendFacts
  <1>5. /\ ~Carries(c) /\ NoneQueued(q) => NoneQueued(r)
        /\ ~Carries(c) /\ OneQueued(q) => OneQueued(r)
        /\ Carries(c) /\ NoneQueued(q) => OneQueued(r)
        /\ ~IsData(c) /\ OneDatum(q) => OneDatum(r)
        /\ NoData(q) => OneDatum(r)
        /\ ~IsData(c) /\ DataFirst(q) => DataFirst(r)
        /\ ~AcceptQueued(q) /\ c.op # "accept" => ~AcceptQueued(r) /\ DataFirst(r)
        /\ AcceptQueued(r) => AcceptQueued(q) \/ c.op = "accept"
        /\ ~IsData(c) /\ NoData(q) => NoData(r)
    BY <1>1, Appended
  <1>6. IsData(c) => op = "client"
    BY DEF IsData
  <1> HIDE DEF p, r
  <1>7. CASE op = "client"
    <2>1. NoData(q) /\ ~AcceptQueued(q) /\ o["accept"] # 1
      BY <1>1, <1>2, <1>7 DEF ClientInv
    <2>2. Token(p, r, there)
      BY <1>1, <1>2, <1>3, <1>5, <1>7 DEF Token, TokenThere, TokenGone
    <2>3. ClientInv(p, r, isOpen)
      BY <1>2, <1>5, <1>7, <2>1 DEF ClientInv
    <2>4. QED
      BY <1>2, <1>4, <2>2, <2>3, GoodParts, Zenon DEF p, r
  <1>8. CASE op # "client"
    <2>1. ~IsData(c) /\ Carries(c) /\ op \in {"accept", "server"}
      BY <1>3, <1>6, <1>8 DEF Ops, Sides
    <2>2. Token(p, r, there)
      <3>1. CASE op = "accept"
        BY <1>1, <1>2, <1>5, <2>1, <3>1 DEF Token, TokenThere, TokenGone
      <3>2. CASE op = "server"
        BY <1>1, <1>2, <1>5, <2>1, <3>2 DEF Token, TokenThere, TokenGone
      <3>3. QED
        BY <2>1, <3>1, <3>2
    <2>3. p["client"] = o["client"]
      BY <1>2, <1>8
    <2>4. p["accept"] = 1 \/ AcceptQueued(r) => o["accept"] = 1 \/ AcceptQueued(q)
      BY <1>2, <1>5
    <2>5. ClientInv(p, r, isOpen)
      BY <1>1, <1>5, <2>1, <2>3, <2>4 DEF ClientInv
    <2>6. QED
      BY <1>2, <1>4, <2>2, <2>5, GoodParts, Zenon DEF p, r
  <1>9. QED
    BY <1>7, <1>8

(* Sockets are closed.                                                     *)
LEMMA ClosingIsGood ==
  ASSUME NEW o, NEW q, NEW there, NEW isOpen, NEW isOpen2, NEW s,
         Good(State(o, q), there, isOpen, s),
         ~isOpen2["client"] \/ isOpen2["client"] = isOpen["client"]
  PROVE  Good(State(o, q), there, isOpen2, s)
  <1>1. ClientInv(o, q, isOpen) => ClientInv(o, q, isOpen2)
    BY DEF ClientInv
  <1>2. QED
    BY <1>1, GoodParts, Zenon

(* A handler that has taken the token, with no data left, may open sockets *)
(* and start a session.                                                    *)
LEMMA OpeningIsGood ==
  ASSUME NEW o, NEW q, NEW isOpen, NEW isOpen2, NEW s, NEW s2,
         Good(State(o, q), FALSE, isOpen, s), NoData(q)
  PROVE  Good(State(o, q), FALSE, isOpen2, s2)
  <1>1. /\ o \in [Ops -> 0..1] /\ q \in Seq(Served(s)) /\ Token(o, q, FALSE)
        /\ ClientInv(o, q, isOpen)
    BY Zenon, GoodParts
  <1>2. o["accept"] = 0 /\ NoneQueued(q)
    BY <1>1 DEF Token, TokenGone
  <1>3. ~AcceptQueued(q)
    BY <1>2 DEF NoneQueued, AcceptQueued, Carries
  <1>4. ClientInv(o, q, isOpen2)
    BY <1>1, <1>2, <1>3 DEF ClientInv
  <1>5. \A i \in 1..Len(q) : q[i] \in Served(s2)
    <2>1. SUFFICES ASSUME NEW i \in 1..Len(q) PROVE q[i] \in Served(s2)
      OBVIOUS
    <2>2. q[i] \in Served(s) /\ ~Carries(q[i]) /\ ~IsData(q[i])
      BY <1>1, <1>2, SequenceFacts DEF NoneQueued, NoData
    <2>3. QED
      BY <2>2 DEF Served, Carries, IsData, Sides
  <1>6. q \in Seq(Served(s2))
    BY <1>1, <1>5, SequenceFacts
  <1>7. QED
    BY <1>1, <1>4, <1>6, GoodParts, Zenon

-------------------------------------------------------------------------------
(* The invariant *)

LEMMA InvInit == Init => IInv
  <1>1. SUFFICES ASSUME Init PROVE IInv
    OBVIOUS
  <1> USE <1>1
  <1>2. queue \in Seq(Served(0)) /\ Len(queue) = 0
    BY DEF Init
  <1>3. /\ outstanding \in [Ops -> 0..1] /\ outstanding["accept"] = 1
        /\ outstanding["server"] = 0 /\ outstanding["client"] = 0
    BY DEF Init, Ops, Sides
  <1>4. NoneQueued(queue) /\ OneDatum(queue) /\ DataFirst(queue) /\ NoData(queue)
    BY <1>2 DEF NoneQueued, OneDatum, DataFirst, NoData
  <1>5. Token(outstanding, queue, TRUE)
    BY <1>3, <1>4 DEF Token, TokenThere
  <1>6. ~open["client"] /\ open \in [Sides -> BOOLEAN]
    BY Zenon DEF Init, Sides
  <1>7. ClientInv(outstanding, queue, open)
    BY <1>3, <1>4, <1>6 DEF ClientInv
  <1>8. Good(State(outstanding, queue), TRUE, open, 0)
    BY <1>2, <1>3, <1>5, <1>7, GoodParts, Zenon
  <1>9. session["client"] = 0 /\ session["server"] = 0
        /\ session \in [Sides -> 0..MaxSessions]
    BY MaxAssumption DEF Init, Sides
  <1>10. /\ sessions \in 0..MaxSessions /\ reads \in 0..MaxReads
         /\ passed \in Seq(Transfer) /\ NoCrossing
    BY MaxAssumption DEF Init, NoCrossing
  <1>11. unreachable = FALSE
    BY DEF Init
  <1>12. Good(State(outstanding, queue), ~unreachable, open, session["client"])
    BY <1>8, <1>9, <1>11, Zenon
  <1>13. QED
    BY <1>6, <1>9, <1>10, <1>11, <1>12 DEF IInv

LEMMA BecomesGood ==
  ASSUME NEW x, NEW there, NEW isOpen, NEW s, Becomes(x), Good(x, there, isOpen, s)
  PROVE  Good(State(outstanding', queue'), there, isOpen, s)
  BY Zenon, StateParts DEF Good, Becomes

(* What a handler starts with.                                             *)
LEMMA HandlingFacts ==
  ASSUME IInv, NEW op \in Ops, NEW ok \in BOOLEAN, Handling(op, ok)
  PROVE  /\ Head(queue) \in Served(session["client"])
         /\ op # "client" => unreachable = FALSE
         /\ Good(Taken, ~unreachable /\ op = "client", open, session["client"])
         /\ op = "accept" \/ (op = "client" /\ ok) =>
              NoData(Tail(queue)) /\ outstanding["client"] = 0
  <1> DEFINE h == Head(queue)
  <1>1. queue # <<>> /\ h.op = op /\ h.ok = ok
    BY DEF Handling
  <1>2. (~unreachable) \in BOOLEAN /\ unreachable \in BOOLEAN
    BY DEF IInv
  <1>3. Good(State(outstanding, queue), ~unreachable, open, session["client"])
    BY DEF IInv
  <1>4. /\ h \in Served(session["client"])
        /\ Carries(h) => ~unreachable
        /\ Good(Taken, ~unreachable /\ ~Carries(h), open, session["client"])
        /\ IsData(h) => NoData(Tail(queue)) /\ outstanding["client"] = 0
        /\ h.op = "accept" => NoData(Tail(queue)) /\ outstanding["client"] = 0
    BY <1>1, <1>2, <1>3, TakenIsGood, Zenon DEF Taken
  <1> HIDE DEF h
  <1>5. Carries(h) <=> op # "client"
    BY <1>1 DEF Carries, Ops, Sides
  <1>6. (~unreachable /\ ~Carries(h)) = (~unreachable /\ op = "client")
    BY <1>5
  <1>7. Good(Taken, ~unreachable /\ op = "client", open, session["client"])
    BY <1>4, <1>6, Zenon
  <1>8. IsData(h) <=> op = "client" /\ ok
    BY <1>1 DEF IsData
  <1>9. QED
    BY <1>2, <1>1, <1>4, <1>5, <1>7, <1>8 DEF h

LEMMA AcceptCompletesInv == IInv /\ AcceptCompletes => IInv'
  <1>1. SUFFICES ASSUME IInv, AcceptCompletes PROVE IInv'
    OBVIOUS
  <1>2. PICK ok \in BOOLEAN :
          /\ sessions < MaxSessions /\ sessions' = sessions + 1
          /\ Completes("accept", Done("accept", ok, sessions + 1, 0))
          /\ UNCHANGED <<open, session, reads, passed, unreachable>>
    BY <1>1 DEF AcceptCompletes
  <1> DEFINE c == Done("accept", ok, sessions + 1, 0)
  <1>3. sessions' \in 0..MaxSessions
    BY <1>1, <1>2, MaxAssumption DEF IInv
  <1>4. c \in Served(session["client"]) /\ c.op = "accept"
    BY <1>2, <1>3 DEF Served, Done, Ops, Sides
  <1>5. /\ outstanding["accept"] > 0
        /\ outstanding' = [outstanding EXCEPT !["accept"] = @ - 1]
        /\ queue' = Append(queue, c)
    BY <1>2 DEF Completes
  <1> HIDE DEF c
  <1>6. (~unreachable) \in BOOLEAN /\ "accept" \in Ops
        /\ Good(State(outstanding, queue), ~unreachable, open, session["client"])
    BY <1>1 DEF IInv, Ops
  <1>7. Good(State(outstanding', queue'), ~unreachable, open, session["client"])
    BY <1>4, <1>5, <1>6, CompletedIsGood, Zenon
  <1>8. Good(State(outstanding, queue), ~unreachable, open, session["client"])'
    BY <1>2, <1>7, Zenon
  <1>9. QED
    BY <1>1, <1>2, <1>3, <1>8 DEF IInv, NoCrossing

LEMMA ReadCompletesInv ==
  ASSUME NEW side \in Sides
  PROVE  IInv /\ (PeerSends(side) \/ PeerCloses(side)) => IInv'
  <1>1. SUFFICES ASSUME IInv, PeerSends(side) \/ PeerCloses(side) PROVE IInv'
    OBVIOUS
  <1>2. PICK c : /\ Completes(side, c)
                 /\ c = Failed(side) \/ (c = Done(side, TRUE, session[side], reads + 1)
                                         /\ reads < MaxReads)
    BY <1>1 DEF PeerSends, PeerCloses
  <1>3. reads' \in 0..MaxReads /\ UNCHANGED <<open, session, sessions, passed, unreachable>>
    <2>1. reads \in 0..MaxReads
      BY <1>1 DEF IInv
    <2>2. (reads < MaxReads /\ reads' = reads + 1) \/ reads' = reads
      BY <1>1, Zenon DEF PeerSends, PeerCloses
    <2>3. reads' \in 0..MaxReads
      BY <2>1, <2>2, MaxAssumption
    <2>4. QED
      BY <1>1, <2>3, Zenon DEF PeerSends, PeerCloses
  <1>4. c \in Served(session["client"]) /\ c.op = side
    <2>1. CASE c = Failed(side)
      BY <2>1, FailedIsServed, MaxAssumption DEF Ops
    <2>2. CASE c = Done(side, TRUE, session[side], reads + 1) /\ reads < MaxReads
      <3>1. session[side] = session["client"] /\ session[side] \in 0..MaxSessions
            /\ reads + 1 \in 1..MaxReads /\ reads + 1 \in Nat
        BY <1>1, <2>2, MaxAssumption DEF IInv, Sides
      <3>2. QED
        BY <2>2, <3>1 DEF Served, Done, Ops
    <2>3. QED
      BY <1>2, <2>1, <2>2
  <1>5. /\ outstanding[side] > 0
        /\ outstanding' = [outstanding EXCEPT ![side] = @ - 1]
        /\ queue' = Append(queue, c)
    BY <1>2 DEF Completes
  <1>6. (~unreachable) \in BOOLEAN /\ side \in Ops
        /\ Good(State(outstanding, queue), ~unreachable, open, session["client"])
    BY <1>1 DEF IInv, Ops
  <1>7. Good(State(outstanding', queue'), ~unreachable, open, session["client"])
    BY <1>4, <1>5, <1>6, CompletedIsGood, Zenon
  <1>8. Good(State(outstanding, queue), ~unreachable, open, session["client"])'
    BY <1>3, <1>7, Zenon
  <1>9. QED
    BY <1>1, <1>3, <1>8 DEF IInv, NoCrossing

LEMMA HandleAcceptInv == IInv /\ HandleAccept => IInv'
  <1>1. SUFFICES ASSUME IInv, HandleAccept PROVE IInv'
    OBVIOUS
  <1> DEFINE s == Head(queue).session
             q == Tail(queue)
             closed == IF open["server"] THEN Aborted(Taken, "server") ELSE Taken
  <1>2. /\ Head(queue) \in Served(session["client"]) /\ unreachable = FALSE
        /\ Good(Taken, FALSE, open, session["client"])
        /\ NoData(q) /\ outstanding["client"] = 0
    <2>1. Handling("accept", TRUE) /\ "accept" \in Ops /\ TRUE \in BOOLEAN
      BY <1>1 DEF HandleAccept, Ops
    <2>2. (~unreachable /\ "accept" = "client") = FALSE
      OBVIOUS
    <2>3. QED
      BY <1>1, <2>1, <2>2, HandlingFacts
  <1>3. s \in 0..MaxSessions
    BY <1>2 DEF Served
  <1>4. /\ open' = [side \in Sides |-> TRUE] /\ session' = [side \in Sides |-> s]
        /\ Becomes(StartRead(StartRead(closed, "server", open'), "client", open'))
        /\ UNCHANGED <<sessions, reads, passed, unreachable>>
    BY <1>1 DEF HandleAccept
  <1>5. Taken = State(outstanding, q)
    BY DEF Taken
  <1>6. closed = Taken
    <2>1. outstanding["server"] = 0
      BY <1>2, <1>5, GoodParts, Zenon DEF Token, TokenGone
    <2>2. PICK r : IsAborted(outstanding, q, "server", r)
      <3>1. "server" \in Sides /\ FALSE \in BOOLEAN
        BY DEF Sides
      <3>2. QED
        BY <1>2, <1>5, <3>1, AbortedIsGood, Zenon
    <2>3. Aborted(Taken, "server") = Taken
      BY <1>5, <2>1, <2>2, Zenon DEF IsAborted
    <2>4. QED
      BY <2>3
  <1> HIDE DEF s, q, closed
  <1>7. Good(State(outstanding, q), FALSE, open', s)
    BY <1>2, <1>5, OpeningIsGood, Zenon
  <1>8. PICK p, r : /\ IsServerRead(outstanding, q, open', p, r)
                    /\ Good(State(p, r), TRUE, open', s)
    BY <1>7, ServerReadIsGood, Zenon
  <1>9. /\ StartRead(closed, "server", open') = State(p, r)
        /\ p["client"] = 0 /\ NoData(r)
    BY <1>2, <1>5, <1>6, <1>8, Zenon DEF IsServerRead
  <1>10. Good(StartRead(State(p, r), "client", open'), TRUE, open', s)
    <2>1. TRUE \in BOOLEAN
      OBVIOUS
    <2>2. QED
      BY <1>8, <1>9, <2>1, ClientReadIsGood, Zenon
  <1>11. Good(State(outstanding', queue'), TRUE, open', s)
    BY <1>4, <1>9, <1>10, BecomesGood, Zenon
  <1>12. /\ session'["client"] = s /\ session'["server"] = s
         /\ session' \in [Sides -> 0..MaxSessions] /\ unreachable' = FALSE
         /\ open' \in [Sides -> BOOLEAN]
    BY <1>2, <1>3, <1>4 DEF Sides
  <1>13. Good(State(outstanding, queue), ~unreachable, open, session["client"])'
    BY <1>11, <1>12, Zenon
  <1>14. QED
    BY <1>1, <1>4, <1>12, <1>13 DEF IInv, NoCrossing

LEMMA HandleAcceptUnreachableInv == IInv /\ HandleAcceptUnreachable => IInv'
  <1>1. SUFFICES ASSUME IInv, HandleAcceptUnreachable PROVE IInv'
    OBVIOUS
  <1> DEFINE s == Head(queue).session
             q == Tail(queue)
  <1>2. /\ Head(queue) \in Served(session["client"])
        /\ Good(Taken, FALSE, open, session["client"])
        /\ NoData(q)
    <2>1. Handling("accept", TRUE) /\ "accept" \in Ops /\ TRUE \in BOOLEAN
      BY <1>1 DEF HandleAcceptUnreachable, Ops
    <2>2. (~unreachable /\ "accept" = "client") = FALSE
      OBVIOUS
    <2>3. QED
      BY <1>1, <2>1, <2>2, HandlingFacts
  <1>3. s \in 0..MaxSessions
    BY <1>2 DEF Served
  <1>4. /\ \E isOpen \in BOOLEAN :
             open' = [open EXCEPT !["client"] = TRUE, !["server"] = isOpen]
        /\ session' = [side \in Sides |-> s]
        /\ Becomes(CLIENT_OnClose(Taken)) /\ unreachable' = TRUE
        /\ UNCHANGED <<sessions, reads, passed>>
    BY <1>1 DEF HandleAcceptUnreachable
  <1>5. Taken = State(outstanding, q) /\ FALSE \in BOOLEAN
    BY DEF Taken
  <1> HIDE DEF s, q
  <1>6. Good(State(outstanding, q), FALSE, open', s)
    BY <1>2, <1>5, OpeningIsGood, Zenon
  <1>7. PICK p, r : /\ IsClosed(outstanding, q, p, r)
                    /\ Good(State(p, r), FALSE, open', s)
    BY <1>5, <1>6, ClosedIsGood, Zenon
  <1>8. CLIENT_OnClose(Taken) = State(p, r)
    BY <1>5, <1>7 DEF IsClosed
  <1>9. Good(State(outstanding', queue'), FALSE, open', s)
    BY <1>4, <1>7, <1>8, BecomesGood, Zenon
  <1>10. open' \in [Sides -> BOOLEAN]
    <2>1. open \in [Sides -> BOOLEAN]
      BY <1>1 DEF IInv
    <2>2. QED
      BY <1>4, <2>1, Zenon
  <1>11. /\ session'["client"] = s /\ session'["server"] = s
         /\ session' \in [Sides -> 0..MaxSessions]
    BY <1>3, <1>4 DEF Sides
  <1>12. Good(State(outstanding, queue), ~unreachable, open, session["client"])'
    <2>1. (~unreachable') = FALSE
      BY <1>4
    <2>2. QED
      BY <1>9, <1>11, <2>1, Zenon
  <1>13. QED
    BY <1>1, <1>4, <1>10, <1>11, <1>12 DEF IInv, NoCrossing

(* HandleRead of either side: what is passed on stays in its session.      *)
LEMMA HandleReadInv ==
  ASSUME NEW side \in Sides
  PROVE  IInv /\ HandleRead(side) => IInv'
  <1>1. SUFFICES ASSUME IInv, HandleRead(side) PROVE IInv'
    OBVIOUS
  <1> DEFINE h == Head(queue)
             q == Tail(queue)
             s == session["client"]
  <1>2. /\ h \in Served(s) /\ h.op = side /\ h.ok
        /\ side = "server" => unreachable = FALSE
        /\ Good(Taken, ~unreachable /\ side = "client", open, s)
        /\ side = "client" => NoData(q) /\ outstanding["client"] = 0
    <2>1. Handling(side, TRUE) /\ side \in Ops /\ TRUE \in BOOLEAN /\ side # "accept"
      BY <1>1 DEF HandleRead, Ops, Sides
    <2>2. h.op = side /\ h.ok
      BY <2>1 DEF Handling
    <2>3. QED
      BY <1>1, <2>1, <2>2, HandlingFacts
  <1>3. /\ passed' = Passed(side) /\ Becomes(StartRead(Taken, side, open))
        /\ UNCHANGED <<open, session, sessions, reads, unreachable>>
    BY <1>1 DEF HandleRead
  <1>4. Taken = State(outstanding, q)
    BY DEF Taken
  <1>5. passed' \in Seq(Transfer) /\ NoCrossing'
    <2> DEFINE e == [from |-> h.session, to |-> session[Other(side)], no |-> h.no]
    <2>1. h.session = s /\ h.no \in 1..MaxReads /\ s \in 0..MaxSessions
          /\ session[Other(side)] = s
      BY <1>1, <1>2 DEF Served, IInv, Sides, Other
    <2>2. e \in Transfer /\ e.from = e.to
      BY <2>1 DEF Transfer
    <2>3. passed' = Append(passed, e) \/ passed' = passed
      BY <1>3 DEF Passed
    <2>4. passed \in Seq(Transfer) /\ \A i \in 1..Len(passed) : passed[i].from = passed[i].to
      BY <1>1, SequenceFacts DEF IInv, NoCrossing
    <2> HIDE DEF e
    <2>5. CASE passed' = passed
      BY <1>1, <2>5 DEF IInv, NoCrossing
    <2>6. CASE passed' = Append(passed, e)
      <3>1. /\ passed' \in Seq(Transfer) /\ Len(passed') = Len(passed) + 1
            /\ passed'[Len(passed) + 1] = e
            /\ \A i \in 1..Len(passed) : passed'[i] = passed[i]
        BY <2>2, <2>4, <2>6, AppendFacts
      <3>2. Len(passed) \in Nat /\ DOMAIN passed' = 1..Len(passed')
        BY <2>4, <3>1, SequenceFacts
      <3>3. \A i \in 1..Len(passed') : passed'[i].from = passed'[i].to
        BY <2>2, <2>4, <3>1, <3>2
      <3>4. QED
        BY <3>1, <3>2, <3>3 DEF NoCrossing
    <2>7. QED
      BY <2>3, <2>5, <2>6
  <1>6. Good(StartRead(Taken, side, open), ~unreachable, open, s)
    <2>1. (~unreachable) \in BOOLEAN /\ unreachable \in BOOLEAN
      BY <1>1 DEF IInv
    <2> HIDE DEF q, s, h
    <2>2. CASE side = "client"
      <3>1. (~unreachable /\ side = "client") = (~unreachable)
        BY <2>1, <2>2
      <3>2. Good(State(outstanding, q), ~unreachable, open, s)
        BY <1>2, <1>4, <3>1, Zenon
      <3>3. QED
        BY <1>2, <1>4, <2>1, <2>2, <3>2, ClientReadIsGood, Zenon
    <2>3. CASE side = "server"
      <3>1. (~unreachable /\ side = "client") = FALSE /\ (~unreachable) = TRUE
        BY <1>2, <2>3
      <3>2. Good(State(outstanding, q), FALSE, open, s)
        BY <1>2, <1>4, <3>1, Zenon
      <3>3. PICK p, r : /\ IsServerRead(outstanding, q, open, p, r)
                        /\ Good(State(p, r), TRUE, open, s)
        BY <3>2, ServerReadIsGood, Zenon
      <3>4. StartRead(Taken, side, open) = State(p, r)
        BY <1>4, <2>3, <3>3, Zenon DEF IsServerRead
      <3>5. QED
        BY <3>1, <3>3, <3>4, Zenon
    <2>4. QED
      BY <2>2, <2>3 DEF Sides
  <1> HIDE DEF s, q, h
  <1>7. Good(State(outstanding', queue'), ~unreachable, open, s)
    BY <1>3, <1>6, BecomesGood, Zenon
  <1>8. Good(State(outstanding, queue), ~unreachable, open, session["client"])'
    BY <1>3, <1>7, Zenon DEF s
  <1>9. QED
    BY <1>1, <1>3, <1>5, <1>8 DEF IInv

(* The two handlers that give the token back to the listener.              *)
LEMMA ListeningInv ==
  ASSUME IInv, NEW op \in {"accept", "server"}, Handling(op, FALSE),
         open' = [open EXCEPT !["client"] = FALSE],
         Becomes(Listen(CLIENT_OnClose(Taken), open')),
         UNCHANGED <<session, sessions, reads, passed, unreachable>>
  PROVE  IInv'
  <1> DEFINE q == Tail(queue)
             s == session["client"]
  <1>1. unreachable = FALSE /\ Good(Taken, FALSE, open, s)
    <2>1. op \in Ops /\ op # "client" /\ FALSE \in BOOLEAN
      BY DEF Ops, Sides
    <2>2. (~unreachable /\ op = "client") = FALSE
      BY <2>1
    <2>3. QED
      BY <2>1, <2>2, HandlingFacts
  <1>2. Taken = State(outstanding, q) /\ FALSE \in BOOLEAN
    BY DEF Taken
  <1> HIDE DEF q, s
  <1>3. open' \in [Sides -> BOOLEAN] /\ ~open'["client"]
    BY Zenon DEF IInv, Sides
  <1>4. Good(State(outstanding, q), FALSE, open', s)
    BY <1>1, <1>2, <1>3, ClosingIsGood, Zenon
  <1>5. PICK p, r : /\ IsClosed(outstanding, q, p, r)
                    /\ Good(State(p, r), FALSE, open', s)
    BY <1>2, <1>4, ClosedIsGood, Zenon
  <1>6. CLIENT_OnClose(Taken) = State(p, r) /\ p["client"] = 0
    BY <1>2, <1>5, Zenon DEF IsClosed
  <1>7. Good(Listen(State(p, r), open'), TRUE, open', s)
    BY <1>3, <1>5, <1>6, ListenIsGood, Zenon
  <1>8. Good(State(outstanding', queue'), TRUE, open', s)
    BY <1>6, <1>7, BecomesGood, Zenon
  <1>9. (~unreachable') = TRUE
    BY <1>1
  <1>10. Good(State(outstanding, queue), ~unreachable, open, session["client"])'
    BY <1>8, <1>9, Zenon DEF s
  <1>11. QED
    BY <1>3, <1>10 DEF IInv, NoCrossing

LEMMA HandleReadErrorInv == IInv /\ HandleReadError => IInv'
  <1>1. SUFFICES ASSUME IInv, HandleReadError PROVE IInv'
    OBVIOUS
  <1> DEFINE q == Tail(queue)
             s == session["client"]
  <1>2. Good(Taken, ~unreachable, open, s)
    <2>1. Handling("client", FALSE) /\ "client" \in Ops /\ FALSE \in BOOLEAN
      BY <1>1 DEF HandleReadError, Ops, Sides
    <2>2. (~unreachable /\ "client" = "client") = (~unreachable)
      BY <1>1 DEF IInv
    <2>3. QED
      BY <1>1, <2>1, <2>2, HandlingFacts
  <1>3. Taken = State(outstanding, q) /\ (~unreachable) \in BOOLEAN
    BY <1>1 DEF Taken, IInv
  <1>4. /\ open' = [open EXCEPT !["server"] = FALSE]
        /\ Becomes(CLIENT_OnClose(Taken))
        /\ UNCHANGED <<session, sessions, reads, passed, unreachable>>
    BY <1>1 DEF HandleReadError
  <1> HIDE DEF q, s
  <1>5. open' \in [Sides -> BOOLEAN] /\ open'["client"] = open["client"]
    BY <1>1, <1>4, Zenon DEF IInv, Sides
  <1>6. Good(State(outstanding, q), ~unreachable, open', s)
    BY <1>2, <1>3, <1>5, ClosingIsGood, Zenon
  <1>7. PICK p, r : /\ IsClosed(outstanding, q, p, r)
                    /\ Good(State(p, r), ~unreachable, open', s)
    BY <1>3, <1>6, ClosedIsGood, Zenon
  <1>8. CLIENT_OnClose(Taken) = State(p, r)
    BY <1>3, <1>7, Zenon DEF IsClosed
  <1>9. Good(State(outstanding', queue'), ~unreachable, open', s)
    BY <1>4, <1>7, <1>8, BecomesGood, Zenon
  <1>10. Good(State(outstanding, queue), ~unreachable, open, session["client"])'
    BY <1>4, <1>9, Zenon DEF s
  <1>11. QED
    BY <1>1, <1>4, <1>5, <1>10 DEF IInv, NoCrossing

LEMMA InvNext == IInv /\ [Next]_vars => IInv'
  <1>1. SUFFICES ASSUME IInv, [Next]_vars PROVE IInv'
    OBVIOUS
  <1>2. CASE UNCHANGED vars \/ Wait
    <2>1. /\ outstanding' = outstanding /\ queue' = queue /\ open' = open
          /\ session' = session /\ sessions' = sessions /\ reads' = reads
          /\ passed' = passed /\ unreachable' = unreachable
      BY <1>2 DEF vars, Wait
    <2>2. Good(State(outstanding, queue), ~unreachable, open, session["client"])'
      BY <1>1, <2>1, Zenon DEF IInv
    <2>3. QED
      BY <1>1, <2>1, <2>2 DEF IInv, NoCrossing
  <1>3. CASE AcceptCompletes
    BY <1>1, <1>3, AcceptCompletesInv
  <1>4. ASSUME NEW side \in Sides, PeerSends(side) \/ PeerCloses(side) PROVE IInv'
    BY <1>1, <1>4, ReadCompletesInv
  <1>5. ASSUME NEW side \in Sides, HandleRead(side) PROVE IInv'
    BY <1>1, <1>5, HandleReadInv
  <1>6. CASE HandleAcceptError
    BY <1>1, <1>6, ListeningInv DEF HandleAcceptError
  <1>7. CASE SL_HandleReadError
    BY <1>1, <1>7, ListeningInv DEF SL_HandleReadError
  <1>8. QED
    BY <1>1, <1>2, <1>3, <1>4, <1>5, <1>6, <1>7, HandleAcceptInv,
       HandleAcceptUnreachableInv, HandleReadErrorInv DEF Next, ServiceStep

-------------------------------------------------------------------------------
(* What follows from it *)

LEMMA InvTypes == IInv => TypeOK
  <1>1. SUFFICES ASSUME IInv PROVE TypeOK
    OBVIOUS
  <1>2. outstanding \in [Ops -> 0..1] /\ queue \in Seq(Served(session["client"]))
    BY <1>1, GoodParts, Zenon DEF IInv
  <1>3. Served(session["client"]) \subseteq Completion
    BY MaxAssumption DEF Served, Completion
  <1>4. queue \in Seq(Completion)
    BY <1>2, <1>3, SeqMonotonic
  <1>5. QED
    BY <1>1, <1>2, <1>4 DEF IInv, TypeOK, Transfer

LEMMA InvCounts == IInv => OneToken
  <1>1. SUFFICES ASSUME IInv PROVE OneToken
    OBVIOUS
  <1> DEFINE P(op) == {i \in 1..Len(queue) : queue[i].op = op}
  <1>2. /\ queue \in Seq(Served(session["client"])) /\ outstanding \in [Ops -> 0..1]
        /\ Token(outstanding, queue, ~unreachable)
    BY <1>1, GoodParts, Zenon DEF IInv
  <1>3. DOMAIN queue = 1..Len(queue) /\ Len(queue) \in Nat
    BY <1>2, SequenceFacts
  <1>4. Queued("accept") = Cardinality(P("accept"))
        /\ Queued("server") = Cardinality(P("server"))
    BY <1>3 DEF Queued
  <1>5. NoneQueued(queue) => Queued("accept") = 0 /\ Queued("server") = 0
    <2>1. NoneQueued(queue) => P("accept") = {} /\ P("server") = {}
      BY DEF NoneQueued, Carries
    <2>2. QED
      BY <1>4, <2>1, FS_EmptySet, Zenon
  <1>6. OneQueued(queue) => \/ Queued("accept") = 1 /\ Queued("server") = 0
                            \/ Queued("accept") = 0 /\ Queued("server") = 1
    <2>1. SUFFICES ASSUME OneQueued(queue)
                   PROVE  \/ Queued("accept") = 1 /\ Queued("server") = 0
                          \/ Queued("accept") = 0 /\ Queued("server") = 1
      OBVIOUS
    <2>2. PICK i \in 1..Len(queue) :
            Carries(queue[i]) /\ \A j \in 1..Len(queue) : j # i => ~Carries(queue[j])
      BY <2>1 DEF OneQueued
    <2>3. \/ P("accept") = {i} /\ P("server") = {}
          \/ P("accept") = {} /\ P("server") = {i}
      BY <2>2 DEF Carries
    <2>4. QED
      BY <1>4, <2>3, FS_EmptySet, FS_Singleton, Zenon
  <1> HIDE DEF P
  <1>7. unreachable \in BOOLEAN
    BY <1>1 DEF IInv
  <1>8. CASE unreachable
    BY <1>2, <1>5, <1>8 DEF Token, TokenGone, OneToken, Chain
  <1>9. CASE ~unreachable
    <2>1. TokenThere(outstanding, queue)
      BY <1>2, <1>9 DEF Token
    <2>2. QED
      BY <1>5, <1>6, <1>9, <2>1 DEF TokenThere, OneToken, Chain
  <1>10. QED
    BY <1>8, <1>9

(* One accept and one read per buffer at a time, for any number of         *)
(* launchers and reads (CEmulator's Listen, CL_Read, SL_Read).             *)
THEOREM TypeCorrect == Spec => []TypeOK
  BY InvInit, InvNext, InvTypes, PTL DEF Spec

(* Listening is never started twice, nor while the server list is read     *)
(* from, and stops for good only when it could not be reached (Listen,     *)
(* SL_HandleRead, OnConnect).                                              *)
THEOREM OneTokenCorrect == Spec => []OneToken
  BY InvInit, InvNext, InvCounts, PTL DEF Spec

(* Whatever is passed on was sent in the session it goes to, although      *)
(* sockets and buffers are reused and completions are handled late         *)
(* (HandleRead, SL_HandleRead).                                            *)
THEOREM NoCrossingCorrect == Spec => []NoCrossing
  <1>1. IInv => NoCrossing
    BY DEF IInv
  <1>2. QED
    BY <1>1, InvInit, InvNext, PTL DEF Spec
===============================================================================
