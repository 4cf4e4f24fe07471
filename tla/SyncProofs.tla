------------------------------ MODULE SyncProofs ------------------------------
(***************************************************************************)
(* Theorems about DistributedEffects for any boxes, effects, faders,       *)
(* queues and peers, whatever is lost, garbled or restarted.               *)
(***************************************************************************)
EXTENDS DistributedEffects, ChaseProofs

LEMMA EffectFacts ==
    ASSUME NEW b \in Box, NEW e \in Indexes(b)
    PROVE  /\ Steps(b, e) \in Seq(Step)
           /\ Length[b][e] = EffectLength(Steps(b, e)) /\ Length[b][e] \in Nat
           /\ EffectsOf[b][e].distributed_id \in Nat /\ DistributedId(b, e) \in {0, 1}
           /\ e \in Nat
<1>1. EffectsOf[b] \in Seq(Effect)
  BY EffectsAssumption
<1>2. EffectsOf[b][e] \in Effect /\ e \in Nat
  BY <1>1 DEF Indexes
<1>3. Steps(b, e) \in Seq(Step) /\ EffectsOf[b][e].distributed_id \in Nat
  BY <1>2 DEF Effect, Steps
<1>4. Length[b][e] = EffectLength(Steps(b, e))
  BY DEF Length
<1> QED
  BY <1>2, <1>3, <1>4, LengthType DEF DistributedId
-----------------------------------------------------------------------------
(* What happens to the queues, for packets of any kind: S holds what was   *)
(* in a queue before, R what is in it after.                               *)
LEMMA MappedSeq ==
    ASSUME NEW S, NEW R, NEW q \in Seq(S), NEW f, f = [i \in DOMAIN q |-> f[i]],
           \A i \in DOMAIN q : f[i] \in R
    PROVE  f \in Seq(R)
<1>1. DOMAIN q = 1..Len(q) /\ Len(q) \in Nat
  OBVIOUS
<1>2. f \in [1..Len(q) -> R]
  BY <1>1
<1> QED
  BY <1>1, <1>2

LEMMA SeqMonotonic ==
    ASSUME NEW S, NEW R, NEW q \in Seq(S), \A p \in S : p \in R
    PROVE  q \in Seq(R)
<1>1. q = [i \in DOMAIN q |-> q[i]] /\ \A i \in DOMAIN q : q[i] \in R
  OBVIOUS
<1> QED
  BY <1>1, MappedSeq

LEMMA OutdatedSeq ==
    ASSUME NEW S, NEW R, NEW q \in Seq(S), NEW places,
           \A p \in S : \/ p \in R /\ <<p.from, p.of>> \notin places
                        \/ [p EXCEPT !.running = FALSE] \in R /\ <<p.from, p.of>> \in places
    PROVE  Outdated(q, places) \in Seq(R)
<1> DEFINE f == Outdated(q, places)
<1>1. f = [i \in DOMAIN q |-> f[i]]
  BY DEF Outdated
<1>2. ASSUME NEW i \in DOMAIN q PROVE f[i] \in R
  <2>1. q[i] \in S
    OBVIOUS
  <2> QED  BY <2>1 DEF Outdated
<1> HIDE DEF f
<1>3. f \in Seq(R)
  BY <1>1, <1>2, MappedSeq
<1> QED
  BY <1>3 DEF f

LEMMA StaleSeq ==
    ASSUME NEW S, NEW R, NEW q \in Seq(S), \A p \in S : [p EXCEPT !.running = FALSE] \in R
    PROVE  Stale(q) \in Seq(R)
<1> DEFINE f == Stale(q)
<1>1. f = [i \in DOMAIN q |-> f[i]]
  BY DEF Stale
<1>2. ASSUME NEW i \in DOMAIN q PROVE f[i] \in R
  BY DEF Stale
<1> HIDE DEF f
<1>3. f \in Seq(R)
  BY <1>1, <1>2, MappedSeq
<1> QED
  BY <1>3 DEF f

LEMMA OutdatedEventsSeq ==
    ASSUME NEW S, NEW R, NEW q \in Seq(S), NEW places,
           \A v \in S : \/ v \in R /\ <<v.packet.from, v.packet.of>> \notin places
                        \/ /\ [v EXCEPT !.packet.running = FALSE] \in R
                           /\ <<v.packet.from, v.packet.of>> \in places
    PROVE  OutdatedEvents(q, places) \in Seq(R)
<1> DEFINE f == OutdatedEvents(q, places)
<1>1. f = [i \in DOMAIN q |-> f[i]]
  BY DEF OutdatedEvents
<1>2. ASSUME NEW i \in DOMAIN q PROVE f[i] \in R
  <2>1. q[i] \in S
    OBVIOUS
  <2> QED  BY <2>1 DEF OutdatedEvents
<1> HIDE DEF f
<1>3. f \in Seq(R)
  BY <1>1, <1>2, MappedSeq
<1> QED
  BY <1>3 DEF f

LEMMA AgedSeq ==
    ASSUME NEW S, NEW R, NEW q \in Seq(S), \A v \in S : [v EXCEPT !.age = @ + 1] \in R
    PROVE  Aged(q) \in Seq(R)
<1> DEFINE f == Aged(q)
<1>1. f = [i \in DOMAIN q |-> f[i]]
  BY DEF Aged
<1>2. ASSUME NEW i \in DOMAIN q PROVE f[i] \in R
  BY DEF Aged
<1> HIDE DEF f
<1>3. f \in Seq(R)
  BY <1>1, <1>2, MappedSeq
<1> QED
  BY <1>3 DEF f

LEMMA ReceivedSeq ==
    ASSUME NEW R, NEW q \in Seq(R), NEW b \in Box, NEW h \in Hearable(b),
           \A e \in Senders(b) : SyncPacket(b, e) \in R
    PROVE  Received(q, b, h) \in Seq(R)
<1>1. PICK k \in Nat : h \in [1..k -> Senders(b)]
  <2>1. PICK k \in 0..Len(EffectsOf[b]) : h \in [1..k -> Senders(b)]
    BY DEF Hearable
  <2> QED  BY <2>1
<1>2. Len(h) = k /\ Len(q) \in Nat /\ DOMAIN q = 1..Len(q)
  BY <1>1
<1> DEFINE m == IF Len(q) + Len(h) < RecvSize THEN Len(q) + Len(h) ELSE RecvSize
           f == Received(q, b, h)
<1>3. m \in Nat /\ m <= Len(q) + k
  BY <1>2, QueueAssumption
<1>4. f = [i \in 1..m |-> IF i <= Len(q) THEN q[i] ELSE SyncPacket(b, h[i - Len(q)])]
  BY DEF Received
<1> HIDE DEF f, m
<1>5. ASSUME NEW i \in 1..m PROVE f[i] \in R
  <2>1. CASE i <= Len(q)
    BY <1>2, <1>3, <1>4, <2>1
  <2>2. CASE ~(i <= Len(q))
    <3>1. i - Len(q) \in 1..k
      BY <1>2, <1>3, <2>2
    <3>2. h[i - Len(q)] \in Senders(b)
      BY <1>1, <3>1
    <3> QED  BY <1>4, <2>2, <3>2
  <2> QED  BY <2>1, <2>2
<1>6. f \in [1..m -> R]
  BY <1>4, <1>5
<1>7. f \in Seq(R)
  BY <1>3, <1>6
<1> QED
  BY <1>7 DEF f

LEMMA FirstOut ==
    ASSUME NEW S, NEW q \in Seq(S), q # <<>>
    PROVE  Head(q) \in S /\ Tail(q) \in Seq(S)
OBVIOUS

LEMMA LastIn ==
    ASSUME NEW S, NEW q \in Seq(S), NEW x \in S
    PROVE  Append(q, x) \in Seq(S)
OBVIOUS

LEMMA EmptyIn == \A S : <<>> \in Seq(S)
OBVIOUS
-----------------------------------------------------------------------------
(* What a tick makes of an effect.                                         *)
LEMMA ProcessedFacts ==
    ASSUME NEW b \in Box, NEW e \in Indexes(b), state[b][e] \in EffectState,
           fader[b][e] \in Fader, gap[b] \in Nat
    PROVE  LET s == state[b][e]
               z == Processed(b, e)
               p == Params(b, e)
           IN  /\ z \in EffectState /\ p \in Fader
               /\ p.level # 0 => z.active = TRUE
               /\ p.level = 0 => z.active = FALSE /\ z.progress = s.progress
               /\ Leads(b, e) => /\ z.is_leader = TRUE
                                 /\ z.last_level = fader[b][e].level /\ z.last_rate = fader[b][e].rate
                                 /\ p = fader[b][e]
               /\ ~Leads(b, e) => /\ z.is_leader = s.is_leader
                                  /\ z.last_level = s.last_level /\ z.last_rate = s.last_rate
               /\ Follows(b, e) => p.level = s.last_level /\ p.rate = s.last_rate
               /\ p.level # 0 /\ s.active =>
                    LET a == Advance(s.progress, s.first_pass, p.rate, gap[b], Length[b][e])
                    IN  z.progress = a.progress /\ z.first_pass = a.first_pass
               /\ p.level # 0 /\ ~s.active =>
                    LET a == Advance(0, TRUE, p.rate, 0, Length[b][e])
                    IN  z.progress = a.progress /\ z.first_pass = a.first_pass
<1> DEFINE s == state[b][e]
           r == InRole(b, e)
           z == Processed(b, e)
           p == Params(b, e)
           now == IF r.active THEN Advance(r.progress, r.first_pass, p.rate, gap[b], Length[b][e])
                  ELSE Advance(0, TRUE, p.rate, 0, Length[b][e])
<1>1. /\ s \in EffectState /\ fader[b][e].level \in Level /\ fader[b][e].rate \in Nat
      /\ s.active \in BOOLEAN /\ s.progress \in Nat /\ s.first_pass \in BOOLEAN
      /\ s.is_leader \in BOOLEAN /\ s.last_level \in Level /\ s.last_rate \in Nat
      /\ s.sync_age \in 0..(SyncPeriod + 1)
  BY DEF EffectState, Fader
<1>2. SyncAge(b, e) \in 0..(SyncPeriod + 1)
  BY <1>1, PeriodAssumption DEF SyncAge
<1>3. p \in Fader
  BY <1>1 DEF Params, Fader
<1>4. /\ r \in EffectState /\ r.active = s.active /\ r.progress = s.progress
      /\ r.first_pass = s.first_pass
      /\ Leads(b, e) => /\ r.is_leader = TRUE /\ r.last_level = fader[b][e].level
                        /\ r.last_rate = fader[b][e].rate
      /\ ~Leads(b, e) => /\ r.is_leader = s.is_leader /\ r.last_level = s.last_level
                         /\ r.last_rate = s.last_rate
  <2> DEFINE age == IF ShouldSendSync(b, e) THEN 0 ELSE SyncAge(b, e)
  <2>0. age \in 0..(SyncPeriod + 1)
    BY <1>2, PeriodAssumption
  <2>1. CASE Leads(b, e)
    <3>1. r = [s EXCEPT !.sync_age = age, !.is_leader = TRUE,
                        !.last_level = fader[b][e].level, !.last_rate = fader[b][e].rate]
      BY <1>1, <2>1 DEF InRole, EffectState
    <3> HIDE DEF r, s, age
    <3> QED  BY <1>1, <2>0, <2>1, <3>1 DEF EffectState
  <2>2. CASE ~Leads(b, e)
    <3>1. r = [s EXCEPT !.sync_age = SyncAge(b, e)]
      BY <2>2 DEF InRole
    <3> HIDE DEF r, s
    <3> QED  BY <1>1, <1>2, <2>2, <3>1 DEF EffectState
  <2> QED  BY <2>1, <2>2
<1>5. now.progress \in Nat /\ now.first_pass \in BOOLEAN
  <2>1. r.progress \in Nat /\ r.first_pass \in BOOLEAN /\ p.rate \in Nat /\ Length[b][e] \in Nat
    BY <1>1, <1>3, <1>4, EffectFacts DEF Fader
  <2>2. 0 \in Nat /\ TRUE \in BOOLEAN
    OBVIOUS
  <2> HIDE DEF r, p
  <2> QED  BY <2>1, <2>2, AdvanceFacts
<1>6. z = IF p.level = 0 THEN [r EXCEPT !.active = FALSE]
          ELSE [r EXCEPT !.active = TRUE, !.progress = now.progress, !.first_pass = now.first_pass]
  BY DEF Processed
<1>7. Follows(b, e) => p.level = s.last_level /\ p.rate = s.last_rate
  BY DEF Params
<1>8. Leads(b, e) => p = fader[b][e]
  BY DEF Params, Follows
<1>9. /\ s.active => now = Advance(s.progress, s.first_pass, p.rate, gap[b], Length[b][e])
      /\ ~s.active => now = Advance(0, TRUE, p.rate, 0, Length[b][e])
  BY <1>4
<1> HIDE DEF s, r, z, p, now
<1>10. CASE p.level = 0
  <2>1. z = [r EXCEPT !.active = FALSE]
    BY <1>6, <1>10
  <2>2. /\ z \in EffectState /\ z.active = FALSE /\ z.progress = r.progress
        /\ z.is_leader = r.is_leader /\ z.last_level = r.last_level /\ z.last_rate = r.last_rate
    BY <1>4, <2>1 DEF EffectState
  <2> QED  BY <1>3, <1>4, <1>7, <1>8, <1>10, <2>2 DEF s, z, p
<1>11. CASE p.level # 0
  <2>1. z = [r EXCEPT !.active = TRUE, !.progress = now.progress, !.first_pass = now.first_pass]
    BY <1>6, <1>11
  <2>2. /\ z \in EffectState /\ z.active = TRUE /\ z.progress = now.progress
        /\ z.first_pass = now.first_pass
        /\ z.is_leader = r.is_leader /\ z.last_level = r.last_level /\ z.last_rate = r.last_rate
    BY <1>4, <1>5, <2>1 DEF EffectState
  <2>3. s.active => LET a == Advance(s.progress, s.first_pass, p.rate, gap[b], Length[b][e])
                    IN  z.progress = a.progress /\ z.first_pass = a.first_pass
    BY <1>9, <2>2
  <2>4. ~s.active => LET a == Advance(0, TRUE, p.rate, 0, Length[b][e])
                     IN  z.progress = a.progress /\ z.first_pass = a.first_pass
    BY <1>9, <2>2
  <2> QED  BY <1>3, <1>4, <1>7, <1>8, <1>11, <2>2, <2>3, <2>4 DEF s, z, p
<1> QED
  BY <1>10, <1>11

(* What an event makes of it.                                              *)
(* What an event makes of an effect: n is where it puts it.                *)
SyncedTo(z, s, p, n) ==
    /\ z \in EffectState /\ z.active = s.active /\ z.is_leader = s.is_leader
    /\ z.last_level = p.level /\ z.last_rate = p.rate /\ z.progress = n

MakesUp(n, p, age, length) ==
    /\ age > 0 => n = Advance(p.progress, p.first_pass, p.rate, age, length).progress
    /\ age = 0 => n = p.progress

LEMMA SyncedFacts ==
    ASSUME NEW s \in EffectState, NEW p \in Packet, NEW age \in Nat, NEW length \in Nat
    PROVE  \E n \in Nat : SyncedTo(Synced(s, p, age, length), s, p, n) /\ MakesUp(n, p, age, length)
<1> DEFINE z == Synced(s, p, age, length)
           a == Advance(p.progress, p.first_pass, p.rate, age, length)
           n == IF age > 0 THEN a.progress ELSE p.progress
           f == IF age > 0 THEN a.first_pass ELSE p.first_pass
<1>1. p.progress \in Nat /\ p.first_pass \in BOOLEAN /\ p.rate \in Nat /\ p.level \in Level
  BY DEF Packet
<1>2. a.progress \in Nat /\ a.first_pass \in BOOLEAN
  BY <1>1, AdvanceFacts
<1>3. n \in Nat /\ f \in BOOLEAN
  <2> HIDE DEF a
  <2> QED  BY <1>1, <1>2
<1>4. z = [s EXCEPT !.last_level = p.level, !.last_rate = p.rate, !.progress = n, !.first_pass = f]
  BY DEF Synced
<1>5. MakesUp(n, p, age, length)
  BY DEF MakesUp
<1> HIDE DEF z, a, n, f
<1>6. SyncedTo(z, s, p, n)
  BY <1>1, <1>3, <1>4 DEF EffectState, SyncedTo
<1> QED
  BY <1>3, <1>5, <1>6 DEF z
-----------------------------------------------------------------------------
(* Types.  A position on the way to another box is one its chase has.      *)
Within(b, e, progress) == Alike(b, e) /\ Length[b][e] # 0 => progress < Length[b][e]

Bounded(p) ==
    \A b \in Box : \A e \in Indexes(b) : Distributed(b, e) => Within(b, e, p.progress)

BoundedPackets == {p \in Packet : Bounded(p)}
BoundedEvents == {v \in Event : Bounded(v.packet)}

TypeInv ==
    /\ TypeOK
    /\ \A b \in Box : recv_queue[b] \in Seq(BoundedPackets) /\ sync_queue[b] \in Seq(BoundedEvents)

LEMMA BoundsOfType ==
    ASSUME TypeInv, NEW b \in Box, NEW e \in Indexes(b)
    PROVE  /\ state[b][e] \in EffectState /\ fader[b][e] \in Fader /\ gap[b] \in Nat
           /\ Within(b, e, state[b][e].progress)
<1>1. state[b] \in [Indexes(b) -> EffectState] /\ fader[b] \in [Indexes(b) -> Fader] /\ gap[b] \in 0..MaxGap
  BY DEF TypeInv, TypeOK
<1>2. Within(b, e, state[b][e].progress)
  BY DEF TypeInv, TypeOK, Within
<1>3. 0..MaxGap \subseteq Nat
  BY PeriodAssumption
<1> QED
  BY <1>1, <1>2, <1>3

LEMMA AdvanceWithin ==
    ASSUME NEW b \in Box, NEW e \in Indexes(b), NEW progress \in Nat, NEW first_pass \in BOOLEAN,
           NEW rate \in Nat, NEW time \in Nat
    PROVE  Within(b, e, Advance(progress, first_pass, rate, time, Length[b][e]).progress)
BY EffectFacts, AdvanceFacts DEF Within

LEMMA LoadedType == Loaded \in EffectState
BY FullAssumption, PeriodAssumption DEF Loaded, EffectState, Level

LEMMA LoadedWithin ==
    \A b \in Box : \A e \in Indexes(b) : Within(b, e, Loaded.progress)
<1> SUFFICES ASSUME NEW b \in Box, NEW e \in Indexes(b) PROVE Within(b, e, Loaded.progress)
  OBVIOUS
<1>1. Length[b][e] \in Nat /\ Loaded.progress = 0
  BY EffectFacts DEF Loaded
<1> QED
  BY <1>1 DEF Within

(* Histories and ages do not change what a packet says.                    *)
LEMMA BoundedKept ==
    /\ \A p \in BoundedPackets : [p EXCEPT !.running = FALSE] \in BoundedPackets
    /\ \A v \in BoundedEvents : /\ [v EXCEPT !.packet.running = FALSE] \in BoundedEvents
                                /\ [v EXCEPT !.age = @ + 1] \in BoundedEvents
<1>1. ASSUME NEW p \in Packet, Bounded(p)
      PROVE  [p EXCEPT !.running = FALSE] \in Packet /\ Bounded([p EXCEPT !.running = FALSE])
  <2>1. [p EXCEPT !.running = FALSE].progress = p.progress /\ [p EXCEPT !.running = FALSE] \in Packet
    BY DEF Packet
  <2> QED  BY <1>1, <2>1 DEF Bounded
<1>2. ASSUME NEW v \in Event, Bounded(v.packet)
      PROVE  /\ [v EXCEPT !.packet.running = FALSE] \in BoundedEvents
             /\ [v EXCEPT !.age = @ + 1] \in BoundedEvents
  <2>1. v.packet \in Packet
    BY DEF Event
  <2>2. [v.packet EXCEPT !.running = FALSE] \in Packet /\ Bounded([v.packet EXCEPT !.running = FALSE])
    BY <1>1, <1>2, <2>1
  <2> DEFINE u == [v EXCEPT !.packet.running = FALSE]
             a == [v EXCEPT !.age = @ + 1]
  <2>3. u = [v EXCEPT !.packet = [v.packet EXCEPT !.running = FALSE]]
    BY DEF Event
  <2>4. u \in Event /\ u.packet = [v.packet EXCEPT !.running = FALSE]
    BY <2>2, <2>3 DEF Event
  <2>5. a \in Event /\ a.packet = v.packet
    BY DEF Event
  <2> QED  BY <1>2, <2>2, <2>4, <2>5 DEF BoundedEvents
<1> QED
  BY <1>1, <1>2 DEF BoundedPackets, BoundedEvents

LEMMA OutdatedBounded ==
    ASSUME NEW places
    PROVE  /\ \A q \in Seq(BoundedPackets) : Outdated(q, places) \in Seq(BoundedPackets)
           /\ \A q \in Seq(BoundedEvents) : OutdatedEvents(q, places) \in Seq(BoundedEvents)
<1>1. \A p \in BoundedPackets :
        \/ p \in BoundedPackets /\ <<p.from, p.of>> \notin places
        \/ [p EXCEPT !.running = FALSE] \in BoundedPackets /\ <<p.from, p.of>> \in places
  BY BoundedKept
<1>2. \A v \in BoundedEvents :
        \/ v \in BoundedEvents /\ <<v.packet.from, v.packet.of>> \notin places
        \/ /\ [v EXCEPT !.packet.running = FALSE] \in BoundedEvents
           /\ <<v.packet.from, v.packet.of>> \in places
  BY BoundedKept
<1>3. \A q \in Seq(BoundedPackets) : Outdated(q, places) \in Seq(BoundedPackets)
  BY <1>1, OutdatedSeq
<1>4. \A q \in Seq(BoundedEvents) : OutdatedEvents(q, places) \in Seq(BoundedEvents)
  BY <1>2, OutdatedEventsSeq
<1> QED
  BY <1>3, <1>4

LEMMA LeadPlaces ==
    ASSUME NEW places, NEW leading, NEW b \in Box, lead[b] \in [Indexes(b) -> (Box \X Nat) \cup {NoLead}]
    PROVE  /\ DOMAIN Lost(places, leading) = Box
           /\ Lost(places, leading)[b] \in [Indexes(b) -> (Box \X Nat) \cup {NoLead}]
BY DEF Lost

(* The parts of TypeInv a state has to meet box by box.                    *)
BoxInv(b) ==
    /\ fader[b] \in [Indexes(b) -> Fader]
    /\ state[b] \in [Indexes(b) -> EffectState]
    /\ \A e \in Indexes(b) : Within(b, e, state[b][e].progress)
    /\ lead[b] \in [Indexes(b) -> (Box \X Nat) \cup {NoLead}]
    /\ recv_queue[b] \in Seq(BoundedPackets)
    /\ sync_queue[b] \in Seq(BoundedEvents)

ShapeInv ==
    /\ DOMAIN fader = Box /\ DOMAIN state = Box /\ DOMAIN lead = Box
    /\ pc \in [Box -> {"sleep", "drain"}]
    /\ gap \in [Box -> 0..MaxGap]
    /\ recv_queue = [b \in Box |-> recv_queue[b]]
    /\ sync_queue = [b \in Box |-> sync_queue[b]]
    /\ listening \in [Box -> BOOLEAN]
    /\ peers \in [Box -> SUBSET Box]
    /\ told \subseteq Fader

LEMMA TypeParts == TypeInv <=> ShapeInv /\ \A b \in Box : BoxInv(b)
<1>1. ASSUME TypeInv PROVE ShapeInv /\ \A b \in Box : BoxInv(b)
  BY <1>1 DEF TypeInv, TypeOK, ShapeInv, BoxInv, Within
<1>2. ASSUME ShapeInv, \A b \in Box : BoxInv(b) PROVE TypeInv
  <2>1. \A p \in BoundedPackets : p \in Packet
    BY DEF BoundedPackets
  <2>2. \A v \in BoundedEvents : v \in Event
    BY DEF BoundedEvents
  <2>3. \A b \in Box : recv_queue[b] \in Seq(Packet) /\ sync_queue[b] \in Seq(Event)
    BY <1>2, <2>1, <2>2, SeqMonotonic DEF BoxInv
  <2>4. recv_queue \in [Box -> Seq(Packet)] /\ sync_queue \in [Box -> Seq(Event)]
    BY <1>2, <2>3 DEF ShapeInv
  <2> QED  BY <1>2, <2>4 DEF TypeInv, TypeOK, ShapeInv, BoxInv, Within
<1> QED
  BY <1>1, <1>2

LEMMA TypePartsNext == ShapeInv' /\ (\A b \in Box : BoxInv(b)') => TypeInv'
<1>1. ShapeInv /\ (\A b \in Box : BoxInv(b)) => TypeInv
  BY TypeParts
<1>2. (ShapeInv /\ \A b \in Box : BoxInv(b))' => TypeInv'
  BY <1>1, PTL
<1> QED
  BY <1>2

LEMMA TypeInitially == ASSUME Init PROVE TypeInv
<1>1. ASSUME NEW b \in Box PROVE BoxInv(b)
  <2>1. fader[b] \in [Indexes(b) -> Fader]
    BY FadersAssumption DEF Init
  <2>2. state[b] = [e \in Indexes(b) |-> Loaded] /\ lead[b] = [e \in Indexes(b) |-> NoLead]
        /\ recv_queue[b] = <<>> /\ sync_queue[b] = <<>>
    BY DEF Init
  <2>3. \A e \in Indexes(b) : Within(b, e, state[b][e].progress)
    BY <2>2, LoadedWithin
  <2> QED  BY <2>1, <2>2, <2>3, LoadedType, EmptyIn DEF BoxInv
<1>2. ShapeInv
  BY PeriodAssumption DEF Init, ShapeInv
<1> QED
  BY <1>1, <1>2, TypeParts

LEMMA BlankTypes ==
    ASSUME TypeInv, NEW b \in Box, Blank(b)
    PROVE  TypeInv'
<1> DEFINE places == {b} \X Indexes(b)
<1>1. /\ state' = [state EXCEPT ![b] = [e \in Indexes(b) |-> Loaded]]
      /\ pc' = [pc EXCEPT ![b] = "sleep"]
      /\ gap' = [gap EXCEPT ![b] = 0]
      /\ peers' = [peers EXCEPT ![b] = {}]
      /\ listening' = [listening EXCEPT ![b] = FALSE]
      /\ lead' = Lost(places, {})
      /\ recv_queue' = [x \in Box |-> IF x = b THEN <<>> ELSE Outdated(recv_queue[x], places)]
      /\ sync_queue' = [x \in Box |-> IF x = b THEN <<>> ELSE OutdatedEvents(sync_queue[x], places)]
      /\ UNCHANGED <<fader, told>>
  BY DEF Blank
<1> HIDE DEF places
<1>2. ShapeInv /\ \A x \in Box : BoxInv(x)
  BY TypeParts
<1>3. ASSUME NEW x \in Box PROVE BoxInv(x)'
  <2>1. recv_queue'[x] \in Seq(BoundedPackets) /\ sync_queue'[x] \in Seq(BoundedEvents)
    BY <1>1, <1>2, OutdatedBounded, EmptyIn DEF BoxInv
  <2>2. lead'[x] \in [Indexes(x) -> (Box \X Nat) \cup {NoLead}]
    BY <1>1, <1>2, LeadPlaces DEF BoxInv
  <2>3. state'[x] = IF x = b THEN [e \in Indexes(b) |-> Loaded] ELSE state[x]
    BY <1>1, <1>2 DEF ShapeInv
  <2>4. state'[x] \in [Indexes(x) -> EffectState]
    BY <1>2, <2>3, LoadedType DEF BoxInv
  <2>5. \A e \in Indexes(x) : Within(x, e, state'[x][e].progress)
    BY <1>2, <2>3, LoadedWithin DEF BoxInv
  <2> QED  BY <1>1, <1>2, <2>1, <2>2, <2>4, <2>5 DEF BoxInv
<1>4. ShapeInv'
  BY <1>1, <1>2, PeriodAssumption DEF ShapeInv, Lost
<1> QED
  BY <1>3, <1>4, TypePartsNext

(* ProcessedFacts case by case.                                            *)
LEMMA LeaderProcessed ==
    ASSUME TypeInv, NEW b \in Box, NEW e \in Indexes(b), Leads(b, e)
    PROVE  /\ Processed(b, e).is_leader = TRUE
           /\ Processed(b, e).last_level = fader[b][e].level
           /\ Processed(b, e).last_rate = fader[b][e].rate
           /\ Params(b, e) = fader[b][e]
<1>1. Params(b, e) = fader[b][e]
  BY DEF Params, Follows
<1> QED
  BY <1>1, BoundsOfType, ProcessedFacts

LEMMA FollowerProcessed ==
    ASSUME TypeInv, NEW b \in Box, NEW e \in Indexes(b), Follows(b, e)
    PROVE  /\ Processed(b, e).is_leader = state[b][e].is_leader
           /\ Processed(b, e).last_level = state[b][e].last_level
           /\ Processed(b, e).last_rate = state[b][e].last_rate
           /\ Params(b, e).level = state[b][e].last_level
           /\ Params(b, e).rate = state[b][e].last_rate
<1>1. ~Leads(b, e)
  BY DEF Follows
<1>2. Params(b, e).level = state[b][e].last_level /\ Params(b, e).rate = state[b][e].last_rate
  BY DEF Params
<1> QED
  BY <1>1, <1>2, BoundsOfType, ProcessedFacts

LEMMA RunningProcessed ==
    ASSUME TypeInv, NEW b \in Box, NEW e \in Indexes(b), Params(b, e).level # 0, state[b][e].active
    PROVE  LET a == Advance(state[b][e].progress, state[b][e].first_pass, Params(b, e).rate, gap[b],
                            Length[b][e])
           IN  /\ Processed(b, e).active = TRUE
               /\ Processed(b, e).progress = a.progress /\ Processed(b, e).first_pass = a.first_pass
BY BoundsOfType, ProcessedFacts

LEMMA StartingProcessed ==
    ASSUME TypeInv, NEW b \in Box, NEW e \in Indexes(b), Params(b, e).level # 0, ~state[b][e].active
    PROVE  LET a == Advance(0, TRUE, Params(b, e).rate, 0, Length[b][e])
           IN  /\ Processed(b, e).active = TRUE
               /\ Processed(b, e).progress = a.progress /\ Processed(b, e).first_pass = a.first_pass
BY BoundsOfType, ProcessedFacts

LEMMA DarkProcessed ==
    ASSUME TypeInv, NEW b \in Box, NEW e \in Indexes(b), Params(b, e).level = 0
    PROVE  Processed(b, e).active = FALSE /\ Processed(b, e).progress = state[b][e].progress
BY BoundsOfType, ProcessedFacts

LEMMA ProcessedWithin ==
    ASSUME TypeInv, NEW b \in Box, NEW e \in Indexes(b)
    PROVE  Processed(b, e) \in EffectState /\ Within(b, e, Processed(b, e).progress)
<1> DEFINE s == state[b][e]
           p == Params(b, e)
<1>1. /\ s \in EffectState /\ fader[b][e] \in Fader /\ gap[b] \in Nat /\ Within(b, e, s.progress)
      /\ s.progress \in Nat /\ s.first_pass \in BOOLEAN
  BY BoundsOfType DEF EffectState
<1>2. Processed(b, e) \in EffectState /\ p \in Fader /\ p.rate \in Nat
  BY <1>1, ProcessedFacts DEF Fader
<1>3. CASE p.level = 0
  <2>1. Processed(b, e).progress = s.progress
    BY <1>1, <1>3, ProcessedFacts
  <2> QED  BY <1>1, <1>2, <2>1
<1>4. CASE p.level # 0 /\ s.active
  <2>1. Processed(b, e).progress
            = Advance(s.progress, s.first_pass, p.rate, gap[b], Length[b][e]).progress
    BY <1>1, <1>4, ProcessedFacts
  <2> HIDE DEF s, p
  <2> QED  BY <1>1, <1>2, <2>1, AdvanceWithin
<1>5. CASE p.level # 0 /\ ~s.active
  <2>1. Processed(b, e).progress = Advance(0, TRUE, p.rate, 0, Length[b][e]).progress
    BY <1>1, <1>5, ProcessedFacts
  <2>2. 0 \in Nat /\ TRUE \in BOOLEAN
    OBVIOUS
  <2> HIDE DEF s, p
  <2> QED  BY <1>2, <2>1, <2>2, AdvanceWithin
<1> QED
  BY <1>3, <1>4, <1>5

LEMMA SentBounded ==
    ASSUME TypeInv, NEW b \in Box, NEW e \in Senders(b)
    PROVE  SyncPacket(b, e) \in BoundedPackets
<1> DEFINE s == state[b][e]
           p == SyncPacket(b, e)
<1>1. e \in Indexes(b) /\ Distributed(b, e)
  BY DEF Senders, SendsSync, Leads
<1>2. /\ s.progress \in Nat /\ s.first_pass \in BOOLEAN /\ s.active \in BOOLEAN
      /\ fader[b][e].level \in Level /\ fader[b][e].rate \in Nat
      /\ DistributedId(b, e) \in {0, 1} /\ e \in Nat
      /\ Within(b, e, s.progress)
  BY <1>1, BoundsOfType, EffectFacts DEF EffectState, Fader
<1>3. p \in Packet /\ p.progress = s.progress
  BY <1>2 DEF SyncPacket, Packet
<1>4. ASSUME NEW x \in Box, NEW i \in Indexes(x), Distributed(x, i), Alike(x, i), Length[x][i] # 0
      PROVE  s.progress < Length[x][i]
  <2>1. Length[b][e] = Length[x][i]
    BY <1>1, <1>4 DEF Alike
  <2>2. Alike(b, e)
    BY <1>1, <1>4, <2>1 DEF Alike
  <2> QED  BY <1>2, <1>4, <2>1, <2>2 DEF Within
<1> HIDE DEF p, s
<1>5. Bounded(p)
  BY <1>3, <1>4 DEF Bounded, Within
<1> QED
  BY <1>3, <1>5 DEF BoundedPackets, p

LEMMA TickTypes ==
    ASSUME TypeInv, NEW b \in Box, NEW heard \in [Box \ {b} -> Hearable(b)], Tick(b, heard)
    PROVE  TypeInv'
<1> DEFINE moved == {<<b, e>> : e \in {x \in Indexes(b) : Unsettled(b, x)}}
           leading == {<<b, e>> : e \in {x \in Indexes(b) : Leads(b, x)}}
<1>1. /\ gap' = [gap EXCEPT ![b] = 0]
      /\ UNCHANGED <<fader, listening, peers>>
      /\ pc' = [pc EXCEPT ![b] = IF sync_queue[b] = <<>> THEN "sleep" ELSE "drain"]
      /\ state' = [state EXCEPT ![b] = [e \in Indexes(b) |-> Processed(b, e)]]
      /\ recv_queue' = [x \in Box |-> IF x = b THEN Outdated(recv_queue[x], moved)
                                      ELSE Received(Outdated(recv_queue[x], moved), b, heard[x])]
      /\ sync_queue' = [x \in Box |-> OutdatedEvents(sync_queue[x], moved)]
      /\ lead' = Lost(moved, leading)
      /\ told' = told \cup {fader[b][e] : e \in Senders(b)}
  BY DEF Tick
<1> HIDE DEF moved, leading
<1>2. ShapeInv /\ \A x \in Box : BoxInv(x)
  BY TypeParts
<1>3. ASSUME NEW x \in Box PROVE BoxInv(x)'
  <2>1. Outdated(recv_queue[x], moved) \in Seq(BoundedPackets)
        /\ OutdatedEvents(sync_queue[x], moved) \in Seq(BoundedEvents)
    BY <1>2, OutdatedBounded DEF BoxInv
  <2>2. x # b => Received(Outdated(recv_queue[x], moved), b, heard[x]) \in Seq(BoundedPackets)
    BY <2>1, SentBounded, ReceivedSeq
  <2>3. recv_queue'[x] \in Seq(BoundedPackets) /\ sync_queue'[x] \in Seq(BoundedEvents)
    BY <1>1, <2>1, <2>2
  <2>4. lead'[x] \in [Indexes(x) -> (Box \X Nat) \cup {NoLead}]
    BY <1>1, <1>2, LeadPlaces DEF BoxInv
  <2>5. state'[x] = IF x = b THEN [e \in Indexes(b) |-> Processed(b, e)] ELSE state[x]
    BY <1>1, <1>2 DEF ShapeInv
  <2>6. state'[x] \in [Indexes(x) -> EffectState]
    BY <1>2, <2>5, ProcessedWithin DEF BoxInv
  <2>7. \A e \in Indexes(x) : Within(x, e, state'[x][e].progress)
    BY <1>2, <2>5, ProcessedWithin DEF BoxInv
  <2> QED  BY <1>1, <1>2, <2>3, <2>4, <2>6, <2>7 DEF BoxInv
<1>4. told' \subseteq Fader
  <2>1. \A e \in Senders(b) : fader[b][e] \in Fader
    BY <1>2 DEF Senders, BoxInv
  <2> QED  BY <1>1, <1>2, <2>1 DEF ShapeInv
<1>5. ShapeInv'
  BY <1>1, <1>2, <1>4, PeriodAssumption DEF ShapeInv, Lost
<1> QED
  BY <1>3, <1>5, TypePartsNext

(* A position is brought back into the chase, or was in it when sent.      *)
LEMMA SyncedWithin ==
    ASSUME NEW b \in Box, NEW e \in Indexes(b), NEW s \in EffectState, NEW v \in BoundedEvents,
           Distributed(b, e)
    PROVE  LET z == Synced(s, v.packet, v.age, Length[b][e])
           IN  z \in EffectState /\ Within(b, e, z.progress)
<1> DEFINE p == v.packet
           z == Synced(s, p, v.age, Length[b][e])
<1>1. /\ p \in Packet /\ v.age \in Nat /\ Bounded(p) /\ Length[b][e] \in Nat
      /\ p.progress \in Nat /\ p.first_pass \in BOOLEAN /\ p.rate \in Nat
  BY EffectFacts DEF BoundedEvents, Event, Packet
<1> HIDE DEF p
<1>2. PICK n \in Nat : SyncedTo(z, s, p, n) /\ MakesUp(n, p, v.age, Length[b][e])
  BY <1>1, SyncedFacts
<1> HIDE DEF z
<1>3. z \in EffectState /\ z.progress = n
  BY <1>2 DEF SyncedTo
<1>4. CASE v.age > 0
  <2>1. n = Advance(p.progress, p.first_pass, p.rate, v.age, Length[b][e]).progress
    BY <1>2, <1>4 DEF MakesUp
  <2> QED  BY <1>1, <1>3, <2>1, AdvanceWithin DEF z, p
<1>5. CASE v.age = 0
  <2>1. n = p.progress
    BY <1>2, <1>5 DEF MakesUp
  <2>2. Within(b, e, z.progress)
    BY <1>1, <1>3, <2>1 DEF Bounded
  <2> QED  BY <1>3, <2>2 DEF z, p
<1> QED
  BY <1>1, <1>4, <1>5

(* What handling an event that is not the end of the box changes.          *)
Applies(b, e) == Distributed(b, e) /\ ~state[b][e].is_leader

LEMMA HandleFacts ==
    ASSUME TypeInv, NEW b \in Box, HandleSync(b), ~Blank(b)
    PROVE  \E e : LET v == Head(sync_queue[b])
                  IN  /\ sync_queue[b] # <<>> /\ pc[b] = "drain"
                      /\ sync_queue' = [sync_queue EXCEPT ![b] = Tail(@)]
                      /\ state' = IF Applies(b, e)
                                  THEN [state EXCEPT ![b][e] = Synced(@, v.packet, v.age, Length[b][e])]
                                  ELSE state
                      /\ lead' = IF Applies(b, e)
                                 THEN [lead EXCEPT ![b][e] =
                                          IF v.packet.running /\ state[b][e].active
                                          THEN <<v.packet.from, v.packet.of>> ELSE NoLead]
                                 ELSE lead
                      /\ pc' = [pc EXCEPT ![b] = IF Tail(sync_queue[b]) = <<>> THEN "sleep" ELSE @]
                      /\ UNCHANGED <<fader, gap, radio, told>>
<1> DEFINE packet == Head(sync_queue[b]).packet
           e == Min(OfId(b, packet.effect_id))
<1>1. OfId(b, packet.effect_id) # {}
  BY DEF HandleSync
<1> WITNESS e
<1> QED
  BY <1>1 DEF HandleSync, Applies

LEMMA HandleTypes ==
    ASSUME TypeInv, NEW b \in Box, HandleSync(b)
    PROVE  TypeInv'
<1>1. CASE Blank(b)
  BY <1>1, BlankTypes
<1>2. CASE ~Blank(b)
  <2> DEFINE v == Head(sync_queue[b])
             to == IF v.packet.running THEN <<v.packet.from, v.packet.of>> ELSE NoLead
  <2>1. PICK e : /\ sync_queue[b] # <<>>
                 /\ sync_queue' = [sync_queue EXCEPT ![b] = Tail(@)]
                 /\ state' = IF Applies(b, e)
                             THEN [state EXCEPT ![b][e] = Synced(@, v.packet, v.age, Length[b][e])]
                             ELSE state
                 /\ lead' = IF Applies(b, e)
                            THEN [lead EXCEPT ![b][e] =
                                     IF v.packet.running /\ state[b][e].active
                                     THEN <<v.packet.from, v.packet.of>> ELSE NoLead]
                            ELSE lead
                 /\ pc' = [pc EXCEPT ![b] = IF Tail(sync_queue[b]) = <<>> THEN "sleep" ELSE @]
                 /\ UNCHANGED <<fader, gap, radio, told>>
    BY <1>2, HandleFacts
  <2>2. ShapeInv /\ \A x \in Box : BoxInv(x)
    BY TypeParts
  <2>3. v \in BoundedEvents /\ Tail(sync_queue[b]) \in Seq(BoundedEvents)
    BY <2>1, <2>2, FirstOut DEF BoxInv
  <2>4. v.packet.from \in Box /\ v.packet.of \in Nat
    BY <2>3 DEF BoundedEvents, Event, Packet
  <2> HIDE DEF v
  <2> DEFINE z == Synced(state[b][e], v.packet, v.age, Length[b][e])
  <2>5. ASSUME e \in Indexes(b), Applies(b, e) PROVE z \in EffectState /\ Within(b, e, z.progress)
    BY <2>2, <2>3, <2>5, SyncedWithin DEF BoxInv, Applies
  <2> HIDE DEF z
  <2>6. ASSUME NEW x \in Box
        PROVE  /\ state'[x] \in [Indexes(x) -> EffectState]
               /\ \A d \in Indexes(x) : Within(x, d, state'[x][d].progress)
    <3>1. state[x] \in [Indexes(x) -> EffectState] /\ \A d \in Indexes(x) : Within(x, d, state[x][d].progress)
      BY <2>2 DEF BoxInv
    <3>2. CASE x = b /\ Applies(b, e)
      <4>1. state'[b] = [state[b] EXCEPT ![e] = z]
        BY <2>1, <2>2, <3>2 DEF ShapeInv, z
      <4> QED  BY <2>5, <3>1, <3>2, <4>1
    <3>3. CASE ~(x = b /\ Applies(b, e))
      <4>1. state'[x] = state[x]
        BY <2>1, <2>2, <3>3 DEF ShapeInv
      <4> QED  BY <3>1, <4>1
    <3> QED  BY <3>2, <3>3
  <2>7. ASSUME NEW x \in Box PROVE lead'[x] \in [Indexes(x) -> (Box \X Nat) \cup {NoLead}]
    <3>1. lead[x] \in [Indexes(x) -> (Box \X Nat) \cup {NoLead}]
      BY <2>2 DEF BoxInv
    <3>2. \/ lead'[x] = lead[x]
          \/ lead'[x] = [lead[x] EXCEPT ![e] = <<v.packet.from, v.packet.of>>]
          \/ lead'[x] = [lead[x] EXCEPT ![e] = NoLead]
      BY <2>1, <2>2 DEF ShapeInv
    <3> QED  BY <2>4, <3>1, <3>2
  <2>8. ASSUME NEW x \in Box PROVE BoxInv(x)'
    <3>1. recv_queue'[x] \in Seq(BoundedPackets) /\ sync_queue'[x] \in Seq(BoundedEvents)
      BY <2>1, <2>2, <2>3 DEF BoxInv, ShapeInv, radio
    <3>2. fader'[x] \in [Indexes(x) -> Fader]
      BY <2>1, <2>2 DEF BoxInv
    <3> QED  BY <2>6, <2>7, <3>1, <3>2 DEF BoxInv
  <2>9. ShapeInv'
    <3>1. DOMAIN state' = Box /\ DOMAIN lead' = Box
      BY <2>1, <2>2 DEF ShapeInv
    <3>2. pc' \in [Box -> {"sleep", "drain"}]
      BY <2>1, <2>2 DEF ShapeInv
    <3>3. recv_queue' = [x \in Box |-> recv_queue'[x]] /\ sync_queue' = [x \in Box |-> sync_queue'[x]]
      BY <2>1, <2>2 DEF ShapeInv, radio
    <3> QED  BY <2>1, <2>2, <3>1, <3>2, <3>3 DEF ShapeInv, radio
  <2> QED  BY <2>8, <2>9, TypePartsNext
<1> QED
  BY <1>1, <1>2

(* A packet that was garbled on the way is not handed on.                  *)
LEMMA HandFacts ==
    ASSUME TypeInv, NEW b \in Box, Forward(b), ~Blank(b)
    PROVE  LET p == Head(recv_queue[b])
           IN  /\ recv_queue[b] # <<>>
               /\ recv_queue' = [recv_queue EXCEPT ![b] = Tail(@)]
               /\ peers' = [peers EXCEPT ![b] = @ \cup {p.from}]
               /\ \/ sync_queue' = sync_queue
                  \/ /\ p.intact
                     /\ sync_queue' = [sync_queue EXCEPT ![b] = Append(@, [packet |-> p, age |-> 0])]
               /\ NoneDrains
               /\ UNCHANGED <<fader, state, pc, gap, listening, history>>
<1> DEFINE p == Head(recv_queue[b])
<1>1. recv_queue[b] # <<>>
  BY DEF Forward
<1>2. PICK packet \in {p, Garbled(p)} : Hand(b, packet)
  BY DEF Forward
<1>3. p \in Packet
  <2>1. recv_queue[b] \in Seq(BoundedPackets)
    BY DEF TypeInv
  <2> QED  BY <1>1, <2>1, FirstOut DEF BoundedPackets
<1> HIDE DEF p
<1>4. Garbled(p).from = p.from /\ Garbled(p).intact = FALSE
  BY <1>3 DEF Garbled, Packet
<1>5. packet.from = p.from /\ (Accepted(packet) => packet = p /\ p.intact)
  BY <1>2, <1>4 DEF Accepted
<1> QED
  BY <1>1, <1>2, <1>5 DEF Hand, p

LEMMA HandTypes ==
    ASSUME TypeInv, NEW b \in Box, Forward(b)
    PROVE  TypeInv'
<1>1. CASE Blank(b)
  BY <1>1, BlankTypes
<1>2. CASE ~Blank(b)
  <2> DEFINE p == Head(recv_queue[b])
             v == [packet |-> p, age |-> 0]
  <2>1. /\ recv_queue[b] # <<>>
        /\ recv_queue' = [recv_queue EXCEPT ![b] = Tail(@)]
        /\ peers' = [peers EXCEPT ![b] = @ \cup {p.from}]
        /\ sync_queue' = sync_queue \/ sync_queue' = [sync_queue EXCEPT ![b] = Append(@, v)]
        /\ UNCHANGED <<fader, state, pc, gap, listening, lead, told>>
    BY <1>2, HandFacts DEF history
  <2>2. ShapeInv /\ \A x \in Box : BoxInv(x)
    BY TypeParts
  <2>3. p \in BoundedPackets /\ Tail(recv_queue[b]) \in Seq(BoundedPackets)
    BY <2>1, <2>2, FirstOut DEF BoxInv
  <2> HIDE DEF p
  <2>4. v \in BoundedEvents /\ p.from \in Box
    BY <2>3 DEF BoundedPackets, BoundedEvents, Event, Packet
  <2> HIDE DEF v
  <2>5. ASSUME NEW x \in Box PROVE BoxInv(x)'
    <3>1. sync_queue[x] \in Seq(BoundedEvents) /\ recv_queue[x] \in Seq(BoundedPackets)
      BY <2>2 DEF BoxInv
    <3>2. Append(sync_queue[x], v) \in Seq(BoundedEvents)
      BY <2>4, <3>1, LastIn
    <3>3. recv_queue'[x] \in Seq(BoundedPackets) /\ sync_queue'[x] \in Seq(BoundedEvents)
      BY <2>1, <2>2, <2>3, <3>1, <3>2 DEF ShapeInv
    <3> QED  BY <2>1, <2>2, <3>3 DEF BoxInv
  <2>6. recv_queue' = [x \in Box |-> recv_queue'[x]] /\ sync_queue' = [x \in Box |-> sync_queue'[x]]
    BY <2>1, <2>2 DEF ShapeInv
  <2>7. peers' \in [Box -> SUBSET Box]
    BY <2>1, <2>2, <2>4 DEF ShapeInv
  <2>8. ShapeInv'
    BY <2>1, <2>2, <2>6, <2>7 DEF ShapeInv
  <2> QED  BY <2>5, <2>8, TypePartsNext
<1> QED
  BY <1>1, <1>2

LEMMA PassTypes == ASSUME TypeInv, Pass PROVE TypeInv'
<1>1. /\ \A b \in Box : gap[b] < MaxGap
      /\ gap' = [b \in Box |-> gap[b] + 1]
      /\ sync_queue' = [b \in Box |-> Aged(sync_queue[b])]
      /\ recv_queue' = [b \in Box |-> Stale(recv_queue[b])]
      /\ UNCHANGED <<fader, state, pc, listening, peers, lead, told>>
  BY DEF Pass, Settled, history
<1>2. ShapeInv /\ \A x \in Box : BoxInv(x)
  BY TypeParts
<1>3. ASSUME NEW x \in Box PROVE BoxInv(x)'
  <2>1. recv_queue[x] \in Seq(BoundedPackets) /\ sync_queue[x] \in Seq(BoundedEvents)
    BY <1>2 DEF BoxInv
  <2>2. Stale(recv_queue[x]) \in Seq(BoundedPackets) /\ Aged(sync_queue[x]) \in Seq(BoundedEvents)
    BY <2>1, BoundedKept, StaleSeq, AgedSeq
  <2>3. recv_queue'[x] \in Seq(BoundedPackets) /\ sync_queue'[x] \in Seq(BoundedEvents)
    BY <1>1, <2>2
  <2> QED  BY <1>1, <1>2, <2>3 DEF BoxInv
<1>4. gap' \in [Box -> 0..MaxGap]
  <2>1. \A b \in Box : gap[b] \in 0..MaxGap /\ gap[b] < MaxGap
    BY <1>1, <1>2 DEF ShapeInv
  <2>2. \A b \in Box : gap[b] + 1 \in 0..MaxGap
    BY <2>1, PeriodAssumption
  <2> QED  BY <1>1, <2>2
<1>5. ShapeInv'
  BY <1>1, <1>2, <1>4 DEF ShapeInv
<1> QED
  BY <1>3, <1>5, TypePartsNext

LEMMA MoveTypes ==
    ASSUME TypeInv, NEW b \in Box, NEW e \in Indexes(b), NEW f \in Faders[b], MoveFader(b, e, f)
    PROVE  TypeInv'
<1>1. /\ fader' = [fader EXCEPT ![b][e] = f] /\ f \in Fader
      /\ UNCHANGED <<state, pc, gap, recv_queue, listening, peers, sync_queue, lead, told>>
  BY FadersAssumption DEF MoveFader, radio, history
<1>2. ShapeInv /\ \A x \in Box : BoxInv(x)
  BY TypeParts
<1>3. ASSUME NEW x \in Box PROVE BoxInv(x)'
  <2>1. fader[x] \in [Indexes(x) -> Fader]
    BY <1>2 DEF BoxInv
  <2>2. fader'[x] = IF x = b THEN [fader[b] EXCEPT ![e] = f] ELSE fader[x]
    BY <1>1, <1>2 DEF ShapeInv
  <2>3. fader'[x] \in [Indexes(x) -> Fader]
    BY <1>1, <2>1, <2>2
  <2> QED  BY <1>1, <1>2, <2>3 DEF BoxInv
<1>4. ShapeInv'
  BY <1>1, <1>2 DEF ShapeInv
<1> QED
  BY <1>3, <1>4, TypePartsNext

LEMMA TypeStep == TypeInv /\ [Next]_vars => TypeInv'
<1> SUFFICES ASSUME TypeInv, [Next]_vars PROVE TypeInv'
  OBVIOUS
<1>1. CASE UNCHANGED vars
  BY <1>1 DEF vars, radio, history, TypeInv, TypeOK, Within
<1>2. CASE Pass
  BY <1>2, PassTypes
<1>3. ASSUME NEW b \in Box, NEW e \in Indexes(b), NEW f \in Faders[b], MoveFader(b, e, f)
      PROVE  TypeInv'
  BY <1>3, MoveTypes
<1>4. ASSUME NEW b \in Box, Process(b) PROVE TypeInv'
  BY <1>4, TickTypes DEF Process
<1>5. ASSUME NEW b \in Box, StartListening(b) PROVE TypeInv'
  BY <1>5 DEF StartListening, history, TypeInv, TypeOK
<1>6. ASSUME NEW b \in Box, Restart(b) PROVE TypeInv'
  BY <1>6, BlankTypes DEF Restart
<1> QED
  BY <1>1, <1>2, <1>3, <1>4, <1>5, <1>6, HandleTypes, HandTypes DEF Next

LEMMA TypeInvariant == Spec => []TypeInv
BY TypeInitially, TypeStep, PTL DEF Spec

(* Types, and that the position of an effect stays within its chase, also  *)
(* when it was taken from another box: as long as the distributed effects  *)
(* are of one length, which the code takes for granted.                    *)
THEOREM SyncTypes == Spec => []TypeOK
<1>1. TypeInv => TypeOK
  BY DEF TypeInv
<1> QED
  BY <1>1, TypeInvariant, PTL
-----------------------------------------------------------------------------
(* What boxes believe.  Packets say what was broadcast; t stands for told. *)
Settings(s) == [level |-> s.last_level, rate |-> s.last_rate]
Silence == [level |-> 0, rate |-> 0]

Trusted(t) == {p \in Packet : p.intact /\ [level |-> p.level, rate |-> p.rate] \in t}
TrustedEvents(t) == {v \in Event : v.packet \in Trusted(t)}

(* An effect that follows is at settings that were broadcast, or new.      *)
Faithful(s, t) == ~s.is_leader => Settings(s) = Silence \/ Settings(s) \in t

TrustInv ==
    \A b \in Box :
        /\ \A e \in Indexes(b) : Faithful(state[b][e], told)
        /\ recv_queue[b] \in Seq(Trusted(told))
        /\ sync_queue[b] \in Seq(TrustedEvents(told))

LEMMA TrustKept ==
    ASSUME NEW t, NEW u, t \subseteq u
    PROVE  /\ \A p \in Trusted(t) : p \in Trusted(u) /\ [p EXCEPT !.running = FALSE] \in Trusted(u)
           /\ \A v \in TrustedEvents(t) : /\ v \in TrustedEvents(u)
                                          /\ [v EXCEPT !.packet.running = FALSE] \in TrustedEvents(u)
                                          /\ [v EXCEPT !.age = @ + 1] \in TrustedEvents(u)
<1>1. ASSUME NEW p \in Trusted(t)
      PROVE  p \in Trusted(u) /\ [p EXCEPT !.running = FALSE] \in Trusted(u)
  <2> DEFINE r == [p EXCEPT !.running = FALSE]
  <2>1. p \in Packet /\ p.intact /\ [level |-> p.level, rate |-> p.rate] \in u
    BY DEF Trusted
  <2>2. r \in Packet /\ r.intact = p.intact /\ r.level = p.level /\ r.rate = p.rate
    BY <2>1 DEF Packet
  <2> HIDE DEF r
  <2>3. r \in Trusted(u)
    BY <2>1, <2>2 DEF Trusted
  <2> QED  BY <2>1, <2>3 DEF Trusted, r
<1>2. ASSUME NEW v \in TrustedEvents(t)
      PROVE  /\ v \in TrustedEvents(u) /\ [v EXCEPT !.packet.running = FALSE] \in TrustedEvents(u)
             /\ [v EXCEPT !.age = @ + 1] \in TrustedEvents(u)
  <2> DEFINE p == v.packet
             r == [p EXCEPT !.running = FALSE]
             x == [v EXCEPT !.packet.running = FALSE]
             y == [v EXCEPT !.age = @ + 1]
  <2>1. v \in Event /\ p \in Trusted(t)
    BY DEF TrustedEvents
  <2>2. p \in Trusted(u) /\ r \in Trusted(u)
    BY <1>1, <2>1
  <2>3. r \in Packet
    BY <2>2 DEF Trusted
  <2>4. x \in Event /\ x.packet = r
    <3>1. x = [v EXCEPT !.packet = r]
      BY <2>1 DEF Event
    <3> HIDE DEF r, x
    <3> QED  BY <2>1, <2>3, <3>1 DEF Event
  <2>5. y \in Event /\ y.packet = p
    BY <2>1 DEF Event
  <2> QED  BY <2>1, <2>2, <2>4, <2>5 DEF TrustedEvents
<1> QED
  BY <1>1, <1>2

LEMMA OutdatedTrusted ==
    ASSUME NEW places, NEW t, NEW u, t \subseteq u
    PROVE  /\ \A q \in Seq(Trusted(t)) : Outdated(q, places) \in Seq(Trusted(u))
           /\ \A q \in Seq(TrustedEvents(t)) : OutdatedEvents(q, places) \in Seq(TrustedEvents(u))
<1>1. \A p \in Trusted(t) :
        \/ p \in Trusted(u) /\ <<p.from, p.of>> \notin places
        \/ [p EXCEPT !.running = FALSE] \in Trusted(u) /\ <<p.from, p.of>> \in places
  BY TrustKept
<1>2. \A v \in TrustedEvents(t) :
        \/ v \in TrustedEvents(u) /\ <<v.packet.from, v.packet.of>> \notin places
        \/ /\ [v EXCEPT !.packet.running = FALSE] \in TrustedEvents(u)
           /\ <<v.packet.from, v.packet.of>> \in places
  BY TrustKept
<1>3. \A q \in Seq(Trusted(t)) : Outdated(q, places) \in Seq(Trusted(u))
  BY <1>1, OutdatedSeq
<1>4. \A q \in Seq(TrustedEvents(t)) : OutdatedEvents(q, places) \in Seq(TrustedEvents(u))
  BY <1>2, OutdatedEventsSeq
<1> QED
  BY <1>3, <1>4

LEMMA LoadedFaithful == \A t : Faithful(Loaded, t)
BY DEF Faithful, Settings, Silence, Loaded

LEMMA TrustInitially == ASSUME Init PROVE TrustInv
<1>1. ASSUME NEW b \in Box
      PROVE  /\ state[b] = [e \in Indexes(b) |-> Loaded]
             /\ recv_queue[b] = <<>> /\ sync_queue[b] = <<>>
  BY DEF Init
<1> QED
  BY <1>1, LoadedFaithful, EmptyIn DEF TrustInv

(* A box that restarts forgets what it knew and had in its queues.         *)
LEMMA BlankTrust ==
    ASSUME TypeInv, TrustInv, NEW b \in Box, Blank(b)
    PROVE  TrustInv'
<1> DEFINE places == {b} \X Indexes(b)
<1>1. /\ state' = [state EXCEPT ![b] = [e \in Indexes(b) |-> Loaded]]
      /\ recv_queue' = [x \in Box |-> IF x = b THEN <<>> ELSE Outdated(recv_queue[x], places)]
      /\ sync_queue' = [x \in Box |-> IF x = b THEN <<>> ELSE OutdatedEvents(sync_queue[x], places)]
      /\ told' = told
  BY DEF Blank
<1> HIDE DEF places
<1>2. ASSUME NEW x \in Box, NEW e \in Indexes(x) PROVE Faithful(state'[x][e], told)
  BY <1>1, LoadedFaithful DEF TypeInv, TypeOK, TrustInv
<1>3. ASSUME NEW x \in Box
      PROVE  recv_queue'[x] \in Seq(Trusted(told)) /\ sync_queue'[x] \in Seq(TrustedEvents(told))
  <2>1. recv_queue[x] \in Seq(Trusted(told)) /\ sync_queue[x] \in Seq(TrustedEvents(told))
    BY DEF TrustInv
  <2>2. told \subseteq told
    OBVIOUS
  <2>3. /\ Outdated(recv_queue[x], places) \in Seq(Trusted(told))
        /\ OutdatedEvents(sync_queue[x], places) \in Seq(TrustedEvents(told))
    BY <2>1, <2>2, OutdatedTrusted
  <2> QED  BY <1>1, <2>3, EmptyIn
<1> QED
  BY <1>1, <1>2, <1>3 DEF TrustInv

LEMMA TickTrust ==
    ASSUME TypeInv, TrustInv, NEW b \in Box, NEW heard \in [Box \ {b} -> Hearable(b)], Tick(b, heard)
    PROVE  TrustInv'
<1> DEFINE moved == {<<b, e>> : e \in {x \in Indexes(b) : Unsettled(b, x)}}
<1>1. /\ state' = [state EXCEPT ![b] = [e \in Indexes(b) |-> Processed(b, e)]]
      /\ recv_queue' = [x \in Box |-> IF x = b THEN Outdated(recv_queue[x], moved)
                                      ELSE Received(Outdated(recv_queue[x], moved), b, heard[x])]
      /\ sync_queue' = [x \in Box |-> OutdatedEvents(sync_queue[x], moved)]
      /\ told' = told \cup {fader[b][e] : e \in Senders(b)}
  BY DEF Tick
<1> HIDE DEF moved
<1>2. told \subseteq told'
  BY <1>1
<1>3. ASSUME NEW e \in Senders(b) PROVE SyncPacket(b, e) \in Trusted(told')
  <2>1. fader[b][e] \in Fader /\ fader[b][e] \in told'
    BY <1>1, BoundsOfType DEF Senders
  <2>2. [level |-> fader[b][e].level, rate |-> fader[b][e].rate] = fader[b][e]
    BY <2>1 DEF Fader
  <2>3. SyncPacket(b, e) \in Packet
    BY SentBounded DEF BoundedPackets
  <2> QED  BY <2>1, <2>2, <2>3 DEF Trusted, SyncPacket
<1>4. ASSUME NEW x \in Box, NEW e \in Indexes(x) PROVE Faithful(state'[x][e], told')
  <2>1. Faithful(state[x][e], told)
    BY DEF TrustInv
  <2>2. state'[x][e] = IF x = b THEN Processed(b, e) ELSE state[x][e]
    BY <1>1 DEF TypeInv, TypeOK
  <2>3. x = b => \/ Processed(b, e).is_leader
                 \/ /\ Processed(b, e).is_leader = state[b][e].is_leader
                    /\ Settings(Processed(b, e)) = Settings(state[b][e])
    BY BoundsOfType, ProcessedFacts DEF Settings
  <2> QED  BY <1>2, <2>1, <2>2, <2>3 DEF Faithful
<1>5. ASSUME NEW x \in Box
      PROVE  recv_queue'[x] \in Seq(Trusted(told')) /\ sync_queue'[x] \in Seq(TrustedEvents(told'))
  <2>1. recv_queue[x] \in Seq(Trusted(told)) /\ sync_queue[x] \in Seq(TrustedEvents(told))
    BY DEF TrustInv
  <2>2. /\ Outdated(recv_queue[x], moved) \in Seq(Trusted(told'))
        /\ OutdatedEvents(sync_queue[x], moved) \in Seq(TrustedEvents(told'))
    BY <1>2, <2>1, OutdatedTrusted
  <2>3. x # b => Received(Outdated(recv_queue[x], moved), b, heard[x]) \in Seq(Trusted(told'))
    BY <1>3, <2>2, ReceivedSeq
  <2> QED  BY <1>1, <2>2, <2>3
<1> QED
  BY <1>4, <1>5 DEF TrustInv

(* An event of the sync queue is applied whole.                            *)
LEMMA HandleTrust ==
    ASSUME TypeInv, TrustInv, NEW b \in Box, HandleSync(b)
    PROVE  TrustInv'
<1>1. CASE Blank(b)
  BY <1>1, BlankTrust
<1>2. CASE ~Blank(b)
  <2> DEFINE v == Head(sync_queue[b])
             new(e) == Synced(state[b][e], v.packet, v.age, Length[b][e])
  <2>1. PICK e : /\ sync_queue[b] # <<>>
                 /\ sync_queue' = [sync_queue EXCEPT ![b] = Tail(@)]
                 /\ state' = state \/ state' = [state EXCEPT ![b][e] = new(e)]
                 /\ UNCHANGED <<recv_queue, told>>
    BY <1>2, HandleFacts DEF radio
  <2>2. v \in TrustedEvents(told) /\ Tail(sync_queue[b]) \in Seq(TrustedEvents(told))
    BY <2>1, FirstOut DEF TrustInv
  <2>3. /\ v.packet \in Packet /\ v.age \in Nat
        /\ [level |-> v.packet.level, rate |-> v.packet.rate] \in told
    BY <2>2 DEF TrustedEvents, Trusted, Event
  <2> HIDE DEF v
  <2>4. ASSUME NEW x \in Box, NEW d \in Indexes(x) PROVE Faithful(state'[x][d], told)
    <3>1. Faithful(state[x][d], told) /\ state[x][d] \in EffectState
      BY BoundsOfType DEF TrustInv
    <3>2. CASE x = b /\ d = e
      <4>1. Length[b][e] \in Nat
        BY <3>2, EffectFacts
      <4>0. state[b][e] \in EffectState
        BY <3>1, <3>2
      <4> DEFINE z == Synced(state[b][e], v.packet, v.age, Length[b][e])
      <4>a. z.last_level = v.packet.level /\ z.last_rate = v.packet.rate
        <5>1. PICK n \in Nat : SyncedTo(z, state[b][e], v.packet, n)
          BY <2>3, <4>0, <4>1, SyncedFacts
        <5> QED  BY <5>1 DEF SyncedTo
      <4>2. new(e).last_level = v.packet.level /\ new(e).last_rate = v.packet.rate
        BY <4>a
      <4> HIDE DEF new
      <4>3. Faithful(new(e), told)
        BY <2>3, <4>2 DEF Faithful, Settings
      <4>4. state'[x][d] = state[x][d] \/ state'[x][d] = new(e)
        BY <2>1, <3>2 DEF TypeInv, TypeOK
      <4> QED  BY <3>1, <4>3, <4>4
    <3>3. CASE ~(x = b /\ d = e)
      <4> HIDE DEF new
      <4>1. state'[x][d] = state[x][d]
        BY <2>1, <3>3 DEF TypeInv, TypeOK
      <4> QED  BY <3>1, <4>1
    <3> QED  BY <3>2, <3>3
  <2>5. ASSUME NEW x \in Box
        PROVE  recv_queue'[x] \in Seq(Trusted(told)) /\ sync_queue'[x] \in Seq(TrustedEvents(told))
    BY <2>1, <2>2 DEF TrustInv, TypeInv, TypeOK
  <2> QED  BY <2>1, <2>4, <2>5 DEF TrustInv
<1> QED
  BY <1>1, <1>2

LEMMA HandTrust ==
    ASSUME TypeInv, TrustInv, NEW b \in Box, Forward(b)
    PROVE  TrustInv'
<1>1. CASE Blank(b)
  BY <1>1, BlankTrust
<1>2. CASE ~Blank(b)
  <2> DEFINE p == Head(recv_queue[b])
             v == [packet |-> p, age |-> 0]
  <2>1. /\ recv_queue[b] # <<>>
        /\ recv_queue' = [recv_queue EXCEPT ![b] = Tail(@)]
        /\ \/ sync_queue' = sync_queue
           \/ p.intact /\ sync_queue' = [sync_queue EXCEPT ![b] = Append(@, v)]
        /\ UNCHANGED <<state, told>>
    BY <1>2, HandFacts DEF history
  <2>2. p \in Trusted(told) /\ Tail(recv_queue[b]) \in Seq(Trusted(told))
    BY <2>1, FirstOut DEF TrustInv
  <2> HIDE DEF p
  <2>3. v \in TrustedEvents(told)
    BY <2>2 DEF TrustedEvents, Trusted, Event
  <2> HIDE DEF v
  <2>4. ASSUME NEW x \in Box
        PROVE  recv_queue'[x] \in Seq(Trusted(told)) /\ sync_queue'[x] \in Seq(TrustedEvents(told))
    <3>1. recv_queue[x] \in Seq(Trusted(told)) /\ sync_queue[x] \in Seq(TrustedEvents(told))
      BY DEF TrustInv
    <3>2. Append(sync_queue[x], v) \in Seq(TrustedEvents(told))
      BY <2>3, <3>1, LastIn
    <3> QED  BY <2>1, <2>2, <3>1, <3>2 DEF TypeInv, TypeOK
  <2> QED  BY <2>1, <2>4 DEF TrustInv
<1> QED
  BY <1>1, <1>2

LEMMA PassTrust == ASSUME TypeInv, TrustInv, Pass PROVE TrustInv'
<1>1. /\ sync_queue' = [b \in Box |-> Aged(sync_queue[b])]
      /\ recv_queue' = [b \in Box |-> Stale(recv_queue[b])]
      /\ UNCHANGED <<state, told>>
  BY DEF Pass, history
<1>2. told \subseteq told
  OBVIOUS
<1>3. ASSUME NEW x \in Box
      PROVE  recv_queue'[x] \in Seq(Trusted(told)) /\ sync_queue'[x] \in Seq(TrustedEvents(told))
  <2>1. recv_queue[x] \in Seq(Trusted(told)) /\ sync_queue[x] \in Seq(TrustedEvents(told))
    BY DEF TrustInv
  <2>2. /\ \A p \in Trusted(told) : [p EXCEPT !.running = FALSE] \in Trusted(told)
        /\ \A v \in TrustedEvents(told) : [v EXCEPT !.age = @ + 1] \in TrustedEvents(told)
    BY <1>2, TrustKept
  <2>3. Stale(recv_queue[x]) \in Seq(Trusted(told)) /\ Aged(sync_queue[x]) \in Seq(TrustedEvents(told))
    BY <2>1, <2>2, StaleSeq, AgedSeq
  <2> QED  BY <1>1, <2>3
<1> QED
  BY <1>1, <1>3 DEF TrustInv

LEMMA TrustStep == TypeInv /\ TrustInv /\ [Next]_vars => TrustInv'
<1> SUFFICES ASSUME TypeInv, TrustInv, [Next]_vars PROVE TrustInv'
  OBVIOUS
<1>1. CASE UNCHANGED vars
  BY <1>1 DEF vars, radio, history, TrustInv
<1>2. CASE Pass
  BY <1>2, PassTrust
<1>3. ASSUME NEW b \in Box, NEW e \in Indexes(b), NEW f \in Faders[b], MoveFader(b, e, f)
      PROVE  TrustInv'
  BY <1>3 DEF MoveFader, radio, history, TrustInv
<1>4. ASSUME NEW b \in Box, Process(b) PROVE TrustInv'
  BY <1>4, TickTrust DEF Process
<1>5. ASSUME NEW b \in Box, StartListening(b) PROVE TrustInv'
  BY <1>5 DEF StartListening, history, TrustInv
<1>6. ASSUME NEW b \in Box, Restart(b) PROVE TrustInv'
  BY <1>6, BlankTrust DEF Restart
<1> QED
  BY <1>1, <1>2, <1>3, <1>4, <1>5, <1>6, HandleTrust, HandTrust DEF Next

(* No box that does not lead ever runs an effect at settings other than a  *)
(* pair some box has broadcast: not those of a garbled packet, and never   *)
(* the level of one and the rate of another.                               *)
THEOREM FollowersAreFaithful == Spec => []FollowsALeader
<1>1. TrustInv => FollowsALeader
  BY DEF TrustInv, Faithful, Settings, Silence, FollowsALeader
<1> QED
  BY <1>1, TypeInvariant, TrustInitially, TrustStep, PTL DEF Spec
-----------------------------------------------------------------------------
(* Phase.  c stands for the length of the chase the boxes play together.   *)
Lengths(c) == \A b \in Box : \A e \in Indexes(b) : Distributed(b, e) => Length[b][e] = c

(* y is x, but for the movement of one tick, and whole passes.             *)
Near(x, y, rate, c) == \E d \in 0..(MaxGap * rate) : \E k \in Int : y = x + d + k * c

RunsAt(l, o, rate) ==
    /\ l \in Box /\ o \in Indexes(l) /\ Distributed(l, o)
    /\ state[l][o].active /\ state[l][o].is_leader /\ state[l][o].last_rate = rate

Behind(l, o, x, rate, c) == RunsAt(l, o, rate) /\ Near(x, Position(l, o, rate), rate, c)

(* A packet is as old as the tick before; an event makes up for its age.   *)
InTime(c) ==
    {p \in Packet : p.running => p.level # 0 /\ Behind(p.from, p.of, p.progress, p.rate, c)}

EventsInTime(c) ==
    {v \in Event :
        LET p == v.packet
        IN  p.running => /\ p.level # 0
                         /\ Behind(p.from, p.of, p.progress + v.age * p.rate, p.rate, c)}

Following(b, e, c) ==
    LET s == state[b][e]
        l == lead[b][e]
    IN  /\ Distributed(b, e) /\ s.active /\ ~s.is_leader /\ s.last_level # 0
        /\ Behind(l[1], l[2], Position(b, e, s.last_rate), s.last_rate, c)

PhaseInv(c) ==
    \A b \in Box :
        /\ pc[b] = "drain" => gap[b] = 0
        /\ recv_queue[b] \in Seq(InTime(c))
        /\ sync_queue[b] \in Seq(EventsInTime(c))
        /\ \A e \in Indexes(b) : lead[b][e] # NoLead => Following(b, e, c)

(* The same position in another pass.                                      *)
Congruent(x, y, c) == \E k \in Int : y = x + k * c

LEMMA NearShift ==
    ASSUME NEW c \in Nat \ {0}, NEW rate \in Nat, NEW x \in Int, NEW y \in Int, Near(x, y, rate, c),
           NEW t \in Int, NEW u \in Int, Congruent(x + t, u, c), NEW v \in Int, Congruent(y + t, v, c)
    PROVE  Near(u, v, rate, c)
<1>1. PICK d \in 0..(MaxGap * rate), k \in Int : y = x + d + k * c
  BY DEF Near
<1>2. PICK i \in Int : u = x + t + i * c
  BY DEF Congruent
<1>3. PICK j \in Int : v = y + t + j * c
  BY DEF Congruent
<1>4. k + j - i \in Int /\ (k + j - i) * c = k * c + j * c - i * c
  OBVIOUS
<1>5. k * c \in Int /\ j * c \in Int /\ i * c \in Int /\ d \in Int
  BY PeriodAssumption
<1>6. v = u + d + (k + j - i) * c
  <2> DEFINE a == k * c
             z == j * c
             w == i * c
  <2> HIDE DEF a, z, w
  <2>1. /\ a \in Int /\ z \in Int /\ w \in Int /\ d \in Int /\ y = x + d + a
        /\ u = x + t + w /\ v = y + t + z
    BY <1>1, <1>2, <1>3, <1>5 DEF a, z, w
  <2>2. v = u + d + (a + z - w)
    BY <2>1
  <2> QED  BY <1>4, <2>2 DEF a, z, w
<1> QED
  BY <1>4, <1>6 DEF Near

LEMMA Same == \A x \in Int, c \in Nat : Congruent(x, x, c)
<1>1. \A x \in Int, c \in Nat : 0 \in Int /\ x = x + 0 * c
  OBVIOUS
<1> QED
  BY <1>1 DEF Congruent

LEMMA NearInt ==
    ASSUME NEW c \in Nat \ {0}, NEW rate \in Nat, NEW x \in Int, NEW y, Near(x, y, rate, c)
    PROVE  y \in Int
<1>1. PICK d \in 0..(MaxGap * rate), k \in Int : y = x + d + k * c
  BY DEF Near
<1>2. d \in Int /\ k * c \in Int
  BY PeriodAssumption
<1> QED
  BY <1>1, <1>2

(* The follower, or the leader, in another pass.                           *)
LEMMA NearFrom ==
    ASSUME NEW c \in Nat \ {0}, NEW rate \in Nat, NEW x \in Int, NEW u \in Int, NEW y,
           Near(x, y, rate, c), Congruent(x, u, c)
    PROVE  Near(u, y, rate, c)
<1>1. y \in Int
  BY NearInt
<1>2. x + 0 = x /\ y + 0 = y /\ 0 \in Int /\ c \in Nat
  BY <1>1
<1>3. Congruent(x + 0, u, c) /\ Congruent(y + 0, y, c)
  BY <1>1, <1>2, Same
<1> QED
  BY <1>1, <1>2, <1>3, NearShift

LEMMA NearLater ==
    ASSUME NEW c \in Nat \ {0}, NEW rate \in Nat, NEW x \in Int, NEW y \in Int, NEW v \in Int,
           Near(x, y, rate, c), Congruent(y, v, c)
    PROVE  Near(x, v, rate, c)
<1>1. x + 0 = x /\ y + 0 = y /\ 0 \in Int /\ c \in Nat
  OBVIOUS
<1>2. Congruent(x + 0, x, c) /\ Congruent(y + 0, v, c)
  BY <1>1, Same
<1> QED
  BY <1>1, <1>2, NearShift

LEMMA NearLag ==
    ASSUME NEW c \in Nat \ {0}, NEW rate \in Nat, NEW x \in Int, NEW y \in Int, Near(x, y, rate, c)
    PROVE  (y - x) % c \in 0..(MaxGap * rate)
<1>1. PICK d \in 0..(MaxGap * rate), k \in Int : y = x + d + k * c
  BY DEF Near
<1> DEFINE w == y - x
           m == w % c
           q == w \div c
<1>2. w \in Int /\ m \in 0..(c - 1) /\ q \in Int /\ w = q * c + m
  OBVIOUS
<1>3. MaxGap * rate \in Nat
  BY PeriodAssumption
<1>4. d \in Nat /\ k * c \in Int /\ q * c \in Int /\ m \in Int /\ w = d + k * c
  BY <1>1, <1>2, <1>3
<1> HIDE DEF w, m, q
<1>5. m <= d
  <2> SUFFICES ASSUME ~(m <= d) PROVE FALSE
    OBVIOUS
  <2>1. q * c < k * c
    BY <1>2, <1>4
  <2>2. q + 1 <= k
    <3>1. k <= q => k * c <= q * c
      BY <1>2, TimesMonotonic
    <3> QED  BY <1>2, <1>4, <2>1, <3>1
  <2>3. (q + 1) * c <= k * c
    <3>1. q + 1 \in Int /\ c \in Nat
      BY <1>2
    <3> QED  BY <2>2, <3>1, TimesMonotonic
  <2>4. (q + 1) * c = q * c + c
    BY <1>2
  <2> QED  BY <1>2, <1>4, <2>3, <2>4
<1> QED
  BY <1>2, <1>3, <1>4, <1>5 DEF m, w

(* A tick moves an effect that goes on, by the time and by whole passes.   *)
LEMMA AdvanceShift ==
    ASSUME NEW c \in Nat \ {0}, NEW progress \in Nat, NEW first_pass \in BOOLEAN, NEW rate \in Nat,
           NEW time \in Nat, NEW x, x = progress + time * rate,
           NEW n, n = Advance(progress, first_pass, rate, time, c).progress
    PROVE  n \in Nat /\ Congruent(x, n, c)
<1> DEFINE a == Advance(progress, first_pass, rate, time, c)
           p == progress + time * rate
<1>0. c \in Nat /\ c # 0
  OBVIOUS
<1>1. PICK q \in Nat : WrapsBy(progress, first_pass, rate, time, c, q)
  BY <1>0, AdvanceFacts
<1>a. p = q * c + a.progress
  BY <1>1 DEF WrapsBy
<1>2. a.progress \in Nat
  BY <1>0, AdvanceFacts
<1>3. -q \in Int /\ q * c \in Int /\ (-q) * c = -(q * c)
  OBVIOUS
<1> HIDE DEF a
<1>4. a.progress = p + (-q) * c
  <2> DEFINE z == q * c
  <2>1. p = z + a.progress /\ z \in Int
    BY <1>a, <1>3
  <2>2. a.progress = p + (-z)
    <3> HIDE DEF z, p
    <3> QED  BY <1>2, <2>1
  <2> QED  BY <1>3, <2>2
<1>5. Congruent(p, a.progress, c)
  BY <1>3, <1>4 DEF Congruent
<1> QED
  BY <1>2, <1>5 DEF a, p

(* Packets and events stay in time when the effects that sent them do, but *)
(* for some that are marked.                                               *)
Kept(places, c) ==
    \A l \in Box : \A o \in Indexes(l) : <<l, o>> \notin places =>
        \A x \in Int, rate \in Nat : Behind(l, o, x, rate, c) => Behind(l, o, x, rate, c)'

LEMMA QueuesKept ==
    ASSUME NEW c \in Nat \ {0}, NEW places, Kept(places, c)
    PROVE  /\ \A p \in InTime(c) : \/ p \in InTime(c)' /\ <<p.from, p.of>> \notin places
                                   \/ /\ [p EXCEPT !.running = FALSE] \in InTime(c)'
                                      /\ <<p.from, p.of>> \in places
           /\ \A v \in EventsInTime(c) :
                  \/ v \in EventsInTime(c)' /\ <<v.packet.from, v.packet.of>> \notin places
                  \/ /\ [v EXCEPT !.packet.running = FALSE] \in EventsInTime(c)'
                     /\ <<v.packet.from, v.packet.of>> \in places
<1>1. ASSUME NEW p \in Packet
      PROVE  [p EXCEPT !.running = FALSE] \in Packet /\ ~[p EXCEPT !.running = FALSE].running
  BY DEF Packet
<1>2. ASSUME NEW v \in Event
      PROVE  /\ [v EXCEPT !.packet.running = FALSE] \in Event
             /\ ~[v EXCEPT !.packet.running = FALSE].packet.running
  <2> DEFINE r == [v.packet EXCEPT !.running = FALSE]
             u == [v EXCEPT !.packet.running = FALSE]
  <2>1. r \in Packet /\ ~r.running
    BY <1>1 DEF Event
  <2>2. u = [v EXCEPT !.packet = r]
    BY DEF Event
  <2> HIDE DEF r, u
  <2>3. u \in Event /\ u.packet = r
    BY <2>1, <2>2 DEF Event
  <2> QED  BY <2>1, <2>3 DEF u
<1>3. ASSUME NEW p \in InTime(c), <<p.from, p.of>> \notin places PROVE p \in InTime(c)'
  <2>1. p \in Packet /\ p.progress \in Int /\ p.rate \in Nat
    BY DEF InTime, Packet
  <2>2. p.running => p.level # 0 /\ Behind(p.from, p.of, p.progress, p.rate, c)
    BY DEF InTime
  <2>3. p.running => p.from \in Box /\ p.of \in Indexes(p.from)
    BY <2>2 DEF Behind, RunsAt
  <2>4. p.running => Behind(p.from, p.of, p.progress, p.rate, c)'
    BY <1>3, <2>1, <2>2, <2>3 DEF Kept
  <2> QED  BY <2>1, <2>2, <2>4 DEF InTime
<1>4. ASSUME NEW v \in EventsInTime(c), <<v.packet.from, v.packet.of>> \notin places
      PROVE  v \in EventsInTime(c)'
  <2> DEFINE p == v.packet
             x == p.progress + v.age * p.rate
  <2>1. v \in Event /\ p \in Packet /\ p.progress \in Int /\ p.rate \in Nat /\ v.age \in Int
    BY DEF EventsInTime, Event, Packet
  <2>2. x \in Int
    BY <2>1
  <2>3. p.running => p.level # 0 /\ Behind(p.from, p.of, x, p.rate, c)
    BY DEF EventsInTime
  <2>4. p.running => p.from \in Box /\ p.of \in Indexes(p.from)
    BY <2>3 DEF Behind, RunsAt
  <2> HIDE DEF x
  <2>5. p.running => Behind(p.from, p.of, x, p.rate, c)'
    BY <1>4, <2>1, <2>2, <2>3, <2>4 DEF Kept
  <2> QED  BY <2>1, <2>3, <2>5 DEF EventsInTime, x
<1>5. \A p \in InTime(c) : [p EXCEPT !.running = FALSE] \in InTime(c)'
  BY <1>1 DEF InTime
<1>6. \A v \in EventsInTime(c) : [v EXCEPT !.packet.running = FALSE] \in EventsInTime(c)'
  BY <1>2 DEF EventsInTime
<1> QED
  BY <1>3, <1>4, <1>5, <1>6

(* A leader whose effect goes on as it did is where it would be.           *)
LEMMA LeaderTicks ==
    ASSUME TypeInv, NEW c \in Nat \ {0}, Lengths(c), NEW b \in Box,
           NEW heard \in [Box \ {b} -> Hearable(b)], Tick(b, heard)
    PROVE  Kept({<<b, e>> : e \in {x \in Indexes(b) : Unsettled(b, x)}}, c)
<1> DEFINE moved == {<<b, e>> : e \in {x \in Indexes(b) : Unsettled(b, x)}}
<1>1. SUFFICES ASSUME NEW l \in Box, NEW o \in Indexes(l), <<l, o>> \notin moved,
                      NEW x \in Int, NEW rate \in Nat, Behind(l, o, x, rate, c)
               PROVE  Behind(l, o, x, rate, c)'
  BY DEF Kept
<1> DEFINE s == state[l][o]
           z == Processed(l, o)
<1>2. /\ s \in EffectState /\ fader[l][o] \in Fader /\ gap[l] \in Nat
      /\ s.progress \in Nat /\ s.first_pass \in BOOLEAN
  BY BoundsOfType DEF EffectState
<1>3. RunsAt(l, o, rate) /\ Near(x, s.progress + gap[l] * rate, rate, c)
  BY <1>1 DEF Behind, Position
<1>4. state'[l][o] = (IF l = b THEN z ELSE s) /\ gap'[l] = (IF l = b THEN 0 ELSE gap[l])
  BY DEF Tick, TypeInv, TypeOK
<1>5. CASE l = b
  <2>1. z.active = s.active /\ z.last_rate = s.last_rate
    BY <1>1, <1>5 DEF Unsettled
  <2>2. Leads(l, o)
    BY <1>3 DEF Leads, RunsAt
  <2>3. z.is_leader = TRUE /\ z.last_rate = fader[l][o].rate /\ Params(l, o) = fader[l][o]
    BY <2>2, LeaderProcessed
  <2>b. s.active /\ s.last_rate = rate /\ Length[l][o] = c
    BY <1>3 DEF RunsAt, Lengths
  <2>c. Params(l, o).level # 0
    <3>1. Params(l, o).level = 0 => z.active = FALSE
      BY DarkProcessed
    <3> QED  BY <2>1, <2>b, <3>1
  <2>d. Params(l, o).rate = rate
    BY <2>1, <2>3, <2>b
  <2>4. z.progress = Advance(s.progress, s.first_pass, rate, gap[l], c).progress
    BY <2>b, <2>c, <2>d, RunningProcessed
  <2>5. z.progress \in Nat /\ Congruent(s.progress + gap[l] * rate, z.progress, c)
    <3> HIDE DEF z, s
    <3> QED  BY <1>2, <2>4, AdvanceShift
  <2> HIDE DEF z, s
  <2>7. Near(x, z.progress, rate, c)
    <3>1. gap[l] * rate \in Nat /\ s.progress + gap[l] * rate \in Int /\ z.progress \in Int
      BY <1>2, <2>5
    <3> QED  BY <1>3, <2>5, <3>1, NearLater
  <2>8. z.progress + 0 * rate = z.progress
    BY <2>5
  <2>9. RunsAt(l, o, rate)'
    BY <1>3, <1>4, <1>5, <2>1, <2>3 DEF RunsAt, s
  <2>10. Position(l, o, rate)' = z.progress
    BY <1>4, <1>5, <2>8 DEF Position
  <2> QED  BY <2>7, <2>9, <2>10 DEF Behind, Near
<1>6. CASE l # b
  <2>1. state'[l][o] = s /\ gap'[l] = gap[l]
    BY <1>4, <1>6
  <2>2. RunsAt(l, o, rate)'
    BY <1>3, <2>1 DEF RunsAt
  <2>3. Position(l, o, rate)' = s.progress + gap[l] * rate
    BY <2>1 DEF Position
  <2> QED  BY <1>3, <2>2, <2>3 DEF Behind, Near
<1> QED
  BY <1>5, <1>6

(* So is a follower that no longer hears of it.                            *)
LEMMA FollowerTicks ==
    ASSUME TypeInv, NEW c \in Nat \ {0}, Lengths(c), NEW b \in Box,
           NEW heard \in [Box \ {b} -> Hearable(b)], Tick(b, heard),
           NEW y \in Box, NEW e \in Indexes(y), Following(y, e, c), lead'[y][e] = lead[y][e],
           lead[y][e] \notin {<<b, i>> : i \in {x \in Indexes(b) : Unsettled(b, x)}},
           lead[y][e] \in Box \X Nat,
           y = b => ~Leads(b, e)
    PROVE  Following(y, e, c)'
<1> DEFINE moved == {<<b, i>> : i \in {x \in Indexes(b) : Unsettled(b, x)}}
           s == state[y][e]
           z == Processed(y, e)
<1>1. PICK l \in Box, o \in Nat : lead[y][e] = <<l, o>>
  OBVIOUS
<1>2. /\ s \in EffectState /\ fader[y][e] \in Fader /\ gap[y] \in Nat /\ s.last_rate \in Nat
      /\ s.progress \in Nat /\ s.first_pass \in BOOLEAN
  BY BoundsOfType DEF EffectState
<1>3. PICK r \in Nat : r = s.last_rate
  BY <1>2
<1>4. PICK x \in Int : x = s.progress + gap[y] * r
  <2>1. gap[y] * r \in Nat
    BY <1>2
  <2> QED  BY <1>2, <2>1
<1>5. /\ Distributed(y, e) /\ s.active /\ ~s.is_leader /\ s.last_level # 0
      /\ Behind(l, o, x, r, c)
  BY <1>1, <1>3, <1>4 DEF Following, Position
<1>6. o \in Indexes(l) /\ Distributed(l, o)
  BY <1>5 DEF Behind, RunsAt
<1>7. Behind(l, o, x, r, c)'
  <2>1. Kept(moved, c)
    BY LeaderTicks
  <2>2. <<l, o>> \notin moved
    BY <1>1
  <2> HIDE DEF moved
  <2> QED  BY <1>5, <1>6, <2>1, <2>2 DEF Kept
<1>8. /\ state'[l][o].active /\ state'[l][o].is_leader /\ state'[l][o].last_rate = r
      /\ Near(x, state'[l][o].progress + gap'[l] * r, r, c)
  BY <1>7 DEF Behind, RunsAt, Position
<1>9. state'[y][e] = (IF y = b THEN z ELSE s) /\ gap'[y] = (IF y = b THEN 0 ELSE gap[y])
  BY DEF Tick, TypeInv, TypeOK
<1>10. \E u \in Int : /\ state'[y][e].active /\ ~state'[y][e].is_leader
                      /\ state'[y][e].last_level # 0 /\ state'[y][e].last_rate = r
                      /\ state'[y][e].progress + gap'[y] * r = u /\ Congruent(x, u, c)
  <2>1. CASE y = b
    <3>1. Follows(y, e) /\ ~Leads(y, e)
      BY <1>5, <2>1 DEF Follows
    <3>2. /\ z.is_leader = s.is_leader
          /\ z.last_level = s.last_level /\ z.last_rate = s.last_rate
          /\ Params(y, e).level = s.last_level /\ Params(y, e).rate = s.last_rate
      BY <3>1, FollowerProcessed
    <3>3. Params(y, e).rate = r /\ Params(y, e).level # 0
      BY <1>3, <1>5, <3>2
    <3>4. Length[y][e] = c
      BY <1>5 DEF Lengths
    <3>5. z.active = TRUE /\ z.progress = Advance(s.progress, s.first_pass, r, gap[y], c).progress
      BY <1>5, <3>3, <3>4, RunningProcessed
    <3> HIDE DEF z, s
    <3>6. z.progress \in Nat /\ Congruent(x, z.progress, c)
      <4>1. PICK p0 \in Nat, f0 \in BOOLEAN, t0 \in Nat :
                p0 = s.progress /\ f0 = s.first_pass /\ t0 = gap[y]
        BY <1>2
      <4>2. PICK n : n = z.progress
        OBVIOUS
      <4>3. x = p0 + t0 * r
        BY <1>4, <4>1
      <4>4. n = Advance(p0, f0, r, t0, c).progress
        BY <3>5, <4>1, <4>2
      <4>5. r \in Nat
        BY <1>2, <1>3
      <4>6. n \in Nat /\ Congruent(x, n, c)
        BY <4>3, <4>4, <4>5, AdvanceShift
      <4> QED  BY <4>2, <4>6
    <3>7. z.progress + 0 * r = z.progress /\ z.progress \in Int
      BY <3>6
    <3> QED  BY <1>3, <1>5, <1>9, <2>1, <3>2, <3>5, <3>6, <3>7
  <2>2. CASE y # b
    <3> HIDE DEF s
    <3>1. Congruent(x, x, c)
      BY Same
    <3> QED  BY <1>3, <1>4, <1>5, <1>9, <2>2, <3>1
  <2> QED  BY <2>1, <2>2
<1>11. PICK u \in Int : /\ state'[y][e].active /\ ~state'[y][e].is_leader
                        /\ state'[y][e].last_level # 0 /\ state'[y][e].last_rate = r
                        /\ state'[y][e].progress + gap'[y] * r = u /\ Congruent(x, u, c)
  BY <1>10
<1>12. Near(u, state'[l][o].progress + gap'[l] * r, r, c)
  BY <1>8, <1>11, NearFrom
<1>13. lead'[y][e] = <<l, o>>
  BY <1>1
<1> QED
  BY <1>5, <1>6, <1>8, <1>11, <1>12, <1>13 DEF Following, Behind, RunsAt, Position

(* What a leader broadcasts is the position of the tick before.            *)
LEMMA SentInTime ==
    ASSUME TypeInv, NEW c \in Nat \ {0}, Lengths(c), NEW b \in Box,
           NEW heard \in [Box \ {b} -> Hearable(b)], Tick(b, heard), NEW e \in Senders(b)
    PROVE  SyncPacket(b, e) \in InTime(c)'
<1> DEFINE s == state[b][e]
           z == Processed(b, e)
           f == fader[b][e]
           p == SyncPacket(b, e)
<1>1. e \in Indexes(b) /\ Leads(b, e) /\ Distributed(b, e)
  BY DEF Senders, SendsSync, Leads
<1>2. /\ s \in EffectState /\ f \in Fader /\ gap[b] \in 0..MaxGap /\ gap[b] \in Nat
      /\ s.progress \in Nat /\ s.first_pass \in BOOLEAN /\ f.rate \in Nat
  BY <1>1, BoundsOfType DEF EffectState, Fader, TypeInv, TypeOK
<1>3. /\ p \in Packet /\ p.from = b /\ p.of = e /\ p.level = f.level /\ p.rate = f.rate
      /\ p.progress = s.progress
      /\ p.running => s.active /\ f.level # 0
  <2>1. p \in Packet
    BY SentBounded DEF BoundedPackets
  <2> QED  BY <2>1 DEF SyncPacket
<1>4. state'[b][e] = z /\ gap'[b] = 0
  BY <1>1 DEF Tick, TypeInv, TypeOK
<1>5. ASSUME p.running
      PROVE  /\ p.level # 0
             /\ state'[b][e].active /\ state'[b][e].is_leader /\ state'[b][e].last_rate = f.rate
             /\ Near(s.progress, state'[b][e].progress + gap'[b] * f.rate, f.rate, c)
  <2>1. s.active /\ f.level # 0
    BY <1>3, <1>5
  <2>3. z.is_leader = TRUE /\ z.last_rate = f.rate /\ Params(b, e) = f
    BY <1>1, LeaderProcessed
  <2>4. Length[b][e] = c /\ Params(b, e).level # 0 /\ Params(b, e).rate = f.rate
    BY <1>1, <2>1, <2>3 DEF Lengths
  <2>6. z.active = TRUE /\ z.progress = Advance(s.progress, s.first_pass, f.rate, gap[b], c).progress
    BY <1>1, <2>1, <2>4, RunningProcessed
  <2> HIDE DEF z, s, f, p
  <2>7. z.progress \in Nat /\ Congruent(s.progress + gap[b] * f.rate, z.progress, c)
    BY <1>2, <2>6, AdvanceShift
  <2>8. gap[b] * f.rate \in 0..(MaxGap * f.rate)
    <3>1. gap[b] \in Int /\ gap[b] <= MaxGap /\ MaxGap \in Int /\ f.rate \in Nat /\ gap[b] * f.rate \in Nat
      BY <1>2, PeriodAssumption
    <3>2. gap[b] * f.rate <= MaxGap * f.rate
      BY <3>1, TimesMonotonic
    <3> QED  BY <3>1, <3>2
  <2>9. Near(s.progress, z.progress, f.rate, c)
    <3>1. PICK k \in Int : z.progress = s.progress + gap[b] * f.rate + k * c
      BY <2>7 DEF Congruent
    <3> QED  BY <2>8, <3>1 DEF Near
  <2>10. z.progress + 0 * f.rate = z.progress
    BY <1>2, <2>7
  <2> QED  BY <1>3, <1>4, <2>1, <2>3, <2>6, <2>9, <2>10
<1>6. PICK q : q = p
  OBVIOUS
<1>7. /\ q \in Packet /\ q.from = b /\ q.of = e
      /\ q.running => /\ q.level # 0
                      /\ state'[b][e].active /\ state'[b][e].is_leader
                      /\ state'[b][e].last_rate = q.rate
                      /\ Near(q.progress, state'[b][e].progress + gap'[b] * q.rate, q.rate, c)
  <2> HIDE DEF p
  <2> QED  BY <1>3, <1>5, <1>6
<1>8. q.running => q.level # 0 /\ Behind(q.from, q.of, q.progress, q.rate, c)'
  BY <1>1, <1>7 DEF Behind, RunsAt, Position
<1>9. q \in InTime(c)'
  BY <1>7, <1>8 DEF InTime
<1> QED
  BY <1>6, <1>9

LEMMA TickPhase ==
    ASSUME TypeInv, NEW c \in Nat \ {0}, Lengths(c), PhaseInv(c), NEW b \in Box,
           NEW heard \in [Box \ {b} -> Hearable(b)], Tick(b, heard)
    PROVE  PhaseInv(c)'
<1> DEFINE moved == {<<b, e>> : e \in {x \in Indexes(b) : Unsettled(b, x)}}
           leading == {<<b, e>> : e \in {x \in Indexes(b) : Leads(b, x)}}
<1>1. /\ gap' = [gap EXCEPT ![b] = 0]
      /\ pc' = [pc EXCEPT ![b] = IF sync_queue[b] = <<>> THEN "sleep" ELSE "drain"]
      /\ recv_queue' = [x \in Box |-> IF x = b THEN Outdated(recv_queue[x], moved)
                                      ELSE Received(Outdated(recv_queue[x], moved), b, heard[x])]
      /\ sync_queue' = [x \in Box |-> OutdatedEvents(sync_queue[x], moved)]
      /\ lead' = Lost(moved, leading)
  BY DEF Tick
<1>2. Kept(moved, c)
  BY LeaderTicks
<1>3. ASSUME NEW x \in Box PROVE pc'[x] = "drain" => gap'[x] = 0
  BY <1>1 DEF PhaseInv, TypeInv, TypeOK
<1>4. ASSUME NEW x \in Box
      PROVE  recv_queue'[x] \in Seq(InTime(c)') /\ sync_queue'[x] \in Seq(EventsInTime(c)')
  <2> HIDE DEF moved
  <2>1. recv_queue[x] \in Seq(InTime(c)) /\ sync_queue[x] \in Seq(EventsInTime(c))
    BY DEF PhaseInv
  <2>2. Outdated(recv_queue[x], moved) \in Seq(InTime(c)')
    BY <1>2, <2>1, QueuesKept, OutdatedSeq
  <2>3. OutdatedEvents(sync_queue[x], moved) \in Seq(EventsInTime(c)')
    BY <1>2, <2>1, QueuesKept, OutdatedEventsSeq
  <2>4. x # b => Received(Outdated(recv_queue[x], moved), b, heard[x]) \in Seq(InTime(c)')
    BY <2>2, SentInTime, ReceivedSeq
  <2> QED  BY <1>1, <2>2, <2>3, <2>4
<1>5. ASSUME NEW y \in Box, NEW e \in Indexes(y), lead'[y][e] # NoLead PROVE Following(y, e, c)'
  <2>1. /\ lead'[y][e] = lead[y][e] /\ lead[y][e] \notin moved
        /\ <<y, e>> \notin leading
    <3> HIDE DEF moved, leading
    <3> QED  BY <1>1, <1>5 DEF Lost
  <2>2. lead[y][e] \in Box \X Nat
    <3>1. lead[y] \in [Indexes(y) -> (Box \X Nat) \cup {NoLead}]
      BY DEF TypeInv, TypeOK
    <3>2. lead[y][e] \in (Box \X Nat) \cup {NoLead} /\ lead[y][e] # NoLead
      BY <1>5, <2>1, <3>1
    <3> QED  BY <3>2
  <2>3. Following(y, e, c)
    BY <1>5, <2>1 DEF PhaseInv
  <2>4. y = b => ~Leads(b, e)
    BY <2>1
  <2> QED  BY <2>1, <2>2, <2>3, <2>4, FollowerTicks
<1> QED
  BY <1>3, <1>4, <1>5 DEF PhaseInv

(* Steps that leave the leader, or both, alone.                            *)
LEMMA LeaderRests ==
    ASSUME NEW l \in Box, NEW o \in Indexes(l), NEW x, NEW rate, NEW c, Behind(l, o, x, rate, c),
           state'[l][o] = state[l][o], gap'[l] = gap[l]
    PROVE  Behind(l, o, x, rate, c)'
BY DEF Behind, RunsAt, Position, Near

LEMMA FollowerRests ==
    ASSUME NEW y \in Box, NEW e \in Indexes(y), NEW c, Following(y, e, c), lead'[y][e] = lead[y][e],
           state'[y][e] = state[y][e], gap'[y] = gap[y],
           NEW l \in Box, NEW o \in Indexes(l), lead[y][e] = <<l, o>>,
           state'[l][o] = state[l][o], gap'[l] = gap[l]
    PROVE  Following(y, e, c)'
BY DEF Following, Behind, RunsAt, Position, Near

LEMMA LeaderOf ==
    ASSUME TypeInv, NEW y \in Box, NEW e \in Indexes(y), NEW c, Following(y, e, c), lead[y][e] # NoLead
    PROVE  \E l \in Box : \E o \in Indexes(l) : lead[y][e] = <<l, o>> /\ state[l][o].is_leader
<1>1. lead[y] \in [Indexes(y) -> (Box \X Nat) \cup {NoLead}]
  BY DEF TypeInv, TypeOK
<1>2. PICK l \in Box, o \in Nat : lead[y][e] = <<l, o>>
  BY <1>1
<1>3. o \in Indexes(l) /\ state[l][o].is_leader
  BY <1>2 DEF Following, Behind, RunsAt
<1> QED
  BY <1>2, <1>3

LEMMA BlankPhase ==
    ASSUME TypeInv, NEW c \in Nat \ {0}, PhaseInv(c), NEW b \in Box, Blank(b)
    PROVE  PhaseInv(c)'
<1> DEFINE places == {b} \X Indexes(b)
<1>1. /\ state' = [state EXCEPT ![b] = [e \in Indexes(b) |-> Loaded]]
      /\ pc' = [pc EXCEPT ![b] = "sleep"]
      /\ gap' = [gap EXCEPT ![b] = 0]
      /\ lead' = Lost(places, {})
      /\ recv_queue' = [x \in Box |-> IF x = b THEN <<>> ELSE Outdated(recv_queue[x], places)]
      /\ sync_queue' = [x \in Box |-> IF x = b THEN <<>> ELSE OutdatedEvents(sync_queue[x], places)]
  BY DEF Blank
<1>2. \A x \in Box : x # b => state'[x] = state[x] /\ gap'[x] = gap[x] /\ pc'[x] = pc[x]
  BY <1>1 DEF TypeInv, TypeOK
<1>3. Kept(places, c)
  <2> SUFFICES ASSUME NEW l \in Box, NEW o \in Indexes(l), <<l, o>> \notin places,
                      NEW x \in Int, NEW rate \in Nat, Behind(l, o, x, rate, c)
               PROVE  Behind(l, o, x, rate, c)'
    BY DEF Kept
  <2>1. l # b
    OBVIOUS
  <2> QED  BY <1>2, <2>1, LeaderRests
<1>4. ASSUME NEW x \in Box PROVE pc'[x] = "drain" => gap'[x] = 0
  BY <1>1 DEF PhaseInv, TypeInv, TypeOK
<1>5. ASSUME NEW x \in Box
      PROVE  recv_queue'[x] \in Seq(InTime(c)') /\ sync_queue'[x] \in Seq(EventsInTime(c)')
  <2> HIDE DEF places
  <2>1. recv_queue[x] \in Seq(InTime(c)) /\ sync_queue[x] \in Seq(EventsInTime(c))
    BY DEF PhaseInv
  <2>2. Outdated(recv_queue[x], places) \in Seq(InTime(c)')
    BY <1>3, <2>1, QueuesKept, OutdatedSeq
  <2>3. OutdatedEvents(sync_queue[x], places) \in Seq(EventsInTime(c)')
    BY <1>3, <2>1, QueuesKept, OutdatedEventsSeq
  <2> QED  BY <1>1, <2>2, <2>3, EmptyIn
<1>6. ASSUME NEW y \in Box, NEW e \in Indexes(y), lead'[y][e] # NoLead PROVE Following(y, e, c)'
  <2>1. lead'[y][e] = lead[y][e] /\ lead[y][e] \notin places /\ <<y, e>> \notin places
    <3> HIDE DEF places
    <3> QED  BY <1>1, <1>6 DEF Lost
  <2>2. Following(y, e, c)
    BY <1>6, <2>1 DEF PhaseInv
  <2>3. PICK l \in Box : \E o \in Indexes(l) : lead[y][e] = <<l, o>> /\ state[l][o].is_leader
    BY <1>6, <2>1, <2>2, LeaderOf
  <2>4. PICK o \in Indexes(l) : lead[y][e] = <<l, o>>
    BY <2>3
  <2>5. y # b /\ l # b
    BY <2>1, <2>4
  <2> QED  BY <1>2, <2>1, <2>2, <2>4, <2>5, FollowerRests
<1> QED
  BY <1>4, <1>5, <1>6 DEF PhaseInv

(* An effect that takes its position from an event in time follows.        *)
LEMMA SyncedFollows ==
    ASSUME NEW c \in Nat \ {0}, NEW s \in EffectState, NEW v \in EventsInTime(c), v.packet.running
    PROVE  LET p == v.packet
               z == Synced(s, p, v.age, c)
           IN  /\ z.active = s.active /\ z.is_leader = s.is_leader
               /\ z.last_level # 0 /\ z.last_rate = p.rate
               /\ RunsAt(p.from, p.of, p.rate)
               /\ Near(z.progress + 0 * p.rate, Position(p.from, p.of, p.rate), p.rate, c)
<1> DEFINE p == v.packet
           z == Synced(s, p, v.age, c)
           x == p.progress + v.age * p.rate
           y == Position(p.from, p.of, p.rate)
<1>1. /\ p \in Packet /\ v.age \in Nat /\ p.progress \in Nat /\ p.rate \in Nat
      /\ p.first_pass \in BOOLEAN /\ c \in Nat
  BY DEF EventsInTime, Event, Packet
<1>2. p.level # 0 /\ RunsAt(p.from, p.of, p.rate) /\ Near(x, y, p.rate, c)
  BY DEF EventsInTime, Behind
<1> HIDE DEF p
<1>3. PICK n \in Nat : SyncedTo(z, s, p, n) /\ MakesUp(n, p, v.age, c)
  BY <1>1, SyncedFacts
<1>4. v.age * p.rate \in Nat /\ x \in Int
  <2>1. v.age * p.rate \in Nat
    BY <1>1
  <2> QED  BY <1>1, <2>1
<1> HIDE DEF z
<1>5. z.active = s.active /\ z.is_leader = s.is_leader /\ z.last_level = p.level /\ z.last_rate = p.rate
  BY <1>3 DEF SyncedTo
<1>6. z.progress = n
  BY <1>3 DEF SyncedTo
<1>7. Congruent(x, n, c)
  <2>1. CASE v.age > 0
    <3>1. n = Advance(p.progress, p.first_pass, p.rate, v.age, c).progress
      BY <1>3, <2>1 DEF MakesUp
    <3>2. PICK p0 \in Nat, f0 \in BOOLEAN, r0 \in Nat, t0 \in Nat :
              p0 = p.progress /\ f0 = p.first_pass /\ r0 = p.rate /\ t0 = v.age
      BY <1>1
    <3>3. n = Advance(p0, f0, r0, t0, c).progress /\ x = p0 + t0 * r0
      BY <3>1, <3>2
    <3> HIDE DEF x
    <3> QED  BY <3>3, AdvanceShift
  <2>2. CASE v.age = 0
    <3>1. n = p.progress
      BY <1>3, <2>2 DEF MakesUp
    <3>2. x = n
      BY <1>1, <2>2, <3>1
    <3> HIDE DEF x
    <3> QED  BY <1>1, <3>2, Same
  <2> QED  BY <1>1, <2>1, <2>2
<1> HIDE DEF z, x, y
<1>8. Near(n, y, p.rate, c)
  <2>1. n \in Int
    OBVIOUS
  <2> QED  BY <1>1, <1>2, <1>4, <1>7, <2>1, NearFrom
<1>9. z.progress + 0 * p.rate = n
  BY <1>1, <1>6
<1> QED
  BY <1>2, <1>5, <1>8, <1>9 DEF p, z, y

LEMMA HandlePhase ==
    ASSUME TypeInv, NEW c \in Nat \ {0}, Lengths(c), PhaseInv(c), NEW b \in Box, HandleSync(b)
    PROVE  PhaseInv(c)'
<1>1. CASE Blank(b)
  BY <1>1, BlankPhase
<1>2. CASE ~Blank(b)
  <2> DEFINE v == Head(sync_queue[b])
  <2>1. PICK e : /\ sync_queue[b] # <<>> /\ pc[b] = "drain"
                 /\ sync_queue' = [sync_queue EXCEPT ![b] = Tail(@)]
                 /\ state' = IF Applies(b, e)
                             THEN [state EXCEPT ![b][e] = Synced(@, v.packet, v.age, Length[b][e])]
                             ELSE state
                 /\ lead' = IF Applies(b, e)
                            THEN [lead EXCEPT ![b][e] =
                                     IF v.packet.running /\ state[b][e].active
                                     THEN <<v.packet.from, v.packet.of>> ELSE NoLead]
                            ELSE lead
                 /\ pc' = [pc EXCEPT ![b] = IF Tail(sync_queue[b]) = <<>> THEN "sleep" ELSE @]
                 /\ UNCHANGED <<fader, gap, radio, told>>
    BY <1>2, HandleFacts
  <2>2. v \in EventsInTime(c) /\ Tail(sync_queue[b]) \in Seq(EventsInTime(c))
    BY <2>1, FirstOut DEF PhaseInv
  <2>3. PICK u : u = v
    OBVIOUS
  <2> HIDE DEF v
  <2> DEFINE z == Synced(state[b][e], u.packet, u.age, Length[b][e])
  <2>4. ASSUME NEW x \in Box, NEW d \in Indexes(x), ~(x = b /\ d = e /\ Applies(b, e))
        PROVE  state'[x][d] = state[x][d] /\ lead'[x][d] = lead[x][d]
    <3> HIDE DEF z
    <3>1. /\ state[x] \in [Indexes(x) -> EffectState] /\ DOMAIN state = Box /\ DOMAIN lead = Box
          /\ lead[x] \in [Indexes(x) -> (Box \X Nat) \cup {NoLead}]
      BY DEF TypeInv, TypeOK
    <3>2. CASE x = b /\ Applies(b, e)
      <4>1. d # e
        BY <2>4, <3>2
      <4> QED  BY <2>1, <3>1, <3>2, <4>1
    <3>3. CASE ~(x = b /\ Applies(b, e))
      BY <2>1, <3>1, <3>3
    <3> QED  BY <3>2, <3>3
  <2>5. \A l \in Box : \A o \in Indexes(l) : state[l][o].is_leader =>
            state'[l][o] = state[l][o] /\ gap'[l] = gap[l]
    BY <2>1, <2>4 DEF Applies
  <2>6. Kept({}, c)
    <3> SUFFICES ASSUME NEW l \in Box, NEW o \in Indexes(l),
                        NEW x \in Int, NEW rate \in Nat, Behind(l, o, x, rate, c)
                 PROVE  Behind(l, o, x, rate, c)'
      BY DEF Kept
    <3>1. state[l][o].is_leader
      BY DEF Behind, RunsAt
    <3> QED  BY <2>5, <3>1, LeaderRests
  <2>7. ASSUME NEW x \in Box
        PROVE  recv_queue'[x] \in Seq(InTime(c)') /\ sync_queue'[x] \in Seq(EventsInTime(c)')
    <3>1. recv_queue[x] \in Seq(InTime(c)) /\ sync_queue[x] \in Seq(EventsInTime(c))
      BY DEF PhaseInv
    <3>a. PICK none : none = {}
      OBVIOUS
    <3>b. Kept(none, c)
      BY <2>6, <3>a
    <3>c. /\ \A p \in InTime(c) : \/ p \in InTime(c)' /\ <<p.from, p.of>> \notin none
                                  \/ /\ [p EXCEPT !.running = FALSE] \in InTime(c)'
                                     /\ <<p.from, p.of>> \in none
          /\ \A w \in EventsInTime(c) :
                 \/ w \in EventsInTime(c)' /\ <<w.packet.from, w.packet.of>> \notin none
                 \/ /\ [w EXCEPT !.packet.running = FALSE] \in EventsInTime(c)'
                    /\ <<w.packet.from, w.packet.of>> \in none
      BY <3>b, QueuesKept
    <3>2. /\ \A p \in InTime(c) : p \in InTime(c)'
          /\ \A w \in EventsInTime(c) : w \in EventsInTime(c)'
      BY <3>a, <3>c
    <3>3. recv_queue[x] \in Seq(InTime(c)')
      BY <3>1, <3>2, SeqMonotonic
    <3>4. sync_queue[x] \in Seq(EventsInTime(c)') /\ Tail(sync_queue[b]) \in Seq(EventsInTime(c)')
      BY <2>2, <3>1, <3>2, SeqMonotonic
    <3> QED  BY <2>1, <3>3, <3>4 DEF radio, TypeInv, TypeOK
  <2>8. ASSUME NEW y \in Box, NEW d \in Indexes(y), lead'[y][d] # NoLead PROVE Following(y, d, c)'
    <3>1. CASE y = b /\ d = e /\ Applies(b, e)
      <4>1. /\ state'[b][e] = z
            /\ lead'[b][e] = IF u.packet.running /\ state[b][e].active
                             THEN <<u.packet.from, u.packet.of>> ELSE NoLead
        BY <2>1, <2>3, <3>1 DEF TypeInv, TypeOK
      <4>2. u.packet.running /\ state[b][e].active
        BY <2>8, <3>1, <4>1
      <4>3. Distributed(b, e) /\ ~state[b][e].is_leader /\ Length[b][e] = c /\ state[b][e] \in EffectState
        BY <3>1, BoundsOfType DEF Applies, Lengths
      <4> DEFINE l == u.packet.from
                 o == u.packet.of
                 r == u.packet.rate
      <4>4. /\ z.active = state[b][e].active /\ z.is_leader = state[b][e].is_leader
            /\ z.last_level # 0 /\ z.last_rate = r
            /\ RunsAt(l, o, r) /\ Near(z.progress + 0 * r, Position(l, o, r), r, c)
        BY <2>2, <2>3, <4>2, <4>3, SyncedFollows
      <4>5. gap'[b] = 0
        BY <2>1 DEF PhaseInv
      <4>6. /\ l \in Box /\ o \in Indexes(l) /\ Distributed(l, o)
            /\ state'[l][o].active /\ state'[l][o].is_leader /\ state'[l][o].last_rate = r
            /\ Near(z.progress + 0 * r, state'[l][o].progress + gap'[l] * r, r, c)
        <5> HIDE DEF z, l, o, r
        <5>1. l \in Box /\ o \in Indexes(l) /\ Distributed(l, o) /\ state[l][o].active
              /\ state[l][o].is_leader /\ state[l][o].last_rate = r
          BY <4>4 DEF RunsAt
        <5>2. state'[l][o] = state[l][o] /\ gap'[l] = gap[l]
          BY <2>5, <5>1
        <5> QED  BY <4>4, <5>1, <5>2 DEF Position
      <4>7. lead'[b][e] = <<l, o>>
        BY <4>1, <4>2
      <4> HIDE DEF z, l, o, r
      <4>8. /\ state'[b][e].active /\ ~state'[b][e].is_leader /\ state'[b][e].last_level # 0
            /\ state'[b][e].last_rate = r /\ state'[b][e].progress + gap'[b] * r = z.progress + 0 * r
        BY <4>1, <4>2, <4>3, <4>4, <4>5
      <4> QED  BY <3>1, <4>3, <4>6, <4>7, <4>8 DEF Following, Behind, RunsAt, Position
    <3>2. CASE ~(y = b /\ d = e /\ Applies(b, e))
      <4>1. state'[y][d] = state[y][d] /\ lead'[y][d] = lead[y][d]
        BY <2>4, <3>2
      <4>2. Following(y, d, c)
        BY <2>8, <4>1 DEF PhaseInv
      <4>3. PICK l \in Box : \E o \in Indexes(l) : lead[y][d] = <<l, o>> /\ state[l][o].is_leader
        BY <2>8, <4>1, <4>2, LeaderOf
      <4>4. PICK o \in Indexes(l) : lead[y][d] = <<l, o>> /\ state[l][o].is_leader
        BY <4>3
      <4>5. state'[l][o] = state[l][o] /\ gap'[l] = gap[l] /\ gap'[y] = gap[y]
        BY <2>1, <2>5, <4>4
      <4> QED  BY <4>1, <4>2, <4>4, <4>5, FollowerRests
    <3> QED  BY <3>1, <3>2
  <2>9. ASSUME NEW x \in Box PROVE pc'[x] = "drain" => gap'[x] = 0
    BY <2>1 DEF PhaseInv, TypeInv, TypeOK
  <2> QED  BY <2>7, <2>8, <2>9 DEF PhaseInv
<1> QED
  BY <1>1, <1>2

(* While time passes, leader and follower move on alike; what waits in the *)
(* sync queue ages, what has not come there is given up.                   *)
LEMMA PassMoves ==
    ASSUME TypeInv, Pass, NEW b \in Box, NEW e \in Indexes(b), NEW rate \in Nat
    PROVE  /\ state'[b][e] = state[b][e] /\ gap'[b] = gap[b] + 1
           /\ Position(b, e, rate) \in Int
           /\ Position(b, e, rate)' = Position(b, e, rate) + rate
<1>1. gap' = [x \in Box |-> gap[x] + 1] /\ state' = state
  BY DEF Pass
<1>2. gap[b] \in Nat /\ state[b][e] \in EffectState
  BY BoundsOfType
<1>3. state[b][e].progress \in Nat
  BY <1>2 DEF EffectState
<1>4. gap[b] * rate \in Nat /\ (gap[b] + 1) * rate = gap[b] * rate + rate
  BY <1>2
<1>5. gap'[b] = gap[b] + 1 /\ state'[b][e] = state[b][e]
  BY <1>1
<1> DEFINE d == gap[b] * rate
<1>6. Position(b, e, rate) = state[b][e].progress + d
  BY DEF Position
<1>7. Position(b, e, rate)' = state[b][e].progress + (d + rate)
  BY <1>4, <1>5 DEF Position
<1> HIDE DEF d
<1>8. d \in Nat
  BY <1>4 DEF d
<1> QED
  BY <1>3, <1>5, <1>6, <1>7, <1>8

LEMMA BehindPasses ==
    ASSUME TypeInv, Pass, NEW c \in Nat \ {0}, NEW l, NEW o, NEW x \in Int, NEW rate \in Nat,
           Behind(l, o, x, rate, c), NEW u \in Int, u = x + rate
    PROVE  Behind(l, o, u, rate, c)'
<1>1. /\ l \in Box /\ o \in Indexes(l) /\ RunsAt(l, o, rate)
      /\ Near(x, Position(l, o, rate), rate, c)
  BY DEF Behind, RunsAt
<1>2. /\ state'[l][o] = state[l][o] /\ Position(l, o, rate) \in Int
      /\ Position(l, o, rate)' = Position(l, o, rate) + rate
  BY <1>1, PassMoves
<1>3. PICK y \in Int : y = Position(l, o, rate)
  BY <1>2
<1>4. y + rate \in Int /\ rate \in Int /\ c \in Nat /\ x + rate = u
  BY <1>3
<1>5. Congruent(x + rate, u, c) /\ Congruent(y + rate, y + rate, c)
  BY <1>4, Same
<1>6. Near(u, y + rate, rate, c)
  BY <1>1, <1>3, <1>4, <1>5, NearShift
<1>7. RunsAt(l, o, rate)'
  BY <1>1, <1>2 DEF RunsAt
<1>8. Near(u, Position(l, o, rate), rate, c)'
  BY <1>2, <1>3, <1>6 DEF Near
<1> QED
  BY <1>7, <1>8 DEF Behind

LEMMA PassPhase ==
    ASSUME TypeInv, NEW c \in Nat \ {0}, PhaseInv(c), Pass
    PROVE  PhaseInv(c)'
<1>1. /\ NoneDrains
      /\ sync_queue' = [b \in Box |-> Aged(sync_queue[b])]
      /\ recv_queue' = [b \in Box |-> Stale(recv_queue[b])]
      /\ UNCHANGED <<state, pc, lead>>
  BY DEF Pass, history
<1>2. \A p \in InTime(c) : [p EXCEPT !.running = FALSE] \in InTime(c)'
  BY DEF InTime, Packet
<1>3. ASSUME NEW v \in EventsInTime(c) PROVE [v EXCEPT !.age = @ + 1] \in EventsInTime(c)'
  <2> DEFINE p == v.packet
             w == [v EXCEPT !.age = @ + 1]
             x == p.progress + v.age * p.rate
             u == p.progress + w.age * p.rate
  <2>1. /\ v \in Event /\ p \in Packet /\ v.age \in Nat /\ p.progress \in Nat /\ p.rate \in Nat
    BY DEF EventsInTime, Event, Packet
  <2>2. w \in Event /\ w.packet = p /\ w.age = v.age + 1
    BY <2>1 DEF Event
  <2>3. v.age * p.rate \in Nat /\ (v.age + 1) * p.rate = v.age * p.rate + p.rate
    BY <2>1
  <2>4. x \in Int /\ u \in Int /\ u = x + p.rate
    <3> HIDE DEF w, p
    <3> QED  BY <2>1, <2>2, <2>3
  <2>5. p.running => p.level # 0 /\ Behind(p.from, p.of, x, p.rate, c)
    BY DEF EventsInTime
  <2> HIDE DEF x, u, w, p
  <2>6. p.running => p.level # 0 /\ Behind(p.from, p.of, u, p.rate, c)'
    BY <2>1, <2>4, <2>5, BehindPasses
  <2>7. w \in EventsInTime(c)'
    BY <2>2, <2>6 DEF EventsInTime, u
  <2> QED  BY <2>7 DEF w
<1>4. ASSUME NEW x \in Box
      PROVE  recv_queue'[x] \in Seq(InTime(c)') /\ sync_queue'[x] \in Seq(EventsInTime(c)')
  <2>1. recv_queue[x] \in Seq(InTime(c)) /\ sync_queue[x] \in Seq(EventsInTime(c))
    BY DEF PhaseInv
  <2>2. Stale(recv_queue[x]) \in Seq(InTime(c)') /\ Aged(sync_queue[x]) \in Seq(EventsInTime(c)')
    BY <1>2, <1>3, <2>1, StaleSeq, AgedSeq
  <2> QED  BY <1>1, <2>2
<1>5. ASSUME NEW y \in Box, NEW e \in Indexes(y), lead'[y][e] # NoLead PROVE Following(y, e, c)'
  <2>1. Following(y, e, c)
    BY <1>1, <1>5 DEF PhaseInv
  <2>2. PICK rate \in Nat : rate = state[y][e].last_rate
    BY BoundsOfType DEF EffectState
  <2>3. PICK l, o : l = lead[y][e][1] /\ o = lead[y][e][2]
    OBVIOUS
  <2>4. /\ Position(y, e, rate) \in Int /\ Position(y, e, rate)' = Position(y, e, rate) + rate
        /\ state'[y][e] = state[y][e] /\ lead'[y][e] = lead[y][e]
    BY <1>1, <2>2, PassMoves
  <2>5. PICK x \in Int : x = Position(y, e, rate)
    BY <2>4
  <2>6. PICK u \in Int : u = x + rate
    BY <2>2, <2>5
  <2>7. Behind(l, o, x, rate, c)
    BY <2>1, <2>2, <2>3, <2>5 DEF Following
  <2>8. Behind(l, o, u, rate, c)'
    BY <2>2, <2>6, <2>7, BehindPasses
  <2>9. Position(y, e, rate)' = u
    BY <2>4, <2>5, <2>6
  <2>10. state'[y][e].last_rate = rate /\ lead'[y][e][1] = l /\ lead'[y][e][2] = o
    BY <2>2, <2>3, <2>4
  <2> QED  BY <2>1, <2>4, <2>8, <2>9, <2>10 DEF Following
<1>6. \A x \in Box : pc'[x] # "drain"
  BY <1>1 DEF NoneDrains
<1> QED
  BY <1>4, <1>5, <1>6 DEF PhaseInv

(* Steps that leave all effects alone.                                     *)
LEMMA AllRest ==
    ASSUME NEW c, UNCHANGED <<state, gap>>
    PROVE  /\ InTime(c)' = InTime(c) /\ EventsInTime(c)' = EventsInTime(c)
           /\ \A b, e : lead'[b][e] = lead[b][e] => Following(b, e, c)' = Following(b, e, c)
<1>1. \A l, o, x, rate : Behind(l, o, x, rate, c)' = Behind(l, o, x, rate, c)
  BY DEF Behind, RunsAt, Position, Near
<1>2. InTime(c)' = InTime(c)
  BY <1>1 DEF InTime
<1>3. EventsInTime(c)' = EventsInTime(c)
  BY <1>1 DEF EventsInTime
<1>4. ASSUME NEW b, NEW e, lead'[b][e] = lead[b][e] PROVE Following(b, e, c)' = Following(b, e, c)
  BY <1>1, <1>4 DEF Following, Position
<1> QED
  BY <1>2, <1>3, <1>4

LEMMA RestPhase ==
    ASSUME NEW c, PhaseInv(c), UNCHANGED <<state, gap, pc, lead, recv_queue, sync_queue>>
    PROVE  PhaseInv(c)'
BY AllRest DEF PhaseInv

LEMMA HandPhase ==
    ASSUME TypeInv, NEW c \in Nat \ {0}, PhaseInv(c), NEW b \in Box, Forward(b)
    PROVE  PhaseInv(c)'
<1>1. CASE Blank(b)
  BY <1>1, BlankPhase
<1>2. CASE ~Blank(b)
  <2> DEFINE p == Head(recv_queue[b])
             v == [packet |-> p, age |-> 0]
  <2>1. /\ recv_queue[b] # <<>>
        /\ recv_queue' = [recv_queue EXCEPT ![b] = Tail(@)]
        /\ sync_queue' = sync_queue \/ sync_queue' = [sync_queue EXCEPT ![b] = Append(@, v)]
        /\ UNCHANGED <<state, pc, gap, lead>>
    BY <1>2, HandFacts DEF history
  <2>2. p \in InTime(c) /\ Tail(recv_queue[b]) \in Seq(InTime(c))
    BY <2>1, FirstOut DEF PhaseInv
  <2>3. DOMAIN recv_queue = Box /\ DOMAIN sync_queue = Box
    BY DEF TypeInv, TypeOK
  <2> HIDE DEF p
  <2>4. v \in EventsInTime(c)
    <3>1. p \in Packet /\ p.progress \in Nat /\ p.rate \in Nat
      BY <2>2 DEF InTime, Packet
    <3>2. v \in Event /\ v.packet = p /\ v.age = 0
      BY <3>1 DEF Event
    <3>3. p.progress + v.age * p.rate = p.progress
      BY <3>1, <3>2
    <3>4. p.running => p.level # 0 /\ Behind(p.from, p.of, p.progress, p.rate, c)
      BY <2>2 DEF InTime
    <3> HIDE DEF v
    <3> QED  BY <3>2, <3>3, <3>4 DEF EventsInTime
  <2> HIDE DEF v
  <2>5. ASSUME NEW x \in Box
        PROVE  recv_queue'[x] \in Seq(InTime(c)) /\ sync_queue'[x] \in Seq(EventsInTime(c))
    <3>1. recv_queue[x] \in Seq(InTime(c)) /\ sync_queue[x] \in Seq(EventsInTime(c))
      BY DEF PhaseInv
    <3>2. Append(sync_queue[x], v) \in Seq(EventsInTime(c))
      BY <2>4, <3>1, LastIn
    <3> QED  BY <2>1, <2>2, <2>3, <3>1, <3>2
  <2>6. InTime(c)' = InTime(c) /\ EventsInTime(c)' = EventsInTime(c)
    BY <2>1, AllRest
  <2>7. \A x \in Box : \A e \in Indexes(x) : lead'[x][e] # NoLead => Following(x, e, c)'
    BY <2>1, AllRest DEF PhaseInv
  <2> QED  BY <2>1, <2>5, <2>6, <2>7 DEF PhaseInv
<1> QED
  BY <1>1, <1>2

LEMMA PhaseInitially == ASSUME Init, NEW c PROVE PhaseInv(c)
BY EmptyIn DEF Init, PhaseInv

LEMMA PhaseStep ==
    ASSUME NEW c \in Nat \ {0}, Lengths(c)
    PROVE  TypeInv /\ PhaseInv(c) /\ [Next]_vars => PhaseInv(c)'
<1> SUFFICES ASSUME TypeInv, PhaseInv(c), [Next]_vars PROVE PhaseInv(c)'
  OBVIOUS
<1>1. CASE UNCHANGED vars
  BY <1>1, RestPhase DEF vars, radio, history
<1>2. CASE Pass
  BY <1>2, PassPhase
<1>3. ASSUME NEW b \in Box, NEW e \in Indexes(b), NEW f \in Faders[b], MoveFader(b, e, f)
      PROVE  PhaseInv(c)'
  BY <1>3, RestPhase DEF MoveFader, radio, history
<1>4. ASSUME NEW b \in Box, Process(b) PROVE PhaseInv(c)'
  BY <1>4, TickPhase DEF Process
<1>5. ASSUME NEW b \in Box, StartListening(b) PROVE PhaseInv(c)'
  BY <1>5, RestPhase DEF StartListening, history
<1>6. ASSUME NEW b \in Box, Restart(b) PROVE PhaseInv(c)'
  BY <1>6, BlankPhase DEF Restart
<1> QED
  BY <1>1, <1>2, <1>3, <1>4, <1>5, <1>6, HandlePhase, HandPhase DEF Next

LEMMA InPhaseFollows ==
    ASSUME TypeInv, NEW c \in Nat \ {0}, Lengths(c), PhaseInv(c)
    PROVE  InPhase
<1> SUFFICES ASSUME NEW b \in Box, NEW e \in Indexes(b), lead[b][e] # NoLead,
                    NEW l, l = lead[b][e][1], NEW o, o = lead[b][e][2],
                    NEW rate, rate = state[b][e].last_rate
             PROVE  /\ rate = state[l][o].last_rate
                    /\ (Position(l, o, rate) - Position(b, e, rate)) % Length[b][e]
                            \in 0..(MaxGap * rate)
  BY DEF InPhase
<1>1. Following(b, e, c) /\ Length[b][e] = c
  BY DEF PhaseInv, Lengths, Following
<1>2. RunsAt(l, o, rate) /\ Near(Position(b, e, rate), Position(l, o, rate), rate, c)
  BY <1>1 DEF Following, Behind
<1>3. rate \in Nat /\ state[b][e].progress \in Nat /\ gap[b] \in Nat
  BY BoundsOfType DEF EffectState
<1>4. Position(b, e, rate) \in Int
  BY <1>3 DEF Position
<1>5. Position(l, o, rate) \in Int
  BY <1>2, <1>3, <1>4, NearInt
<1>6. (Position(l, o, rate) - Position(b, e, rate)) % c \in 0..(MaxGap * rate)
  BY <1>2, <1>3, <1>4, <1>5, NearLag
<1> QED
  BY <1>1, <1>2, <1>6 DEF RunsAt

(* However many boxes there are, whatever is lost, late, garbled or        *)
(* restarted: an effect that has taken its position from a leader that     *)
(* still runs as it did is behind it by no more than one tick's movement.  *)
(* The code takes for granted that the boxes hold the same chase under the *)
(* id, of length c.                                                        *)
THEOREM FollowersInPhase ==
    ASSUME NEW c \in Nat \ {0}, Lengths(c)
    PROVE  Spec => []InPhase
<1>1. Init => PhaseInv(c)
  BY PhaseInitially
<1>2. TypeInv /\ PhaseInv(c) /\ [Next]_vars => PhaseInv(c)'
  BY PhaseStep
<1>3. TypeInv /\ PhaseInv(c) => InPhase
  BY InPhaseFollows
<1> QED
  BY <1>1, <1>2, <1>3, TypeInvariant, PTL DEF Spec
-----------------------------------------------------------------------------
(* What a tick shows.  Its place on the time line is some whole passes and *)
(* the progress of the effect; it is in the first of them when it says so. *)
Placed(now, length, q, z) ==
    /\ now = q * length + z.progress
    /\ z.first_pass <=> q = 0

LEMMA RunningPlaced ==
    ASSUME TypeInv, NEW b \in Box, NEW e \in Indexes(b), Params(b, e).level # 0, state[b][e].active,
           Length[b][e] # 0
    PROVE  \E q \in Nat : Placed(Continued(b, e), Length[b][e], q, Processed(b, e))
<1>1. PICK L \in Nat \ {0} : L = Length[b][e]
  BY EffectFacts
<1>2. PICK rate \in Nat : rate = Params(b, e).rate
  <2>1. Params(b, e) \in Fader
    BY BoundsOfType, ProcessedFacts
  <2> QED  BY <2>1 DEF Fader
<1>3. PICK time \in Nat : time = gap[b]
  BY BoundsOfType
<1>4. PICK p \in Nat, f \in BOOLEAN : p = state[b][e].progress /\ f = state[b][e].first_pass
  BY BoundsOfType DEF EffectState
<1>5. PICK z : z = Processed(b, e)
  OBVIOUS
<1> DEFINE a == Advance(p, f, rate, time, L)
<1>6. z.progress = a.progress /\ z.first_pass = a.first_pass
  BY <1>1, <1>2, <1>3, <1>4, <1>5, RunningProcessed
<1>7. a.progress \in Nat /\ a.first_pass \in BOOLEAN
  BY <1>1, AdvanceFacts
<1>8. PICK i \in Nat : WrapsBy(p, f, rate, time, L, i)
  BY <1>1, AdvanceFacts
<1>9. /\ p + time * rate = i * L + a.progress
      /\ i = 0 => a.first_pass = f
      /\ i # 0 => a.first_pass = FALSE
  BY <1>8 DEF WrapsBy
<1>10. Continued(b, e) = p + time * rate + IF f THEN 0 ELSE L
  BY <1>1, <1>2, <1>3, <1>4 DEF Continued
<1> HIDE DEF a
<1>11. time * rate \in Nat /\ i * L \in Nat /\ (i + 1) * L = i * L + L
  <2>1. time * rate \in Nat
    OBVIOUS
  <2>2. i * L \in Nat /\ (i + 1) * L = i * L + L
    <3>1. L \in Nat /\ i \in Nat
      BY <1>1
    <3>2. i * L \in Nat
      BY <3>1
    <3>3. (i + 1) * L = i * L + L
      BY <3>1
    <3> QED  BY <3>2, <3>3
  <2> QED  BY <2>1, <2>2
<1> DEFINE t == time * rate
           s == i * L
<1>12. /\ t \in Nat /\ s \in Nat /\ p + t = s + a.progress
       /\ Continued(b, e) = p + t + IF f THEN 0 ELSE L
  BY <1>9, <1>10, <1>11
<1> HIDE DEF t, s
<1>13. CASE f
  <2>1. Continued(b, e) = s + a.progress
    BY <1>7, <1>12, <1>13
  <2>2. Continued(b, e) = i * L + z.progress
    BY <1>6, <2>1 DEF s
  <2>3. z.first_pass <=> i = 0
    BY <1>6, <1>9, <1>13
  <2> QED  BY <1>1, <1>5, <2>2, <2>3 DEF Placed
<1>14. CASE ~f
  <2>1. Continued(b, e) = (s + L) + a.progress
    BY <1>1, <1>7, <1>12, <1>14
  <2>2. Continued(b, e) = (i + 1) * L + z.progress
    BY <1>6, <1>11, <2>1 DEF s
  <2>3. i + 1 \in Nat /\ i + 1 # 0 /\ ~z.first_pass
    BY <1>6, <1>9, <1>14
  <2>4. z.first_pass <=> i + 1 = 0
    BY <2>3
  <2> QED  BY <1>1, <1>5, <2>2, <2>3, <2>4 DEF Placed
<1> QED
  BY <1>13, <1>14

LEMMA StartingPlaced ==
    ASSUME TypeInv, NEW b \in Box, NEW e \in Indexes(b), Params(b, e).level # 0, ~state[b][e].active,
           Length[b][e] # 0
    PROVE  Placed(Continued(b, e), Length[b][e], 0, Processed(b, e))
<1>1. PICK L \in Nat \ {0} : L = Length[b][e]
  BY EffectFacts
<1>2. PICK rate \in Nat : rate = Params(b, e).rate
  <2>1. Params(b, e) \in Fader
    BY BoundsOfType, ProcessedFacts
  <2> QED  BY <2>1 DEF Fader
<1>3. PICK z : z = Processed(b, e)
  OBVIOUS
<1> DEFINE a == Advance(0, TRUE, rate, 0, L)
<1>4. z.progress = a.progress /\ z.first_pass = a.first_pass
  BY <1>1, <1>2, <1>3, StartingProcessed
<1>5. a = [progress |-> 0, first_pass |-> TRUE]
  <2>1. 0 + 0 * rate = 0 /\ 0 < L
    BY <1>1
  <2> QED  BY <2>1 DEF Advance
<1>6. Continued(b, e) = 0
  BY DEF Continued
<1>7. 0 = 0 * L + 0
  BY <1>1
<1> HIDE DEF a
<1>8. Continued(b, e) = 0 * L + z.progress /\ (z.first_pass <=> 0 = 0)
  BY <1>4, <1>5, <1>6, <1>7
<1> QED
  BY <1>1, <1>3, <1>8 DEF Placed

(* Steps that fit into their chase, and start before it ends.              *)
Loopable == \A b \in Box : \A e \in Indexes(b) : Fits(Steps(b, e)) /\ Unwrapped(Steps(b, e))

LEMMA ShownWithin ==
    ASSUME TypeInv, NEW b \in Box, NEW e \in Indexes(b), Params(b, e).level # 0, Length[b][e] # 0
    PROVE  Processed(b, e).progress < Length[b][e]
<1>1. PICK L \in Nat \ {0} : L = Length[b][e]
  BY EffectFacts
<1>2. PICK rate \in Nat : rate = Params(b, e).rate
  <2>1. Params(b, e) \in Fader
    BY BoundsOfType, ProcessedFacts
  <2> QED  BY <2>1 DEF Fader
<1>3. PICK time \in Nat : time = gap[b]
  BY BoundsOfType
<1>4. PICK p \in Nat, f \in BOOLEAN : p = state[b][e].progress /\ f = state[b][e].first_pass
  BY BoundsOfType DEF EffectState
<1>5. CASE state[b][e].active
  <2>1. Processed(b, e).progress = Advance(p, f, rate, time, L).progress
    BY <1>1, <1>2, <1>3, <1>4, <1>5, RunningProcessed
  <2> QED  BY <1>1, <2>1, AdvanceFacts
<1>6. CASE ~state[b][e].active
  <2>1. Processed(b, e).progress = Advance(0, TRUE, rate, 0, L).progress
    BY <1>1, <1>2, <1>6, StartingProcessed
  <2>2. 0 \in Nat /\ TRUE \in BOOLEAN /\ L \in Nat /\ L # 0
    OBVIOUS
  <2>3. Advance(0, TRUE, rate, 0, L).progress < L
    BY <2>2, AdvanceFacts
  <2> QED  BY <1>1, <2>1, <2>3
<1> QED
  BY <1>5, <1>6

LEMMA ShownAsLaidOut ==
    ASSUME TypeInv, Loopable, NEW b \in Box, NEW e \in Indexes(b), Params(b, e).level # 0,
           NEW ch \in Channels
    PROVE  Chase(Steps(b, e), Params(b, e).level, Processed(b, e).progress,
                 Processed(b, e).first_pass)[ch]
               = LaidOut(Steps(b, e), Params(b, e).level, Continued(b, e))[ch]
<1>1. PICK steps \in Seq(Step) : steps = Steps(b, e)
  BY EffectFacts
<1>2. Fits(steps) /\ Unwrapped(steps) /\ Length[b][e] = EffectLength(steps)
  BY <1>1, EffectFacts DEF Loopable
<1>3. PICK level, now, z : level = Params(b, e).level /\ now = Continued(b, e) /\ z = Processed(b, e)
  OBVIOUS
<1>4. PICK r \in Nat, f \in BOOLEAN : r = z.progress /\ f = z.first_pass
  BY <1>3, ProcessedWithin DEF EffectState
<1> DEFINE X == Lights(steps, level, r, f, ch)
           Y == LaidLights(steps, level, now, ch)
<1>5. /\ Chase(steps, level, r, f)[ch] = Max({0} \cup X)
      /\ LaidOut(steps, level, now)[ch] = Max({0} \cup Y)
  BY DEF Chase, LaidOut, Lights, LaidLights, Lit
<1>6. ASSUME EffectLength(steps) = 0 PROVE {0} \cup X = {0} \cup Y
  <2>1. now \in Nat
    <3>1. /\ state[b][e].progress \in Nat /\ gap[b] \in Nat /\ Params(b, e).rate \in Nat
          /\ Length[b][e] = 0
      BY <1>2, <1>6, BoundsOfType, ProcessedFacts DEF EffectState, Fader
    <3> QED  BY <1>3, <3>1 DEF Continued
  <2>2. Fits(steps) /\ EffectLength(steps) = 0
    BY <1>2, <1>6
  <2> QED  BY <2>1, <2>2, NoLength
<1>7. ASSUME EffectLength(steps) # 0 PROVE {0} \cup X = {0} \cup Y
  <2>1. PICK q \in Nat : Placed(now, EffectLength(steps), q, z)
    BY <1>2, <1>3, <1>7, RunningPlaced, StartingPlaced
  <2>2. now = q * EffectLength(steps) + r /\ (f <=> q = 0)
    BY <1>4, <2>1 DEF Placed
  <2>3. r \in 0..(EffectLength(steps) - 1)
    <3>1. r < Length[b][e]
      BY <1>2, <1>3, <1>4, <1>7, ShownWithin
    <3> QED  BY <1>2, <1>4, <3>1, LengthType
  <2>4. Fits(steps) /\ Unwrapped(steps) /\ EffectLength(steps) # 0
    BY <1>2, <1>7
  <2>5. {0} \cup X = {0} \cup LaidLights(steps, level, q * EffectLength(steps) + r, ch)
    BY <2>2, <2>3, <2>4, Seam
  <2> QED  BY <2>2, <2>5
<1> HIDE DEF X, Y
<1>8. {0} \cup X = {0} \cup Y
  BY <1>6, <1>7
<1>9. Chase(steps, level, r, f)[ch] = LaidOut(steps, level, now)[ch]
  BY <1>5, <1>8
<1> QED
  BY <1>1, <1>3, <1>4, <1>9

LEMMA SeamlessFollows == ASSUME TypeInv, Loopable PROVE SeamlessLoop
<1> SUFFICES ASSUME NEW b \in Box, NEW ch \in Channels
             PROVE  Mixed(b)[ch] =
                       Max({0} \cup {LaidOut(Steps(b, e), Params(b, e).level, Continued(b, e))[ch] :
                                        e \in {x \in Indexes(b) : Params(b, x).level # 0}})
  BY DEF SeamlessLoop
<1> DEFINE C(e) == Chase(Steps(b, e), Params(b, e).level, Processed(b, e).progress,
                         Processed(b, e).first_pass)[ch]
           T(e) == LaidOut(Steps(b, e), Params(b, e).level, Continued(b, e))[ch]
           On == {x \in Indexes(b) : Processed(b, x).active}
           Up == {x \in Indexes(b) : Params(b, x).level # 0}
<1>1. Mixed(b)[ch] = Max({0} \cup {C(e) : e \in On})
  BY DEF Mixed
<1>2. On = Up
  <2>1. ASSUME NEW x \in Indexes(b) PROVE Processed(b, x).active <=> Params(b, x).level # 0
    BY RunningProcessed, StartingProcessed, DarkProcessed
  <2> QED  BY <2>1
<1>3. \A e \in Up : C(e) = T(e)
  BY ShownAsLaidOut
<1> HIDE DEF C, T, On, Up
<1>4. {C(e) : e \in On} = {T(e) : e \in Up}
  BY <1>2, <1>3
<1>5. Mixed(b)[ch] = Max({0} \cup {T(e) : e \in Up})
  BY <1>1, <1>4
<1> QED
  BY <1>5 DEF T, Up

(* Whatever the faders, the delays and the sync packets do, each tick      *)
(* shows every chase as its steps, laid out pass after pass without end,   *)
(* would be lit: no tail is cut off and no step flashes at the seam.       *)
THEOREM ChasesAreSeamless ==
    ASSUME Loopable
    PROVE  Spec => []SeamlessLoop
<1>1. TypeInv => SeamlessLoop
  BY SeamlessFollows
<1> QED
  BY <1>1, TypeInvariant, PTL
=============================================================================
