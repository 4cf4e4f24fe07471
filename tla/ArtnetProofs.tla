---------------------------- MODULE ArtnetProofs ----------------------------
(***************************************************************************)
(* Theorems about ArtnetUniverse for any number of controllers, receive    *)
(* tasks, universes, channels, levels and savers.                          *)
(***************************************************************************)
EXTENDS ArtnetUniverse, TLAPS

(* What the locals of a busy receive task are: it handles a controller it  *)
(* hears, and when it found no record there still is none.                 *)
HandlerInv ==
    \A t \in Tasks :
        rx[t].pc # "idle" =>
            /\ rx[t].client \in HeardBy[t]
            /\ rx[t].universe \in Universes
            /\ rx[t].frame \in Frame
            /\ rx[t].pc = "apply" => rx[t].last # NoFrame
            /\ rx[t].last = NoFrame =>
                 client_map[rx[t].client][rx[t].universe] = NoFrame

(* A busy saver points at a universe of the list.                          *)
CursorInv == \A s \in Savers : sv[s].pc # "idle" => sv[s].universe \in Universes

TypeInv == TypeOK /\ HandlerInv /\ CursorInv

LEMMA DarkIsFrame == Dark \in Frame
  BY LevelAssumption DEF Dark, Frame

LEMMA FirstUniverse == 1 \in Universes
  BY ListAssumption DEF Universes

LEMMA HandlerFields ==
    ASSUME NEW r \in Handlers
    PROVE  /\ r.client \in Clients \cup {NoClient}
           /\ r.frame \in Frame \cup {NoFrame} /\ r.last \in Frame \cup {NoFrame}
           /\ [r EXCEPT !.pc = "track"] =
                 [pc |-> "track", client |-> r.client, universe |-> r.universe,
                  frame |-> r.frame, length |-> r.length, last |-> r.last]
           /\ [r EXCEPT !.pc = "track"] \in Handlers
  BY DEF Handlers

LEMMA WalkFields ==
    ASSUME NEW w \in Walks,
           NEW pc \in {"idle", "zero", "compare", "write", "forget", "restart"}
    PROVE  /\ [w EXCEPT !.pc = pc] =
                 [pc |-> pc, job |-> w.job, universe |-> w.universe]
           /\ [w EXCEPT !.pc = pc] \in Walks
           /\ [w EXCEPT !.pc = pc].pc = pc
           /\ [w EXCEPT !.pc = pc].universe = w.universe
  BY DEF Walks

(* The universe after this one, or the end of the walk.                    *)
LEMMA NextUniverseType ==
    ASSUME TypeOK, CursorInv, NEW s \in Savers, sv[s].pc # "idle"
    PROVE  /\ NextUniverse(s) \in Walks
           /\ NextUniverse(s).pc # "write"
           /\ NextUniverse(s).pc # "idle" => NextUniverse(s).universe \in Universes
<1> USE DEF Walks
<1>1. sv[s].universe \in Universes
  BY DEF CursorInv
<1>2. sv[s].universe < NumUniverses => sv[s].universe + 1 \in Universes
  BY <1>1, ListAssumption DEF Universes
<1>3. /\ sv[s].job \in {"none", "save", "clear", "reboot"}
      /\ sv[s] = [pc |-> sv[s].pc, job |-> sv[s].job, universe |-> sv[s].universe]
  BY DEF TypeOK
<1>4. CASE sv[s].universe < NumUniverses
  <2>1. NextUniverse(s) = [pc |-> Entry(sv[s].job), job |-> sv[s].job,
                           universe |-> sv[s].universe + 1]
    BY <1>3, <1>4 DEF NextUniverse
  <2>2. Entry(sv[s].job) \in {"zero", "compare"}
    BY DEF Entry
  <2>3. QED
    BY <1>2, <1>3, <1>4, <2>1, <2>2
<1>5. CASE ~(sv[s].universe < NumUniverses) /\ sv[s].job = "save"
  BY <1>5 DEF NextUniverse, SvIdle
<1>6. CASE ~(sv[s].universe < NumUniverses) /\ sv[s].job # "save"
  <2>1. PICK pc \in {"forget", "restart"} :
           NextUniverse(s) = [pc |-> pc, job |-> sv[s].job, universe |-> sv[s].universe]
    BY <1>3, <1>6 DEF NextUniverse
  <2>2. QED
    BY <1>1, <1>3, <2>1
<1>7. QED
  BY <1>4, <1>5, <1>6

LEMMA BootedType ==
    ASSUME flash \in [Universes -> Frame \cup {NoFrame}]
    PROVE  /\ Booted(flash).data \in [Universes -> Frame]
           /\ Booted(flash).last_snapshot \in [Universes -> Frame]
           /\ \A u \in Universes : /\ Booted(flash).data[u] = Restored(u)
                                   /\ Booted(flash).last_snapshot[u] = Restored(u)
  BY DarkIsFrame DEF Booted, Restored

LEMMA IdleTypes ==
    /\ NoRecords \in [Clients -> [Universes -> Frame \cup {NoFrame}]]
    /\ RxIdle \in Handlers
    /\ SvIdle \in Walks
    /\ NvsIdle \in [writer : Savers \cup {NoSaver}, count : 0..NumChannels, buffer : Frame]
    /\ NoOwner \in [Universes -> [Channels -> Clients \cup {NoClient}]]
  BY DarkIsFrame, ChannelAssumption
     DEF NoRecords, RxIdle, SvIdle, NvsIdle, NoOwner, Handlers, Walks

(* A boot leaves the flash alone and everything else as Init has it.       *)
LEMMA BootType ==
    ASSUME TypeOK, Boot
    PROVE  TypeInv'
<1>1. TypeOK'
  BY BootedType, IdleTypes DEF TypeOK, Boot, NvsIdle
<1>2. HandlerInv' /\ CursorInv'
  BY DEF Boot, HandlerInv, CursorInv, RxIdle, SvIdle
<1>3. QED
  BY <1>1, <1>2 DEF TypeInv

LEMMA NoteChangeType ==
    ASSUME TypeOK, NEW u \in Universes, NEW new, NoteChange(u, new)
    PROVE  torn' \in SUBSET Universes /\ changed' \in [Savers -> SUBSET Universes]
  BY DEF TypeOK, NoteChange
-----------------------------------------------------------------------------
LEMMA InitType == Init => TypeInv
<1> SUFFICES ASSUME Init PROVE TypeInv
  OBVIOUS
<1>1. TypeOK
  BY BootedType, IdleTypes DEF TypeOK, Init, NvsIdle
<1>2. HandlerInv /\ CursorInv
  BY DEF Init, HandlerInv, CursorInv, RxIdle, SvIdle
<1>3. QED
  BY <1>1, <1>2 DEF TypeInv

LEMMA ReceiveType ==
    ASSUME TypeInv, NEW t \in Tasks, Receive(t)
    PROVE  TypeInv'
<1> USE DEF TypeInv
<1>1. ASSUME NEW c \in Clients, NEW p \in Packets, ReceiveDmx(t, c, p)
      PROVE  TypeInv'
  <2>1. /\ p.universe \in Universes
        /\ p.length \in 0..NumChannels
        /\ p.levels \in Frame
    BY <1>1, ChannelAssumption DEF ReceiveDmx, Accepted, Packets
  <2>2. Padded(p) \in Frame
    BY <2>1, LevelAssumption DEF Padded, Frame
  <2> DEFINE last == client_map[c][p.universe]
             r == [pc |-> IF last = NoFrame THEN "track" ELSE "apply",
                   client |-> c, universe |-> p.universe,
                   frame |-> Padded(p), length |-> p.length, last |-> last]
  <2>3. last \in Frame \cup {NoFrame}
    BY <2>1 DEF TypeOK
  <2>4. rx' = [rx EXCEPT ![t] = r] /\ c \in HeardBy[t]
    BY <1>1 DEF ReceiveDmx
  <2>5. r \in Handlers
    BY <2>1, <2>2, <2>3 DEF Handlers
  <2> HIDE DEF last
  <2>6. TypeOK'
    BY <1>1, <2>4, <2>5 DEF TypeOK, ReceiveDmx, history
  <2>7. HandlerInv'
    <3>1. UNCHANGED client_map
      BY <1>1 DEF ReceiveDmx
    <3>2. \A d \in Tasks : d # t => rx'[d] = rx[d]
      BY <2>4 DEF TypeOK
    <3>3. rx'[t] = r
      BY <2>4 DEF TypeOK
    <3>4. r.last = NoFrame => client_map[r.client][r.universe] = NoFrame
      BY DEF last
    <3>5. r.pc = "apply" => r.last # NoFrame
      OBVIOUS
    <3>6. r.client \in HeardBy[t] /\ r.universe \in Universes /\ r.frame \in Frame
      BY <2>1, <2>2, <2>4
    <3> HIDE DEF r
    <3>7. QED
      BY <3>1, <3>2, <3>3, <3>4, <3>5, <3>6 DEF HandlerInv
  <2>8. CursorInv'
    BY <1>1 DEF CursorInv, ReceiveDmx
  <2>9. QED
    BY <2>6, <2>7, <2>8
<1>2. CASE ApplyChanges(t)
  <2> DEFINE u == rx[t].universe
  <2>1. /\ u \in Universes
        /\ rx[t].frame \in Frame
        /\ rx[t].client \in Clients \cup {NoClient}
    <3>1. rx[t] \in Handlers
      BY DEF TypeOK
    <3>2. QED
      BY <1>2, <3>1, HandlerFields DEF ApplyChanges, HandlerInv
  <2>2. Merged(rx[t]) \in Frame
    BY <2>1 DEF Merged, TypeOK, Frame
  <2>3. torn' \in SUBSET Universes /\ changed' \in [Savers -> SUBSET Universes]
    BY <1>2, <2>1, NoteChangeType DEF ApplyChanges
  <2>4. owner' \in [Universes -> [Channels -> Clients \cup {NoClient}]]
    BY <1>2, <2>1 DEF ApplyChanges, TypeOK
  <2>5. rx' \in [Tasks -> Handlers]
    <3>1. [rx[t] EXCEPT !.pc = "track"] \in Handlers
      BY HandlerFields DEF TypeOK
    <3>2. QED
      BY <1>2, <3>1 DEF ApplyChanges, TypeOK
  <2>6. TypeOK'
    BY <1>2, <2>1, <2>2, <2>3, <2>4, <2>5 DEF ApplyChanges, TypeOK
  <2>7. HandlerInv' /\ CursorInv'
    <3>1. /\ \A d \in Tasks : d # t => rx'[d] = rx[d]
          /\ rx'[t] = [rx[t] EXCEPT !.pc = "track"]
          /\ UNCHANGED <<client_map, sv>>
      BY <1>2 DEF ApplyChanges, TypeOK
    <3>2. rx'[t] = [pc |-> "track", client |-> rx[t].client,
                    universe |-> rx[t].universe, frame |-> rx[t].frame,
                    length |-> rx[t].length, last |-> rx[t].last]
      BY <3>1, HandlerFields DEF TypeOK
    <3>3. rx[t].pc # "idle"
      BY <1>2 DEF ApplyChanges
    <3>4. QED
      BY <3>1, <3>2, <3>3 DEF HandlerInv, CursorInv
  <2>8. QED
    BY <2>6, <2>7
<1>3. CASE SetLastData(t)
  <2>1. /\ rx[t].universe \in Universes
        /\ rx[t].frame \in Frame
        /\ rx[t].client \in HeardBy[t]
    BY <1>3 DEF SetLastData, HandlerInv
  <2>2. client_map' \in [Clients -> [Universes -> Frame \cup {NoFrame}]]
    BY <1>3, <2>1 DEF SetLastData, TypeOK
  <2>3. TypeOK'
    BY <1>3, <2>2, IdleTypes DEF SetLastData, TypeOK, history
  <2>4. HandlerInv'
    <3> SUFFICES ASSUME NEW d \in Tasks, rx'[d].pc # "idle"
                 PROVE  /\ rx'[d].client \in HeardBy[d]
                        /\ rx'[d].universe \in Universes
                        /\ rx'[d].frame \in Frame
                        /\ rx'[d].pc = "apply" => rx'[d].last # NoFrame
                        /\ rx'[d].last = NoFrame =>
                             client_map'[rx'[d].client][rx'[d].universe] = NoFrame
      BY DEF HandlerInv
    <3>1. d # t /\ rx'[d] = rx[d]
      BY <1>3 DEF SetLastData, TypeOK, RxIdle
    <3>2. rx[d].client # rx[t].client
      BY <2>1, <3>1, OneTaskPerClient DEF HandlerInv
    <3>3. rx[d].client \in Clients
      BY <3>1, HearingAssumption DEF HandlerInv
    <3>4. client_map'[rx[d].client] = client_map[rx[d].client]
      BY <1>3, <3>2, <3>3 DEF SetLastData, TypeOK
    <3>5. QED
      BY <3>1, <3>4 DEF HandlerInv
  <2>5. CursorInv'
    BY <1>3 DEF SetLastData, CursorInv
  <2>6. QED
    BY <2>3, <2>4, <2>5
<1>4. QED
  BY <1>1, <1>2, <1>3 DEF Receive
-----------------------------------------------------------------------------
(* Moving one saver keeps the savers typed, and the writer of the NVS      *)
(* library in its place as long as it is another one.                      *)
LEMMA SaverMoves ==
    ASSUME TypeOK, CursorInv, NEW s \in Savers, NEW w \in Walks,
           w.pc # "idle" => w.universe \in Universes,
           sv' = [sv EXCEPT ![s] = w]
    PROVE  /\ sv' \in [Savers -> Walks]
           /\ CursorInv'
           /\ sv[s].pc # "write" /\ nvs' = nvs =>
                (nvs'.writer # NoSaver => sv'[nvs'.writer].pc = "write")
<1>1. sv \in [Savers -> Walks]
  BY DEF TypeOK
<1>2. sv' \in [Savers -> Walks]
  BY <1>1
<1>3. CursorInv'
  BY <1>1 DEF CursorInv
<1>4. nvs.writer \in Savers \cup {NoSaver}
  BY DEF TypeOK
<1>5. QED
  BY <1>1, <1>2, <1>3, <1>4 DEF TypeOK

LEMMA SaveType ==
    ASSUME TypeInv, NEW s \in Savers, Save(s)
    PROVE  TypeInv'
<1> USE DEF TypeInv
<1>1. sv[s] \in Walks
  BY DEF TypeOK
<1>2. /\ sv[s].pc # "idle" => sv[s].universe \in Universes
      /\ sv[s].pc # "idle" => NextUniverse(s) \in Walks
      /\ sv[s].pc # "idle" /\ NextUniverse(s).pc # "idle" =>
           NextUniverse(s).universe \in Universes
  BY NextUniverseType DEF CursorInv
<1>3. nvs.writer = s => sv[s].pc = "write"
  BY SaverAssumption DEF TypeOK
<1>4. UNCHANGED <<rx, client_map>> => HandlerInv'
  BY DEF HandlerInv
<1>5. ASSUME NEW job \in {"save", "clear", "reboot"}, StartJob(s, job)
      PROVE  TypeInv'
  <2> DEFINE w == [pc |-> Entry(job), job |-> job, universe |-> 1]
  <2>1. w \in Walks /\ w.universe \in Universes
    BY FirstUniverse DEF Walks, Entry
  <2>2. sv' = [sv EXCEPT ![s] = w] /\ sv[s].pc # "write"
    BY <1>5 DEF StartJob
  <2> HIDE DEF w
  <2>3. QED
    BY <1>4, <1>5, <2>1, <2>2, SaverMoves DEF StartJob, TypeOK, history
<1>6. CASE ZeroUniverse(s)
  <2> DEFINE w == [sv[s] EXCEPT !.pc = "compare"]
  <2>w. w \in Walks /\ w.universe = sv[s].universe
    BY <1>1, WalkFields
  <2>1. sv[s].universe \in Universes
    BY <1>2, <1>6 DEF ZeroUniverse
  <2>2. w \in Walks /\ w.universe \in Universes
    BY <2>1, <2>w
  <2>3. sv' = [sv EXCEPT ![s] = w] /\ sv[s].pc # "write"
    BY <1>6 DEF ZeroUniverse
  <2> HIDE DEF w
  <2>4. torn' \in SUBSET Universes /\ changed' \in [Savers -> SUBSET Universes]
    BY <1>6, <2>1, NoteChangeType DEF ZeroUniverse
  <2>5. data' \in [Universes -> Frame]
    BY <1>6, DarkIsFrame DEF ZeroUniverse, TypeOK
  <2>6. owner' \in [Universes -> [Channels -> Clients \cup {NoClient}]]
    BY <1>6 DEF ZeroUniverse, TypeOK
  <2>7. QED
    BY <1>4, <1>6, <2>2, <2>3, <2>4, <2>5, <2>6, SaverMoves DEF ZeroUniverse, TypeOK
<1>7. CASE SkipSnapshot(s)
  <2>1. sv' = [sv EXCEPT ![s] = NextUniverse(s)] /\ sv[s].pc = "compare"
    BY <1>7 DEF SkipSnapshot
  <2>2. changed' \in [Savers -> SUBSET Universes]
    BY <1>7 DEF SkipSnapshot, TypeOK
  <2>3. QED
    BY <1>2, <1>4, <1>7, <2>1, <2>2, SaverMoves DEF SkipSnapshot, TypeOK
<1>8. CASE TakeSnapshot(s)
  <2> DEFINE w == [sv[s] EXCEPT !.pc = "write"]
  <2>w. w \in Walks /\ w.universe = sv[s].universe
    BY <1>1, WalkFields
  <2>1. sv[s].universe \in Universes
    BY <1>2, <1>8 DEF TakeSnapshot
  <2>2. w \in Walks /\ w.universe \in Universes
    BY <2>1, <2>w
  <2>3. sv' = [sv EXCEPT ![s] = w] /\ sv[s].pc = "compare"
    BY <1>8 DEF TakeSnapshot
  <2> HIDE DEF w
  <2>4. /\ changed' \in [Savers -> SUBSET Universes]
        /\ torn' \in SUBSET Universes
        /\ last_snapshot' \in [Universes -> Frame]
    BY <1>8, <2>1 DEF TakeSnapshot, TypeOK
  <2>5. QED
    BY <1>4, <1>8, <2>2, <2>3, <2>4, SaverMoves DEF TakeSnapshot, TypeOK
<1>9. CASE OpenBlob(s)
  <2>1. /\ NvsIdle.count = 0 /\ NvsIdle.buffer = Dark
        /\ nvs' = [writer |-> s, count |-> 0, buffer |-> Dark]
    BY <1>9 DEF OpenBlob, NvsIdle
  <2>2. nvs' \in [writer : Savers \cup {NoSaver}, count : 0..NumChannels, buffer : Frame]
    BY <2>1, DarkIsFrame, ChannelAssumption
  <2>3. CursorInv'
    BY <1>9 DEF OpenBlob, CursorInv
  <2>4. QED
    BY <1>4, <1>9, <2>1, <2>2, <2>3 DEF OpenBlob, TypeOK, history
<1>10. CASE CopyLevel(s)
  <2>1. /\ sv[s].universe \in Universes
        /\ nvs.count + 1 \in Channels
    BY <1>2, <1>3, <1>10, ChannelAssumption DEF CopyLevel, TypeOK, Channels
  <2>2. data[sv[s].universe][nvs.count + 1] \in Levels
    BY <2>1 DEF TypeOK, Frame
  <2>3. [nvs.buffer EXCEPT ![nvs.count + 1] = data[sv[s].universe][nvs.count + 1]] \in Frame
    BY <2>2 DEF TypeOK, Frame
  <2>4. nvs' = [writer |-> nvs.writer, count |-> nvs.count + 1,
                buffer |-> [nvs.buffer EXCEPT ![nvs.count + 1] =
                               data[sv[s].universe][nvs.count + 1]]]
    BY <1>10 DEF CopyLevel, TypeOK
  <2>5. nvs' \in [writer : Savers \cup {NoSaver}, count : 0..NumChannels, buffer : Frame]
    BY <1>10, <2>1, <2>3, <2>4 DEF TypeOK, Channels
  <2>6. CursorInv'
    BY <1>10 DEF CopyLevel, CursorInv
  <2>7. nvs'.writer = nvs.writer
    BY <2>4
  <2>8. QED
    BY <1>4, <1>10, <2>5, <2>6, <2>7 DEF CopyLevel, TypeOK, history
<1>11. CASE CommitBlob(s)
  <2>1. sv' = [sv EXCEPT ![s] = NextUniverse(s)] /\ sv[s].pc = "write"
    BY <1>3, <1>11 DEF CommitBlob
  <2>2. changed' \in [Savers -> SUBSET Universes]
    BY <1>11 DEF CommitBlob, TypeOK
  <2>3. flash' \in [Universes -> Frame \cup {NoFrame}]
    BY <1>11 DEF CommitBlob, TypeOK
  <2>4. nvs' \in [writer : Savers \cup {NoSaver}, count : 0..NumChannels, buffer : Frame]
        /\ nvs'.writer = NoSaver
    BY <1>11, IdleTypes DEF CommitBlob, NvsIdle
  <2>5. sv' \in [Savers -> Walks] /\ CursorInv'
    BY <1>2, <2>1, SaverMoves
  <2>6. QED
    BY <1>4, <1>11, <2>2, <2>3, <2>4, <2>5 DEF CommitBlob, TypeOK
<1>12. CASE ForgetClients(s)
  <2>1. sv' = [sv EXCEPT ![s] = SvIdle] /\ sv[s].pc # "write"
    BY <1>12 DEF ForgetClients
  <2>2. SvIdle \in Walks /\ SvIdle.pc = "idle"
    BY IdleTypes DEF SvIdle
  <2>3. /\ changed' \in [Savers -> SUBSET Universes]
        /\ owner' \in [Universes -> [Channels -> Clients \cup {NoClient}]]
        /\ client_map' \in [Clients -> [Universes -> Frame \cup {NoFrame}]]
    BY <1>12, IdleTypes DEF ForgetClients, TypeOK
  <2>4. HandlerInv'
    <3>1. \A t \in Tasks : HeardBy[t] \subseteq Clients
      BY HearingAssumption
    <3>2. QED
      BY <1>12, <3>1 DEF ForgetClients, HandlerInv, NoRecords
  <2>5. QED
    BY <1>12, <2>1, <2>2, <2>3, <2>4, SaverMoves DEF ForgetClients, TypeOK
<1>13. CASE Restart(s)
  BY <1>13, BootType DEF Restart
<1>14. QED
  BY <1>5, <1>6, <1>7, <1>8, <1>9, <1>10, <1>11, <1>12, <1>13 DEF Save, StoreStep

LEMMA TypeStep == TypeInv /\ [Next]_vars => TypeInv'
<1> SUFFICES ASSUME TypeInv, [Next]_vars PROVE TypeInv'
  OBVIOUS
<1>1. CASE UNCHANGED vars
  BY <1>1 DEF vars, history, TypeInv, TypeOK, HandlerInv, CursorInv
<1>2. CASE PowerLoss
  BY <1>2, BootType DEF PowerLoss, TypeInv
<1>3. QED
  BY <1>1, <1>2, ReceiveType, SaveType DEF Next

LEMMA TypeInvariant == Spec => []TypeInv
  BY InitType, TypeStep, PTL DEF Spec

(* Every variable keeps its type; in particular the walk of a saver never  *)
(* runs off the list of universes, and the NVS library is only ever held   *)
(* by a saver that is storing a universe.                                  *)
THEOREM TypeCorrect == Spec => []TypeOK
  BY TypeInvariant, PTL DEF TypeInv
-----------------------------------------------------------------------------
(* The refinement of LtpMerge.  A task has a record in hand from reading   *)
(* it until rewriting it.                                                  *)
Handles(t, c, u) ==
    /\ rx[t].pc # "idle" /\ rx[t].last # NoFrame
    /\ rx[t].client = c /\ rx[t].universe = u

InHand(t) == IF rx[t].pc = "apply" THEN rx[t].last ELSE rx[t].frame

DeskFacts ==
    \A c \in Clients, u \in Universes :
        /\ \A t \in Tasks : Handles(t, c, u) => Desk[c][u] = InHand(t)
        /\ (\A t \in Tasks : ~Handles(t, c, u)) => Desk[c][u] = client_map[c][u]

LEMMA OneHandler ==
    ASSUME HandlerInv, NEW s \in Tasks, NEW t \in Tasks,
           rx[s].pc # "idle", rx[t].pc # "idle", rx[s].client = rx[t].client
    PROVE  s = t
  BY OneTaskPerClient DEF HandlerInv

LEMMA DeskLemma == TypeInv => DeskFacts
<1> SUFFICES ASSUME TypeInv, NEW c \in Clients, NEW u \in Universes
             PROVE  /\ \A t \in Tasks : Handles(t, c, u) => Desk[c][u] = InHand(t)
                    /\ (\A t \in Tasks : ~Handles(t, c, u)) =>
                          Desk[c][u] = client_map[c][u]
  BY DEF DeskFacts
<1> DEFINE busy(pc) == \E t \in Tasks : rx[t].pc = pc /\ rx[t].client = c
                                        /\ rx[t].universe = u /\ rx[t].last # NoFrame
           handler == CHOOSE t \in Tasks : rx[t].pc # "idle" /\ rx[t].client = c
<1>1. Desk[c][u] = CASE busy("apply") -> rx[handler].last
                     [] busy("track") -> rx[handler].frame
                     [] OTHER -> client_map[c][u]
  BY DEF Desk
<1>2. \A t \in Tasks : rx[t].pc \in {"idle", "apply", "track"}
  BY DEF TypeInv, TypeOK, Handlers
<1>3. ASSUME NEW t \in Tasks, Handles(t, c, u)
      PROVE  Desk[c][u] = InHand(t)
  <2>1. handler \in Tasks /\ rx[handler].pc # "idle" /\ rx[handler].client = c
    BY <1>3 DEF Handles
  <2> HIDE DEF handler
  <2>2. handler = t
    BY <1>3, <2>1, OneHandler DEF Handles, TypeInv
  <2>3. CASE rx[t].pc = "apply"
    <3>1. busy("apply")
      BY <1>3, <2>3 DEF Handles
    <3>2. ~busy("track")
      BY <1>3, <2>3, OneHandler DEF Handles, TypeInv
    <3> HIDE DEF busy
    <3>3. QED
      BY <1>1, <2>2, <2>3, <3>1, <3>2 DEF InHand
  <2>4. CASE rx[t].pc = "track"
    <3>1. busy("track")
      BY <1>3, <2>4 DEF Handles
    <3>2. ~busy("apply")
      BY <1>3, <2>4, OneHandler DEF Handles, TypeInv
    <3> HIDE DEF busy
    <3>3. QED
      BY <1>1, <2>2, <2>4, <3>1, <3>2 DEF InHand
  <2>5. QED
    BY <1>2, <1>3, <2>3, <2>4 DEF Handles
<1>4. ASSUME \A t \in Tasks : ~Handles(t, c, u)
      PROVE  Desk[c][u] = client_map[c][u]
  <2>1. ~busy("apply") /\ ~busy("track")
    BY <1>4 DEF Handles
  <2> HIDE DEF busy
  <2>2. QED
    BY <1>1, <2>1
<1>5. QED
  BY <1>3, <1>4

LEMMA DeskLemmaNext == TypeInv' => DeskFacts'
  BY DeskLemma, PTL

(* Desk is a function of the right shape, so two desks that agree at every *)
(* point are the same.                                                     *)
LEMMA DeskShape ==
    /\ Desk = [c \in Clients |-> [u \in Universes |-> Desk[c][u]]]
    /\ TypeInv => Desk \in [Clients -> [Universes -> Frame \cup {NoFrame}]]
<1>1. Desk = [c \in Clients |-> [u \in Universes |-> Desk[c][u]]]
  BY DEF Desk
<1>2. ASSUME TypeInv, NEW c \in Clients, NEW u \in Universes
      PROVE  Desk[c][u] \in Frame \cup {NoFrame}
  <2>1. CASE \E t \in Tasks : Handles(t, c, u)
    <3>1. PICK t \in Tasks : Handles(t, c, u)
      BY <2>1
    <3>2. rx[t] \in Handlers
      BY <1>2 DEF TypeInv, TypeOK
    <3>3. InHand(t) \in Frame \cup {NoFrame}
      BY <3>2, HandlerFields DEF InHand
    <3>4. QED
      BY <1>2, <3>1, <3>3, DeskLemma DEF DeskFacts
  <2>2. CASE \A t \in Tasks : ~Handles(t, c, u)
    BY <1>2, <2>2, DeskLemma DEF DeskFacts, TypeInv, TypeOK
  <2>3. QED
    BY <2>1, <2>2
<1>3. QED
  BY <1>1, <1>2

LEMMA DeskShapeNext == Desk' = [c \in Clients |-> [u \in Universes |-> Desk'[c][u]]]
  BY DEF Desk

(* A step that touches neither handlers nor records leaves the desks.      *)
LEMMA DeskUnchanged ==
    ASSUME UNCHANGED <<rx, client_map>>
    PROVE  Desk' = Desk
  BY DEF Desk

LEMMA BootSimulates ==
    ASSUME TypeInv, TypeInv', Boot
    PROVE  Ltp!PowerUp
<1>1. \A t \in Tasks : rx'[t].pc = "idle"
  BY DEF Boot, RxIdle
<1>2. \A t \in Tasks, c \in Clients, u \in Universes : ~Handles(t, c, u)'
  BY <1>1 DEF Handles
<1>3. \A c \in Clients, u \in Universes : Desk'[c][u] = NoFrame
  BY <1>2, DeskLemmaNext DEF DeskFacts, Boot, NoRecords
<1>4. Desk' = [c \in Clients |-> [u \in Universes |-> NoFrame]]
  BY <1>3, DeskShapeNext
<1>5. data' \in [Universes -> Frame]
  BY DEF TypeInv, TypeOK
<1>6. QED
  BY <1>4, <1>5 DEF Ltp!PowerUp, Ltp!Frame, Frame, Boot, NoOwner

(* Starting to handle a packet shows nothing and moves nothing: the record *)
(* just read is still the controller's desk.                               *)
LEMMA ReceiveSimulates ==
    ASSUME TypeInv, TypeInv', NEW t \in Tasks, NEW c \in Clients, NEW p \in Packets,
           ReceiveDmx(t, c, p)
    PROVE  UNCHANGED <<data, owner, Desk>>
<1>1. /\ rx[t].pc = "idle" /\ c \in HeardBy[t]
      /\ p.universe \in Universes
      /\ UNCHANGED <<client_map, data, owner>>
  BY DEF ReceiveDmx, Accepted, history
<1> DEFINE last == client_map[c][p.universe]
<1>2. /\ rx'[t].pc # "idle" /\ rx'[t].client = c /\ rx'[t].universe = p.universe
      /\ rx'[t].last = last
      /\ last # NoFrame => rx'[t].pc = "apply"
      /\ \A d \in Tasks : d # t => rx'[d] = rx[d]
  BY DEF ReceiveDmx, TypeInv, TypeOK
<1> HIDE DEF last
<1>3. ASSUME NEW e \in Clients, NEW u \in Universes
      PROVE  Desk'[e][u] = Desk[e][u]
  <2>1. CASE e = c /\ u = p.universe
    <3>1. \A d \in Tasks : ~Handles(d, e, u)
      <4> SUFFICES ASSUME NEW d \in Tasks, Handles(d, e, u) PROVE FALSE
        OBVIOUS
      <4>1. d # t
        BY <1>1 DEF Handles
      <4>2. rx'[d].pc # "idle" /\ rx'[d].client = c
        BY <1>2, <2>1, <4>1 DEF Handles
      <4>3. c \in HeardBy[d]
        BY <4>2 DEF TypeInv, HandlerInv
      <4>4. QED
        BY <1>1, <4>1, <4>3, OneTaskPerClient
    <3>2. Desk[e][u] = last
      BY <2>1, <3>1, DeskLemma DEF DeskFacts, last
    <3>3. CASE last # NoFrame
      <4>1. Handles(t, e, u)' /\ InHand(t)' = last
        BY <1>2, <2>1, <3>3 DEF Handles, InHand
      <4>2. QED
        BY <3>2, <4>1, DeskLemmaNext DEF DeskFacts
    <3>4. CASE last = NoFrame
      <4>1. \A d \in Tasks : ~Handles(d, e, u)'
        BY <1>2, <2>1, <3>1, <3>4 DEF Handles
      <4>2. Desk'[e][u] = client_map'[e][u]
        BY <4>1, DeskLemmaNext DEF DeskFacts
      <4>3. QED
        BY <1>1, <2>1, <3>2, <4>2 DEF last
    <3>5. QED
      BY <3>3, <3>4
  <2>2. CASE ~(e = c /\ u = p.universe)
    <3>1. \A d \in Tasks : Handles(d, e, u)' <=> Handles(d, e, u)
      BY <1>1, <1>2, <2>2 DEF Handles
    <3>2. \A d \in Tasks : Handles(d, e, u) => InHand(d)' = InHand(d)
      BY <1>1, <1>2 DEF Handles, InHand
    <3>3. QED
      BY <1>1, <3>1, <3>2, DeskLemma, DeskLemmaNext DEF DeskFacts
  <2>3. QED
    BY <2>1, <2>2
<1>4. Desk' = Desk
  BY <1>3, DeskShape, DeskShapeNext
<1>5. QED
  BY <1>1, <1>4

(* Records and handlers of other controllers and universes are untouched.  *)
LEMMA DeskElsewhere ==
    ASSUME TypeInv, TypeInv', NEW t \in Tasks, NEW e \in Clients, NEW u \in Universes,
           rx[t].pc # "idle", rx'[t].pc # "idle" => rx'[t].client = rx[t].client
                                                   /\ rx'[t].universe = rx[t].universe,
           \A d \in Tasks : d # t => rx'[d] = rx[d],
           client_map'[e][u] = client_map[e][u],
           ~(e = rx[t].client /\ u = rx[t].universe)
    PROVE  Desk'[e][u] = Desk[e][u]
<1>1. \A d \in Tasks : Handles(d, e, u)' <=> Handles(d, e, u)
  BY DEF Handles
<1>2. \A d \in Tasks : Handles(d, e, u) => InHand(d)' = InHand(d)
  BY DEF Handles, InHand
<1>3. QED
  BY <1>1, <1>2, DeskLemma, DeskLemmaNext DEF DeskFacts

LEMMA HandlerOfClient ==
    ASSUME TypeInv, NEW t \in Tasks, rx[t].pc # "idle"
    PROVE  /\ rx[t].client \in Clients /\ rx[t].universe \in Universes
           /\ rx[t].frame \in Frame
           /\ rx[t].length \in Channels \cup {0}
<1>1. HeardBy[t] \subseteq Clients
  BY HearingAssumption
<1>2. rx[t].length \in 0..NumChannels
  BY DEF TypeInv, TypeOK, Handlers
<1>3. QED
  BY <1>1, <1>2, ChannelAssumption DEF TypeInv, HandlerInv, Channels

LEMMA DeskPoint ==
    ASSUME TypeInv, NEW c \in Clients, NEW u \in Universes, NEW f, Desk'[c][u] = f,
           \A e \in Clients, v \in Universes :
               ~(e = c /\ v = u) => Desk'[e][v] = Desk[e][v]
    PROVE  Desk' = [Desk EXCEPT ![c][u] = f]
<1> DEFINE new == [Desk EXCEPT ![c][u] = f]
<1>1. Desk \in [Clients -> [Universes -> Frame \cup {NoFrame}]]
  BY DeskShape
<1>2. \A e \in Clients : new[e] = [v \in Universes |-> Desk'[e][v]]
  BY <1>1
<1>3. new = [e \in Clients |-> [v \in Universes |-> Desk'[e][v]]]
  BY <1>1, <1>2
<1>4. QED
  BY <1>3, DeskShapeNext

(* The loop of apply_changes is the abstract merge.                        *)
LEMMA ApplySimulates ==
    ASSUME TypeInv, TypeInv', NEW t \in Tasks, ApplyChanges(t)
    PROVE  \E c \in Clients, u \in Universes, f \in Frame, n \in Channels \cup {0} :
              Ltp!Present(c, u, f, n)
<1>0. rx[t].pc # "idle"
  BY DEF ApplyChanges
<1> PICK c \in Clients, u \in Universes, f \in Frame, n \in Channels \cup {0} :
        rx[t].client = c /\ rx[t].universe = u /\ rx[t].frame = f /\ rx[t].length = n
  BY <1>0, HandlerOfClient
<1>1. rx[t].pc = "apply" /\ rx[t].last # NoFrame
  BY DEF ApplyChanges, TypeInv, HandlerInv
<1>3. Desk[c][u] = rx[t].last
  BY <1>1, DeskLemma DEF DeskFacts, Handles, InHand
<1>4. Ltp!Moved(f, n, Desk[c][u]) = MovedBy(rx[t])
  BY <1>1, <1>3 DEF Ltp!Moved, MovedBy
<1>5. /\ rx'[t] = [rx[t] EXCEPT !.pc = "track"]
      /\ \A d \in Tasks : d # t => rx'[d] = rx[d]
      /\ UNCHANGED client_map
  BY DEF ApplyChanges, TypeInv, TypeOK
<1>6. /\ rx'[t].pc = "track" /\ rx'[t].client = c /\ rx'[t].universe = u
      /\ rx'[t].frame = f /\ rx'[t].last = rx[t].last
  BY <1>5, HandlerFields DEF TypeInv, TypeOK
<1>7. Desk'[c][u] = f
  <2>1. Handles(t, c, u)' /\ InHand(t)' = f
    BY <1>1, <1>6 DEF Handles, InHand
  <2>2. QED
    BY <2>1, DeskLemmaNext DEF DeskFacts
<1>8. ASSUME NEW e \in Clients, NEW v \in Universes, ~(e = c /\ v = u)
      PROVE  Desk'[e][v] = Desk[e][v]
  <2>1. client_map'[e][v] = client_map[e][v]
    BY <1>5
  <2>2. /\ rx[t].pc # "idle"
        /\ rx'[t].client = rx[t].client /\ rx'[t].universe = rx[t].universe
        /\ \A d \in Tasks : d # t => rx'[d] = rx[d]
        /\ ~(e = rx[t].client /\ v = rx[t].universe)
    BY <1>0, <1>5, <1>6, <1>8
  <2>3. QED
    BY <2>1, <2>2, DeskElsewhere
<1>9. Desk' = [Desk EXCEPT ![c][u] = f]
  BY <1>7, <1>8, DeskPoint
<1>10. /\ data' = [data EXCEPT ![u] =
                     [ch \in Channels |-> IF ch \in MovedBy(rx[t]) THEN f[ch] ELSE @[ch]]]
       /\ owner' = [owner EXCEPT ![u] =
                     [ch \in Channels |->
                         IF ch \in MovedBy(rx[t]) THEN c
                         ELSE IF ch > n /\ @[ch] = c THEN NoClient ELSE @[ch]]]
  BY DEF ApplyChanges, Merged
<1>11. Ltp!Present(c, u, f, n)
  BY <1>4, <1>9, <1>10 DEF Ltp!Present
<1>12. QED
  BY <1>11

(* Rewriting the record only moves the desk from the handler into the map, *)
(* or sets the desk of a controller heard for the first time.              *)
LEMMA SetLastSimulates ==
    ASSUME TypeInv, TypeInv', MoverIsShown, NEW t \in Tasks, SetLastData(t)
    PROVE  \/ UNCHANGED <<data, owner, Desk>>
           \/ \E c \in Clients, u \in Universes, f \in Frame, n \in Channels \cup {0} :
                 Ltp!Present(c, u, f, n)
<1>0. rx[t].pc # "idle"
  BY DEF SetLastData
<1> PICK c \in Clients, u \in Universes, f \in Frame, n \in Channels \cup {0} :
        rx[t].client = c /\ rx[t].universe = u /\ rx[t].frame = f /\ rx[t].length = n
  BY <1>0, HandlerOfClient
<1>1. rx[t].pc = "track" /\ UNCHANGED <<data, owner>>
  BY DEF SetLastData, history
<1>3. /\ rx'[t].pc = "idle"
      /\ \A d \in Tasks : d # t => rx'[d] = rx[d]
      /\ client_map'[c][u] = f
      /\ \A e \in Clients, v \in Universes :
            ~(e = c /\ v = u) => client_map'[e][v] = client_map[e][v]
  BY DEF SetLastData, TypeInv, TypeOK, RxIdle
<1>4. \A d \in Tasks : d # t => ~Handles(d, c, u) /\ ~Handles(d, c, u)'
  BY <1>1, <1>3, OneHandler DEF Handles, TypeInv
<1>5. Desk'[c][u] = f
  BY <1>3, <1>4, DeskLemmaNext DEF DeskFacts, Handles
<1>6. \A e \in Clients, v \in Universes : ~(e = c /\ v = u) => Desk'[e][v] = Desk[e][v]
  BY <1>1, <1>3, DeskElsewhere
<1>7. CASE rx[t].last # NoFrame
  <2>1. Desk[c][u] = f
    BY <1>1, <1>7, DeskLemma DEF DeskFacts, Handles, InHand
  <2>2. Desk' = Desk
    BY <1>5, <1>6, <2>1, DeskShape, DeskShapeNext
  <2>3. QED
    BY <1>1, <2>2
<1>8. CASE rx[t].last = NoFrame
  <2>1. Desk[c][u] = NoFrame
    <3>1. \A d \in Tasks : ~Handles(d, c, u)
      BY <1>4, <1>8 DEF Handles
    <3>2. client_map[c][u] = NoFrame
      BY <1>1, <1>8 DEF TypeInv, HandlerInv
    <3>3. QED
      BY <3>1, <3>2, DeskLemma DEF DeskFacts
  <2>2. Ltp!Moved(f, n, Desk[c][u]) = {}
    BY <2>1 DEF Ltp!Moved
  <2>3. Desk' = [Desk EXCEPT ![c][u] = f]
    BY <1>5, <1>6, DeskPoint
  <2>4. data' = [data EXCEPT ![u] = [ch \in Channels |-> IF ch \in {} THEN f[ch] ELSE @[ch]]]
    BY <1>1 DEF TypeInv, TypeOK, Frame
  <2>5. \A ch \in Channels : owner[u][ch] # c
    <3> SUFFICES ASSUME NEW ch \in Channels, owner[u][ch] = c PROVE FALSE
      OBVIOUS
    <3>1. owner[u][ch] # NoClient
      BY ClientAssumption
    <3>2. QED
      BY <2>1, <3>1 DEF MoverIsShown
  <2>6. owner' = [owner EXCEPT ![u] =
                    [ch \in Channels |->
                        IF ch \in {} THEN c
                        ELSE IF ch > n /\ @[ch] = c THEN NoClient ELSE @[ch]]]
    BY <1>1, <2>5 DEF TypeInv, TypeOK
  <2>7. Ltp!Present(c, u, f, n)
    BY <2>2, <2>3, <2>4, <2>6 DEF Ltp!Present
  <2>8. QED
    BY <2>7
<1>9. QED
  BY <1>7, <1>8

(* Forgetting the records forgets the desks no receive task has in hand.   *)
LEMMA ForgetSimulates ==
    ASSUME TypeInv, TypeInv', NEW s \in Savers, ForgetClients(s)
    PROVE  \E busy \in SUBSET (Clients \X Universes) : Ltp!Forget(busy)
<1>1. \A c \in Clients, u \in Universes :
         <<c, u>> \in InFlight <=> \E t \in Tasks : Handles(t, c, u)
  BY DEF InFlight, Handles
<1>2. InFlight \subseteq Clients \X Universes
  <2> SUFFICES ASSUME NEW t \in Tasks, rx[t].pc # "idle"
               PROVE  <<rx[t].client, rx[t].universe>> \in Clients \X Universes
    BY DEF InFlight
  <2>1. QED
    BY HandlerOfClient
<1>3. ASSUME NEW c \in Clients, NEW u \in Universes
      PROVE  Desk'[c][u] = IF <<c, u>> \in InFlight THEN Desk[c][u] ELSE NoFrame
  <2>1. UNCHANGED rx /\ client_map'[c][u] = NoFrame
    BY DEF ForgetClients, NoRecords
  <2>2. \A t \in Tasks : (Handles(t, c, u)' <=> Handles(t, c, u)) /\ InHand(t)' = InHand(t)
    BY <2>1 DEF Handles, InHand
  <2>3. CASE \E t \in Tasks : Handles(t, c, u)
    BY <1>1, <2>2, <2>3, DeskLemma, DeskLemmaNext DEF DeskFacts
  <2>4. CASE \A t \in Tasks : ~Handles(t, c, u)
    BY <1>1, <2>1, <2>2, <2>4, DeskLemmaNext DEF DeskFacts
  <2>5. QED
    BY <2>3, <2>4
<1>4. Desk' = [c \in Clients |-> [u \in Universes |->
                 IF <<c, u>> \in InFlight THEN Desk[c][u] ELSE NoFrame]]
  BY <1>3, DeskShapeNext
<1>5. Ltp!Forget(InFlight)
  BY <1>4 DEF Ltp!Forget, ForgetClients
<1>6. QED
  BY <1>2, <1>5

LEMMA SaveSimulates ==
    ASSUME TypeInv, TypeInv', NEW s \in Savers, Save(s)
    PROVE  [Ltp!LtpNext]_(Ltp!ltpVars)
<1> USE DEF Ltp!LtpNext, Ltp!ltpVars
<1>1. ASSUME NEW job \in {"save", "clear", "reboot"}, StartJob(s, job)
      PROVE  UNCHANGED <<data, owner, Desk>>
  BY <1>1, DeskUnchanged DEF StartJob, history
<1>2. CASE ZeroUniverse(s)
  <2> DEFINE u == sv[s].universe
  <2>1. u \in Universes
    BY <1>2 DEF ZeroUniverse, TypeInv, CursorInv
  <2>2. Desk' = Desk
    BY <1>2, DeskUnchanged DEF ZeroUniverse
  <2>3. Ltp!Blackout(u)
    BY <1>2, <2>2 DEF ZeroUniverse, Ltp!Blackout, Ltp!Dark, Dark
  <2>4. QED
    BY <2>1, <2>3
<1>3. CASE StoreStep(s)
  <2>1. UNCHANGED <<data, owner, rx, client_map>>
    BY <1>3 DEF StoreStep, SkipSnapshot, TakeSnapshot, OpenBlob, CopyLevel, CommitBlob,
                history
  <2>2. QED
    BY <2>1, DeskUnchanged
<1>4. CASE ForgetClients(s)
  BY <1>4, ForgetSimulates
<1>5. CASE Restart(s)
  BY <1>5, BootSimulates DEF Restart
<1>6. QED
  BY <1>1, <1>2, <1>3, <1>4, <1>5 DEF Save

(* Every step of the detailed specification is a step of the abstract one  *)
(* or a stutter, as long as the merge rule holds.                          *)
LEMMA SimulationStep ==
    ASSUME TypeInv, TypeInv', MoverIsShown, [Next]_vars
    PROVE  [Ltp!LtpNext]_(Ltp!ltpVars)
<1>1. ASSUME NEW t \in Tasks, Receive(t)
      PROVE  [Ltp!LtpNext]_(Ltp!ltpVars)
  <2> USE DEF Ltp!LtpNext, Ltp!ltpVars
  <2>1. ASSUME NEW c \in Clients, NEW p \in Packets, ReceiveDmx(t, c, p)
        PROVE  UNCHANGED <<data, owner, Desk>>
    BY <2>1, ReceiveSimulates
  <2>2. CASE ApplyChanges(t)
    <3>1. \E c \in Clients, u \in Universes, f \in Frame, n \in Channels \cup {0} :
             Ltp!Present(c, u, f, n)
      BY <2>2, ApplySimulates
    <3>2. QED
      BY <3>1 DEF Ltp!Frame, Frame
  <2>3. CASE SetLastData(t)
    <3>1. \/ UNCHANGED <<data, owner, Desk>>
          \/ \E c \in Clients, u \in Universes, f \in Frame, n \in Channels \cup {0} :
                Ltp!Present(c, u, f, n)
      BY <2>3, SetLastSimulates
    <3>2. QED
      BY <3>1 DEF Ltp!Frame, Frame
  <2>4. QED
    BY <1>1, <2>1, <2>2, <2>3 DEF Receive
<1>2. CASE PowerLoss
  BY <1>2, BootSimulates DEF PowerLoss, Ltp!LtpNext
<1>3. CASE UNCHANGED vars
  BY <1>3, DeskUnchanged DEF vars, history, Ltp!ltpVars
<1>4. QED
  BY <1>1, <1>2, <1>3, SaveSimulates DEF Next

LEMMA MoverStep == TypeInv /\ TypeInv' /\ MoverIsShown /\ [Next]_vars => MoverIsShown'
<1> SUFFICES ASSUME TypeInv, TypeInv', MoverIsShown, [Next]_vars
             PROVE  MoverIsShown'
  OBVIOUS
<1>1. 0 \in Levels /\ Channels \subseteq Nat /\ NoFrame \notin Ltp!Frame
  BY LevelAssumption, FrameAssumption DEF Channels, Ltp!Frame, Frame
<1>2. Ltp!LtpTypeOK
  BY DeskShape DEF Ltp!LtpTypeOK, Ltp!Frame, Frame, TypeInv, TypeOK
<1>3. Ltp!OwnerIsShown
  BY DEF Ltp!OwnerIsShown, MoverIsShown
<1>4. [Ltp!LtpNext]_(Ltp!ltpVars)
  BY SimulationStep
<1>5. Ltp!OwnerIsShown'
  BY <1>1, <1>2, <1>3, <1>4, Ltp!MergeStep
<1>6. QED
  BY <1>5 DEF Ltp!OwnerIsShown, MoverIsShown

LEMMA InitSimulates == Init => Ltp!LtpInit /\ MoverIsShown
<1> SUFFICES ASSUME Init PROVE Ltp!LtpInit /\ MoverIsShown
  OBVIOUS
<1>1. TypeInv
  BY InitType
<1>2. \A t \in Tasks, c \in Clients, u \in Universes : ~Handles(t, c, u)
  BY DEF Init, RxIdle, Handles
<1>3. \A c \in Clients, u \in Universes : Desk[c][u] = NoFrame
  BY <1>1, <1>2, DeskLemma DEF DeskFacts, Init, NoRecords
<1>4. Desk = [c \in Clients |-> [u \in Universes |-> NoFrame]]
  BY <1>3, DeskShape
<1>5. Ltp!LtpInit
  BY <1>1, <1>4 DEF Ltp!LtpInit, Ltp!Frame, Frame, Init, NoOwner, TypeInv, TypeOK
<1>6. MoverIsShown
  BY DEF MoverIsShown, Init, NoOwner
<1>7. QED
  BY <1>5, <1>6

(* In every interleaving of packets, resets, saves and restarts, a channel *)
(* that a controller moved last holds that controller's level: get_last    *)
(* _data, apply_changes and set_last_data, three critical sections of two  *)
(* locks, lose no move and undo none.                                      *)
THEOREM MergeCorrect == Spec => []MoverIsShown
<1>1. Init => MoverIsShown
  BY InitSimulates
<1>2. QED
  BY <1>1, MoverStep, TypeInvariant, PTL DEF Spec

(* The packet handlers, the savers and the restarts implement the atomic   *)
(* "latest takes precedence" merge of LtpMerge.                            *)
THEOREM Refinement == Spec => MergesLatest
<1>1. Init => Ltp!LtpInit
  BY InitSimulates
<1>2. TypeInv /\ TypeInv' /\ MoverIsShown /\ [Next]_vars => [Ltp!LtpNext]_(Ltp!ltpVars)
  BY SimulationStep
<1>3. QED
  BY <1>1, <1>2, TypeInvariant, MergeCorrect, PTL DEF Spec, MergesLatest, Ltp!LtpSpec
-----------------------------------------------------------------------------
(* What the snapshots are worth.                                           *)

(* The universes a walk has dealt with.                                    *)
Passed(s) ==
    {u \in Universes :
        \/ sv[s].pc \in {"forget", "restart"}
        \/ sv[s].pc = "write" /\ u <= sv[s].universe
        \/ sv[s].pc \in {"zero", "compare"} /\ u < sv[s].universe}

(* While a store is pending and undisturbed the universe still is what was *)
(* decided to be stored, and so is the part the NVS library has copied.    *)
StoreInv ==
    \A u \in Universes : u \notin torn =>
        /\ Pending(u) # {} => data[u] = last_snapshot[u]
        /\ nvs.writer # NoSaver /\ sv[nvs.writer].universe = u =>
             \A ch \in 1..nvs.count : nvs.buffer[ch] = data[u][ch]

(* A universe a walk has dealt with is as it was found unless modified.    *)
WalkInv ==
    \A s \in Savers : \A u \in Passed(s) :
        u \notin changed[s] => data[u] = last_snapshot[u]

SnapInv == StoreInv /\ SnapshotIsStored /\ WalkInv

LEMMA InitSnap == Init => SnapInv
<1> SUFFICES ASSUME Init PROVE SnapInv
  OBVIOUS
<1>1. flash \in [Universes -> Frame \cup {NoFrame}]
  BY DEF Init
<1>2. \A u \in Universes : data[u] = Restored(u) /\ last_snapshot[u] = Restored(u)
  BY <1>1, BootedType DEF Init
<1>3. \A s \in Savers : sv[s].pc = "idle"
  BY DEF Init, SvIdle
<1>4. nvs.writer = NoSaver
  BY DEF Init, NvsIdle
<1>5. QED
  BY <1>2, <1>3, <1>4 DEF SnapInv, StoreInv, SnapshotIsStored, WalkInv, Pending, Passed

(* A restart: nothing is pending, and what was loaded is what is stored.   *)
LEMMA BootSnap == ASSUME TypeInv, Boot PROVE SnapInv'
<1>1. flash \in [Universes -> Frame \cup {NoFrame}] /\ UNCHANGED flash
  BY DEF Boot, TypeInv, TypeOK
<1>2. \A u \in Universes :
         data'[u] = Restored(u)' /\ last_snapshot'[u] = Restored(u)'
  BY <1>1, BootedType DEF Boot, Restored
<1>3. \A s \in Savers : sv'[s].pc = "idle"
  BY DEF Boot, SvIdle
<1>4. nvs'.writer = NoSaver
  BY DEF Boot, NvsIdle
<1>5. QED
  BY <1>2, <1>3, <1>4 DEF SnapInv, StoreInv, SnapshotIsStored, WalkInv, Pending, Passed

LEMMA QuietSnap ==
    ASSUME SnapInv, UNCHANGED <<data, last_snapshot, flash, nvs, sv, torn, changed>>
    PROVE  SnapInv'
  BY DEF SnapInv, StoreInv, SnapshotIsStored, WalkInv, Pending, Passed, Restored

(* Universe u is left at other levels: by a packet or by a clear.          *)
LEMMA ChangeSnap ==
    ASSUME TypeInv, SnapInv, NEW u \in Universes, NEW new,
           data' = [data EXCEPT ![u] = new], NoteChange(u, new),
           UNCHANGED <<last_snapshot, flash, nvs>>,
           \A v \in Universes : Pending(v)' = Pending(v),
           \A s \in Savers : /\ Passed(s)' = Passed(s)
                             /\ sv'[s].universe = sv[s].universe
    PROVE  SnapInv'
<1>1. \A v \in Universes : data'[v] = IF v = u THEN new ELSE data[v]
  BY DEF TypeInv, TypeOK
<1>2. torn \subseteq torn' /\ \A s \in Savers : changed[s] \subseteq changed'[s]
  BY DEF NoteChange
<1>3. \A v \in Universes : Pending(v) # {} /\ v \notin torn' => data'[v] = data[v]
  BY <1>1 DEF NoteChange
<1>4. \A v \in Universes : Restored(v)' = Restored(v)
  BY DEF Restored
<1>5. SnapshotIsStored'
  BY <1>2, <1>4 DEF SnapInv, SnapshotIsStored
<1>6. StoreInv'
  <2>1. \A v \in Universes :
           nvs.writer # NoSaver /\ sv[nvs.writer].universe = v => Pending(v) # {}
    BY DEF Pending, TypeInv, TypeOK
  <2>2. nvs.writer # NoSaver => sv'[nvs.writer].universe = sv[nvs.writer].universe
    BY DEF TypeInv, TypeOK
  <2>3. QED
    BY <1>2, <1>3, <2>1, <2>2 DEF SnapInv, StoreInv
<1>7. WalkInv'
  <2> SUFFICES ASSUME NEW s \in Savers, NEW v \in Passed(s)', v \notin changed'[s]
               PROVE  data'[v] = last_snapshot'[v]
    BY DEF WalkInv
  <2>1. v \in Universes /\ v \in Passed(s) /\ v \notin changed[s]
    BY <1>2 DEF Passed
  <2>2. data[v] = last_snapshot[v]
    BY <2>1 DEF SnapInv, WalkInv
  <2>3. sv[s].pc # "idle"
    BY <2>1 DEF Passed
  <2>4. v = u => new = data[u]
    BY <2>3 DEF NoteChange
  <2>5. QED
    BY <1>1, <2>1, <2>2, <2>4
<1>8. QED
  BY <1>5, <1>6, <1>7 DEF SnapInv

LEMMA ReceiveSnap ==
    ASSUME TypeInv, SnapInv, NEW t \in Tasks, Receive(t)
    PROVE  SnapInv'
<1>1. ASSUME NEW c \in Clients, NEW p \in Packets, ReceiveDmx(t, c, p)
      PROVE  SnapInv'
  BY <1>1, QuietSnap DEF ReceiveDmx, history
<1>2. CASE ApplyChanges(t)
  <2>1. rx[t].universe \in Universes
    BY <1>2, HandlerOfClient DEF ApplyChanges
  <2>2. /\ \A v \in Universes : Pending(v)' = Pending(v)
        /\ \A s \in Savers : Passed(s)' = Passed(s) /\ sv'[s].universe = sv[s].universe
    BY <1>2 DEF ApplyChanges, Pending, Passed
  <2>3. PICK u \in Universes, new \in {Merged(rx[t])} : u = rx[t].universe
    BY <2>1
  <2>4. data' = [data EXCEPT ![u] = new] /\ NoteChange(u, new)
        /\ UNCHANGED <<last_snapshot, flash, nvs>>
    BY <1>2, <2>3 DEF ApplyChanges
  <2>5. QED
    BY <2>2, <2>4, ChangeSnap
<1>3. CASE SetLastData(t)
  BY <1>3, QuietSnap DEF SetLastData, history
<1>4. QED
  BY <1>1, <1>2, <1>3 DEF Receive
-----------------------------------------------------------------------------
(* Moving on passes the universe at hand and no other.                     *)
LEMMA Advance ==
    ASSUME TypeInv, NEW s \in Savers, sv[s].pc \in {"compare", "write"},
           sv' = [sv EXCEPT ![s] = NextUniverse(s)]
    PROVE  /\ Passed(s)' \subseteq Passed(s) \cup {sv[s].universe}
           /\ NextUniverse(s).pc = "idle" => Passed(s)' = {}
           /\ sv'[s].pc # "write"
<1> DEFINE u == sv[s].universe
<1>1. u \in Universes /\ sv[s] \in Walks
  BY DEF TypeInv, TypeOK, CursorInv
<1>2. sv'[s] = NextUniverse(s) /\ NextUniverse(s).pc # "write"
  BY NextUniverseType DEF TypeInv, TypeOK
<1>3. \A v \in Universes : v \in Nat /\ v <= NumUniverses
  BY ListAssumption DEF Universes
<1>4. \A v \in Universes : v < u => v \in Passed(s)
  BY <1>1, <1>3 DEF Passed
<1>5. CASE u < NumUniverses
  <2>1. NextUniverse(s) = [sv[s] EXCEPT !.pc = Entry(sv[s].job), !.universe = @ + 1]
    BY <1>5 DEF NextUniverse
  <2>2. /\ NextUniverse(s).universe = u + 1
        /\ NextUniverse(s).pc \in {"zero", "compare"}
    BY <1>1, <2>1 DEF Walks, Entry
  <2>3. \A v \in Passed(s)' : v \in Universes /\ v < u + 1
    BY <1>2, <2>2 DEF Passed
  <2>4. QED
    BY <1>1, <1>2, <1>3, <1>4, <2>2, <2>3
<1>6. CASE ~(u < NumUniverses)
  <2>1. u = NumUniverses
    BY <1>1, <1>3, <1>6, ListAssumption
  <2>2. \A v \in Universes : v \in Passed(s) \cup {u}
    BY <1>1, <1>3, <1>4, <2>1, ListAssumption
  <2>3. Passed(s)' \subseteq Universes
    BY DEF Passed
  <2>4. NextUniverse(s).pc = "idle" => Passed(s)' = {}
    BY <1>2 DEF Passed
  <2>5. QED
    BY <1>2, <2>2, <2>3, <2>4
<1>7. QED
  BY <1>5, <1>6

(* Another saver's walk, and the savers storing, after saver s moved on    *)
(* from anywhere to anywhere but a store.                                  *)
LEMMA OtherSavers ==
    ASSUME TypeInv, NEW s \in Savers, NEW w, w.pc # "write",
           sv' = [sv EXCEPT ![s] = w]
    PROVE  /\ \A d \in Savers : d # s => sv'[d] = sv[d] /\ Passed(d)' = Passed(d)
           /\ \A v \in Universes : Pending(v)' = Pending(v) \ {s}
<1>1. sv'[s] = w /\ \A d \in Savers : d # s => sv'[d] = sv[d]
  BY DEF TypeInv, TypeOK
<1>2. QED
  BY <1>1 DEF Passed, Pending

LEMMA SkipSnap ==
    ASSUME TypeInv, SnapInv, NEW s \in Savers, SkipSnapshot(s)
    PROVE  SnapInv'
<1>1. /\ sv[s].pc = "compare" /\ sv' = [sv EXCEPT ![s] = NextUniverse(s)]
      /\ data[sv[s].universe] = last_snapshot[sv[s].universe]
      /\ UNCHANGED <<data, last_snapshot, flash, nvs, torn>>
  BY DEF SkipSnapshot
<1>2. NextUniverse(s).pc # "write"
  BY <1>1, NextUniverseType DEF TypeInv
<1>3. /\ \A d \in Savers : d # s => sv'[d] = sv[d] /\ Passed(d)' = Passed(d)
      /\ \A v \in Universes : Pending(v)' = Pending(v) \ {s}
  BY <1>1, <1>2, OtherSavers
<1>4. \A v \in Universes : Pending(v)' = Pending(v)
  BY <1>1, <1>3 DEF Pending
<1>5. nvs.writer # NoSaver => nvs.writer \in Savers /\ nvs.writer # s
  BY <1>1 DEF TypeInv, TypeOK
<1>6. StoreInv' /\ SnapshotIsStored'
  BY <1>1, <1>3, <1>4, <1>5 DEF SnapInv, StoreInv, SnapshotIsStored, Restored
<1>7. WalkInv'
  <2> SUFFICES ASSUME NEW d \in Savers, NEW v \in Passed(d)', v \notin changed'[d]
               PROVE  data'[v] = last_snapshot'[v]
    BY DEF WalkInv
  <2>1. CASE d # s
    <3>1. changed'[d] = changed[d]
      BY <2>1 DEF SkipSnapshot, TypeInv, TypeOK
    <3>2. QED
      BY <1>1, <1>3, <2>1, <3>1 DEF SnapInv, WalkInv
  <2>2. CASE d = s
    <3>1. v \in Passed(s) \cup {sv[s].universe} /\ NextUniverse(s).pc # "idle"
      BY <1>1, <2>2, Advance
    <3>2. changed'[s] = changed[s] \ {sv[s].universe}
      BY <3>1 DEF SkipSnapshot, TypeInv, TypeOK
    <3>3. CASE v = sv[s].universe
      BY <1>1, <3>3
    <3>4. CASE v # sv[s].universe
      BY <1>1, <2>2, <3>1, <3>2, <3>4 DEF SnapInv, WalkInv
    <3>5. QED
      BY <3>3, <3>4
  <2>3. QED
    BY <2>1, <2>2
<1>8. QED
  BY <1>6, <1>7 DEF SnapInv

LEMMA TakeSnap ==
    ASSUME TypeInv, SnapInv, NEW s \in Savers, TakeSnapshot(s)
    PROVE  SnapInv'
<1> PICK u \in Universes : u = sv[s].universe
  BY DEF TakeSnapshot, TypeInv, CursorInv
<1>1. /\ sv[s].pc = "compare"
      /\ last_snapshot' = [last_snapshot EXCEPT ![u] = data[u]]
      /\ UNCHANGED <<data, flash, nvs>>
      /\ torn' = IF Pending(u) = {} THEN torn \ {u} ELSE torn
      /\ changed' = [changed EXCEPT ![s] = @ \ {u}]
  BY DEF TakeSnapshot
<1>2. sv'[s].pc = "write" /\ sv'[s].universe = u
  <2>1. sv'[s] = [sv[s] EXCEPT !.pc = "write"] /\ sv[s] \in Walks
    BY DEF TakeSnapshot, TypeInv, TypeOK
  <2>2. QED
    BY <2>1, WalkFields
<1>3. \A d \in Savers : d # s => sv'[d] = sv[d]
  BY DEF TakeSnapshot, TypeInv, TypeOK
<1>4. \A v \in Universes :
         Pending(v)' = IF v = u THEN Pending(v) \cup {s} ELSE Pending(v)
  BY <1>1, <1>2, <1>3 DEF Pending
<1>5. \A v \in Universes : last_snapshot'[v] = IF v = u THEN data[u] ELSE last_snapshot[v]
  BY <1>1 DEF TypeInv, TypeOK
<1>6. SnapshotIsStored'
  BY <1>1, <1>4, <1>5 DEF SnapInv, SnapshotIsStored, Restored
<1>7. StoreInv'
  <2>1. nvs.writer # NoSaver => /\ nvs.writer \in Savers /\ nvs.writer # s
                                /\ sv'[nvs.writer] = sv[nvs.writer]
    BY <1>1, <1>3 DEF TypeInv, TypeOK
  <2>2. nvs.writer # NoSaver /\ sv[nvs.writer].universe = u => Pending(u) # {}
    BY DEF Pending, TypeInv, TypeOK
  <2>3. QED
    BY <1>1, <1>4, <1>5, <2>1, <2>2 DEF SnapInv, StoreInv
<1>8. WalkInv'
  <2> SUFFICES ASSUME NEW d \in Savers, NEW v \in Passed(d)', v \notin changed'[d]
               PROVE  data'[v] = last_snapshot'[v]
    BY DEF WalkInv
  <2>1. v \in Universes
    BY DEF Passed
  <2>2. CASE v = u
    BY <1>1, <1>5, <2>2
  <2>3. CASE v # u
    <3>1. v \in Passed(d)
      <4>1. CASE d # s
        BY <1>3, <4>1 DEF Passed
      <4>2. CASE d = s
        <5>1. v <= u
          BY <1>2, <4>2 DEF Passed
        <5>2. v < u
          BY <2>1, <2>3, <5>1, ListAssumption DEF Universes
        <5>3. QED
          BY <1>1, <2>1, <4>2, <5>2 DEF Passed
      <4>3. QED
        BY <4>1, <4>2
    <3>2. v \notin changed[d]
      BY <1>1, <2>3 DEF TypeInv, TypeOK
    <3>3. QED
      BY <1>1, <1>5, <2>1, <2>3, <3>1, <3>2 DEF SnapInv, WalkInv
  <2>4. QED
    BY <2>2, <2>3
<1>9. QED
  BY <1>6, <1>7, <1>8 DEF SnapInv

(* The NVS library opens the blob and copies the levels.                   *)
LEMMA CopySnap ==
    ASSUME TypeInv, SnapInv, NEW s \in Savers, OpenBlob(s) \/ CopyLevel(s)
    PROVE  SnapInv'
<1>1. UNCHANGED <<data, last_snapshot, flash, sv, torn, changed>>
  BY DEF OpenBlob, CopyLevel, history
<1>2. SnapshotIsStored' /\ WalkInv'
  BY <1>1 DEF SnapInv, SnapshotIsStored, WalkInv, Pending, Passed, Restored
<1>3. \A v \in Universes : Pending(v)' = Pending(v)
  BY <1>1 DEF Pending
<1>4. nvs'.writer # NoSaver =>
         \A v \in Universes : v \notin torn /\ sv[nvs'.writer].universe = v =>
             \A ch \in 1..nvs'.count : nvs'.buffer[ch] = data[v][ch]
  <2>1. CASE OpenBlob(s)
    <3>1. nvs'.count = 0
      BY <2>1 DEF OpenBlob, NvsIdle
    <3>2. QED
      BY <3>1
  <2>2. CASE CopyLevel(s)
    <3>1. /\ nvs.writer = s /\ nvs.count \in Nat /\ nvs.count + 1 \in Channels
          /\ s # NoSaver
      BY <2>2, ChannelAssumption, SaverAssumption DEF CopyLevel, TypeInv, TypeOK, Channels
    <3>2. nvs' = [writer |-> s, count |-> nvs.count + 1,
                  buffer |-> [nvs.buffer EXCEPT ![nvs.count + 1] =
                                 data[sv[s].universe][nvs.count + 1]]]
      BY <2>2 DEF CopyLevel, TypeInv, TypeOK
    <3>3. \A ch \in Channels :
             nvs'.buffer[ch] = IF ch = nvs.count + 1 THEN data[sv[s].universe][ch]
                               ELSE nvs.buffer[ch]
      BY <3>2 DEF TypeInv, TypeOK, Frame
    <3>4. \A ch \in 1..nvs'.count :
             ch \in Channels /\ (ch = nvs.count + 1 \/ ch \in 1..nvs.count)
      <4>1. nvs'.count = nvs.count + 1
        BY <3>2
      <4>2. nvs.count + 1 <= NumChannels
        BY <3>1, ChannelAssumption DEF Channels
      <4>3. QED
        BY <3>1, <4>1, <4>2, ChannelAssumption DEF Channels
    <3>5. nvs'.writer = s
      BY <3>2
    <3>6. ASSUME NEW v \in Universes, v \notin torn, sv[s].universe = v,
                 NEW ch \in 1..nvs'.count
          PROVE  nvs'.buffer[ch] = data[v][ch]
      <4>1. \A x \in 1..nvs.count : nvs.buffer[x] = data[v][x]
        BY <3>1, <3>6 DEF SnapInv, StoreInv
      <4>2. QED
        BY <3>3, <3>4, <3>6, <4>1
    <3>7. QED
      BY <3>5, <3>6
  <2>3. QED
    BY <2>1, <2>2
<1>5. StoreInv'
  BY <1>1, <1>3, <1>4 DEF SnapInv, StoreInv
<1>6. QED
  BY <1>2, <1>5 DEF SnapInv

(* The commit: an undisturbed blob is what was decided to be stored.       *)
LEMMA CommitSnap ==
    ASSUME TypeInv, SnapInv, NEW s \in Savers, CommitBlob(s)
    PROVE  SnapInv'
<1>1. s # NoSaver /\ sv[s].pc = "write"
  BY SaverAssumption DEF CommitBlob, TypeInv, TypeOK
<1> PICK u \in Universes : u = sv[s].universe
  BY <1>1 DEF TypeInv, CursorInv
<1>2. /\ nvs.writer = s /\ nvs.count = NumChannels
      /\ sv' = [sv EXCEPT ![s] = NextUniverse(s)]
      /\ flash' = [flash EXCEPT ![u] = nvs.buffer]
      /\ nvs'.writer = NoSaver
      /\ UNCHANGED <<data, last_snapshot, torn>>
  BY DEF CommitBlob, NvsIdle
<1>3. NextUniverse(s).pc # "write"
  BY <1>1, NextUniverseType DEF TypeInv
<1>4. /\ \A d \in Savers : d # s => sv'[d] = sv[d] /\ Passed(d)' = Passed(d)
      /\ \A v \in Universes : Pending(v)' = Pending(v) \ {s}
  BY <1>2, <1>3, OtherSavers
<1>5. s \in Pending(u) /\ \A v \in Universes : v # u => s \notin Pending(v)
  BY <1>1 DEF Pending
<1>6. ASSUME u \notin torn
      PROVE  nvs.buffer = last_snapshot[u] /\ nvs.buffer # NoFrame
  <2>1. data[u] = last_snapshot[u]
    BY <1>5, <1>6 DEF SnapInv, StoreInv
  <2>2. \A ch \in Channels : nvs.buffer[ch] = data[u][ch]
    BY <1>1, <1>2, <1>6 DEF SnapInv, StoreInv, Channels
  <2>3. nvs.buffer \in Frame /\ data[u] \in Frame
    BY DEF TypeInv, TypeOK
  <2>4. nvs.buffer = data[u]
    BY <2>2, <2>3 DEF Frame
  <2>5. QED
    BY <2>1, <2>3, <2>4, FrameAssumption
<1>7. \A v \in Universes : flash'[v] = IF v = u THEN nvs.buffer ELSE flash[v]
  BY <1>2 DEF TypeInv, TypeOK
<1>8. SnapshotIsStored'
  BY <1>2, <1>4, <1>5, <1>6, <1>7 DEF SnapInv, SnapshotIsStored, Restored
<1>9. StoreInv'
  BY <1>2, <1>4 DEF SnapInv, StoreInv
<1>10. WalkInv'
  <2> SUFFICES ASSUME NEW d \in Savers, NEW v \in Passed(d)', v \notin changed'[d]
               PROVE  data'[v] = last_snapshot'[v]
    BY DEF WalkInv
  <2>1. CASE d # s
    <3>1. changed'[d] = changed[d]
      BY <2>1 DEF CommitBlob, TypeInv, TypeOK
    <3>2. QED
      BY <1>2, <1>4, <2>1, <3>1 DEF SnapInv, WalkInv
  <2>2. CASE d = s
    <3>1. v \in Passed(s) \cup {u} /\ NextUniverse(s).pc # "idle"
      BY <1>1, <1>2, <2>2, Advance
    <3>2. u \in Passed(s)
      BY <1>1, ListAssumption DEF Passed, Universes
    <3>3. changed'[s] = changed[s]
      BY <3>1 DEF CommitBlob, TypeInv, TypeOK
    <3>4. QED
      BY <1>2, <2>2, <3>1, <3>2, <3>3 DEF SnapInv, WalkInv
  <2>3. QED
    BY <2>1, <2>2
<1>11. QED
  BY <1>8, <1>9, <1>10 DEF SnapInv

LEMMA SaveSnap ==
    ASSUME TypeInv, SnapInv, NEW s \in Savers, Save(s)
    PROVE  SnapInv'
<1>1. ASSUME NEW w, sv' = [sv EXCEPT ![s] = w], w.pc # "write",
             sv[s].pc # "write", Passed(s)' = {},
             UNCHANGED <<data, last_snapshot, flash, nvs, torn>>,
             \A d \in Savers : d # s => changed'[d] = changed[d]
      PROVE  SnapInv'
  <2>1. /\ \A d \in Savers : d # s => sv'[d] = sv[d] /\ Passed(d)' = Passed(d)
        /\ \A v \in Universes : Pending(v)' = Pending(v) \ {s}
    BY <1>1, OtherSavers
  <2>2. \A v \in Universes : Pending(v)' = Pending(v)
    BY <1>1, <2>1 DEF Pending
  <2>3. nvs.writer # NoSaver => nvs.writer \in Savers /\ nvs.writer # s
    BY <1>1 DEF TypeInv, TypeOK
  <2>4. StoreInv' /\ SnapshotIsStored'
    BY <1>1, <2>1, <2>2, <2>3 DEF SnapInv, StoreInv, SnapshotIsStored, Restored
  <2>5. WalkInv'
    BY <1>1, <2>1 DEF SnapInv, WalkInv
  <2>6. QED
    BY <2>4, <2>5 DEF SnapInv
<1>2. ASSUME NEW job \in {"save", "clear", "reboot"}, StartJob(s, job)
      PROVE  SnapInv'
  <2> DEFINE w == [pc |-> Entry(job), job |-> job, universe |-> 1]
  <2>1. w.pc \in {"zero", "compare"} /\ w.universe = 1
    BY DEF Entry
  <2>2. sv' = [sv EXCEPT ![s] = w] /\ sv[s].pc # "write" /\ sv'[s] = w
    BY <1>2 DEF StartJob, TypeInv, TypeOK
  <2> HIDE DEF w
  <2>3. Passed(s)' = {}
    BY <2>1, <2>2, ListAssumption DEF Passed, Universes
  <2>4. /\ UNCHANGED <<data, last_snapshot, flash, nvs, torn>>
        /\ \A d \in Savers : d # s => changed'[d] = changed[d]
    BY <1>2 DEF StartJob, history
  <2>5. QED
    BY <1>1, <2>1, <2>2, <2>3, <2>4
<1>3. CASE ZeroUniverse(s)
  <2> PICK u \in Universes : u = sv[s].universe
    BY <1>3 DEF ZeroUniverse, TypeInv, CursorInv
  <2>1. sv' = [sv EXCEPT ![s].pc = "compare"] /\ sv[s].pc = "zero" /\ sv[s] \in Walks
    BY <1>3 DEF ZeroUniverse, TypeInv, TypeOK
  <2>2. sv'[s].pc = "compare" /\ sv'[s].universe = sv[s].universe
    BY <2>1, WalkFields DEF TypeInv, TypeOK
  <2>3. \A d \in Savers : d # s => sv'[d] = sv[d]
    BY <2>1 DEF TypeInv, TypeOK
  <2>4. /\ \A v \in Universes : Pending(v)' = Pending(v)
        /\ \A d \in Savers : Passed(d)' = Passed(d) /\ sv'[d].universe = sv[d].universe
    BY <2>1, <2>2, <2>3 DEF Pending, Passed
  <2>5. PICK new : new = Dark
    OBVIOUS
  <2>6. data' = [data EXCEPT ![u] = new] /\ NoteChange(u, new)
        /\ UNCHANGED <<last_snapshot, flash, nvs>>
    BY <1>3, <2>5 DEF ZeroUniverse
  <2>7. QED
    BY <2>4, <2>6, ChangeSnap
<1>4. CASE StoreStep(s)
  BY <1>4, SkipSnap, TakeSnap, CopySnap, CommitSnap DEF StoreStep
<1>5. CASE ForgetClients(s)
  <2>1. sv' = [sv EXCEPT ![s] = SvIdle] /\ sv[s].pc # "write" /\ sv'[s].pc = "idle"
        /\ SvIdle.pc # "write"
    BY <1>5 DEF ForgetClients, SvIdle, TypeInv, TypeOK
  <2>2. Passed(s)' = {}
    BY <2>1 DEF Passed
  <2>3. /\ UNCHANGED <<data, last_snapshot, flash, nvs, torn>>
        /\ \A d \in Savers : d # s => changed'[d] = changed[d]
    BY <1>5 DEF ForgetClients, TypeInv, TypeOK
  <2>4. QED
    BY <1>1, <2>1, <2>2, <2>3
<1>6. CASE Restart(s)
  BY <1>6, BootSnap DEF Restart
<1>7. QED
  BY <1>2, <1>3, <1>4, <1>5, <1>6 DEF Save

LEMMA SnapStep == TypeInv /\ SnapInv /\ [Next]_vars => SnapInv'
<1> SUFFICES ASSUME TypeInv, SnapInv, [Next]_vars PROVE SnapInv'
  OBVIOUS
<1>1. CASE UNCHANGED vars
  BY <1>1, QuietSnap DEF vars, history
<1>2. CASE PowerLoss
  BY <1>2, BootSnap DEF PowerLoss
<1>3. QED
  BY <1>1, <1>2, ReceiveSnap, SaveSnap DEF Next

LEMMA SnapInvariant == Spec => []SnapInv
  BY InitSnap, SnapStep, TypeInvariant, PTL DEF Spec

(* However many savers race for the NVS library, a universe that was left  *)
(* alone during its last store and has no store under way is in flash as   *)
(* last_snapshot has it: the comparison with last_snapshot that decides    *)
(* whether to store is then as good as one with flash.                     *)
THEOREM SnapshotCorrect == Spec => []SnapshotIsStored
  BY SnapInvariant, PTL DEF SnapInv

(* When a clear or a reboot request reaches the end of its walk, every     *)
(* universe nobody disturbed is in flash as it is in RAM.                  *)
THEOREM SavedCorrect == Spec => []SavedBeforeRestart
<1>1. SnapInv => SavedBeforeRestart
  <2> SUFFICES ASSUME SnapInv, NEW s \in Savers, NEW u \in Universes,
                      sv[s].pc \in {"forget", "restart"},
                      u \notin changed[s] \cup torn, Pending(u) = {}
               PROVE  Restored(u) = data[u]
    BY DEF SavedBeforeRestart
  <2>1. u \in Passed(s)
    BY DEF Passed
  <2>2. QED
    BY <2>1 DEF SnapInv, SnapshotIsStored, WalkInv
<1>2. QED
  BY <1>1, SnapInvariant, PTL
=============================================================================
