----------------------------- MODULE DmxProofs -----------------------------
(***************************************************************************)
(* The merge rule of DmxPipeline holds for any number of channels, any     *)
(* levels and any set of sources in use.                                   *)
(***************************************************************************)
EXTENDS DmxPipeline, TLAPS

(* Level d of a channel lies where the sources were during the pass.       *)
Between(d, ch) ==
    /\ \A s \in Sources : d >= lo[s][ch]
    /\ \E s \in Sources : d <= hi[s][ch]

(* What each source offers now is within its bounds.                       *)
OfferInv ==
    Reading => \A s \in Sources, ch \in Channels :
                  lo[s][ch] <= Offered(s)[ch] /\ Offered(s)[ch] <= hi[s][ch]

(* The loops over the channels stop in time.                               *)
CountInv ==
    /\ fx.pc = "copy" => fx.count < NumChannels
    /\ rc.pc = "copy" => rc.count = 0
    /\ rc.pc = "merge" => rc.count < NumChannels

(* Merged channels are settled; the others hold a level of the DMX input.  *)
PassInv ==
    /\ rc.pc = "merge" => \A ch \in Channels :
          /\ ch <= rc.count => Between(rc.data[ch], ch)
          /\ ch > rc.count => /\ lo["dmx_in"][ch] <= rc.data[ch]
                              /\ rc.data[ch] <= hi["dmx_in"][ch]
    /\ rc.pc = "publish" => \A ch \in Channels : Between(rc.data[ch], ch)
    /\ rc.pc \in {"leds", "sleep"} => \A ch \in Channels : Between(out_data[ch], ch)

(* The flags summarise the channels merged so far.                         *)
Flags(n, data) ==
    /\ rc.out_active <=> \E ch \in Channels : ch <= n /\ data[ch] # 0
    /\ (\E ch \in Channels : ch <= n /\ lo["artnet"][ch] # 0) => rc.artnet_active
    /\ rc.artnet_active => \E ch \in Channels : ch <= n /\ hi["artnet"][ch] # 0

FlagInv ==
    /\ rc.pc = "copy" => ~rc.out_active /\ ~rc.artnet_active
    /\ rc.pc = "merge" => Flags(rc.count, rc.data)
    /\ rc.pc = "publish" => Flags(NumChannels, rc.data)
    /\ rc.pc = "leds" => Flags(NumChannels, out_data)
    /\ LedsAgree
-----------------------------------------------------------------------------
(* The part of TypeOK that is not about the histories.                     *)
StateOK ==
    /\ in_data \in Frame /\ in_connected \in BOOLEAN /\ in_task \in {"wait", "flag"}
    /\ artnet \in Frame /\ control \in BOOLEAN /\ followed \in BOOLEAN
    /\ effects_data \in Frame
    /\ fx \in [pc : {"sleep", "copy"}, tick : Frame, count : 0..NumChannels]
    /\ rc \in [pc : {"sleep", "copy", "merge", "publish", "leds"}, data : Frame,
               count : 0..NumChannels, artnet_active : BOOLEAN, out_active : BOOLEAN]
    /\ out_data \in Frame /\ wire \in Frame
    /\ artnet_led \in BOOLEAN /\ out_led \in BOOLEAN
    /\ complete \in Frame

(* A frame has a natural number for each channel, and Dark is one.         *)
LEMMA FrameFacts ==
    /\ \A f \in Frame, ch \in Channels : f[ch] \in Levels /\ f[ch] \in Nat
    /\ Dark \in Frame
BY LevelAssumption DEF Frame, Dark

(* The larger of two levels is one of them.                                *)
LEMMA MaxFacts ==
    \A a, b \in Nat : /\ Max2(a, b) \in {a, b} /\ Max2(a, b) >= a /\ Max2(a, b) >= b
                      /\ Min2(a, b) \in {a, b} /\ Min2(a, b) <= a /\ Min2(a, b) <= b
BY DEF Max2, Min2

(* The frame after one more channel: that channel has the highest of the   *)
(* levels offered, and the others are as they were.                        *)
LEMMA HighestFacts ==
    ASSUME StateOK, NEW ch \in Channels
    PROVE  LET r == Highest(rc, ch)
               top == Max2(Max2(rc.data[ch], artnet[ch]), effects_data[ch])
           IN  /\ top \in Levels
               /\ r.data \in Frame
               /\ r.data[ch] = top
               /\ \A c \in Channels : c # ch => r.data[c] = rc.data[c]
               /\ r.pc = rc.pc /\ r.count = ch
               /\ r.artnet_active = (rc.artnet_active \/ artnet[ch] # 0)
               /\ r.out_active = (rc.out_active \/ top # 0)
               /\ r = [pc |-> rc.pc, data |-> r.data, count |-> ch,
                       artnet_active |-> r.artnet_active, out_active |-> r.out_active]
<1> DEFINE top == Max2(Max2(rc.data[ch], artnet[ch]), effects_data[ch])
           r == Highest(rc, ch)
<1>1. rc.data \in Frame /\ artnet \in Frame /\ effects_data \in Frame
  BY DEF StateOK
<1>2. /\ rc.data[ch] \in Levels /\ artnet[ch] \in Levels /\ effects_data[ch] \in Levels
      /\ rc.data[ch] \in Nat /\ artnet[ch] \in Nat /\ effects_data[ch] \in Nat
  BY <1>1, FrameFacts
<1>3. top \in Levels
  BY <1>2, MaxFacts
<1>4. r = [rc EXCEPT !.data[ch] = top, !.count = ch,
                     !.artnet_active = @ \/ artnet[ch] # 0,
                     !.out_active = @ \/ top # 0]
  BY DEF Highest
<1>5. r.data = [rc.data EXCEPT ![ch] = top] /\ r.pc = rc.pc /\ r.count = ch
  BY <1>4 DEF StateOK
<1>6. /\ r.artnet_active = (rc.artnet_active \/ artnet[ch] # 0)
      /\ r.out_active = (rc.out_active \/ top # 0)
  BY <1>4 DEF StateOK
<1>7. /\ r.data \in Frame /\ r.data[ch] = top
      /\ \A c \in Channels : c # ch => r.data[c] = rc.data[c]
  <2> HIDE DEF top, r
  <2> QED
    BY <1>1, <1>3, <1>5 DEF Frame
<1>8. r = [pc |-> rc.pc, data |-> r.data, count |-> ch,
           artnet_active |-> r.artnet_active, out_active |-> r.out_active]
  BY <1>4 DEF StateOK
<1> QED
  BY <1>3, <1>5, <1>6, <1>7, <1>8

-----------------------------------------------------------------------------
(* Every step keeps the types and the loop bounds of the five tasks.       *)
LEMMA StateStep ==
    ASSUME StateOK, CountInv, [Next]_vars
    PROVE  StateOK' /\ CountInv'
<1> USE ChannelAssumption DEF Channels
<1> USE DEF faders
<1>1. CASE UNCHANGED vars
  BY <1>1 DEF vars, input, history, StateOK, CountInv
<1>2. ASSUME NEW f \in Frame, SetArtnet(f)  PROVE StateOK' /\ CountInv'
  BY <1>2 DEF SetArtnet, input, StateOK, CountInv
<1>3. ASSUME NEW up \in BOOLEAN, SetControl(up)  PROVE StateOK' /\ CountInv'
  BY <1>3 DEF SetControl, input, StateOK, CountInv
<1>4. ASSUME NEW n \in 0..NumChannels, NEW f \in Frame, ReadPacket(n, f)
      PROVE  StateOK' /\ CountInv'
  BY <1>4 DEF ReadPacket, StateOK, CountInv, Frame
<1>5. CASE Connect \/ Timeout
  BY <1>5 DEF Connect, Timeout, StateOK, CountInv
<1>6. ASSUME NEW f \in Frame, Tick(f)  PROVE StateOK' /\ CountInv'
  <2>1. followed' = followed \/ followed' = (followed /\ ~control)
    BY <1>6 DEF Tick
  <2>2. followed \in BOOLEAN /\ followed' \in BOOLEAN
    BY <2>1 DEF StateOK
  <2>3. /\ UNCHANGED <<in_data, in_connected, in_task, artnet, control, effects_data, rc, out_data,
                      artnet_led, out_led, wire, complete>>
        /\ fx' = [pc |-> "copy", tick |-> f, count |-> 0]
    BY <1>6 DEF Tick, input
  <2> QED
    BY <1>6, <2>2, <2>3 DEF StateOK, CountInv
<1>7. CASE CopyTick
  <2> DEFINE ch == fx.count + 1
  <2>1. ch \in Channels /\ fx.count \in Nat
    BY <1>7 DEF CopyTick, StateOK, CountInv
  <2>2. fx.tick[ch] \in Levels
    BY <2>1, FrameFacts DEF StateOK
  <2>3. effects_data' \in Frame
    BY <1>7, <2>1, <2>2 DEF CopyTick, StateOK, Frame
  <2>4. fx = [pc |-> "copy", tick |-> fx.tick, count |-> fx.count]
    BY <1>7 DEF CopyTick, StateOK
  <2>5. fx' = [pc |-> IF ch = NumChannels THEN "sleep" ELSE "copy",
               tick |-> fx.tick, count |-> ch]
    BY <1>7, <2>4 DEF CopyTick
  <2>6. fx.tick \in Frame /\ complete' \in Frame
    BY <1>7 DEF CopyTick, StateOK
  <2>7. /\ fx' \in [pc : {"sleep", "copy"}, tick : Frame, count : 0..NumChannels]
        /\ fx'.pc = "copy" => fx'.count < NumChannels
    BY <2>1, <2>5, <2>6
  <2> QED
    BY <1>7, <2>3, <2>6, <2>7 DEF CopyTick, input, StateOK, CountInv
<1>8. CASE CheckInput
  <2>1. PICK p \in {"copy", "merge"} :
           rc' = [pc |-> p, data |-> Dark, count |-> 0,
                  artnet_active |-> FALSE, out_active |-> FALSE]
    BY <1>8, Zenon DEF CheckInput, StartPass
  <2>2. rc' \in [pc : {"sleep", "copy", "merge", "publish", "leds"}, data : Frame,
                 count : 0..NumChannels, artnet_active : BOOLEAN, out_active : BOOLEAN]
    <3> HIDE DEF Channels
    <3> QED
      BY <2>1, FrameFacts
  <2>3. rc'.count = 0 /\ rc'.count < NumChannels
    BY <2>1
  <2>4. UNCHANGED <<in_data, in_connected, in_task, artnet, faders, effects_data, fx,
                    out_data, artnet_led, out_led, wire, complete>>
    BY <1>8, Zenon DEF CheckInput, input
  <2>5. StateOK'
    BY <2>2, <2>4 DEF StateOK
  <2>6. fx' = fx
    BY <2>4
  <2>7. CountInv'
    BY <2>3, <2>6 DEF CountInv
  <2> QED
    BY <2>5, <2>7
<1>9. CASE CopyInput
  <2>1. rc' = [pc |-> "merge", data |-> in_data, count |-> 0,
               artnet_active |-> rc.artnet_active, out_active |-> rc.out_active]
    BY <1>9 DEF CopyInput, StateOK, CountInv
  <2>2. StateOK'
    BY <1>9, <2>1 DEF CopyInput, input, StateOK
  <2>3. CountInv'
    BY <1>9, <2>1 DEF CopyInput, CountInv
  <2> QED
    BY <2>2, <2>3
<1>10. CASE MergeChannel
  <2> DEFINE ch == rc.count + 1
             r == Highest(rc, ch)
  <2>1. ch \in Channels /\ rc.count \in Nat
    BY <1>10 DEF MergeChannel, StateOK, CountInv
  <2>2. /\ r = [pc |-> rc.pc, data |-> r.data, count |-> ch,
                artnet_active |-> r.artnet_active, out_active |-> r.out_active]
        /\ r.data \in Frame /\ r.artnet_active \in BOOLEAN /\ r.out_active \in BOOLEAN
    BY <2>1, HighestFacts DEF StateOK
  <2>3. rc' = [r EXCEPT !.pc = IF ch = NumChannels THEN "publish" ELSE @]
    BY <1>10 DEF MergeChannel
  <2>4. rc.pc = "merge"
    BY <1>10 DEF MergeChannel
  <2> HIDE DEF r
  <2>5. rc' = [pc |-> IF ch = NumChannels THEN "publish" ELSE "merge",
               data |-> r.data, count |-> ch,
               artnet_active |-> r.artnet_active, out_active |-> r.out_active]
    BY <2>2, <2>3, <2>4
  <2>6. /\ rc' \in [pc : {"sleep", "copy", "merge", "publish", "leds"}, data : Frame,
                    count : 0..NumChannels, artnet_active : BOOLEAN, out_active : BOOLEAN]
        /\ rc'.pc = "merge" => rc'.count < NumChannels
        /\ rc'.pc # "copy"
    BY <2>1, <2>2, <2>5
  <2> QED
    BY <1>10, <2>6 DEF MergeChannel, input, StateOK, CountInv
<1>11. CASE Publish \/ SetLeds
  BY <1>11 DEF Publish, SetLeds, input, StateOK, CountInv
<1>12. CASE Send
  BY <1>12 DEF Send, input, StateOK, CountInv
<1> QED
  BY <1>1, <1>2, <1>3, <1>4, <1>5, <1>6, <1>7, <1>8, <1>9, <1>10, <1>11, <1>12
  DEF Next, Environment, DmxReceive, Effects, Recalc
-----------------------------------------------------------------------------
HistoryOK ==
    /\ lo \in [Sources -> Frame] /\ hi \in [Sources -> Frame]
    /\ whole \in SUBSET Frame

(* How one step moves the bounds of a source.                              *)
Bounds(s, ch) ==
    /\ ~Reading /\ Reading' =>
          lo'[s][ch] = Offered(s)'[ch] /\ hi'[s][ch] = Offered(s)'[ch]
    /\ Reading =>
          /\ lo'[s][ch] <= lo[s][ch] /\ lo'[s][ch] <= Offered(s)'[ch]
          /\ hi'[s][ch] >= hi[s][ch] /\ hi'[s][ch] >= Offered(s)'[ch]
    /\ ~Reading /\ ~Reading' => lo'[s][ch] = lo[s][ch] /\ hi'[s][ch] = hi[s][ch]

(* The histories record what they are meant to.                            *)
LEMMA WatchStep ==
    ASSUME StateOK, StateOK', HistoryOK, OfferInv, [Next]_vars
    PROVE  /\ HistoryOK'
           /\ \A s \in Sources, ch \in Channels : Bounds(s, ch)
           /\ OfferInv'
<1>1. \A s \in Sources : Offered(s) \in Frame /\ Offered(s)' \in Frame
  BY FrameFacts DEF Offered, Sources, StateOK
<1>2. Completed' \subseteq Frame
  BY DEF Completed, StateOK
<1>3. CASE UNCHANGED vars
  <2>1. /\ lo' = lo /\ hi' = hi /\ whole' = whole /\ (Reading' <=> Reading)
        /\ \A s \in Sources : Offered(s)' = Offered(s)
    BY <1>3 DEF vars, input, history, Reading, Offered
  <2>2. \A s \in Sources, ch \in Channels :
           lo[s][ch] \in Nat /\ hi[s][ch] \in Nat
    BY FrameFacts DEF HistoryOK
  <2> QED
    BY <2>1, <2>2 DEF HistoryOK, Bounds, OfferInv
<1>4. CASE Watch
  <2> DEFINE fresh == ~Reading /\ Reading'
  <2>1. /\ lo' = [s \in Sources |-> [ch \in Channels |->
                    IF fresh THEN Offered(s)'[ch]
                    ELSE IF Reading THEN Min2(lo[s][ch], Offered(s)'[ch])
                    ELSE lo[s][ch]]]
        /\ hi' = [s \in Sources |-> [ch \in Channels |->
                    IF fresh THEN Offered(s)'[ch]
                    ELSE IF Reading THEN Max2(hi[s][ch], Offered(s)'[ch])
                    ELSE hi[s][ch]]]
        /\ whole' = IF fresh THEN Completed'
                    ELSE IF Reading THEN whole \cup Completed'
                    ELSE IF rc'.pc = "publish" THEN whole ELSE {}
    BY <1>4 DEF Watch
  <2>2. whole' \in SUBSET Frame
    BY <1>2, <2>1 DEF HistoryOK
  <2>3. ASSUME NEW s \in Sources, NEW ch \in Channels
        PROVE  /\ lo'[s][ch] \in Levels /\ hi'[s][ch] \in Levels
               /\ Bounds(s, ch)
    <3> DEFINE now == Offered(s)'[ch]
    <3>1. /\ now \in Levels /\ now \in Nat
          /\ lo[s][ch] \in Levels /\ lo[s][ch] \in Nat
          /\ hi[s][ch] \in Levels /\ hi[s][ch] \in Nat
      BY <1>1, FrameFacts DEF HistoryOK
    <3>2. /\ lo'[s][ch] = IF fresh THEN now
                          ELSE IF Reading THEN Min2(lo[s][ch], now) ELSE lo[s][ch]
          /\ hi'[s][ch] = IF fresh THEN now
                          ELSE IF Reading THEN Max2(hi[s][ch], now) ELSE hi[s][ch]
      BY <2>1
    <3> HIDE DEF now
    <3>3. /\ Min2(lo[s][ch], now) \in {lo[s][ch], now}
          /\ Min2(lo[s][ch], now) <= lo[s][ch] /\ Min2(lo[s][ch], now) <= now
          /\ Max2(hi[s][ch], now) \in {hi[s][ch], now}
          /\ Max2(hi[s][ch], now) >= hi[s][ch] /\ Max2(hi[s][ch], now) >= now
      BY <3>1, MaxFacts
    <3>4. lo'[s][ch] \in Levels /\ hi'[s][ch] \in Levels
      BY <3>1, <3>2, <3>3
    <3>5. Bounds(s, ch)
      BY <3>2, <3>3 DEF Bounds, now
    <3> QED
      BY <3>4, <3>5
  <2>4. lo' \in [Sources -> Frame] /\ hi' \in [Sources -> Frame]
    BY <2>1, <2>3 DEF Frame
  <2>5. OfferInv'
    <3>1. ASSUME Reading', NEW s \in Sources, NEW ch \in Channels
          PROVE  lo'[s][ch] <= Offered(s)'[ch] /\ Offered(s)'[ch] <= hi'[s][ch]
      <4>1. Offered(s)'[ch] \in Nat /\ hi'[s][ch] \in Nat
        BY <1>1, <2>4, FrameFacts
      <4> QED
        BY <2>3, <3>1, <4>1 DEF Bounds
    <3> QED
      BY <3>1 DEF OfferInv
  <2> QED
    BY <2>2, <2>3, <2>4, <2>5 DEF HistoryOK
<1> QED
  BY <1>3, <1>4 DEF Next
-----------------------------------------------------------------------------
(* What the steps outside of the recalc task leave alone.                  *)
LEMMA OtherSteps ==
    ASSUME [Next]_vars
    PROVE  \/ Recalc
           \/ UNCHANGED <<rc, out_data, artnet_led, out_led>>
BY DEF Next, Environment, DmxReceive, Effects, SetArtnet, SetControl, ReadPacket, Connect,
       Timeout, Tick, CopyTick, Send, vars

(* A level that lies between the bounds goes on doing so.                  *)
LEMMA BetweenStep ==
    ASSUME HistoryOK, HistoryOK', NEW ch \in Channels, NEW d \in Nat, Between(d, ch),
           \A s \in Sources : Bounds(s, ch),
           Reading \/ ~Reading'
    PROVE  Between(d, ch)'
<1>1. \A s \in Sources : /\ lo[s][ch] \in Nat /\ hi[s][ch] \in Nat
                         /\ lo'[s][ch] \in Nat /\ hi'[s][ch] \in Nat
  BY FrameFacts DEF HistoryOK
<1>2. \A s \in Sources : lo'[s][ch] <= lo[s][ch] /\ hi'[s][ch] >= hi[s][ch]
  BY <1>1 DEF Bounds
<1> QED
  BY <1>1, <1>2 DEF Between

(* The merge of one channel, in terms of the sources.                      *)
LEMMA MergeFacts ==
    ASSUME StateOK, CountInv, HistoryOK, OfferInv, PassInv, MergeChannel
    PROVE  LET ch == rc.count + 1
               top == Max2(Max2(rc.data[ch], artnet[ch]), effects_data[ch])
           IN  /\ ch \in Channels
               /\ top \in Nat /\ Between(top, ch)
               /\ top >= artnet[ch]
               /\ rc'.pc = IF ch = NumChannels THEN "publish" ELSE "merge"
               /\ rc'.count = ch
               /\ rc'.data \in Frame
               /\ rc'.data[ch] = top
               /\ \A c \in Channels : c # ch => rc'.data[c] = rc.data[c]
               /\ rc'.artnet_active = (rc.artnet_active \/ artnet[ch] # 0)
               /\ rc'.out_active = (rc.out_active \/ top # 0)
<1> DEFINE ch == rc.count + 1
           top == Max2(Max2(rc.data[ch], artnet[ch]), effects_data[ch])
           r == Highest(rc, ch)
<1>1. rc.pc = "merge" /\ rc.count \in Nat /\ ch \in Channels
  BY ChannelAssumption DEF MergeChannel, StateOK, CountInv, Channels
<1>2. /\ r = [pc |-> rc.pc, data |-> r.data, count |-> ch,
              artnet_active |-> r.artnet_active, out_active |-> r.out_active]
      /\ top \in Levels /\ r.data \in Frame /\ r.data[ch] = top
      /\ \A c \in Channels : c # ch => r.data[c] = rc.data[c]
      /\ r.artnet_active = (rc.artnet_active \/ artnet[ch] # 0)
      /\ r.out_active = (rc.out_active \/ top # 0)
  BY <1>1, HighestFacts
<1>3. rc' = [r EXCEPT !.pc = IF ch = NumChannels THEN "publish" ELSE @]
  BY DEF MergeChannel
<1>4. rc' = [pc |-> IF ch = NumChannels THEN "publish" ELSE "merge",
             data |-> r.data, count |-> ch,
             artnet_active |-> r.artnet_active, out_active |-> r.out_active]
  <2> HIDE DEF r
  <2> QED
    BY <1>1, <1>2, <1>3
<1>5. /\ rc.data[ch] \in Nat /\ artnet[ch] \in Nat /\ effects_data[ch] \in Nat
      /\ \A s \in Sources : lo[s][ch] \in Nat /\ hi[s][ch] \in Nat
  BY <1>1, FrameFacts DEF StateOK, HistoryOK
<1>6. /\ lo["dmx_in"][ch] <= rc.data[ch] /\ rc.data[ch] <= hi["dmx_in"][ch]
      /\ lo["artnet"][ch] <= artnet[ch] /\ artnet[ch] <= hi["artnet"][ch]
      /\ lo["effects"][ch] <= effects_data[ch] /\ effects_data[ch] <= hi["effects"][ch]
  <2>1. /\ lo["dmx_in"][ch] <= rc.data[ch] /\ rc.data[ch] <= hi["dmx_in"][ch]
    BY <1>1 DEF PassInv
  <2>2. Offered("artnet") = artnet /\ Offered("effects") = effects_data
    BY DEF Offered
  <2> QED
    BY <1>1, <2>1, <2>2 DEF OfferInv, Reading, Sources
<1>7. /\ top \in {rc.data[ch], artnet[ch], effects_data[ch]}
      /\ top >= rc.data[ch] /\ top >= artnet[ch] /\ top >= effects_data[ch]
  BY <1>5, MaxFacts
<1>8. top \in Nat /\ Between(top, ch)
  <2> HIDE DEF top, ch
  <2> QED
    BY <1>5, <1>6, <1>7 DEF Between, Sources
<1> HIDE DEF r, top
<1> QED
  BY <1>1, <1>2, <1>4, <1>7, <1>8 DEF top
-----------------------------------------------------------------------------
(* Every step keeps the merge rule.                                        *)
LEMMA PassStep ==
    ASSUME StateOK, StateOK', CountInv, HistoryOK, HistoryOK', OfferInv, PassInv,
           \A s \in Sources, ch \in Channels : Bounds(s, ch), [Next]_vars
    PROVE  PassInv'
<1>1. /\ \A ch \in Channels : rc.data[ch] \in Nat /\ out_data[ch] \in Nat
      /\ \A s \in Sources, ch \in Channels :
            /\ lo[s][ch] \in Nat /\ hi[s][ch] \in Nat
            /\ lo'[s][ch] \in Nat /\ hi'[s][ch] \in Nat
      /\ "dmx_in" \in Sources
  BY FrameFacts DEF StateOK, HistoryOK, Sources
<1>2. CASE UNCHANGED <<rc, out_data>>
  <2>1. Reading' <=> Reading
    BY <1>2 DEF Reading
  <2>2. \A ch \in Channels :
           /\ Between(rc.data[ch], ch) => Between(rc.data[ch], ch)'
           /\ Between(out_data[ch], ch) => Between(out_data[ch], ch)'
    <3>1. ASSUME NEW ch \in Channels, NEW d \in Nat, Between(d, ch)
          PROVE  Between(d, ch)'
      BY <2>1, <3>1, BetweenStep
    <3> QED
      BY <1>1, <1>2, <3>1 DEF Between
  <2>3. rc.pc = "merge" => \A ch \in Channels :
           ch > rc.count => /\ lo'["dmx_in"][ch] <= rc.data[ch]
                            /\ rc.data[ch] <= hi'["dmx_in"][ch]
    BY <1>1 DEF PassInv, Bounds, Reading
  <2> QED
    BY <1>2, <2>2, <2>3 DEF PassInv
<1>3. CASE CheckInput
  <2>1. PICK p \in {"copy", "merge"} :
           rc' = [pc |-> p, data |-> Dark, count |-> 0,
                  artnet_active |-> FALSE, out_active |-> FALSE]
    BY <1>3, Zenon DEF CheckInput, StartPass
  <2>2. rc.pc = "sleep" /\ (p = "merge" => ~in_connected) /\ in_connected' = in_connected
    <3>1. /\ rc.pc = "sleep" /\ in_connected' = in_connected
          /\ rc' = StartPass(IF in_connected THEN "copy" ELSE "merge")
      BY <1>3, Zenon DEF CheckInput, input
    <3>2. rc'.pc = IF in_connected THEN "copy" ELSE "merge"
      BY <3>1 DEF StartPass
    <3>3. rc'.pc = p
      BY <2>1
    <3> QED
      BY <3>1, <3>2, <3>3
  <2>3. CASE p = "copy"
    BY <2>1, <2>3 DEF PassInv
  <2>4. CASE p = "merge"
    <3>1. Offered("dmx_in")' = Dark
      BY <2>1, <2>2, <2>4 DEF Offered
    <3>2. \A ch \in Channels : lo'["dmx_in"][ch] = 0 /\ hi'["dmx_in"][ch] = 0
      BY <1>1, <2>1, <2>2, <2>4, <3>1 DEF Bounds, Reading, Dark
    <3>3. rc'.pc = "merge" /\ rc'.count = 0 /\ \A ch \in Channels : rc'.data[ch] = 0
      BY <2>1, <2>4 DEF Dark
    <3>4. \A ch \in Channels : ~(ch <= 0)
      BY DEF Channels
    <3> QED
      BY <3>2, <3>3, <3>4 DEF PassInv
  <2> QED
    BY <2>3, <2>4
<1>4. CASE CopyInput
  <2>1. rc.pc = "copy" /\ rc.count = 0
    BY <1>4 DEF CopyInput, CountInv
  <2>2. rc' = [pc |-> "merge", data |-> in_data, count |-> 0,
               artnet_active |-> rc.artnet_active, out_active |-> rc.out_active]
    BY <1>4, <2>1 DEF CopyInput, StateOK
  <2>3. Offered("dmx_in") = in_data
    BY <2>1 DEF Offered
  <2>4. \A ch \in Channels : /\ in_data[ch] \in Nat
                             /\ lo["dmx_in"][ch] <= in_data[ch]
                             /\ in_data[ch] <= hi["dmx_in"][ch]
                             /\ lo'["dmx_in"][ch] <= lo["dmx_in"][ch]
                             /\ hi'["dmx_in"][ch] >= hi["dmx_in"][ch]
    BY <1>1, <2>1, <2>3, FrameFacts DEF OfferInv, Reading, Bounds, StateOK
  <2>5. \A ch \in Channels : ~(ch <= 0)
    BY DEF Channels
  <2> QED
    BY <1>1, <2>2, <2>4, <2>5 DEF PassInv
<1>5. CASE MergeChannel
  <2> DEFINE ch == rc.count + 1
             top == Max2(Max2(rc.data[ch], artnet[ch]), effects_data[ch])
  <2>1. /\ ch \in Channels /\ top \in Nat /\ Between(top, ch)
        /\ rc'.pc = (IF ch = NumChannels THEN "publish" ELSE "merge")
        /\ rc'.count = ch
        /\ rc'.data[ch] = top
        /\ \A c \in Channels : c # ch => rc'.data[c] = rc.data[c]
    BY <1>5, MergeFacts
  <2>2. rc.pc = "merge" /\ rc.count \in Nat
    BY <1>5 DEF MergeChannel, StateOK
  <2> HIDE DEF top
  <2>3. ASSUME NEW c \in Channels, c <= ch
        PROVE  Between(rc.data[c], c)'
    <3>1. rc'.data[c] \in Nat /\ Between(rc'.data[c], c)
      <4>1. CASE c = ch
        BY <2>1, <4>1
      <4>2. CASE c # ch
        BY <1>1, <2>1, <2>2, <2>3, <4>2 DEF PassInv, Channels
      <4> QED
        BY <4>1, <4>2
    <3>2. ASSUME NEW d \in Nat, Between(d, c)  PROVE Between(d, c)'
      BY <2>2, <3>2, BetweenStep DEF Reading
    <3> QED
      BY <3>1, <3>2 DEF Between
  <2>4. ASSUME NEW c \in Channels, c > ch
        PROVE  /\ lo'["dmx_in"][c] <= rc'.data[c]
               /\ rc'.data[c] <= hi'["dmx_in"][c]
    <3>1. /\ lo["dmx_in"][c] <= rc.data[c] /\ rc.data[c] <= hi["dmx_in"][c]
          /\ rc'.data[c] = rc.data[c]
      BY <2>1, <2>2, <2>4 DEF PassInv, Channels
    <3> QED
      BY <1>1, <2>2, <3>1 DEF Bounds, Reading
  <2>5. ch = NumChannels => \A c \in Channels : c <= ch
    BY DEF Channels
  <2> HIDE DEF ch
  <2> QED
    BY <2>1, <2>3, <2>4, <2>5 DEF PassInv
<1>6. CASE Publish
  <2>1. /\ rc.pc = "publish" /\ out_data' = rc.data /\ rc'.pc = "leds"
    BY <1>6 DEF Publish, StateOK
  <2>2. ASSUME NEW ch \in Channels  PROVE Between(out_data[ch], ch)'
    <3>1. ASSUME NEW d \in Nat, Between(d, ch)  PROVE Between(d, ch)'
      BY <2>1, <3>1, BetweenStep DEF Reading
    <3> QED
      BY <1>1, <2>1, <3>1 DEF PassInv, Between
  <2> QED
    BY <2>1, <2>2 DEF PassInv
<1>7. CASE SetLeds
  <2>1. /\ rc.pc = "leds" /\ out_data' = out_data /\ rc'.pc = "sleep"
    BY <1>7 DEF SetLeds, StateOK
  <2>2. ASSUME NEW ch \in Channels  PROVE Between(out_data[ch], ch)'
    <3>1. ASSUME NEW d \in Nat, Between(d, ch)  PROVE Between(d, ch)'
      BY <2>1, <3>1, BetweenStep DEF Reading
    <3> QED
      BY <1>1, <2>1, <3>1 DEF PassInv, Between
  <2> QED
    BY <2>1, <2>2 DEF PassInv
<1> QED
  BY <1>2, <1>3, <1>4, <1>5, <1>6, <1>7, OtherSteps DEF Recalc
-----------------------------------------------------------------------------
(* A frame is dark exactly when all of its channels are off.               *)
LEMMA DarkFacts ==
    \A f \in Frame : f # Dark <=> \E ch \in Channels : f[ch] # 0
<1>1. ASSUME NEW f \in Frame, \A ch \in Channels : f[ch] = 0  PROVE f = Dark
  BY <1>1 DEF Frame, Dark
<1>2. \A ch \in Channels : Dark[ch] = 0
  BY DEF Dark
<1> QED
  BY <1>1, <1>2

(* The LEDs, channel by channel.                                           *)
LEMMA LedFacts ==
    ASSUME StateOK, HistoryOK
    PROVE  LedsAgree <=> (rc.pc = "sleep" =>
               /\ out_led <=> \E ch \in Channels : out_data[ch] # 0
               /\ (\E ch \in Channels : lo["artnet"][ch] # 0) => artnet_led
               /\ artnet_led => \E ch \in Channels : hi["artnet"][ch] # 0)
BY DarkFacts DEF LedsAgree, StateOK, HistoryOK, Sources

(* Every step keeps the activity flags and the LEDs right.                 *)
LEMMA FlagStep ==
    ASSUME StateOK, StateOK', CountInv, HistoryOK, HistoryOK', OfferInv, PassInv,
           FlagInv, \A s \in Sources, ch \in Channels : Bounds(s, ch), [Next]_vars
    PROVE  FlagInv'
<1>1. /\ \A s \in Sources, ch \in Channels :
            /\ lo[s][ch] \in Nat /\ hi[s][ch] \in Nat
            /\ lo'[s][ch] \in Nat /\ hi'[s][ch] \in Nat
      /\ "artnet" \in Sources
      /\ rc.artnet_active \in BOOLEAN /\ rc.out_active \in BOOLEAN
  BY FrameFacts DEF StateOK, HistoryOK, Sources
<1>2. Reading \/ ~Reading' =>
         \A ch \in Channels : /\ lo'["artnet"][ch] # 0 => lo["artnet"][ch] # 0
                              /\ hi["artnet"][ch] # 0 => hi'["artnet"][ch] # 0
  BY <1>1 DEF Bounds
<1>3. LedsAgree' <=> (rc'.pc = "sleep" =>
               /\ out_led' <=> \E ch \in Channels : out_data'[ch] # 0
               /\ (\E ch \in Channels : lo'["artnet"][ch] # 0) => artnet_led'
               /\ artnet_led' => \E ch \in Channels : hi'["artnet"][ch] # 0)
  BY DarkFacts DEF LedsAgree, StateOK, HistoryOK, Sources
<1>4. CASE UNCHANGED <<rc, out_data, artnet_led, out_led>>
  <2>1. Reading' <=> Reading
    BY <1>4 DEF Reading
  <2>2. LedsAgree'
    BY <1>2, <1>3, <1>4, <2>1, LedFacts DEF FlagInv
  <2>3. \A n \in 0..NumChannels :
           /\ Flags(n, rc.data) => Flags(n, rc.data)'
           /\ Flags(n, out_data) => Flags(n, out_data)'
    BY <1>2, <1>4, <2>1 DEF Flags
  <2>4. rc.count \in 0..NumChannels /\ NumChannels \in 0..NumChannels
    BY ChannelAssumption DEF StateOK
  <2> QED
    BY <1>4, <2>2, <2>3, <2>4 DEF FlagInv
<1>5. CASE CheckInput
  <2>1. PICK p \in {"copy", "merge"} :
           rc' = [pc |-> p, data |-> Dark, count |-> 0,
                  artnet_active |-> FALSE, out_active |-> FALSE]
    BY <1>5, Zenon DEF CheckInput, StartPass
  <2>2. /\ rc'.pc \in {"copy", "merge"} /\ rc'.count = 0
        /\ ~rc'.artnet_active /\ ~rc'.out_active
    BY <2>1
  <2>3. \A ch \in Channels : ~(ch <= 0)
    BY DEF Channels
  <2> QED
    BY <1>3, <2>2, <2>3 DEF FlagInv, Flags
<1>6. CASE CopyInput
  <2>1. rc.pc = "copy" /\ rc.count = 0
    BY <1>6 DEF CopyInput, CountInv
  <2>2. rc' = [pc |-> "merge", data |-> in_data, count |-> 0,
               artnet_active |-> rc.artnet_active, out_active |-> rc.out_active]
    BY <1>6, <2>1 DEF CopyInput, StateOK
  <2>3. ~rc.artnet_active /\ ~rc.out_active
    BY <2>1 DEF FlagInv
  <2>4. /\ rc'.pc = "merge" /\ rc'.count = 0
        /\ ~rc'.artnet_active /\ ~rc'.out_active
    BY <2>2, <2>3
  <2>5. \A ch \in Channels : ~(ch <= 0)
    BY DEF Channels
  <2> QED
    BY <1>3, <2>4, <2>5 DEF FlagInv, Flags
<1>7. CASE MergeChannel
  <2> DEFINE ch == rc.count + 1
             top == Max2(Max2(rc.data[ch], artnet[ch]), effects_data[ch])
  <2>1. /\ ch \in Channels /\ top \in Nat
        /\ top >= artnet[ch]
        /\ rc'.pc = (IF ch = NumChannels THEN "publish" ELSE "merge")
        /\ rc'.count = ch
        /\ rc'.data[ch] = top
        /\ \A c \in Channels : c # ch => rc'.data[c] = rc.data[c]
        /\ rc'.artnet_active = (rc.artnet_active \/ artnet[ch] # 0)
        /\ rc'.out_active = (rc.out_active \/ top # 0)
    BY <1>7, MergeFacts
  <2>2. rc.pc = "merge" /\ rc.count \in Nat
    BY <1>7 DEF MergeChannel, StateOK
  <2>3. Flags(rc.count, rc.data)
    BY <2>2 DEF FlagInv
  <2>4. \A c \in Channels : c <= ch <=> c <= rc.count \/ c = ch
    BY <2>1, <2>2 DEF Channels
  <2>5. /\ artnet[ch] \in Nat
        /\ lo["artnet"][ch] <= artnet[ch] /\ artnet[ch] <= hi["artnet"][ch]
    BY <1>1, <2>1, <2>2, FrameFacts DEF OfferInv, Offered, Reading, StateOK
  <2>6. /\ lo["artnet"][ch] # 0 => artnet[ch] # 0
        /\ artnet[ch] # 0 => hi["artnet"][ch] # 0
    BY <1>1, <2>1, <2>5
  <2>7. \A c \in Channels : /\ lo'["artnet"][c] # 0 => lo["artnet"][c] # 0
                            /\ hi["artnet"][c] # 0 => hi'["artnet"][c] # 0
    BY <1>2, <2>2 DEF Reading
  <2>8. rc.count # ch
    BY <2>2
  <2>9. \A c \in Channels : c <= rc.count => rc'.data[c] = rc.data[c]
    BY <2>1, <2>2 DEF Channels
  <2> HIDE DEF top, ch
  <2>10. rc'.out_active <=> \E c \in Channels : c <= ch /\ rc'.data[c] # 0
    BY <1>1, <2>1, <2>3, <2>4, <2>9 DEF Flags
  <2>11. (\E c \in Channels : c <= ch /\ lo'["artnet"][c] # 0) => rc'.artnet_active
    BY <1>1, <2>1, <2>3, <2>4, <2>6, <2>7 DEF Flags
  <2>12. rc'.artnet_active => \E c \in Channels : c <= ch /\ hi'["artnet"][c] # 0
    BY <1>1, <2>1, <2>3, <2>4, <2>6, <2>7 DEF Flags
  <2>13. Flags(rc.count, rc.data)'
    BY <2>1, <2>10, <2>11, <2>12 DEF Flags
  <2>14. rc'.pc = "publish" => rc'.count = NumChannels
    BY <2>1
  <2> QED
    BY <1>3, <2>1, <2>13, <2>14 DEF FlagInv
<1>8. CASE Publish
  <2>1. /\ rc.pc = "publish" /\ out_data' = rc.data /\ rc'.pc = "leds"
        /\ rc'.artnet_active = rc.artnet_active /\ rc'.out_active = rc.out_active
    BY <1>8 DEF Publish, StateOK
  <2>2. Flags(NumChannels, out_data)'
    BY <1>2, <2>1 DEF FlagInv, Flags, Reading
  <2> QED
    BY <1>3, <2>1, <2>2 DEF FlagInv
<1>9. CASE SetLeds
  <2>1. /\ rc.pc = "leds" /\ out_data' = out_data /\ rc'.pc = "sleep"
        /\ artnet_led' = rc.artnet_active /\ out_led' = rc.out_active
    BY <1>9 DEF SetLeds, StateOK
  <2>2. \A ch \in Channels : ch <= NumChannels
    BY DEF Channels
  <2>3. LedsAgree'
    BY <1>2, <1>3, <2>1, <2>2 DEF FlagInv, Flags, Reading
  <2> QED
    BY <2>1, <2>3 DEF FlagInv
<1> QED
  BY <1>4, <1>5, <1>6, <1>7, <1>8, <1>9, OtherSteps DEF Recalc
-----------------------------------------------------------------------------
(* The inductive invariant.                                                *)
PipelineInv ==
    /\ StateOK /\ HistoryOK /\ CountInv
    /\ OfferInv /\ PassInv /\ FlagInv

LEMMA PipelineInvariant == Spec => []PipelineInv
<1>1. Init => PipelineInv
  <2> SUFFICES ASSUME Init PROVE PipelineInv
    OBVIOUS
  <2>1. StateOK /\ HistoryOK
    <3>1. Dark \in Frame /\ 0 \in 0..NumChannels
      BY FrameFacts, ChannelAssumption
    <3>2. fx \in [pc : {"sleep", "copy"}, tick : Frame, count : 0..NumChannels]
      BY <3>1 DEF Init
    <3>3. rc \in [pc : {"sleep", "copy", "merge", "publish", "leds"}, data : Frame,
                  count : 0..NumChannels, artnet_active : BOOLEAN, out_active : BOOLEAN]
      BY <3>1 DEF Init
    <3>4. HistoryOK
      BY <3>1 DEF Init, HistoryOK
    <3> QED
      BY <3>1, <3>2, <3>3, <3>4 DEF Init, StateOK
  <2>2. CountInv /\ OfferInv
    BY DEF Init, CountInv, OfferInv, Reading
  <2>3. /\ rc.pc = "sleep" /\ out_led = FALSE /\ artnet_led = FALSE
        /\ \A ch \in Channels : out_data[ch] = 0
        /\ \A s \in Sources, ch \in Channels : lo[s][ch] = 0 /\ hi[s][ch] = 0
    BY DEF Init, Dark
  <2>4. PassInv
    BY <2>3 DEF PassInv, Between, Sources
  <2>5. FlagInv
    BY <2>1, <2>3, LedFacts DEF FlagInv, Sources
  <2> QED
    BY <2>1, <2>2, <2>4, <2>5 DEF PipelineInv
<1>2. PipelineInv /\ [Next]_vars => PipelineInv'
  <2> SUFFICES ASSUME PipelineInv, [Next]_vars PROVE PipelineInv'
    OBVIOUS
  <2> USE DEF PipelineInv
  <2>1. StateOK' /\ CountInv'
    BY StateStep
  <2>2. /\ HistoryOK' /\ OfferInv'
        /\ \A s \in Sources, ch \in Channels : Bounds(s, ch)
    BY <2>1, WatchStep
  <2>3. PassInv'
    BY <2>1, <2>2, PassStep
  <2>4. FlagInv'
    BY <2>1, <2>2, FlagStep
  <2> QED
    BY <2>1, <2>2, <2>3, <2>4
<1> QED
  BY <1>1, <1>2, PTL DEF Spec

(* The five tasks keep their data within range: frames stay frames, and no *)
(* loop over the channels runs past DMX_CHANNEL_COUNT.                     *)
THEOREM PipelineTypes == Spec => []TypeOK
<1>1. PipelineInv => TypeOK
  BY DEF PipelineInv, StateOK, HistoryOK, TypeOK
<1> QED
  BY <1>1, PipelineInvariant, PTL

(* Highest takes precedence, for any number of channels and levels: the    *)
(* recalc task publishes on each channel a level at least as high as every *)
(* source held throughout its pass, and one that some source reached.      *)
THEOREM MergeIsHighest == Spec => []HighestTakesPrecedence
<1>1. PipelineInv => HighestTakesPrecedence
  BY DEF PipelineInv, PassInv, Between, HighestTakesPrecedence
<1> QED
  BY <1>1, PipelineInvariant, PTL

(* After each pass of the recalc task the LEDs tell what went into it and  *)
(* what came out.                                                          *)
THEOREM LedsCorrect == Spec => []LedsAgree
<1>1. PipelineInv => LedsAgree
  BY DEF PipelineInv, FlagInv
<1> QED
  BY <1>1, PipelineInvariant, PTL
=============================================================================
