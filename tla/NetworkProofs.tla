--------------------------- MODULE NetworkProofs ---------------------------
(***************************************************************************)
(* The settings are complete, the station is never left without a next     *)
(* attempt, the bits tell the truth and no descriptor is lost: for any     *)
(* requests, addresses, retries and lengths of the event queue.            *)
(***************************************************************************)
EXTENDS DmxBoxNetwork, FiniteSetTheorems, TLAPS

Present(k) == flash[k] # "absent"

(* The flag of the first run is the last thing written, and before it is   *)
(* station mode is off.                                                    *)
FirstRunInv ==
    /\ Present("first_init") => \A k \in Keys : Present(k)
    /\ ~Present("first_init") => flash["sta_mode"] # "on"
    /\ Serving => Present("first_init")
    /\ boot.at = "defaults" => ~Present("first_init") /\ \A n \in 1..boot.n : Present(Defaults[n])
    /\ boot.at # "defaults" => boot.n = 0

(* Only a box that serves has requests, and one that turns the station on  *)
(* finds a network some client sent or is to store its own first.          *)
NetworkSent == flash["network"] \in Networks

RequestInv ==
    /\ http.todo # <<>> => Serving
    /\ http.on => \A n \in DOMAIN http.todo : http.todo[n] = "sta_mode" =>
                     NetworkSent \/ \E m \in 1..(n - 1) : http.todo[m] \in Networks

(* enabled is what is stored, from the time it is read.                    *)
EnabledInv == boot.at \in {"wifi", "defaults", "serve"} => (enabled <=> flash["sta_mode"] = "on")

HttpType == http \in [todo : Seq(Steps), on : BOOLEAN]

SettingsInv ==
    /\ SettingsType /\ HttpType
    /\ FirstRunInv /\ RequestInv /\ EnabledInv /\ EnabledHasNetwork
-----------------------------------------------------------------------------
LEMMA DefaultsFacts ==
    /\ Len(Defaults) = 7
    /\ \A n \in 1..7 : Defaults[n] \in Keys
    /\ \A n \in 1..6 : Defaults[n] # "first_init"
    /\ Defaults[7] = "first_init" /\ Defaults[1] = "ap" /\ Defaults[2] = "network"
    /\ Defaults[3] = "sta_mode"
    /\ \A k \in Keys : \E n \in 1..7 : Defaults[n] = k
    /\ \A k \in Keys : Default(k) \in Values \ {"absent", "on", "named"}
<1>1. /\ Defaults[1] = "ap" /\ Defaults[2] = "network" /\ Defaults[3] = "sta_mode"
      /\ Defaults[4] = "hostname" /\ Defaults[5] = "native_uni" /\ Defaults[6] = "effect_uni"
      /\ Defaults[7] = "first_init" /\ Len(Defaults) = 7
  BY DEF Defaults
<1>2. \A n \in 1..7 : n \in {1, 2, 3, 4, 5, 6, 7}
  OBVIOUS
<1>3. \A n \in 1..6 : n \in {1, 2, 3, 4, 5, 6}
  OBVIOUS
<1>4. \A n \in 1..7 : Defaults[n] \in Keys
  BY <1>1, <1>2 DEF Keys
<1>5. \A n \in 1..6 : Defaults[n] # "first_init"
  BY <1>1, <1>3
<1>6. ASSUME NEW k \in Keys PROVE \E n \in 1..7 : Defaults[n] = k
  <2>1. {1, 2, 3, 4, 5, 6, 7} \subseteq 1..7
    OBVIOUS
  <2> QED
    BY <1>1, <2>1 DEF Keys
<1>7. ASSUME NEW k \in Keys PROVE Default(k) \in Values \ {"absent", "on", "named"}
  BY DEF Default, Keys, Values
<1> QED
  BY <1>1, <1>4, <1>5, <1>6, <1>7

LEMMA DefaultsLast == 0..(Len(Defaults) - 1) = 0..6 /\ 0 \in 0..(Len(Defaults) - 1)
<1>1. Len(Defaults) - 1 = 6 /\ 0 \in 0..6
  BY DefaultsFacts
<1> QED
  BY <1>1

(* Lists of as many steps as a request has.                                *)
LEMMA Lists ==
    ASSUME NEW S, NEW a \in S, NEW b \in S, NEW c \in S, NEW d \in S, NEW e \in S,
           NEW f \in S, NEW g \in S, NEW h \in S, NEW i \in S, NEW j \in S
    PROVE  /\ <<a, b>> \in Seq(S) /\ <<a, b, c>> \in Seq(S) /\ <<a, b, c, d, e, f>> \in Seq(S)
           /\ <<a, b, c, d, e, f, g, h, i, j>> \in Seq(S)
OBVIOUS

LEMMA RequestFacts ==
    \A kind \in Kinds, on \in BOOLEAN, network \in Networks :
        /\ Request(kind, on, network) \in Seq(Steps) /\ Request(kind, on, network) # <<>>
        /\ \A n \in DOMAIN Request(kind, on, network) :
              on /\ Request(kind, on, network)[n] = "sta_mode" =>
                  \E m \in 1..(n - 1) : Request(kind, on, network)[m] \in Networks
<1> SUFFICES ASSUME NEW kind \in Kinds, NEW on \in BOOLEAN, NEW network \in Networks
             PROVE  /\ Request(kind, on, network) \in Seq(Steps) /\ Request(kind, on, network) # <<>>
                    /\ \A n \in DOMAIN Request(kind, on, network) :
                          on /\ Request(kind, on, network)[n] = "sta_mode" =>
                              \E m \in 1..(n - 1) : Request(kind, on, network)[m] \in Networks
  OBVIOUS
<1>1. /\ network \in Steps /\ network # "sta_mode"
      /\ "hostname" \in Steps /\ "open" \in Steps /\ "ap" \in Steps /\ "sta_mode" \in Steps
      /\ "settle" \in Steps /\ "hang up" \in Steps /\ "disconnect" \in Steps
      /\ "hung up" \in Steps /\ "dial" \in Steps
      /\ "native_uni" \in Steps /\ "effect_uni" \in Steps
  BY DEF Steps, Keys, Networks
<1>2. CASE kind = "wifi-config"
  <2> DEFINE full == <<"hostname", "open", "ap", network, "sta_mode", "settle",
                       "hang up", "disconnect", "hung up", "dial">>
             short == <<"hostname", "open", "ap", network, "sta_mode", "settle">>
  <2>1. Request(kind, on, network) = IF on THEN full ELSE short
    BY <1>2 DEF Request, WifiConfig
  <2>2. full \in Seq(Steps) /\ short \in Seq(Steps)
    BY <1>1, Lists
  <2>3. CASE on
    <3>1. Request(kind, on, network) = full /\ Len(full) = 10 /\ full[4] = network
      BY <2>1, <2>3
    <3>0. network # "sta_mode"
      BY DEF Networks
    <3>2. \A n \in 1..10 : n \in {1, 2, 3, 4, 5, 6, 7, 8, 9, 10}
      OBVIOUS
    <3>3. /\ full[1] = "hostname" /\ full[2] = "open" /\ full[3] = "ap" /\ full[4] = network
          /\ full[6] = "settle" /\ full[7] = "hang up" /\ full[8] = "disconnect"
          /\ full[9] = "hung up" /\ full[10] = "dial"
      OBVIOUS
    <3>4. 4 \in 1..(5 - 1) /\ full # <<>>
      OBVIOUS
    <3> HIDE DEF full
    <3>5. DOMAIN full = 1..10
      BY <3>1, <2>2
    <3>6. \A n \in 1..10 : full[n] = "sta_mode" => n = 5
      BY <3>0, <3>2, <3>3
    <3> QED  BY <3>1, <3>4, <3>5, <3>6, <2>2
  <2>4. CASE ~on
    <3>1. Request(kind, on, network) = short /\ short # <<>>
      BY <2>1, <2>4
    <3> QED  BY <3>1, <2>2, <2>4
  <2> QED  BY <2>3, <2>4
<1>3. CASE kind = "settings/sta"
  <2>1. Request(kind, on, network) = IF on THEN <<"open", network, "sta_mode">> ELSE <<"sta_mode", "settle">>
    BY <1>3 DEF Request, EnableSta, DisableSta
  <2>2. CASE on
    <3>1. Request(kind, on, network) = <<"open", network, "sta_mode">>
      BY <2>1, <2>2
    <3> DEFINE list == <<"open", network, "sta_mode">>
    <3>2. list \in Seq(Steps)
      BY <1>1, Lists
    <3>3. /\ list # <<>> /\ DOMAIN list = 1..3
          /\ list[1] = "open" /\ list[2] = network
      OBVIOUS
    <3>4. \A n \in 1..3 : n = 1 \/ n = 2 \/ (n = 3 /\ 2 \in 1..(n - 1))
      OBVIOUS
    <3> HIDE DEF list
    <3>5. \A n \in DOMAIN list : list[n] = "sta_mode" => \E m \in 1..(n - 1) : list[m] \in Networks
      BY <1>1, <3>3, <3>4
    <3>6. Request(kind, on, network) = list
      BY <3>1 DEF list
    <3> QED  BY <3>2, <3>3, <3>5, <3>6
  <2>3. CASE ~on
    <3>1. Request(kind, on, network) = <<"sta_mode", "settle">>
      BY <2>1, <2>3
    <3>2. <<"sta_mode", "settle">> \in Seq(Steps)
      BY <1>1, Lists
    <3> QED  BY <3>1, <3>2, <2>3
  <2> QED  BY <2>2, <2>3
<1>4. CASE kind = "settings/artnet"
  <2>1. Request(kind, on, network) = <<"native_uni", "effect_uni">>
    BY <1>4 DEF Request
  <2>2. <<"native_uni", "effect_uni">> \in Seq(Steps)
    BY <1>1, Lists
  <2>3. \A n \in 1..2 : n = 1 \/ n = 2
    OBVIOUS
  <2> QED  BY <2>1, <2>2, <2>3
<1> QED
  BY <1>2, <1>3, <1>4 DEF Kinds

(* One step of a request is off the list, whichever it was.                *)
LEMMA DoneFacts ==
    ASSUME HttpType, http.todo # <<>>, Done
    PROVE  /\ HttpType'
           /\ http'.on => http.on
           /\ \A n \in DOMAIN http'.todo : n + 1 \in DOMAIN http.todo /\ http'.todo[n] = http.todo[n + 1]
           /\ \A n \in DOMAIN http.todo \ {1} :
                 n - 1 \in DOMAIN http'.todo /\ http'.todo[n - 1] = http.todo[n]
           /\ 1 \in DOMAIN http.todo /\ Head(http.todo) = http.todo[1]
<1>1. /\ http.todo \in Seq(Steps) /\ http.on \in BOOLEAN
      /\ http = [todo |-> http.todo, on |-> http.on]
  BY DEF HttpType
<1>2. /\ Len(http.todo) \in Nat \ {0} /\ DOMAIN http.todo = 1..Len(http.todo)
      /\ Head(http.todo) = http.todo[1]
  BY <1>1
<1>3. CASE Len(http.todo) = 1
  <2>1. http' = [todo |-> <<>>, on |-> FALSE]
    BY <1>3 DEF Done, HttpIdle
  <2>2. http'.todo = <<>> /\ http'.on = FALSE /\ <<>> \in Seq(Steps) /\ DOMAIN http'.todo = {}
    BY <2>1
  <2> QED  BY <1>2, <1>3, <2>1, <2>2 DEF HttpType
<1>4. CASE Len(http.todo) # 1
  <2>1. http' = [todo |-> Tail(http.todo), on |-> http.on]
    BY <1>1, <1>4 DEF Done
  <2>2. /\ Tail(http.todo) \in Seq(Steps) /\ Len(Tail(http.todo)) = Len(http.todo) - 1
        /\ DOMAIN Tail(http.todo) = 1..(Len(http.todo) - 1)
        /\ \A n \in 1..(Len(http.todo) - 1) : Tail(http.todo)[n] = http.todo[n + 1]
    BY <1>1, <1>2
  <2>3. http'.todo = Tail(http.todo) /\ http'.on = http.on
    BY <2>1
  <2>4. HttpType'
    BY <1>1, <2>1, <2>2 DEF HttpType
  <2>5. \A n \in 1..Len(http.todo) : n # 1 => n - 1 \in 1..(Len(http.todo) - 1) /\ (n - 1) + 1 = n
    BY <1>2
  <2>6. \A n \in 1..(Len(http.todo) - 1) : n + 1 \in 1..Len(http.todo)
    BY <1>2
  <2>7. 1 \in 1..Len(http.todo)
    BY <1>2
  <2>8. \A n \in 1..Len(http.todo) : n # 1 => Tail(http.todo)[n - 1] = http.todo[n]
    BY <2>2, <2>5
  <2> QED  BY <1>2, <2>2, <2>3, <2>4, <2>5, <2>6, <2>7, <2>8
<1> QED
  BY <1>3, <1>4
-----------------------------------------------------------------------------
(* Storing a setting, the driver permitting.                               *)
Stores ==
    /\ http.todo # <<>> /\ Head(http.todo) \in Keys \cup Networks
    /\ Store(Setting(Head(http.todo)), Sent(Head(http.todo)))
    /\ enabled' = IF Head(http.todo) = "sta_mode" THEN http.on ELSE enabled
    /\ Done
    /\ UNCHANGED <<boot, reset_reason>>

Starts ==
    At("wifi") /\ AfterWifi /\ UNCHANGED <<flash, enabled, reset_reason, http>>

(* What a step does to the settings and to the requests.                   *)
LEMMA SettingsMoves ==
    ASSUME StationStep \/ UNCHANGED <<settings, wifi>>
    PROVE  \/ UNCHANGED <<settings, http>>
           \/ \E reason \in Reasons : Restart(reason)
           \/ (PassButton \/ FactoryReset \/ LoadSettings \/ WriteDefault) /\ UNCHANGED http
           \/ Starts
           \/ \E kind \in Kinds, on \in BOOLEAN, network \in Networks : Ask(kind, on, network)
           \/ Stores
           \/ /\ http.todo # <<>> /\ Head(http.todo) \notin Keys \cup Networks
              /\ Done /\ UNCHANGED settings
<1> USE DEF tasks, settings, Reasons
<1>1. CASE UNCHANGED <<settings, wifi>>
  BY <1>1 DEF wifi
<1>2. CASE Boot
  BY <1>2 DEF Boot, wifi, StartWifi, FirstRun, Starts, Abort
<1>3. CASE PowerCut
  BY <1>3 DEF PowerCut
<1>4. CASE AttemptFails \/ Associates \/ Drop \/ Joins
  BY <1>4 DEF AttemptFails, Associates, Associate, Drop, Joins, ClientJoins
<1>5. CASE HandleEvent
  <2>1. CASE BackOff
    BY <2>1 DEF BackOff, Abort
  <2>2. CASE OnStart \/ OnDisconnected \/ Retry \/ OnGotIp \/ OnClientJoined
    BY <2>2 DEF OnStart, OnDisconnected, Retry, OnGotIp, OnClientJoined
  <2> QED  BY <1>5, <2>1, <2>2 DEF HandleEvent
<1>6. CASE TimerFires
  BY <1>6 DEF TimerFires
<1>7. CASE DialOut
  BY <1>7 DEF DialOut, ZeroRetries, StopTimer, Connect, Abort
<1>8. CASE Asks
  BY <1>8, RequestAssumption DEF Asks, Reboot
<1>9. CASE Serve
  <2> USE DEF Doing
  <2>1. CASE NetworkRefused \/ StoreSetting
    BY <2>1 DEF NetworkRefused, StoreSetting, Stores, Abort
  <2>2. CASE ChangeMode \/ HangUp \/ Disconnect \/ DialAgain
    BY <2>2 DEF ChangeMode, HangUp, Disconnect, DialAgain, Keys, Networks
  <2> QED  BY <1>9, <2>1, <2>2 DEF Serve
<1> QED
  BY <1>1, <1>2, <1>3, <1>4, <1>5, <1>6, <1>7, <1>8, <1>9 DEF StationStep

LEMMA SettingsInitially == ASSUME Init PROVE SettingsInv
<1> USE DEF Init, StationOff
<1>1. flash = Blank \/ flash = Joined
  OBVIOUS
<1>2. SettingsType
  <2>1. flash \in [Keys -> Values]
    BY <1>1 DEF Blank, Joined, Values
  <2>2. enabled \in BOOLEAN /\ reset_reason \in Reasons \cup {"seen"}
    BY DEF Reasons
  <2>3. boot \in [at : {"button", "erased", "load", "wifi", "defaults", "serve"}, n : 0..(Len(Defaults) - 1)]
    BY DefaultsLast
  <2> QED  BY <2>1, <2>2, <2>3 DEF SettingsType
<1>3. HttpType /\ RequestInv
  <2>1. <<>> \in Seq(Steps) /\ DOMAIN <<>> = {}
    OBVIOUS
  <2> QED  BY <2>1 DEF HttpType, HttpIdle, RequestInv
<1>4. FirstRunInv /\ EnabledInv /\ EnabledHasNetwork
  BY <1>1 DEF FirstRunInv, EnabledInv, EnabledHasNetwork, Present, Blank, Joined, Keys, Serving, At, Networks
<1> QED
  BY <1>2, <1>3, <1>4 DEF SettingsInv

LEMMA StoredKeys ==
    ASSUME SettingsType, NEW k \in Keys, NEW v \in Values \ {"absent"}, Store(k, v)
    PROVE  /\ flash' \in [Keys -> Values] /\ flash'[k] = v
           /\ \A j \in Keys : j # k => flash'[j] = flash[j]
           /\ \A j \in Keys : Present(j) => Present(j)'
BY DEF SettingsType, Store, Present

LEMMA SettingsStep ==
    ASSUME SettingsInv, StationStep \/ UNCHANGED <<settings, wifi>>
    PROVE  SettingsInv'
<1> USE DEF SettingsInv
<1> HIDE DEF SettingsInv
<1>0. /\ SettingsType /\ HttpType /\ FirstRunInv /\ RequestInv /\ EnabledInv /\ EnabledHasNetwork
  BY DEF SettingsInv
<1>1. CASE UNCHANGED <<settings, http>>
  BY <1>0, <1>1 DEF settings, SettingsInv, SettingsType, HttpType, FirstRunInv, RequestInv, EnabledInv,
     EnabledHasNetwork, Present, Serving, At, NetworkSent
<1>2. ASSUME NEW reason \in Reasons, Restart(reason)
      PROVE  SettingsInv'
  <2>1. /\ flash' = flash /\ boot' = [at |-> "button", n |-> 0] /\ enabled' = FALSE
        /\ reset_reason' = reason /\ http' = [todo |-> <<>>, on |-> FALSE]
    BY <1>2 DEF Restart, Reset, HttpIdle
  <2>2. SettingsType'
    BY <1>0, <2>1, DefaultsLast DEF SettingsType
  <2>3. HttpType' /\ RequestInv'
    <3>1. <<>> \in Seq(Steps) /\ DOMAIN <<>> = {}
      OBVIOUS
    <3> QED  BY <2>1, <3>1 DEF HttpType, RequestInv
  <2>4. FirstRunInv' /\ EnabledInv' /\ EnabledHasNetwork'
    BY <1>0, <2>1 DEF FirstRunInv, EnabledInv, EnabledHasNetwork, Present, Serving, At, NetworkSent
  <2> QED  BY <2>2, <2>3, <2>4 DEF SettingsInv
<1>3. CASE PassButton /\ UNCHANGED http
  BY <1>0, <1>3, DefaultsFacts DEF PassButton, Goto, At, SettingsInv, SettingsType, HttpType, FirstRunInv,
     RequestInv, EnabledInv, EnabledHasNetwork, Present, Serving, NetworkSent
<1>4. CASE FactoryReset /\ UNCHANGED http
  <2>1. flash' = [k \in Keys |-> "absent"] /\ boot' = [at |-> "erased", n |-> 0] /\ enabled' = enabled
    BY <1>4 DEF FactoryReset, Blank, Goto
  <2>2. {"first_init", "sta_mode", "network"} \subseteq Keys /\ "absent" \in Values
    BY DEF Keys, Values
  <2>3. SettingsType'
    BY <1>0, <1>4, <2>1, <2>2, DefaultsFacts DEF SettingsType, FactoryReset
  <2>4. http.todo = <<>>
    BY <1>0, <1>4 DEF RequestInv, FactoryReset, At, Serving
  <2>5. HttpType' /\ RequestInv'
    <3>1. DOMAIN <<>> = {}
      OBVIOUS
    <3> QED  BY <1>0, <1>4, <2>4, <3>1 DEF HttpType, RequestInv
  <2>6. FirstRunInv' /\ EnabledInv' /\ EnabledHasNetwork'
    BY <2>1, <2>2 DEF FirstRunInv, EnabledInv, EnabledHasNetwork, Present, Serving, At
  <2> QED  BY <2>3, <2>5, <2>6 DEF SettingsInv
<1>5. CASE LoadSettings /\ UNCHANGED http
  BY <1>0, <1>5, DefaultsFacts DEF LoadSettings, Goto, At, SettingsInv, SettingsType, HttpType, FirstRunInv,
     RequestInv, EnabledInv, EnabledHasNetwork, Present, Serving, NetworkSent
<1>6. CASE Starts
  <2>1. /\ boot' = [at |-> IF Present("first_init") THEN "serve" ELSE "defaults", n |-> 0]
        /\ UNCHANGED <<flash, enabled, reset_reason, http>> /\ boot = [at |-> "wifi", n |-> 0]
    BY <1>6 DEF Starts, AfterWifi, Goto, At, Present
  <2>2. SettingsType' /\ HttpType'
    BY <1>0, <2>1, DefaultsFacts DEF SettingsType, HttpType
  <2>3. FirstRunInv'
    BY <1>0, <2>1 DEF FirstRunInv, Present, Serving, At
  <2>4. RequestInv' /\ EnabledInv' /\ EnabledHasNetwork'
    BY <1>0, <2>1 DEF RequestInv, EnabledInv, EnabledHasNetwork, Serving, At, NetworkSent
  <2> QED  BY <2>2, <2>3, <2>4 DEF SettingsInv
<1>7. CASE WriteDefault /\ UNCHANGED http
  <2> DEFINE k == Defaults[boot.n + 1]
  <2>1. boot.at = "defaults" /\ boot.n \in 0..6 /\ k \in Keys /\ Default(k) \in Values \ {"absent", "on", "named"}
    BY <1>0, <1>7, DefaultsFacts DEF WriteDefault, SettingsType
  <2>2. /\ flash' \in [Keys -> Values] /\ flash'[k] = Default(k)
        /\ \A j \in Keys : j # k => flash'[j] = flash[j]
        /\ \A j \in Keys : Present(j) => Present(j)'
    <3>1. Store(k, Default(k))
      BY <1>7 DEF WriteDefault
    <3> HIDE DEF k
    <3> QED  BY <1>0, <2>1, <3>1, StoredKeys
  <2>3. /\ boot.n = 6 => boot' = [at |-> "serve", n |-> 0]
        /\ boot.n # 6 => boot' = [at |-> "defaults", n |-> boot.n + 1] /\ boot.n + 1 \in 1..6
        /\ enabled' = IF k = "sta_mode" THEN FALSE ELSE enabled
        /\ UNCHANGED reset_reason
    BY <1>0, <1>7, <2>1, DefaultsFacts DEF WriteDefault, SettingsType
  <2>4. SettingsType'
    <3>1. boot' = [at |-> "serve", n |-> 0]
          \/ (boot' = [at |-> "defaults", n |-> boot.n + 1] /\ boot.n + 1 \in 0..(Len(Defaults) - 1))
      <4>1. \A n \in 1..6 : n \in 0..6
        OBVIOUS
      <4> QED  BY <2>3, <4>1, DefaultsLast
    <3>2. boot' \in [at : {"button", "erased", "load", "wifi", "defaults", "serve"}, n : 0..(Len(Defaults) - 1)]
      BY <3>1, DefaultsLast
    <3>3. enabled' \in BOOLEAN /\ reset_reason' \in Reasons \cup {"seen"}
      BY <1>0, <2>3 DEF SettingsType
    <3> QED  BY <2>2, <3>2, <3>3 DEF SettingsType
  <2>5. flash'[k] # "absent"
    BY <2>1, <2>2
  <2>6. \A n \in 1..(boot.n + 1) : flash'[Defaults[n]] # "absent"
    <3>1. \A n \in 1..boot.n : Defaults[n] \in Keys /\ Present(Defaults[n])
      BY <1>0, <2>1, DefaultsFacts DEF FirstRunInv
    <3>2. \A n \in 1..(boot.n + 1) : n \in 1..boot.n \/ n = boot.n + 1
      BY <2>1
    <3> QED  BY <2>2, <2>5, <3>1, <3>2 DEF Present
  <2>7. {"first_init", "sta_mode", "network"} \subseteq Keys
    BY DEF Keys
  <2>8. flash["sta_mode"] # "on" /\ flash'["sta_mode"] # "on"
    BY <1>0, <2>1, <2>2, <2>7 DEF FirstRunInv
  <2>9. enabled = FALSE /\ enabled' = FALSE
    BY <1>0, <2>1, <2>3, <2>8 DEF EnabledInv, SettingsType
  <2>10. http.todo = <<>>
    BY <1>0, <2>1 DEF RequestInv, Serving, At
  <2>11. HttpType' /\ RequestInv'
    <3>1. DOMAIN <<>> = {}
      OBVIOUS
    <3> QED  BY <1>0, <1>7, <2>10, <3>1 DEF HttpType, RequestInv
  <2>12. EnabledInv' /\ EnabledHasNetwork'
    BY <2>8, <2>9 DEF EnabledInv, EnabledHasNetwork
  <2>13. FirstRunInv'
    <3>1. CASE boot.n = 6
      <4>1. \A n \in 1..7 : flash'[Defaults[n]] # "absent"
        BY <2>6, <3>1
      <4>2. \A j \in Keys : Present(j)'
        BY <4>1, DefaultsFacts DEF Present
      <4> QED  BY <2>3, <2>7, <2>8, <3>1, <4>2 DEF FirstRunInv, Serving, At
    <3>2. CASE boot.n # 6
      <4>1. k # "first_init"
        BY <2>1, <3>2, DefaultsFacts
      <4>2. ~Present("first_init")'
        BY <1>0, <2>1, <2>2, <2>7, <4>1 DEF FirstRunInv, Present
      <4> QED  BY <2>3, <2>6, <2>8, <3>2, <4>2 DEF FirstRunInv, Serving, At, Present
    <3> QED  BY <3>1, <3>2
  <2> QED  BY <2>4, <2>11, <2>12, <2>13 DEF SettingsInv
<1>8. ASSUME NEW kind \in Kinds, NEW on \in BOOLEAN, NEW network \in Networks,
             Ask(kind, on, network)
      PROVE  SettingsInv'
  <2>1. Serving /\ UNCHANGED <<flash, enabled, boot, reset_reason>>
        /\ http' = [todo |-> Request(kind, on, network), on |-> on]
    BY <1>8 DEF Ask, settings
  <2>2. HttpType' /\ RequestInv'
    BY <2>1, RequestFacts DEF HttpType, RequestInv, Serving, At
  <2>3. SettingsType' /\ FirstRunInv' /\ EnabledInv' /\ EnabledHasNetwork'
    BY <1>0, <2>1 DEF SettingsType, FirstRunInv, EnabledInv, EnabledHasNetwork, Present, Serving, At, NetworkSent
  <2> QED  BY <2>2, <2>3 DEF SettingsInv
<1>9. CASE http.todo # <<>> /\ Head(http.todo) \notin Keys \cup Networks /\ Done /\ UNCHANGED settings
  <2>1. Head(http.todo) \notin Networks
    BY <1>9
  <2>2. HttpType' /\ RequestInv'
    <3>1. Serving' /\ (NetworkSent' <=> NetworkSent)
      BY <1>0, <1>9 DEF RequestInv, Serving, At, NetworkSent, settings
    <3>2. ASSUME http'.on, NEW n \in DOMAIN http'.todo, http'.todo[n] = "sta_mode", ~NetworkSent
          PROVE  \E m \in 1..(n - 1) : http'.todo[m] \in Networks
      <4>1. http.on /\ n + 1 \in DOMAIN http.todo /\ http.todo[n + 1] = "sta_mode"
        BY <1>0, <1>9, <3>2, DoneFacts
      <4>2. PICK m \in 1..n : http.todo[m] \in Networks
        <5>1. n \in Nat
          BY <1>0, <1>9, DoneFacts DEF HttpType
        <5>2. (n + 1) - 1 = n
          BY <5>1
        <5>3. \E m \in 1..((n + 1) - 1) : http.todo[m] \in Networks
          BY <1>0, <3>2, <4>1 DEF RequestInv
        <5> QED  BY <5>2, <5>3
      <4>3. n \in Nat /\ m \in DOMAIN http.todo
        <5>1. http.todo \in Seq(Steps)
          BY <1>0 DEF HttpType
        <5>2. DOMAIN http.todo = 1..Len(http.todo) /\ Len(http.todo) \in Nat
          BY <5>1
        <5>3. n \in Nat
          BY <1>0, <1>9, DoneFacts DEF HttpType
        <5> QED  BY <4>1, <5>2, <5>3
      <4>4. m # 1
        BY <1>0, <1>9, <2>1, <4>2, DoneFacts
      <4>5. http'.todo[m - 1] \in Networks /\ m - 1 \in 1..(n - 1)
        BY <1>0, <1>9, <4>2, <4>3, <4>4, DoneFacts
      <4> QED  BY <4>5
    <3> QED  BY <1>0, <1>9, <3>1, <3>2, DoneFacts DEF RequestInv
  <2>3. SettingsType' /\ FirstRunInv' /\ EnabledInv' /\ EnabledHasNetwork'
    BY <1>0, <1>9 DEF settings, SettingsType, FirstRunInv, EnabledInv, EnabledHasNetwork, Present, Serving, At, NetworkSent
  <2> QED  BY <2>2, <2>3 DEF SettingsInv
<1>10. CASE Stores
  <2> DEFINE step == Head(http.todo)
             k == Setting(step)
             v == Sent(step)
  <2>0. step \in (Keys \ {"network"}) \cup Networks
    <3>1. http.todo \in Seq(Steps) /\ http.todo # <<>> /\ step \in Keys \cup Networks
      BY <1>0, <1>10 DEF Stores, HttpType
    <3>2. step \in Steps
      BY <3>1
    <3>3. "network" \notin Steps
      BY DEF Steps, Networks
    <3> QED  BY <3>1, <3>2, <3>3
  <2>1. /\ http.todo # <<>> /\ k \in Keys /\ Store(k, v) /\ Done
        /\ enabled' = (IF k = "sta_mode" THEN http.on ELSE enabled)
        /\ UNCHANGED <<boot, reset_reason>>
    <3>1. k \in Keys /\ (k = "sta_mode" <=> step = "sta_mode")
      BY <2>0 DEF Setting, Keys, Networks
    <3> QED  BY <1>10, <3>1 DEF Stores
  <2>2. /\ k = "network" => step \in Networks /\ v \in Networks
        /\ step \in Networks => k = "network"
        /\ k = "sta_mode" => v = IF http.on THEN "on" ELSE "off"
        /\ k = "sta_mode" => step = "sta_mode"
        /\ v \in Values \ {"absent"} /\ http.on \in BOOLEAN
    BY <1>0, <2>0 DEF Keys, Values, HttpType, Setting, Sent, Networks
  <2>3. Serving /\ Present("first_init") /\ \A j \in Keys : Present(j)
    BY <1>0, <2>1 DEF RequestInv, FirstRunInv
  <2>4. step = http.todo[1] /\ 1 \in DOMAIN http.todo
    BY <1>0, <2>1, DoneFacts
  <2> HIDE DEF step, k, v
  <2>5. /\ flash' \in [Keys -> Values] /\ flash'[k] = v
        /\ \A j \in Keys : j # k => flash'[j] = flash[j]
        /\ \A j \in Keys : Present(j) => Present(j)'
    BY <1>0, <2>1, <2>2, StoredKeys
  <2>6. {"first_init", "sta_mode", "network"} \subseteq Keys
    BY DEF Keys
  <2>7. SettingsType'
    BY <1>0, <2>1, <2>2, <2>5, DefaultsLast DEF SettingsType
  <2>8. FirstRunInv'
    BY <1>0, <2>1, <2>3, <2>5, <2>6 DEF FirstRunInv, Serving, At, Present
  <2>9. EnabledInv'
    BY <1>0, <2>1, <2>2, <2>3, <2>5, <2>6 DEF EnabledInv, Serving, At
  <2>10. NetworkSent => NetworkSent'
    BY <2>2, <2>5, <2>6 DEF NetworkSent
  <2>11. EnabledHasNetwork'
    <3>1. CASE k = "sta_mode"
      <4>1. v = "on" => http.on
        BY <2>2, <3>1
      <4>2. v = "on" => NetworkSent
        <5>1. ASSUME NEW m \in 1..(1 - 1) PROVE FALSE
          OBVIOUS
        <5> QED  BY <1>0, <2>2, <2>4, <3>1, <4>1, <5>1 DEF RequestInv
      <4> QED  BY <2>5, <2>10, <3>1, <4>2 DEF EnabledHasNetwork, NetworkSent
    <3>2. CASE k # "sta_mode"
      BY <1>0, <2>5, <2>6, <2>10, <3>2 DEF EnabledHasNetwork, NetworkSent
    <3> QED  BY <3>1, <3>2
  <2>12. HttpType' /\ RequestInv'
    <3>1. Serving'
      BY <2>1, <2>3 DEF Serving, At
    <3>2. ASSUME http'.on, NEW n \in DOMAIN http'.todo, http'.todo[n] = "sta_mode", ~NetworkSent'
          PROVE  \E m \in 1..(n - 1) : http'.todo[m] \in Networks
      <4>0. http.todo \in Seq(Steps) /\ http'.todo \in Seq(Steps)
        BY <1>0, <2>1, DoneFacts DEF HttpType
      <4>1. http.on /\ n + 1 \in DOMAIN http.todo /\ http.todo[n + 1] = "sta_mode"
        BY <1>0, <2>1, <3>2, DoneFacts
      <4>2. n \in Nat /\ (n + 1) - 1 = n /\ DOMAIN http.todo = 1..Len(http.todo) /\ Len(http.todo) \in Nat
        BY <4>0
      <4>3. PICK m \in 1..n : http.todo[m] \in Networks
        <5>1. \E m \in 1..((n + 1) - 1) : http.todo[m] \in Networks
          BY <1>0, <2>10, <3>2, <4>1 DEF RequestInv
        <5> QED  BY <4>2, <5>1
      <4>4. step \notin Networks
        BY <2>2, <2>5, <3>2 DEF NetworkSent
      <4>5. m # 1
        BY <2>4, <4>3, <4>4
      <4>6. m \in DOMAIN http.todo \ {1} /\ m - 1 \in 1..(n - 1)
        BY <4>1, <4>2, <4>5
      <4>7. http'.todo[m - 1] \in Networks
        BY <1>0, <2>1, <4>3, <4>6, DoneFacts
      <4> QED  BY <4>6, <4>7
    <3> QED  BY <1>0, <2>1, <3>1, <3>2, DoneFacts DEF RequestInv
  <2> QED  BY <2>7, <2>8, <2>9, <2>11, <2>12 DEF SettingsInv
<1> QED
  BY <1>1, <1>2, <1>3, <1>4, <1>5, <1>6, <1>7, <1>8, <1>9, <1>10, SettingsMoves

(* The steps of the listener leave the station alone.                      *)
LEMMA StationMoves ==
    ASSUME [Next]_vars PROVE StationStep \/ UNCHANGED <<settings, wifi>>
BY DEF Next, vars, ListenerStep

THEOREM SettingsInvariant == Spec => []SettingsInv
<1>1. Init => SettingsInv
  BY SettingsInitially
<1>2. SettingsInv /\ [Next]_vars => SettingsInv'
  BY SettingsStep, StationMoves
<1> QED
  BY <1>1, <1>2, PTL DEF Spec

(* A box that has come up has all its settings, whatever was interrupted   *)
(* before: any power cut, factory reset, failed check or request.          *)
THEOREM SettingsAreComplete == Spec => []SettingsComplete
<1>1. SettingsInv => SettingsComplete
  BY DEF SettingsInv, FirstRunInv, SettingsComplete, Present
<1> QED
  BY <1>1, SettingsInvariant, PTL

(* No order of requests and power cuts has station mode on with a network  *)
(* that no client sent, whatever names the requests carry, empty ones too. *)
THEOREM StationHasNetwork == Spec => []EnabledHasNetwork
<1>1. SettingsInv => EnabledHasNetwork
  BY DEF SettingsInv
<1> QED
  BY <1>1, SettingsInvariant, PTL
-----------------------------------------------------------------------------
(* The station and the sockets that follow it: the bits of the event group *)
(* agree with the driver, an idle station always has a next attempt, and   *)
(* every descriptor is accounted for.                                      *)
StationTypeInv ==
    StationType /\ (event_task.pc = "retry" => event_task.seen < MaxRetry)
-----------------------------------------------------------------------------
(* An event is posted behind the others, and the first one is taken.       *)
LEMMA PostFacts ==
    ASSUME StationType, Room, NEW e \in Events, Post(e)
    PROVE  /\ events' \in Seq(Events) /\ Len(events') <= MaxEvents
           /\ DOMAIN events' = 1..(Len(events) + 1) /\ DOMAIN events = 1..Len(events)
           /\ Len(events) \in Nat
           /\ events'[Len(events) + 1] = e
           /\ \A n \in DOMAIN events :
                 n \in DOMAIN events' /\ events'[n] = events[n] /\ Len(events) + 1 > n
<1>1. events \in Seq(Events) /\ Len(events) < MaxEvents /\ events' = Append(events, e)
  BY DEF StationType, Room, Post
<1> QED
  BY <1>1, RetryAssumption

LEMMA TakeFacts ==
    ASSUME StationType, NEW e, Take(e)
    PROVE  /\ events' \in Seq(Events) /\ Len(events') <= MaxEvents
           /\ 1 \in DOMAIN events /\ events[1] = e
           /\ \A n \in DOMAIN events' : n + 1 \in DOMAIN events /\ events'[n] = events[n + 1]
           /\ \A n \in DOMAIN events \ {1} : n - 1 \in DOMAIN events' /\ events'[n - 1] = events[n]
           /\ DOMAIN events \subseteq Nat /\ DOMAIN events' \subseteq Nat
<1>1. /\ events \in Seq(Events) /\ events # <<>> /\ Head(events) = e /\ events' = Tail(events)
      /\ Len(events) <= MaxEvents
  BY DEF StationType, Take
<1>2. /\ Len(events) \in Nat \ {0} /\ DOMAIN events = 1..Len(events)
      /\ Tail(events) \in Seq(Events) /\ Len(Tail(events)) = Len(events) - 1
      /\ DOMAIN Tail(events) = 1..(Len(events) - 1)
      /\ \A n \in 1..(Len(events) - 1) : Tail(events)[n] = events[n + 1]
  BY <1>1
<1>3. \A n \in 1..Len(events) : n # 1 => n - 1 \in 1..(Len(events) - 1) /\ (n - 1) + 1 = n
  BY <1>2
<1>4. \A n \in 1..(Len(events) - 1) : n + 1 \in 1..Len(events)
  BY <1>2
<1>5. \A n \in 1..Len(events) : n # 1 => Tail(events)[n - 1] = events[n]
  BY <1>2, <1>3
<1>6. 1 \in 1..Len(events) /\ events[1] = e
  BY <1>1, <1>2
<1>7. Len(events) - 1 <= MaxEvents
  BY <1>1, <1>2, RetryAssumption
<1> QED
  BY <1>1, <1>2, <1>3, <1>4, <1>5, <1>6, <1>7

(* What the driver posts when the station changes.                         *)
LEMMA DriveFacts ==
    ASSUME StationType, NEW t \in {"stopped", "idle", "connecting", "connected"},
           Drives(station, t), t \notin {"connecting", "connected"} \/ t = station
    PROVE  /\ station' = t /\ address' \in Addresses \cup {NoAddress}
           /\ \/ station = "stopped" /\ t = "idle" /\ Post("STA_START")
              \/ /\ station \in {"connecting", "connected"} /\ t \in {"idle", "stopped"}
                 /\ Post("STA_DISCONNECTED")
              \/ /\ UNCHANGED events /\ (t = station \/ t = "stopped")
                 /\ station = "connected" <=> t = "connected"
BY DEF Drives, StationType

LEMMA StationTypeInitially == ASSUME Init PROVE StationTypeInv
<1>1. <<>> \in Seq(Events) /\ <<>> \in Seq(Steps) /\ Len(<<>>) = 0
  OBVIOUS
<1>2. 0 \in 0..MaxRetry /\ 0 <= MaxEvents
  BY RetryAssumption
<1> QED
  BY <1>1, <1>2 DEF Init, StationOff, StationTypeInv, StationType, EventIdle, HttpIdle, Bits

(* A change of mode.                                                       *)
LEMMA ModeFacts ==
    ASSUME StationType, NEW apsta \in BOOLEAN, SetMode(apsta)
    PROVE  /\ station' \in {"stopped", "idle", "connecting", "connected"}
           /\ address' \in Addresses \cup {NoAddress}
           /\ events' \in Seq(Events) /\ Len(events') <= MaxEvents
<1> DEFINE t == IF ~apsta THEN "stopped" ELSE IF station = "stopped" THEN "idle" ELSE station
<1>1. /\ t \in {"stopped", "idle", "connecting", "connected"}
      /\ t \notin {"connecting", "connected"} \/ t = station
  BY DEF StationType
<1>2. Drives(station, t) /\ Room
  BY DEF SetMode
<1> HIDE DEF t
<1>3. /\ station' = t /\ address' \in Addresses \cup {NoAddress}
      /\ UNCHANGED events \/ Post("STA_START") \/ Post("STA_DISCONNECTED")
  BY <1>1, <1>2, DriveFacts
<1>4. events' \in Seq(Events) /\ Len(events') <= MaxEvents
  <2>1. {"STA_START", "STA_DISCONNECTED"} \subseteq Events
    BY DEF Events
  <2>2. CASE UNCHANGED events
    BY <2>2 DEF StationType
  <2>3. CASE Post("STA_START") \/ Post("STA_DISCONNECTED")
    BY <1>2, <2>1, <2>3, PostFacts
  <2> QED  BY <1>3, <2>2, <2>3
<1> QED
  BY <1>1, <1>3, <1>4

LEMMA RestartTypes ==
    ASSUME NEW reason, Restart(reason) PROVE StationTypeInv'
<1>1. <<>> \in Seq(Events) /\ <<>> \in Seq(Steps) /\ Len(<<>>) = 0
  OBVIOUS
<1>2. 0 \in 0..MaxRetry /\ 0 <= MaxEvents
  BY RetryAssumption
<1> QED
  BY <1>1, <1>2 DEF Restart, StationTypeInv, StationType, EventIdle, HttpIdle, Bits

LEMMA StationTypeStep ==
    ASSUME StationTypeInv, SettingsType, StationStep \/ UNCHANGED <<settings, wifi>>
    PROVE  StationTypeInv'
<1>0. /\ StationType /\ HttpType
      /\ event_task.pc = "retry" => event_task.seen < MaxRetry
  BY DEF StationTypeInv, StationType, HttpType
<1>1. CASE UNCHANGED <<settings, wifi>>
  BY <1>0, <1>1 DEF wifi, tasks, StationTypeInv, StationType
<1>2. CASE Boot
  <2>1. CASE (PassButton \/ FactoryReset \/ LoadSettings) /\ UNCHANGED wifi
    BY <1>0, <2>1 DEF wifi, tasks, StationTypeInv, StationType
  <2>2. CASE At("erased") /\ Restart("sw")
    BY <2>2, RestartTypes
  <2>3. CASE StartWifi \/ FirstRun
    <3>1. /\ \/ \E apsta \in BOOLEAN : SetMode(apsta)
             \/ UNCHANGED <<station, address, events>>
          /\ UNCHANGED <<bits, retry_num, armed, in_disconnect, tasks, untried>>
      <4>1. CASE StartWifi
        BY <4>1 DEF StartWifi, SettingsType
      <4>2. CASE FirstRun
        BY <4>2 DEF FirstRun
      <4> QED  BY <2>3, <4>1, <4>2
    <3> QED  BY <1>0, <3>1, ModeFacts DEF tasks, StationTypeInv, StationType
  <2> QED  BY <1>2, <2>1, <2>2, <2>3 DEF Boot
<1>3. CASE PowerCut
  BY <1>3, RestartTypes DEF PowerCut
<1>4. CASE AttemptFails \/ Drop
  <2>1. /\ Room /\ Drives(station, "idle")
        /\ UNCHANGED <<bits, retry_num, armed, in_disconnect, tasks, untried>>
        /\ station \in {"connecting", "connected"}
    BY <1>4 DEF AttemptFails, Drop
  <2>2. station' = "idle" /\ address' \in Addresses \cup {NoAddress} /\ Post("STA_DISCONNECTED")
    BY <1>0, <2>1, DriveFacts
  <2>3. events' \in Seq(Events) /\ Len(events') <= MaxEvents
    BY <1>0, <2>1, <2>2, PostFacts DEF Events
  <2> QED  BY <1>0, <2>1, <2>2, <2>3 DEF tasks, StationTypeInv, StationType
<1>5. CASE Associates
  <2>1. events' \in Seq(Events) /\ Len(events') <= MaxEvents
    BY <1>0, <1>5, PostFacts DEF Associates, Associate, Events
  <2> QED  BY <1>0, <1>5, <2>1 DEF Associates, Associate, tasks, StationTypeInv, StationType
<1>6. CASE Joins
  <2>1. events' \in Seq(Events) /\ Len(events') <= MaxEvents
    BY <1>0, <1>6, PostFacts DEF Joins, ClientJoins, Events
  <2> QED  BY <1>0, <1>6, <2>1 DEF Joins, ClientJoins, tasks, StationTypeInv, StationType
<1>7. CASE OnStart
  BY <1>0, <1>7, TakeFacts DEF OnStart, StationTypeInv, StationType
<1>8. CASE OnDisconnected
  <2>1. events' \in Seq(Events) /\ Len(events') <= MaxEvents
    BY <1>0, <1>8, TakeFacts DEF OnDisconnected
  <2>2. bits' \subseteq Bits
    BY <1>0, <1>8 DEF OnDisconnected, Disconnected, StationType, Bits
  <2>3. /\ event_task' \in [pc : {"idle", "retry", "back off"}, seen : 0..MaxRetry]
        /\ event_task'.pc = "retry" => event_task'.seen < MaxRetry
    <3>1. 0 \in 0..MaxRetry
      BY RetryAssumption
    <3>2. \/ event_task' = [pc |-> "idle", seen |-> 0] \/ event_task' = [pc |-> "back off", seen |-> 0]
          \/ (event_task' = [pc |-> "retry", seen |-> retry_num] /\ retry_num < MaxRetry)
      BY <1>8 DEF OnDisconnected, MayRetry, AfterRetries, EventIdle
    <3>3. retry_num \in 0..MaxRetry
      BY <1>0 DEF StationType
    <3>4. CASE event_task' = [pc |-> "retry", seen |-> retry_num] /\ retry_num < MaxRetry
      BY <3>3, <3>4
    <3>5. CASE event_task' = [pc |-> "idle", seen |-> 0]
      BY <3>1, <3>5
    <3>6. CASE event_task' = [pc |-> "back off", seen |-> 0]
      BY <3>1, <3>6
    <3> QED  BY <3>2, <3>4, <3>5, <3>6
  <2> QED  BY <1>0, <1>8, <2>1, <2>2, <2>3 DEF OnDisconnected, StationTypeInv, StationType
<1>9. CASE Retry
  <2>1. retry_num' \in 0..MaxRetry
    <3>1. event_task.seen \in 0..MaxRetry /\ event_task.seen < MaxRetry /\ MaxRetry \in Nat
      BY <1>0, <1>9, RetryAssumption DEF Retry, StationType
    <3>2. retry_num' = event_task.seen + 1
      BY <1>9 DEF Retry
    <3> QED  BY <3>1, <3>2
  <2>2. event_task' \in [pc : {"idle", "retry", "back off"}, seen : 0..MaxRetry] /\ event_task'.pc = "idle"
    BY <1>9, RetryAssumption DEF Retry, EventIdle
  <2>3. /\ station' \in {"stopped", "idle", "connecting", "connected"} /\ untried' \in BOOLEAN
        /\ UNCHANGED <<address, events, bits, in_disconnect, connect, http>> /\ armed' = FALSE
    BY <1>0, <1>9 DEF Retry, Dial, StationType
  <2> QED  BY <1>0, <2>1, <2>2, <2>3 DEF StationTypeInv, StationType
<1>10. CASE BackOff
  <2>1. CASE armed
    BY <1>10, <2>1, RestartTypes DEF BackOff, Abort
  <2>2. CASE ~armed
    <3>1. 0 \in 0..MaxRetry
      BY RetryAssumption
    <3>2. /\ armed' = TRUE /\ UNCHANGED bits /\ event_task' = [pc |-> "idle", seen |-> 0]
          /\ UNCHANGED <<station, address, events, retry_num, in_disconnect, connect, http, untried>>
      BY <1>10, <2>2 DEF BackOff, EventIdle
    <3>3. event_task' \in [pc : {"idle", "retry", "back off"}, seen : 0..MaxRetry] /\ event_task'.pc = "idle"
      BY <3>1, <3>2
    <3>4. bits' \subseteq Bits
      BY <1>0, <3>2 DEF StationType, Bits
    <3> QED  BY <1>0, <3>2, <3>3, <3>4 DEF StationTypeInv, StationType
  <2> QED  BY <2>1, <2>2
<1>11. CASE OnGotIp
  <2>1. events' \in Seq(Events) /\ Len(events') <= MaxEvents
    BY <1>0, <1>11, TakeFacts DEF OnGotIp
  <2>2. 0 \in 0..MaxRetry
    BY RetryAssumption
  <2>3. bits' \subseteq Bits
    BY <1>0, <1>11 DEF OnGotIp, GotIp, StationType, Bits
  <2> QED  BY <1>0, <1>11, <2>1, <2>2, <2>3 DEF OnGotIp, tasks, StationTypeInv, StationType
<1>12. CASE OnClientJoined
  <2>1. events' \in Seq(Events) /\ Len(events') <= MaxEvents
    BY <1>0, <1>12, TakeFacts DEF OnClientJoined
  <2> QED  BY <1>0, <1>12, <2>1 DEF OnClientJoined, tasks, StationTypeInv, StationType, Bits
<1>13. CASE TimerFires
  BY <1>0, <1>13 DEF TimerFires, StationTypeInv, StationType, Threads
<1>14. CASE DialOut
  <2>0. 0 \in 0..MaxRetry
    BY RetryAssumption
  <2>1. ASSUME NEW t \in Threads, ZeroRetries(t) \/ StopTimer(t) PROVE StationTypeInv'
    BY <1>0, <2>0, <2>1 DEF ZeroRetries, StopTimer, StationTypeInv, StationType
  <2>2. ASSUME NEW t \in Threads, Connect(t) PROVE StationTypeInv'
    <3>1. CASE Abort
      BY <3>1, RestartTypes DEF Abort
    <3>2. ASSUME NEW ok \in BOOLEAN, Dial(ok), connect' = [connect EXCEPT ![t] = "none"],
                 UNCHANGED <<settings, bits, retry_num, armed, in_disconnect, event_task, http>>
          PROVE  StationTypeInv'
      BY <1>0, <3>2 DEF Dial, StationTypeInv, StationType
    <3> QED  BY <2>2, <3>1, <3>2 DEF Connect
  <2> QED  BY <1>14, <2>1, <2>2 DEF DialOut
<1>15. CASE Asks
  <2>1. CASE Reboot
    BY <2>1, RestartTypes DEF Reboot
  <2>2. ASSUME NEW kind \in Kinds, NEW on \in BOOLEAN, NEW network \in Networks, Ask(kind, on, network)
        PROVE  StationTypeInv'
    <3>1. http' \in [todo : Seq(Steps), on : BOOLEAN]
      BY <2>2, RequestFacts DEF Ask
    <3>2. untried' \in BOOLEAN
      BY <1>0, <2>2 DEF Ask, StationType
    <3> QED  BY <1>0, <2>2, <3>1, <3>2 DEF Ask, StationTypeInv, StationType
  <2> QED  BY <1>15, <2>1, <2>2, RequestAssumption DEF Asks
<1>16. CASE Serve
  <2>0. http.todo # <<>> /\ (NetworkRefused \/ Done)
    BY <1>16 DEF Serve, Doing, ChangeMode, NetworkRefused, StoreSetting, HangUp, Disconnect, DialAgain
  <2>1. Done => http' \in [todo : Seq(Steps), on : BOOLEAN]
    BY <1>0, <2>0, DoneFacts DEF HttpType
  <2>2. CASE ChangeMode
    <3>1. \E apsta \in BOOLEAN : SetMode(apsta)
      BY <2>2 DEF ChangeMode
    <3> QED  BY <1>0, <2>1, <2>2, <3>1, ModeFacts DEF ChangeMode, StationTypeInv, StationType
  <2>3. CASE StoreSetting
    BY <1>0, <2>1, <2>3 DEF StoreSetting, StationTypeInv, StationType
  <2>4. CASE HangUp
    BY <1>0, <2>1, <2>4 DEF HangUp, StationTypeInv, StationType
  <2>5. CASE Disconnect
    <3>1. /\ station' = "idle" /\ address' \in Addresses \cup {NoAddress}
          /\ UNCHANGED events \/ Post("STA_START") \/ Post("STA_DISCONNECTED")
      BY <1>0, <2>5, DriveFacts DEF Disconnect
    <3>2. events' \in Seq(Events) /\ Len(events') <= MaxEvents
      BY <1>0, <2>5, <3>1, PostFacts DEF Disconnect, Events, StationType
    <3> QED  BY <1>0, <2>1, <2>5, <3>1, <3>2 DEF Disconnect, StationTypeInv, StationType
  <2>6. CASE DialAgain
    BY <1>0, <2>1, <2>6 DEF DialAgain, StationTypeInv, StationType, Threads
  <2>7. CASE NetworkRefused
    BY <2>7, RestartTypes DEF NetworkRefused, Abort
  <2> QED  BY <1>16, <2>2, <2>3, <2>4, <2>5, <2>6, <2>7 DEF Serve
<1>17. CASE HandleEvent
  BY <1>7, <1>8, <1>9, <1>10, <1>11, <1>12, <1>17 DEF HandleEvent
<1> QED
  BY <1>1, <1>2, <1>3, <1>4, <1>5, <1>6, <1>13, <1>14, <1>15, <1>16, <1>17 DEF StationStep
-----------------------------------------------------------------------------
(* The sockets.  A loop holds one from create_socket until it closes it.   *)
IpAddresses == Addresses \cup {NoAddress, ApAddress}
LoopStates == {"off", "wait_up", "open", "option", "bind", "delay", "wait_down", "close"}
Listening == {"option", "bind", "delay", "wait_down", "close"}
PollStates == {"none", "socket", "bound socket"}
Held(c) == IF sock[c] # NoSocket THEN 1 ELSE 0
Sending == IF poll.has = "none" THEN 0 ELSE 1

ListenerInv ==
    /\ ListenerType(IpAddresses)
    /\ \A c \in Contexts : sock[c] # NoSocket <=> loop[c] \in Listening
    /\ ~Serving => \A c \in Contexts : loop[c] = "off"
    /\ fds = Held("ap") + Held("sta") + Sending

LEMMA HeldFacts ==
    ASSUME NEW s
    PROVE  Cardinality({c \in Contexts : s[c] # NoSocket})
             = (IF s["ap"] # NoSocket THEN 1 ELSE 0) + (IF s["sta"] # NoSocket THEN 1 ELSE 0)
<1> DEFINE up == {c \in Contexts : s[c] # NoSocket}
<1>1. /\ Cardinality({}) = 0 /\ Cardinality({"ap"}) = 1 /\ Cardinality({"sta"}) = 1
      /\ Cardinality({"sta", "ap"}) = 2
  <2>1. IsFiniteSet({"sta"}) /\ Cardinality({"sta"}) = 1 /\ Cardinality({"ap"}) = 1
    BY FS_Singleton
  <2>2. Cardinality({"sta"} \cup {"ap"}) = 2
    BY <2>1, FS_AddElement
  <2>3. {"sta"} \cup {"ap"} = {"sta", "ap"}
    OBVIOUS
  <2> QED  BY <2>1, <2>2, <2>3, FS_EmptySet
<1>2. CASE s["ap"] # NoSocket /\ s["sta"] # NoSocket
  <2>1. up = {"sta", "ap"}
    BY <1>2 DEF Contexts
  <2> QED  BY <1>1, <1>2, <2>1
<1>3. CASE s["ap"] # NoSocket /\ s["sta"] = NoSocket
  <2>1. up = {"ap"}
    BY <1>3 DEF Contexts
  <2> QED  BY <1>1, <1>3, <2>1
<1>4. CASE s["ap"] = NoSocket /\ s["sta"] # NoSocket
  <2>1. up = {"sta"}
    BY <1>4 DEF Contexts
  <2> QED  BY <1>1, <1>4, <2>1
<1>5. CASE s["ap"] = NoSocket /\ s["sta"] = NoSocket
  <2>1. up = {}
    BY <1>5 DEF Contexts
  <2> QED  BY <1>1, <1>5, <2>1
<1> QED
  BY <1>2, <1>3, <1>4, <1>5

LEMMA AddressFacts ==
    ASSUME StationType
    PROVE  /\ \A c \in Contexts : LocalAddress(c) \in IpAddresses
           /\ NoSocket \notin IpAddresses /\ Unbound \notin IpAddresses /\ NoSocket # Unbound
BY SocketAssumption, FdsAssumption DEF StationType, LocalAddress, IpAddresses

LEMMA ListenerInitially == ASSUME Init PROVE ListenerInv
<1>1. /\ loop = [c \in Contexts |-> "off"] /\ sock = [c \in Contexts |-> NoSocket]
      /\ fds = 0 /\ poll = [todo |-> {}, has |-> "none"] /\ missed = FALSE
  BY DEF Init, ListenerOff, PollIdle
<1>2. Held("ap") = 0 /\ Held("sta") = 0 /\ Sending = 0 /\ 0 \in 0..MaxFds
  BY <1>1, FdsAssumption DEF Held, Sending, Contexts
<1>3. \A c \in Contexts : sock[c] = NoSocket /\ loop[c] = "off"
  BY <1>1
<1>4. ListenerType(IpAddresses)
  BY <1>1, <1>2 DEF ListenerType
<1> QED
  BY <1>1, <1>2, <1>3, <1>4 DEF ListenerInv, Listening

(* A box leaves "serve" only by a restart.                                 *)
LEMMA ServingUntilRestart ==
    ASSUME StationStep \/ UNCHANGED <<settings, wifi>>, Serving, ~Serving'
    PROVE  boot'.at = "button"
<1>1. \/ UNCHANGED boot
      \/ \E reason \in Reasons : Restart(reason)
      \/ PassButton \/ FactoryReset \/ LoadSettings \/ WriteDefault \/ Starts
  BY SettingsMoves DEF settings, Ask, Stores
<1>2. ~UNCHANGED boot
  BY DEF Serving, At
<1>3. boot.at = "serve"
  BY DEF Serving, At
<1>4. CASE PassButton \/ FactoryReset \/ LoadSettings \/ WriteDefault \/ Starts
  BY <1>3, <1>4 DEF PassButton, FactoryReset, LoadSettings, WriteDefault, Starts, At
<1>5. ASSUME NEW reason, Restart(reason) PROVE boot'.at = "button"
  BY <1>5 DEF Restart, Reset
<1> QED
  BY <1>1, <1>2, <1>4, <1>5

(* What the station does reaches the listener through Told only.           *)
LEMMA ListenerTold ==
    ASSUME ListenerInv, StationStep, Told
    PROVE  ListenerInv'
<1>1. CASE boot'.at = "button"
  <2>1. /\ loop' = [c \in Contexts |-> "off"] /\ sock' = [c \in Contexts |-> NoSocket]
        /\ fds' = 0 /\ poll' = [todo |-> {}, has |-> "none"] /\ missed' = FALSE
    BY <1>1 DEF Told, PollIdle
  <2>2. 0 \in 0..MaxFds
    BY FdsAssumption
  <2>3. Held("ap")' = 0 /\ Held("sta")' = 0 /\ Sending' = 0 /\ fds' = 0
    BY <2>1 DEF Held, Sending, Contexts
  <2>4. \A c \in Contexts : sock'[c] = NoSocket /\ loop'[c] = "off"
    BY <2>1
  <2>5. ListenerType(IpAddresses)'
    BY <2>1, <2>2 DEF ListenerType
  <2> QED  BY <2>3, <2>4, <2>5 DEF ListenerInv, Listening
<1>2. CASE boot'.at # "button"
  <2>1. /\ UNCHANGED <<sock, fds, poll>> /\ missed' \in BOOLEAN
        /\ \/ loop' = Woken(bits')
           \/ ~Serving /\ Serving' /\ loop' = Started(bits')
    BY <1>2 DEF Told, SleptThrough, ListenerInv, ListenerType
  <2>2. /\ loop' \in [Contexts -> LoopStates]
        /\ \A c \in Contexts : loop'[c] \in Listening <=> loop[c] \in Listening
        /\ ~Serving' => \A c \in Contexts : loop'[c] = "off"
    <3>1. CASE loop' = Woken(bits')
      <4>1. ~Serving' => ~Serving
        BY <1>2, ServingUntilRestart
      <4>2. loop \in [Contexts -> LoopStates]
        BY DEF ListenerInv, ListenerType, LoopStates
      <4>3. ASSUME NEW c \in Contexts
            PROVE  /\ loop'[c] \in LoopStates /\ (loop'[c] \in Listening <=> loop[c] \in Listening)
                   /\ loop[c] = "off" => loop'[c] = "off"
        BY <3>1, <4>2 DEF Woken, Up, Down, Listening, LoopStates
      <4>4. DOMAIN loop' = Contexts /\ loop' = [c \in Contexts |-> loop'[c]]
        BY <3>1 DEF Woken
      <4> QED  BY <4>1, <4>3, <4>4 DEF ListenerInv
    <3>2. CASE ~Serving /\ Serving' /\ loop' = Started(bits')
      <4>1. \A c \in Contexts : loop[c] = "off"
        BY <3>2 DEF ListenerInv
      <4>2. \A c \in Contexts : loop'[c] \in {"open", "wait_up"}
        BY <3>2 DEF Started, Up
      <4>3. DOMAIN loop' = Contexts /\ loop' = [c \in Contexts |-> loop'[c]]
        BY <3>2 DEF Started
      <4> QED  BY <3>2, <4>1, <4>2, <4>3 DEF Listening, LoopStates
    <3> QED  BY <2>1, <3>1, <3>2
  <2>3. ListenerType(IpAddresses)'
    BY <2>1, <2>2 DEF ListenerInv, ListenerType, LoopStates
  <2>4. UNCHANGED <<Held("ap"), Held("sta"), Sending, fds, sock>>
    BY <2>1 DEF Held, Sending
  <2> QED  BY <2>2, <2>3, <2>4 DEF ListenerInv
<1> QED
  BY <1>1, <1>2

LEMMA ListenerSteps ==
    ASSUME StationType, ListenerInv, ListenerStep
    PROVE  ListenerInv'
<1> USE DEF Listening, LoopStates, PollStates
<1>0. /\ loop \in [Contexts -> LoopStates]
      /\ sock \in [Contexts -> IpAddresses \cup {NoSocket, Unbound}]
      /\ fds \in 0..MaxFds /\ MaxFds \in Nat
      /\ poll \in [todo : SUBSET Contexts, has : PollStates]
      /\ \A c \in Contexts : sock[c] # NoSocket <=> loop[c] \in Listening
      /\ ~Serving => \A c \in Contexts : loop[c] = "off"
      /\ fds = Held("ap") + Held("sta") + Sending
      /\ missed \in BOOLEAN /\ Serving' = Serving
  BY FdsAssumption DEF ListenerInv, ListenerType, ListenerStep, settings, Serving, At
<1>a. /\ fds \in 0..MaxFds /\ MaxFds \in Nat /\ fds = Held("ap") + Held("sta") + Sending
      /\ \A c \in Contexts : Held(c) \in {0, 1}
      /\ Sending \in {0, 1} /\ "ap" \in Contexts /\ "sta" \in Contexts
  BY <1>0 DEF Held, Sending, Contexts
<1>1. ASSUME NEW c \in Contexts, LoopStep(c)
      PROVE  ListenerInv'
  <2>1. CASE OpenSocket(c)
    <3>1. /\ loop' = [loop EXCEPT ![c] = "option"] /\ sock' = [sock EXCEPT ![c] = Unbound]
          /\ fds' = fds + 1 /\ fds < MaxFds /\ UNCHANGED <<poll, missed>> /\ sock[c] = NoSocket
      BY <1>0, <2>1 DEF OpenSocket
    <3>2. Held(c) = 0 /\ Held(c)' = 1 /\ Sending' = Sending
      BY <1>0, <3>1, FdsAssumption DEF Held, Sending
    <3>3. \A d \in Contexts \ {c} : Held(d)' = Held(d)
      BY <1>0, <3>1 DEF Held
    <3>4. fds' \in 0..MaxFds /\ fds' = Held("ap")' + Held("sta")' + Sending'
      <4>1. CASE c = "ap"
        BY <1>a, <3>1, <3>2, <3>3, <4>1
      <4>2. CASE c = "sta"
        BY <1>a, <3>1, <3>2, <3>3, <4>2
      <4> QED  BY <4>1, <4>2 DEF Contexts
    <3>5. \A d \in Contexts : sock'[d] # NoSocket <=> loop'[d] \in Listening
      BY <1>0, <3>1, FdsAssumption
    <3>6. ~Serving' => \A d \in Contexts : loop'[d] = "off"
      BY <1>0, <2>1 DEF OpenSocket
    <3> QED  BY <1>0, <3>1, <3>4, <3>5, <3>6 DEF ListenerInv, ListenerType
  <2>2. CASE OpenFails(c, bits) \/ SetOption(c) \/ EndDelay(c, bits)
    BY <1>0, <2>2 DEF OpenFails, SetOption, EndDelay, Up, Down, ListenerInv, ListenerType, Held, Sending
  <2>3. CASE BindSocket(c, LocalAddress(c))
    BY <1>0, <2>3, AddressFacts DEF BindSocket, ListenerInv, ListenerType, Held, Sending, Contexts
  <2>4. CASE OptionFails(c, bits) \/ BindFails(c, bits) \/ ShutDown(c, bits)
    <3>1. /\ loop[c] \in Listening /\ fds' = fds - 1 /\ sock' = [sock EXCEPT ![c] = NoSocket]
          /\ loop' = [loop EXCEPT ![c] = Up(c, bits)] /\ UNCHANGED poll /\ missed' \in BOOLEAN
      BY <1>0, <2>4 DEF OptionFails, BindFails, ShutDown, CloseSocket, RefusedSocket, Released
    <3>2. Held(c) = 1 /\ Held(c)' = 0
      BY <1>0, <3>1 DEF Held
    <3>3. \A d \in Contexts \ {c} : Held(d)' = Held(d) /\ Held(d) \in {0, 1}
      BY <1>0, <3>1 DEF Held
    <3>4. fds' \in 0..MaxFds /\ fds' = Held("ap")' + Held("sta")' + Sending'
      <4>0. Sending' = Sending
        BY <3>1 DEF Sending
      <4>1. CASE c = "ap"
        BY <1>a, <3>1, <3>2, <3>3, <4>0, <4>1
      <4>2. CASE c = "sta"
        BY <1>a, <3>1, <3>2, <3>3, <4>0, <4>2
      <4> QED  BY <4>1, <4>2 DEF Contexts
    <3> QED  BY <1>0, <3>1, <3>4 DEF Up, ListenerInv, ListenerType
  <2> QED  BY <1>1, <2>1, <2>2, <2>3, <2>4 DEF LoopStep
<1>2. CASE Poll(bits)
  <2>1. /\ UNCHANGED <<loop, sock, missed>> /\ fds' \in 0..MaxFds
        /\ poll' \in [todo : SUBSET Contexts, has : PollStates]
        /\ fds' = Held("ap") + Held("sta") + Sending'
    <3>0. /\ Held("ap") \in {0, 1} /\ Held("sta") \in {0, 1}
          /\ poll = [todo |-> poll.todo, has |-> poll.has] /\ poll.todo \in SUBSET Contexts
          /\ poll.has \in PollStates
      BY <1>0 DEF Held
    <3>1. CASE PollWakes(bits)
      BY <1>0, <3>1 DEF PollWakes, Sending
    <3>2. CASE PollOpens /\ fds < MaxFds
      <4>1. /\ poll' = [todo |-> poll.todo, has |-> "socket"] /\ fds' = fds + 1 /\ poll.has = "none"
            /\ UNCHANGED <<loop, sock, missed>>
        BY <3>0, <3>2 DEF PollOpens
      <4>2. Sending = 0 /\ Sending' = 1
        BY <4>1 DEF Sending
      <4>3. fds' \in 0..MaxFds /\ fds' = Held("ap") + Held("sta") + Sending'
        BY <1>a, <3>2, <4>1, <4>2
      <4> QED  BY <3>0, <4>1, <4>3
    <3>3. CASE PollOpens /\ ~(fds < MaxFds)
      <4>1. /\ poll' = [todo |-> poll.todo \ {PollNext}, has |-> "none"] /\ poll.has = "none"
            /\ UNCHANGED <<loop, sock, fds, missed>>
        BY <3>0, <3>3 DEF PollOpens, PollPasses
      <4> QED  BY <1>0, <3>0, <4>1 DEF Sending
    <3>4. ASSUME poll.has # "none", fds' = fds - 1, PollPasses, UNCHANGED <<loop, sock, missed>>
          PROVE  /\ UNCHANGED <<loop, sock, missed>> /\ fds' \in 0..MaxFds
                 /\ poll' \in [todo : SUBSET Contexts, has : PollStates]
                 /\ fds' = Held("ap") + Held("sta") + Sending'
      <4>1. poll' = [todo |-> poll.todo \ {PollNext}, has |-> "none"]
        BY <3>4 DEF PollPasses
      <4>2. Sending = 1 /\ Sending' = 0
        BY <3>4, <4>1 DEF Sending
      <4>3. fds' \in 0..MaxFds /\ fds' = Held("ap") + Held("sta") + Sending'
        BY <1>a, <3>4, <4>2
      <4> QED  BY <3>0, <3>4, <4>1, <4>3
    <3>5. CASE PollSetsOption
      <4>1. CASE poll' = [poll EXCEPT !.has = "bound socket"] /\ UNCHANGED fds
        <5>1. /\ poll' = [todo |-> poll.todo, has |-> "bound socket"] /\ poll.has = "socket"
              /\ UNCHANGED <<loop, sock, fds, missed>>
          BY <3>0, <3>5, <4>1 DEF PollSetsOption
        <5> QED  BY <1>0, <3>0, <5>1 DEF Sending
      <4>2. CASE PollPasses /\ RefusedSocket
        BY <3>4, <3>5, <4>2 DEF PollSetsOption, RefusedSocket, Released
      <4> QED  BY <3>5, <4>1, <4>2 DEF PollSetsOption
    <3>6. CASE PollSent
      BY <3>4, <3>6 DEF PollSent, Released
    <3> QED  BY <1>2, <3>1, <3>2, <3>3, <3>5, <3>6 DEF Poll
  <2>2. Held("ap")' = Held("ap") /\ Held("sta")' = Held("sta")
    BY <2>1 DEF Held
  <2>3. fds' = Held("ap")' + Held("sta")' + Sending'
    BY <2>1, <2>2
  <2>4. ListenerType(IpAddresses)'
    BY <1>0, <2>1 DEF ListenerType
  <2>5. /\ \A c \in Contexts : sock'[c] # NoSocket <=> loop'[c] \in Listening
        /\ ~Serving' => \A c \in Contexts : loop'[c] = "off"
    BY <1>0, <2>1
  <2> QED  BY <2>3, <2>4, <2>5 DEF ListenerInv
<1> QED
  BY <1>1, <1>2 DEF ListenerStep
-----------------------------------------------------------------------------
(* The bits.  The queue tells of every connection and of every end of one, *)
(* so the last of these events in it says how the station is; when there   *)
(* is none, the bits do.                                                   *)
Telling == {"STA_DISCONNECTED", "GOT_IP"}
Connected == station = "connected"

GotIpHolds ==
    \A n \in DOMAIN events : events[n] = "GOT_IP" =>
        Connected \/ \E m \in DOMAIN events : n < m /\ events[m] = "STA_DISCONNECTED"

DisconnectedHolds ==
    \A n \in DOMAIN events : events[n] = "STA_DISCONNECTED" =>
        ~Connected \/ \E m \in DOMAIN events : n < m /\ events[m] = "GOT_IP"

BitsHold ==
    (\A n \in DOMAIN events : events[n] \notin Telling) =>
        /\ "sta_connected" \in bits <=> Connected
        /\ "sta_disconnected" \in bits => ~Connected

EventsInv == GotIpHolds /\ DisconnectedHolds /\ BitsHold

SameBits == \A b \in {"sta_connected", "sta_disconnected"} : b \in bits' <=> b \in bits

(* What a step does to the queue, to the bits and to the connection.       *)
LEMMA EventMoves ==
    ASSUME StationType, StationStep \/ UNCHANGED <<settings, wifi>>
    PROVE  \/ \E reason \in Reasons : Restart(reason)
           \/ UNCHANGED events /\ (Connected' <=> Connected) /\ SameBits
           \/ Room /\ Post("STA_START") /\ (Connected' <=> Connected) /\ SameBits
           \/ Room /\ Post("AP_STACONNECTED") /\ (Connected' <=> Connected) /\ SameBits
           \/ Room /\ Post("STA_DISCONNECTED") /\ ~Connected'
           \/ Room /\ Post("GOT_IP") /\ Connected'
           \/ Take("STA_START") /\ UNCHANGED station /\ SameBits
           \/ Take("AP_STACONNECTED") /\ UNCHANGED station /\ SameBits
           \/ Take("STA_DISCONNECTED") /\ UNCHANGED station /\ bits' = Disconnected(bits)
           \/ Take("GOT_IP") /\ UNCHANGED station /\ bits' = GotIp(bits)
<1> USE DEF tasks, SameBits, Connected, Reasons
<1> DEFINE Changed ==
             \/ UNCHANGED events /\ (Connected' <=> Connected)
             \/ Room /\ Post("STA_START") /\ (Connected' <=> Connected)
             \/ Room /\ Post("STA_DISCONNECTED") /\ ~Connected'
<1>1. CASE UNCHANGED <<settings, wifi>>
  BY <1>1 DEF wifi
<1>2. ASSUME NEW apsta, SetMode(apsta) PROVE Changed
  BY <1>2 DEF SetMode, Drives
<1>3. CASE Boot
  BY <1>2, <1>3 DEF Boot, wifi, StartWifi, FirstRun, Abort
<1>4. CASE PowerCut
  BY <1>4 DEF PowerCut
<1>5. CASE AttemptFails \/ Drop
  BY <1>5 DEF AttemptFails, Drop, Drives
<1>6. CASE Associates \/ Joins
  BY <1>6 DEF Associates, Associate, Joins, ClientJoins
<1>7. CASE HandleEvent
  <2>1. CASE BackOff
    BY <2>1 DEF BackOff, Abort
  <2>2. CASE Retry
    BY <2>2 DEF Retry, Dial, CanDial
  <2>3. CASE OnStart \/ OnDisconnected \/ OnGotIp \/ OnClientJoined
    BY <2>3 DEF OnStart, OnDisconnected, OnGotIp, OnClientJoined
  <2> QED  BY <1>7, <2>1, <2>2, <2>3 DEF HandleEvent
<1>8. CASE TimerFires
  BY <1>8 DEF TimerFires
<1>9. CASE DialOut
  <2>1. PICK t \in Threads : ZeroRetries(t) \/ StopTimer(t) \/ Connect(t)
    BY <1>9 DEF DialOut
  <2> QED  BY <2>1 DEF ZeroRetries, StopTimer, Connect, Abort, Dial, CanDial
<1>10. CASE Asks
  BY <1>10 DEF Asks, Reboot, Ask
<1>11. CASE Serve
  <2>1. CASE ChangeMode
    BY <1>2, <2>1 DEF ChangeMode
  <2>2. CASE NetworkRefused \/ StoreSetting
    BY <2>2 DEF NetworkRefused, StoreSetting, Abort
  <2>3. CASE Disconnect
    BY <2>3 DEF Disconnect, Drives, StationType
  <2>4. CASE HangUp \/ DialAgain
    BY <2>4 DEF HangUp, DialAgain
  <2> QED  BY <1>11, <2>1, <2>2, <2>3, <2>4 DEF Serve
<1> QED
  BY <1>1, <1>3, <1>4, <1>5, <1>6, <1>7, <1>8, <1>9, <1>10, <1>11 DEF StationStep

LEMMA EventsInitially == ASSUME Init PROVE EventsInv
BY DEF Init, StationOff, EventsInv, GotIpHolds, DisconnectedHolds, BitsHold, Connected

LEMMA EventsStep ==
    ASSUME StationType, EventsInv, StationStep \/ UNCHANGED <<settings, wifi>>
    PROVE  EventsInv'
<1> USE DEF Telling
<1>0. GotIpHolds /\ DisconnectedHolds /\ BitsHold
  BY DEF EventsInv
<1>1. ASSUME NEW reason, Restart(reason) PROVE EventsInv'
  BY <1>1 DEF Restart, EventsInv, GotIpHolds, DisconnectedHolds, BitsHold, Connected
<1>2. CASE UNCHANGED events /\ (Connected' <=> Connected) /\ SameBits
  BY <1>0, <1>2 DEF EventsInv, GotIpHolds, DisconnectedHolds, BitsHold, SameBits
<1>3. ASSUME NEW e \in {"STA_START", "AP_STACONNECTED"}, Room, Post(e), Connected' <=> Connected, SameBits
      PROVE  EventsInv'
  <2>1. /\ DOMAIN events' = 1..(Len(events) + 1) /\ DOMAIN events = 1..Len(events)
        /\ events'[Len(events) + 1] = e /\ Len(events) \in Nat
        /\ \A n \in DOMAIN events : n \in DOMAIN events' /\ events'[n] = events[n]
    BY <1>3, PostFacts DEF Events
  <2>2. \A n \in DOMAIN events' : n \in DOMAIN events \/ events'[n] = e
    BY <2>1
  <2>3. \A n \in DOMAIN events' : events'[n] \in Telling => n \in DOMAIN events /\ events[n] = events'[n]
    BY <2>1, <2>2
  <2>4. GotIpHolds'
    BY <1>0, <1>3, <2>1, <2>3 DEF GotIpHolds
  <2>5. DisconnectedHolds'
    BY <1>0, <1>3, <2>1, <2>3 DEF DisconnectedHolds
  <2>6. BitsHold'
    BY <1>0, <1>3, <2>1 DEF BitsHold, SameBits
  <2> QED  BY <2>4, <2>5, <2>6 DEF EventsInv
<1>4. ASSUME NEW e \in Telling, Room, Post(e), Connected' <=> e = "GOT_IP"
      PROVE  EventsInv'
  <2>1. /\ Len(events) + 1 \in DOMAIN events' /\ events'[Len(events) + 1] = e
        /\ \A n \in DOMAIN events' : n = Len(events) + 1 \/ n < Len(events) + 1
    <3>1. /\ DOMAIN events' = 1..(Len(events) + 1) /\ Len(events) \in Nat
          /\ events'[Len(events) + 1] = e
      BY <1>4, PostFacts DEF Events
    <3> QED  BY <3>1
  <2>2. GotIpHolds'
    BY <1>4, <2>1 DEF GotIpHolds
  <2>3. DisconnectedHolds'
    BY <1>4, <2>1 DEF DisconnectedHolds
  <2>4. BitsHold'
    BY <1>4, <2>1 DEF BitsHold
  <2> QED  BY <2>2, <2>3, <2>4 DEF EventsInv
<1>5. ASSUME NEW e, Take(e), UNCHANGED station,
             \/ e \notin Telling /\ SameBits
             \/ e = "STA_DISCONNECTED" /\ bits' = Disconnected(bits)
             \/ e = "GOT_IP" /\ bits' = GotIp(bits)
      PROVE  EventsInv'
  <2>1. /\ 1 \in DOMAIN events /\ events[1] = e
        /\ \A n \in DOMAIN events' : n + 1 \in DOMAIN events /\ events'[n] = events[n + 1]
        /\ \A n \in DOMAIN events \ {1} : n - 1 \in DOMAIN events' /\ events'[n - 1] = events[n]
        /\ DOMAIN events \subseteq Nat /\ DOMAIN events' \subseteq Nat /\ 0 \notin DOMAIN events'
    <3>1. events' \in Seq(Events)
      BY <1>5, TakeFacts
    <3> QED  BY <1>5, <3>1, TakeFacts
  <2>2. \A n \in DOMAIN events', m \in DOMAIN events :
           n + 1 < m => m - 1 \in DOMAIN events' /\ n < m - 1 /\ events'[m - 1] = events[m]
    BY <2>1
  <2>3. Connected' <=> Connected
    BY <1>5 DEF Connected
  <2>4. GotIpHolds'
    <3> SUFFICES ASSUME NEW n \in DOMAIN events', events'[n] = "GOT_IP", ~Connected
                 PROVE  \E m \in DOMAIN events' : n < m /\ events'[m] = "STA_DISCONNECTED"
      BY <2>3 DEF GotIpHolds
    <3>1. n + 1 \in DOMAIN events /\ events[n + 1] = "GOT_IP"
      BY <2>1
    <3>2. PICK m \in DOMAIN events : n + 1 < m /\ events[m] = "STA_DISCONNECTED"
      BY <1>0, <3>1 DEF GotIpHolds
    <3> QED  BY <2>2, <3>2
  <2>5. DisconnectedHolds'
    <3> SUFFICES ASSUME NEW n \in DOMAIN events', events'[n] = "STA_DISCONNECTED", Connected
                 PROVE  \E m \in DOMAIN events' : n < m /\ events'[m] = "GOT_IP"
      BY <2>3 DEF DisconnectedHolds
    <3>1. n + 1 \in DOMAIN events /\ events[n + 1] = "STA_DISCONNECTED"
      BY <2>1
    <3>2. PICK m \in DOMAIN events : n + 1 < m /\ events[m] = "GOT_IP"
      BY <1>0, <3>1 DEF DisconnectedHolds
    <3> QED  BY <2>2, <3>2
  <2>6. BitsHold'
    <3> SUFFICES ASSUME \A n \in DOMAIN events' : events'[n] \notin Telling
                 PROVE  /\ "sta_connected" \in bits' <=> Connected
                        /\ "sta_disconnected" \in bits' => ~Connected
      BY <2>3 DEF BitsHold
    <3>1. \A n \in DOMAIN events \ {1} : events[n] \notin Telling
      BY <2>1
    <3>2. \A m \in DOMAIN events : 1 < m => m # 1
      BY <2>1
    <3>3. CASE e \notin Telling /\ SameBits
      <4>1. \A n \in DOMAIN events : events[n] \notin Telling
        BY <2>1, <3>1, <3>3
      <4> QED  BY <1>0, <3>3, <4>1 DEF BitsHold, SameBits
    <3>4. CASE e = "STA_DISCONNECTED" /\ bits' = Disconnected(bits)
      <4>1. ~Connected
        BY <1>0, <2>1, <3>1, <3>2, <3>4 DEF DisconnectedHolds
      <4> QED  BY <3>4, <4>1 DEF Disconnected
    <3>5. CASE e = "GOT_IP" /\ bits' = GotIp(bits)
      <4>1. Connected
        BY <1>0, <2>1, <3>1, <3>2, <3>5 DEF GotIpHolds
      <4> QED  BY <3>5, <4>1 DEF GotIp
    <3> QED  BY <1>5, <3>3, <3>4, <3>5
  <2> QED  BY <2>4, <2>5, <2>6 DEF EventsInv
<1> QED
  BY <1>1, <1>2, <1>3, <1>4, <1>5, EventMoves
-----------------------------------------------------------------------------
(* The next attempt.  A disconnect that is asked for is not retried by the *)
(* event task, and need not be: the request dials itself when it is done.  *)
Has(todo, step) == \E n \in DOMAIN todo : todo[n] = step
After(todo, step, n) == \E m \in DOMAIN todo : n < m /\ todo[m] = step

HangsUpAndDials(todo) ==
    \A n \in DOMAIN todo :
        /\ todo[n] \in {"hang up", "disconnect", "hung up"} => After(todo, "dial", n)
        /\ todo[n] = "hang up" => After(todo, "hung up", n)

EnablesAndDials(todo) ==
    \A n \in DOMAIN todo : todo[n] \in {"sta_mode"} \cup Networks => After(todo, "dial", n)

NetworkThenMode(todo) ==
    \A n \in DOMAIN todo : todo[n] \in Networks => After(todo, "sta_mode", n)

NamesOne(todo) == ~(Has(todo, "named") /\ Has(todo, "empty"))

(* A station that is not on with a network to join, and will be when the   *)
(* request is done.                                                        *)
ToBeWanted == http.on /\ ~(enabled /\ Named) /\ (Named \/ Has(http.todo, "named"))

RequestDials ==
    /\ in_disconnect => Has(http.todo, "hung up")
    /\ HangsUpAndDials(http.todo) /\ NetworkThenMode(http.todo) /\ NamesOne(http.todo)
    /\ ToBeWanted => untried \/ EnablesAndDials(http.todo)

(* Until Wi-Fi is started there is no station.                             *)
NoStationYet == boot.at \notin {"defaults", "serve"} => station = "stopped"

Calls == {"STA_DISCONNECTED", "STA_START"}
Alarms == \E n \in DOMAIN events : events[n] \in Calls

Trying ==
    armed \/ event_task.pc # "idle" \/ (\E t \in Threads : connect[t] # "none") \/ Alarms
    \/ Has(http.todo, "dial") \/ (~http.on /\ Has(http.todo, "sta_mode"))

NextAttempt == (Wanted /\ station = "idle") => Trying

TryInv == RequestDials /\ NoStationYet /\ NextAttempt

LEMMA NothingToDo ==
    /\ HangsUpAndDials(<<>>) /\ EnablesAndDials(<<>>) /\ NetworkThenMode(<<>>) /\ NamesOne(<<>>)
    /\ \A step : ~Has(<<>>, step)
BY DEF HangsUpAndDials, EnablesAndDials, NetworkThenMode, NamesOne, Has

LEMMA RequestShape ==
    ASSUME NEW kind \in Kinds, NEW on \in BOOLEAN, NEW network \in Networks
    PROVE  /\ HangsUpAndDials(Request(kind, on, network))
           /\ NetworkThenMode(Request(kind, on, network)) /\ NamesOne(Request(kind, on, network))
           /\ on => kind = "settings/sta" \/ EnablesAndDials(Request(kind, on, network))
<1> DEFINE todo == Request(kind, on, network)
<1> USE DEF HangsUpAndDials, EnablesAndDials, NetworkThenMode, NamesOne, Has, After
<1> SUFFICES /\ HangsUpAndDials(todo) /\ NetworkThenMode(todo) /\ NamesOne(todo)
             /\ on => kind = "settings/sta" \/ EnablesAndDials(todo)
  OBVIOUS
<1>0. /\ network \notin Keys \cup {"open", "settle", "hang up", "disconnect", "hung up", "dial"}
      /\ \A step \in Keys \cup {"open", "settle", "hang up", "disconnect", "hung up", "dial"} :
            step \notin Networks
      /\ "named" # "empty" /\ network \in {"named", "empty"}
  BY DEF Keys, Networks
<1>1. CASE kind = "wifi-config" /\ on
  <2>1. /\ DOMAIN todo = 1..10
        /\ todo[1] = "hostname" /\ todo[2] = "open" /\ todo[3] = "ap" /\ todo[4] = network
        /\ todo[5] = "sta_mode" /\ todo[6] = "settle" /\ todo[7] = "hang up" /\ todo[8] = "disconnect"
        /\ todo[9] = "hung up" /\ todo[10] = "dial"
    <3> DEFINE full == <<"hostname", "open", "ap", network, "sta_mode", "settle",
                         "hang up", "disconnect", "hung up", "dial">>
    <3>1. todo = full
      BY <1>1 DEF Request, WifiConfig
    <3>3. /\ DOMAIN full = 1..10
          /\ full[1] = "hostname" /\ full[2] = "open" /\ full[3] = "ap" /\ full[4] = network
          /\ full[5] = "sta_mode" /\ full[6] = "settle" /\ full[7] = "hang up" /\ full[8] = "disconnect"
          /\ full[9] = "hung up" /\ full[10] = "dial"
      OBVIOUS
    <3> HIDE DEF full, todo
    <3> QED  BY <3>1, <3>3
  <2>2. \A n \in 1..10 : n \in {1, 2, 3, 4, 5, 6, 7, 8, 9, 10}
    OBVIOUS
  <2>3. 5 \in 1..10 /\ 9 \in 1..10 /\ 10 \in 1..10 /\ 4 < 5 /\ 7 < 9
    OBVIOUS
  <2> HIDE DEF todo
  <2>4. \A n \in 1..10 : todo[n] = "hang up" => n = 7
    BY <1>0, <2>1, <2>2
  <2>5. \A n \in 1..10 : todo[n] \in Networks => n = 4
    BY <1>0, <2>1, <2>2 DEF Keys
  <2>6. todo[10] \notin {"hang up", "disconnect", "hung up", "sta_mode"} \cup Networks
    BY <1>0, <2>1
  <2>7. \A n \in 1..10 : n # 10 => n < 10
    OBVIOUS
  <2>8. HangsUpAndDials(todo) /\ EnablesAndDials(todo)
    BY <2>1, <2>3, <2>4, <2>6, <2>7
  <2>9. NetworkThenMode(todo)
    BY <2>1, <2>3, <2>5
  <2>10. NamesOne(todo)
    BY <1>0, <2>1, <2>5 DEF Networks
  <2> QED  BY <2>8, <2>9, <2>10
<1>2. CASE kind = "wifi-config" /\ ~on
  <2>1. /\ DOMAIN todo = 1..6
        /\ todo[1] = "hostname" /\ todo[2] = "open" /\ todo[3] = "ap" /\ todo[4] = network
        /\ todo[5] = "sta_mode" /\ todo[6] = "settle"
    <3>1. todo = <<"hostname", "open", "ap", network, "sta_mode", "settle">>
      BY <1>2 DEF Request, WifiConfig
    <3> QED  BY <3>1
  <2>2. \A n \in 1..6 : n \in {1, 2, 3, 4, 5, 6}
    OBVIOUS
  <2>3. 5 \in 1..6 /\ 4 < 5
    OBVIOUS
  <2> HIDE DEF todo
  <2>4. \A n \in 1..6 : todo[n] \in Networks => n = 4
    BY <1>0, <2>1, <2>2 DEF Keys
  <2>5. HangsUpAndDials(todo)
    BY <1>0, <2>1, <2>2
  <2>6. NetworkThenMode(todo) /\ NamesOne(todo)
    BY <1>0, <2>1, <2>3, <2>4 DEF Networks
  <2> QED  BY <1>2, <2>5, <2>6
<1>3. CASE kind = "settings/sta" /\ on
  <2>1. DOMAIN todo = 1..3 /\ todo[1] = "open" /\ todo[2] = network /\ todo[3] = "sta_mode"
    <3>1. todo = <<"open", network, "sta_mode">>
      BY <1>3 DEF Request, EnableSta
    <3> QED  BY <3>1
  <2>2. \A n \in 1..3 : n \in {1, 2, 3}
    OBVIOUS
  <2>3. 3 \in 1..3 /\ 2 < 3
    OBVIOUS
  <2> HIDE DEF todo
  <2>4. \A n \in 1..3 : todo[n] \in Networks => n = 2
    BY <1>0, <2>1, <2>2 DEF Keys
  <2>5. HangsUpAndDials(todo)
    BY <1>0, <2>1, <2>2
  <2>6. NetworkThenMode(todo) /\ NamesOne(todo)
    BY <1>0, <2>1, <2>3, <2>4 DEF Networks
  <2> QED  BY <1>3, <2>5, <2>6
<1>4. CASE (kind = "settings/sta" /\ ~on) \/ kind = "settings/artnet"
  <2>1. todo = <<"sta_mode", "settle">> \/ todo = <<"native_uni", "effect_uni">>
    BY <1>4 DEF Request, DisableSta
  <2>2. \A n \in DOMAIN todo : todo[n] \in {"sta_mode", "settle", "native_uni", "effect_uni"}
    BY <2>1
  <2> HIDE DEF todo
  <2>3. \A n \in DOMAIN todo : todo[n] \notin Networks \cup {"hang up", "disconnect", "hung up"}
    BY <1>0, <2>2 DEF Keys
  <2>4. HangsUpAndDials(todo) /\ NetworkThenMode(todo) /\ NamesOne(todo)
    BY <2>3 DEF Networks
  <2>5. on => kind = "settings/sta" \/ \A n \in DOMAIN todo : todo[n] \in {"native_uni", "effect_uni"}
    <3>1. kind = "settings/artnet" => todo = <<"native_uni", "effect_uni">>
      BY DEF todo, Request
    <3> QED  BY <1>4, <3>1
  <2> QED  BY <1>0, <2>4, <2>5 DEF Keys
<1> QED
  BY <1>1, <1>2, <1>3, <1>4 DEF Kinds

(* What followed a step of a request still does when the first is done.    *)
LEMMA AfterDone ==
    ASSUME HttpType, http.todo # <<>>, Done
    PROVE  /\ HangsUpAndDials(http.todo) => HangsUpAndDials(http'.todo)
           /\ EnablesAndDials(http.todo) => EnablesAndDials(http'.todo)
           /\ NetworkThenMode(http.todo) => NetworkThenMode(http'.todo)
           /\ \A step : Has(http'.todo, step) => Has(http.todo, step)
           /\ Has(http.todo, Head(http.todo))
           /\ \A step : Has(http.todo, step) /\ step # Head(http.todo) => Has(http'.todo, step)
           /\ HangsUpAndDials(http.todo) /\ Head(http.todo) = "hang up" => Has(http'.todo, "hung up")
           /\ HangsUpAndDials(http.todo) /\ Head(http.todo) \in {"hang up", "disconnect", "hung up"} =>
                 Has(http'.todo, "dial")
           /\ EnablesAndDials(http.todo) /\ Head(http.todo) \in {"sta_mode"} \cup Networks =>
                 Has(http'.todo, "dial")
           /\ NetworkThenMode(http.todo) /\ Head(http.todo) \in Networks => Has(http'.todo, "sta_mode")
           /\ http'.on => http.on
<1>1. /\ \A n \in DOMAIN http'.todo : n + 1 \in DOMAIN http.todo /\ http'.todo[n] = http.todo[n + 1]
      /\ \A n \in DOMAIN http.todo \ {1} :
            n - 1 \in DOMAIN http'.todo /\ http'.todo[n - 1] = http.todo[n]
      /\ 1 \in DOMAIN http.todo /\ Head(http.todo) = http.todo[1] /\ (http'.on => http.on)
      /\ HttpType'
  BY DoneFacts
<1>2. DOMAIN http.todo \subseteq Nat /\ DOMAIN http'.todo \subseteq Nat /\ 0 \notin DOMAIN http'.todo
  <2>1. http.todo \in Seq(Steps) /\ http'.todo \in Seq(Steps)
    BY <1>1 DEF HttpType
  <2> QED  BY <2>1
<1>3. ASSUME NEW n \in DOMAIN http'.todo, NEW step, After(http.todo, step, n + 1)
      PROVE  After(http'.todo, step, n)
  <2>1. PICK m \in DOMAIN http.todo : n + 1 < m /\ http.todo[m] = step
    BY <1>3 DEF After
  <2>2. n \in Nat /\ m \in Nat /\ m # 1 /\ n < m - 1
    BY <1>2, <2>1
  <2> QED  BY <1>1, <2>1, <2>2 DEF After
<1>4. ASSUME NEW step, After(http.todo, step, 1) PROVE Has(http'.todo, step)
  <2>1. PICK m \in DOMAIN http.todo : 1 < m /\ http.todo[m] = step
    BY <1>4 DEF After
  <2>2. m # 1
    BY <1>2, <2>1
  <2> QED  BY <1>1, <2>1, <2>2 DEF Has
<1>5. \A step : Has(http.todo, step) /\ step # Head(http.todo) => Has(http'.todo, step)
  BY <1>1 DEF Has
<1>6. HangsUpAndDials(http.todo) => HangsUpAndDials(http'.todo)
  BY <1>1, <1>3 DEF HangsUpAndDials
<1>7. EnablesAndDials(http.todo) => EnablesAndDials(http'.todo)
  BY <1>1, <1>3 DEF EnablesAndDials
<1>9. NetworkThenMode(http.todo) => NetworkThenMode(http'.todo)
  BY <1>1, <1>3 DEF NetworkThenMode
<1>10. Has(http.todo, Head(http.todo)) /\ \A step : Has(http'.todo, step) => Has(http.todo, step)
  BY <1>1 DEF Has
<1>8. /\ HangsUpAndDials(http.todo) /\ Head(http.todo) = "hang up" => After(http.todo, "hung up", 1)
      /\ HangsUpAndDials(http.todo) /\ Head(http.todo) \in {"hang up", "disconnect", "hung up"} =>
            After(http.todo, "dial", 1)
      /\ EnablesAndDials(http.todo) /\ Head(http.todo) \in {"sta_mode"} \cup Networks =>
            After(http.todo, "dial", 1)
      /\ NetworkThenMode(http.todo) /\ Head(http.todo) \in Networks => After(http.todo, "sta_mode", 1)
  BY <1>1 DEF HangsUpAndDials, EnablesAndDials, NetworkThenMode
<1> QED
  BY <1>1, <1>4, <1>5, <1>6, <1>7, <1>8, <1>9, <1>10

LEMMA TryInitially == ASSUME Init PROVE TryInv
<1>1. http.todo = <<>> /\ in_disconnect = FALSE /\ station = "stopped"
  BY DEF Init, StationOff, HttpIdle
<1> QED
  BY <1>1, NothingToDo DEF TryInv, RequestDials, NoStationYet, NextAttempt

(* What a step of a request does to the mode and the network.              *)
ModeOrNetwork ==
    \/ Head(http.todo) \notin {"sta_mode"} \cup Networks /\ UNCHANGED enabled /\ (Named' <=> Named)
    \/ Head(http.todo) = "sta_mode" /\ enabled' = http.on /\ (Named' <=> Named)
    \/ Head(http.todo) \in Networks /\ UNCHANGED enabled /\ (Named' <=> Head(http.todo) = "named")

LEMMA StoresModeOrNetwork ==
    ASSUME SettingsType, HttpType, StoreSetting
    PROVE  ModeOrNetwork
<1> DEFINE step == Head(http.todo)
<1>0. step \in (Keys \ {"network"}) \cup Networks
  <2>1. http.todo \in Seq(Steps) /\ http.todo # <<>> /\ step \in Keys \cup Networks
    BY DEF StoreSetting, Doing, HttpType
  <2>2. step \in Steps
    BY <2>1
  <2>3. "network" \notin Steps
    BY DEF Steps, Networks
  <2> QED  BY <2>1, <2>2, <2>3
<1>1. /\ http.todo # <<>> /\ step \in (Keys \ {"network"}) \cup Networks
      /\ flash' = [flash EXCEPT ![Setting(step)] = Sent(step)]
      /\ enabled' = IF step = "sta_mode" THEN http.on ELSE enabled
  BY <1>0 DEF StoreSetting, Doing, Store
<1>2. flash \in [Keys -> Values] /\ "network" \in Keys /\ "sta_mode" \notin Networks
  BY DEF SettingsType, Keys, Networks
<1> HIDE DEF step
<1>3. CASE step \in Networks
  <2>1. flash'["network"] = step
    BY <1>1, <1>2, <1>3 DEF Setting, Sent
  <2> QED  BY <1>1, <1>2, <1>3, <2>1 DEF ModeOrNetwork, Named, step
<1>4. CASE step \notin Networks
  <2>1. Setting(step) = step /\ step # "network"
    BY <1>1, <1>4 DEF Setting
  <2>2. flash'["network"] = flash["network"]
    BY <1>1, <1>2, <2>1
  <2> QED  BY <1>1, <1>4, <2>2 DEF ModeOrNetwork, Named, step
<1> QED
  BY <1>3, <1>4

(* An attempt begins only if the station is on and has a network.          *)
LEMMA DialTries ==
    ASSUME StationType, NEW ok \in BOOLEAN, Dial(ok), ~(enabled /\ Named)
    PROVE  untried' = untried
<1>1. ~(enabled /\ CanDial)
  BY DEF CanDial
<1>2. untried' = (untried /\ ~(enabled /\ CanDial)) /\ untried \in BOOLEAN
  BY DEF Dial, StationType
<1> QED
  BY <1>1, <1>2

(* What a step does to the request, to the flag and to the history.        *)
LEMMA RequestMoves ==
    ASSUME SettingsType, HttpType, StationType, StationStep \/ UNCHANGED <<settings, wifi>>
    PROVE  \/ \E reason \in Reasons : Restart(reason)
           \/ UNCHANGED <<http, in_disconnect, enabled, flash>> /\ (~(enabled /\ Named) => untried' = untried)
           \/ ~Serving /\ UNCHANGED <<http, in_disconnect>>
           \/ /\ \E kind \in Kinds, on \in BOOLEAN, network \in Networks : Ask(kind, on, network)
              /\ UNCHANGED in_disconnect
           \/ /\ http.todo # <<>> /\ Done /\ UNCHANGED untried
              /\ ModeOrNetwork
              /\ \/ Head(http.todo) # "hung up" /\ UNCHANGED in_disconnect
                 \/ Head(http.todo) = "hung up" /\ ~in_disconnect'
                 \/ Head(http.todo) = "hang up" /\ in_disconnect'
<1> USE DEF tasks, settings, Reasons
<1>1. CASE UNCHANGED <<settings, wifi>>
  BY <1>1 DEF wifi
<1>2. CASE Boot
  <2>1. CASE At("erased") /\ Restart("sw")
    BY <2>1
  <2>2. CASE (PassButton \/ FactoryReset \/ LoadSettings) /\ UNCHANGED wifi
    <3>1. boot.at \in {"button", "load"}
      <4>1. CASE PassButton \/ FactoryReset
        BY <4>1 DEF PassButton, FactoryReset, At
      <4>2. CASE LoadSettings
        BY <4>2 DEF LoadSettings, At
      <4> QED  BY <2>2, <4>1, <4>2
    <3>2. ~Serving
      BY <3>1 DEF Serving, At
    <3> QED  BY <2>2, <3>2 DEF wifi
  <2>3. CASE StartWifi \/ FirstRun
    <3>1. boot.at \in {"wifi", "defaults"}
      <4>1. CASE StartWifi
        BY <4>1 DEF StartWifi, At
      <4>2. CASE FirstRun
        BY <4>2 DEF FirstRun, WriteDefault
      <4> QED  BY <2>3, <4>1, <4>2
    <3>2. ~Serving
      BY <3>1 DEF Serving, At
    <3>3. UNCHANGED <<http, in_disconnect>>
      BY <2>3 DEF StartWifi, FirstRun
    <3> QED  BY <3>2, <3>3
  <2> QED  BY <1>2, <2>1, <2>2, <2>3 DEF Boot
<1>3. CASE PowerCut
  BY <1>3 DEF PowerCut
<1>4. CASE AttemptFails \/ Associates \/ Drop \/ Joins
  BY <1>4 DEF AttemptFails, Associates, Associate, Drop, Joins, ClientJoins
<1>5. CASE HandleEvent
  <2>1. CASE BackOff
    BY <2>1 DEF BackOff, Abort
  <2>2. CASE Retry
    <3>1. UNCHANGED <<http, in_disconnect, enabled, flash>> /\ \E ok \in BOOLEAN : Dial(ok)
      BY <2>2 DEF Retry
    <3>2. ~(enabled /\ Named) => untried' = untried
      BY <3>1, DialTries
    <3> QED  BY <3>1, <3>2
  <2>3. CASE OnStart \/ OnDisconnected \/ OnGotIp \/ OnClientJoined
    BY <2>3 DEF OnStart, OnDisconnected, OnGotIp, OnClientJoined
  <2> QED  BY <1>5, <2>1, <2>2, <2>3 DEF HandleEvent
<1>6. CASE TimerFires
  BY <1>6 DEF TimerFires
<1>7. CASE DialOut
  <2>1. PICK t \in Threads : ZeroRetries(t) \/ StopTimer(t) \/ Connect(t)
    BY <1>7 DEF DialOut
  <2>2. CASE ZeroRetries(t) \/ StopTimer(t)
    BY <2>2 DEF ZeroRetries, StopTimer
  <2>3. CASE Connect(t)
    <3>1. CASE Abort
      BY <3>1 DEF Abort
    <3>2. ASSUME NEW ok \in BOOLEAN, Dial(ok),
                 UNCHANGED <<settings, bits, retry_num, armed, in_disconnect, event_task, http>>
          PROVE  /\ UNCHANGED <<http, in_disconnect, enabled, flash>>
                 /\ ~(enabled /\ Named) => untried' = untried
      BY <3>2, DialTries
    <3> QED  BY <2>3, <3>1, <3>2 DEF Connect
  <2> QED  BY <2>1, <2>2, <2>3
<1>8. CASE Asks
  <2>1. CASE Reboot
    BY <2>1 DEF Reboot
  <2>2. ASSUME NEW kind \in Kinds, NEW on \in BOOLEAN, NEW network \in Networks, Ask(kind, on, network)
        PROVE  UNCHANGED in_disconnect
    BY <2>2 DEF Ask
  <2> QED  BY <1>8, <2>1, <2>2, RequestAssumption DEF Asks
<1>9. CASE Serve
  <2>1. CASE ChangeMode \/ Disconnect \/ DialAgain
    BY <2>1 DEF Doing, ChangeMode, Disconnect, DialAgain, ModeOrNetwork, Named, Networks
  <2>2. CASE NetworkRefused
    BY <2>2 DEF NetworkRefused, Abort
  <2>3. CASE StoreSetting
    <3>1. /\ http.todo # <<>> /\ Done /\ UNCHANGED <<untried, in_disconnect>>
          /\ Head(http.todo) # "hung up"
      BY <2>3 DEF StoreSetting, Doing, Keys, Networks
    <3> QED  BY <2>3, <3>1, StoresModeOrNetwork
  <2>4. CASE HangUp
    <3>1. /\ http.todo # <<>> /\ Done /\ UNCHANGED untried
          /\ Head(http.todo) \in {"hang up", "hung up"}
          /\ in_disconnect' = (Head(http.todo) = "hang up")
      BY <2>4 DEF Doing, HangUp
    <3>2. ModeOrNetwork
      BY <2>4, <3>1 DEF HangUp, ModeOrNetwork, Named, Networks
    <3> QED  BY <3>1, <3>2
  <2> QED  BY <1>9, <2>1, <2>2, <2>3, <2>4 DEF Serve
<1> QED
  BY <1>1, <1>2, <1>3, <1>4, <1>5, <1>6, <1>7, <1>8, <1>9 DEF StationStep

LEMMA RequestDialsStep ==
    ASSUME SettingsInv, StationType, RequestDials, StationStep \/ UNCHANGED <<settings, wifi>>
    PROVE  RequestDials'
<1>0. SettingsType /\ HttpType /\ (http.todo # <<>> => Serving)
  BY DEF SettingsInv, RequestInv
<1>1. ASSUME NEW reason, Restart(reason) PROVE RequestDials'
  <2>1. http'.todo = <<>> /\ http'.on = FALSE /\ in_disconnect' = FALSE
    BY <1>1 DEF Restart, HttpIdle
  <2> QED  BY <2>1, NothingToDo DEF RequestDials, ToBeWanted
<1>2. CASE UNCHANGED <<http, in_disconnect, enabled, flash>> /\ (~(enabled /\ Named) => untried' = untried)
  BY <1>2 DEF RequestDials, ToBeWanted, Named
<1>3. CASE ~Serving /\ UNCHANGED <<http, in_disconnect>>
  <2>1. http'.todo = <<>> /\ http.todo = <<>> /\ in_disconnect' = in_disconnect
    BY <1>0, <1>3
  <2> QED  BY <2>1, NothingToDo DEF RequestDials
<1>4. ASSUME NEW kind \in Kinds, NEW on \in BOOLEAN, NEW network \in Networks, Ask(kind, on, network),
             UNCHANGED in_disconnect
      PROVE  RequestDials'
  <2>1. /\ http.todo = <<>> /\ http'.todo = Request(kind, on, network) /\ http'.on = on
        /\ enabled' = enabled /\ (Named' <=> Named)
        /\ untried' = (untried \/ (kind = "settings/sta" /\ on /\ ~(enabled /\ Named)))
    BY <1>4 DEF Ask, HttpIdle, settings, Named
  <2>2. ~in_disconnect'
    BY <1>4, <2>1, NothingToDo DEF RequestDials
  <2>3. on => kind = "settings/sta" \/ EnablesAndDials(http'.todo)
    BY <2>1, RequestShape
  <2>4. HangsUpAndDials(http'.todo) /\ NetworkThenMode(http'.todo) /\ NamesOne(http'.todo)
    BY <2>1, RequestShape
  <2>5. ToBeWanted' => untried' \/ EnablesAndDials(http'.todo)
    BY <2>1, <2>3 DEF ToBeWanted
  <2> QED  BY <2>2, <2>4, <2>5 DEF RequestDials
<1>5. CASE /\ http.todo # <<>> /\ Done /\ UNCHANGED untried
           /\ ModeOrNetwork
           /\ \/ Head(http.todo) # "hung up" /\ UNCHANGED in_disconnect
              \/ Head(http.todo) = "hung up" /\ ~in_disconnect'
              \/ Head(http.todo) = "hang up" /\ in_disconnect'
  <2>1. in_disconnect' => Has(http'.todo, "hung up")
    <3>1. CASE Head(http.todo) # "hung up" /\ UNCHANGED in_disconnect
      BY <1>0, <1>5, <3>1, AfterDone DEF RequestDials
    <3>2. CASE Head(http.todo) = "hang up"
      BY <1>0, <1>5, <3>2, AfterDone DEF RequestDials
    <3> QED  BY <1>5, <3>1, <3>2
  <2>2. HangsUpAndDials(http'.todo) /\ NetworkThenMode(http'.todo) /\ NamesOne(http'.todo)
    BY <1>0, <1>5, AfterDone DEF RequestDials, NamesOne
  <2>3. ToBeWanted' => ToBeWanted
    <3>0. /\ http'.on => http.on
          /\ Has(http'.todo, "named") => Has(http.todo, "named")
          /\ Has(http.todo, Head(http.todo)) /\ NamesOne(http.todo)
      BY <1>0, <1>5, AfterDone DEF RequestDials
    <3>1. CASE Head(http.todo) \notin {"sta_mode"} \cup Networks /\ UNCHANGED enabled /\ (Named' <=> Named)
      BY <3>0, <3>1 DEF ToBeWanted
    <3>2. CASE Head(http.todo) = "sta_mode" /\ enabled' = http.on /\ (Named' <=> Named)
      BY <3>0, <3>2 DEF ToBeWanted
    <3>3. CASE Head(http.todo) \in Networks /\ UNCHANGED enabled /\ (Named' <=> Head(http.todo) = "named")
      <4>1. CASE Head(http.todo) = "named"
        BY <3>0, <3>3, <4>1 DEF ToBeWanted
      <4>2. CASE Head(http.todo) # "named"
        <5>1. Head(http.todo) = "empty"
          BY <3>3, <4>2 DEF Networks
        <5>2. ~Has(http'.todo, "named") /\ ~Named'
          BY <3>0, <3>3, <5>1 DEF NamesOne
        <5> QED  BY <5>2 DEF ToBeWanted
      <4> QED  BY <4>1, <4>2
    <3> QED  BY <1>5, <3>1, <3>2, <3>3 DEF ModeOrNetwork
  <2>4. ToBeWanted' => untried' \/ EnablesAndDials(http'.todo)
    <3>1. EnablesAndDials(http.todo) => EnablesAndDials(http'.todo)
      BY <1>0, <1>5, AfterDone
    <3> QED  BY <1>5, <2>3, <3>1 DEF RequestDials
  <2> QED  BY <2>1, <2>2, <2>4 DEF RequestDials
<1> QED
  BY <1>0, <1>1, <1>2, <1>3, <1>4, <1>5, RequestMoves

LEMMA NoStationYetStep ==
    ASSUME SettingsInv, StationType, NoStationYet, StationStep \/ UNCHANGED <<settings, wifi>>
    PROVE  NoStationYet'
<1> DEFINE Early == boot.at \notin {"defaults", "serve"}
<1>0. /\ http.todo # <<>> => ~Early
      /\ Early => station = "stopped"
  BY DEF SettingsInv, RequestInv, Serving, At, NoStationYet
<1> SUFFICES ASSUME boot'.at \notin {"defaults", "serve"}
             PROVE  station' = "stopped"
  BY DEF NoStationYet
<1>1. ASSUME NEW reason, Restart(reason) PROVE station' = "stopped"
  BY <1>1 DEF Restart
<1>2. CASE UNCHANGED <<settings, wifi>>
  BY <1>0, <1>2 DEF wifi, settings
<1>3. CASE Boot
  <2>1. CASE (PassButton \/ FactoryReset \/ LoadSettings) /\ UNCHANGED wifi
    <3>1. boot.at \in {"button", "load"}
      <4>1. CASE PassButton \/ FactoryReset
        BY <4>1 DEF PassButton, FactoryReset, At
      <4>2. CASE LoadSettings
        BY <4>2 DEF LoadSettings, At
      <4> QED  BY <2>1, <4>1, <4>2
    <3> QED  BY <1>0, <2>1, <3>1 DEF wifi
  <2>2. CASE At("erased") /\ Restart("sw")
    BY <1>1, <2>2
  <2>3. CASE StartWifi
    <3>1. boot'.at \in {"defaults", "serve"}
      BY <2>3 DEF StartWifi, AfterWifi, Goto
    <3> QED  BY <3>1
  <2>4. CASE FirstRun
    <3>1. boot'.at \in {"defaults", "serve"}
      BY <2>4 DEF FirstRun, WriteDefault, SettingsInv, SettingsType
    <3> QED  BY <3>1
  <2> QED  BY <1>3, <2>1, <2>2, <2>3, <2>4 DEF Boot
<1>4. CASE PowerCut
  BY <1>1, <1>4 DEF PowerCut
<1>5. CASE AttemptFails \/ Associates \/ Drop \/ Joins
  BY <1>0, <1>5 DEF settings, AttemptFails, Associates, Associate, Drop, Joins, ClientJoins
<1>6. CASE HandleEvent
  <2>1. CASE OnStart \/ OnDisconnected \/ OnGotIp \/ OnClientJoined
    BY <1>0, <2>1 DEF settings, OnStart, OnDisconnected, OnGotIp, OnClientJoined
  <2>2. CASE Retry
    BY <1>0, <2>2 DEF settings, Retry, Dial, CanDial
  <2>3. CASE BackOff
    BY <1>0, <1>1, <2>3 DEF settings, BackOff, Abort
  <2> QED  BY <1>6, <2>1, <2>2, <2>3 DEF HandleEvent
<1>7. CASE TimerFires
  BY <1>0, <1>7 DEF settings, TimerFires
<1>8. CASE DialOut
  <2>1. PICK t \in Threads : ZeroRetries(t) \/ StopTimer(t) \/ Connect(t)
    BY <1>8 DEF DialOut
  <2> QED  BY <1>0, <1>1, <2>1 DEF settings, ZeroRetries, StopTimer, Connect, Abort, Dial, CanDial
<1>9. CASE Asks
  BY <1>0, <1>1, <1>9 DEF settings, Asks, Reboot, Ask
<1>10. CASE Serve
  <2>1. http.todo # <<>>
    BY <1>10 DEF Serve, Doing, ChangeMode, NetworkRefused, StoreSetting, HangUp, Disconnect, DialAgain
  <2>2. UNCHANGED boot \/ Abort
    BY <1>10 DEF settings, Serve, ChangeMode, NetworkRefused, StoreSetting, HangUp, Disconnect, DialAgain
  <2> QED  BY <1>0, <1>1, <2>1, <2>2 DEF Abort
<1> QED
  BY <1>2, <1>3, <1>4, <1>5, <1>6, <1>7, <1>8, <1>9, <1>10 DEF StationStep

(* A call for an attempt stays in the queue until it is taken.             *)
LEMMA CallPosted ==
    ASSUME StationType, Room, NEW e \in Events, Post(e)
    PROVE  (Alarms \/ e \in Calls) => Alarms'
BY PostFacts DEF Alarms

LEMMA CallTaken ==
    ASSUME StationType, NEW e, Take(e),
           \E n \in DOMAIN events : n # 1 /\ events[n] \in Calls
    PROVE  Alarms'
BY TakeFacts DEF Alarms

(* Dialling an idle station that has a network begins an attempt.          *)
LEMMA DialBegins ==
    ASSUME NEW ok, Dial(ok), Named PROVE station' # "idle"
BY DEF Dial, CanDial

LEMMA NextAttemptStep ==
    ASSUME SettingsInv, StationType, EventsInv, TryInv, StationStep \/ UNCHANGED <<settings, wifi>>
    PROVE  NextAttempt'
<1> USE DEF tasks
<1>0. /\ SettingsType /\ HttpType /\ (http.todo # <<>> => Serving)
      /\ RequestDials /\ NextAttempt /\ (boot.at = "wifi" => station = "stopped")
      /\ boot.at = "defaults" => ~enabled
  BY DEF SettingsInv, RequestInv, TryInv, NoStationYet, Serving, At, EnabledInv, EnabledHasNetwork, FirstRunInv
<1> SUFFICES ASSUME Serving', enabled', Named', ~untried', station' = "idle"
             PROVE  Trying'
  BY DEF NextAttempt, Wanted
<1>1. ASSUME NEW reason, Restart(reason) PROVE FALSE
  BY <1>1 DEF Restart, Reset, Serving, At
<1>2. ASSUME UNCHANGED settings, UNCHANGED untried
      PROVE  Serving /\ enabled /\ Named /\ ~untried /\ (station = "idle" => Trying)
  BY <1>0, <1>2 DEF settings, Serving, At, Named, NextAttempt, Wanted
<1>3. CASE UNCHANGED <<settings, wifi>>
  <2>1. Trying /\ UNCHANGED wifi
    BY <1>2, <1>3 DEF wifi
  <2> QED  BY <2>1 DEF wifi, Trying, Alarms
<1>4. CASE Boot
  <2>1. CASE PassButton \/ FactoryReset \/ LoadSettings
    BY <2>1 DEF PassButton, FactoryReset, LoadSettings, Goto, Serving, At
  <2>2. CASE At("erased") /\ Restart("sw")
    BY <1>1, <2>2
  <2>3. CASE StartWifi
    <3>1. station = "stopped" /\ SetMode(enabled) /\ enabled' = enabled
      BY <1>0, <2>3 DEF StartWifi, At
    <3>2. Room /\ Post("STA_START")
      BY <3>1 DEF SetMode, Drives
    <3> QED  BY <3>2, CallPosted DEF Events, Calls, Trying
  <2>4. CASE FirstRun
    BY <1>0, <2>4 DEF FirstRun, WriteDefault
  <2> QED  BY <1>4, <2>1, <2>2, <2>3, <2>4 DEF Boot
<1>5. CASE PowerCut
  BY <1>1, <1>5 DEF PowerCut
<1>6. CASE AttemptFails \/ Drop
  <2>1. Room /\ Post("STA_DISCONNECTED")
    BY <1>6 DEF AttemptFails, Drop, Drives
  <2> QED  BY <2>1, CallPosted DEF Events, Calls, Trying
<1>7. CASE Associates
  BY <1>7 DEF Associates, Associate
<1>8. CASE Joins
  <2>1. /\ Room /\ Post("AP_STACONNECTED")
        /\ UNCHANGED <<settings, station, armed, tasks, untried>>
    BY <1>8 DEF Joins, ClientJoins
  <2>2. Trying
    BY <1>2, <2>1
  <2>3. Alarms => Alarms'
    BY <2>1, CallPosted DEF Events
  <2> QED  BY <2>1, <2>2, <2>3 DEF Trying
<1>9. CASE OnStart
  <2>1. connect'["event"] = "zero"
    BY <1>9 DEF OnStart, StationType, Threads
  <2> QED  BY <2>1 DEF Trying, Threads
<1>10. CASE OnDisconnected
  <2>1. enabled /\ http' = http
    BY <1>2, <1>10 DEF OnDisconnected
  <2>2. CASE in_disconnect
    <3>1. Has(http.todo, "dial")
      BY <1>0, <2>2 DEF RequestDials, Has, HangsUpAndDials, After
    <3> QED  BY <2>1, <3>1 DEF Trying
  <2>3. CASE ~in_disconnect
    BY <1>10, <2>1, <2>3 DEF OnDisconnected, AfterRetries, Trying
  <2> QED  BY <2>2, <2>3
<1>11. CASE Retry
  <2>1. Named
    BY <1>11 DEF Retry, settings, Named
  <2> QED  BY <1>11, <2>1, DialBegins DEF Retry
<1>12. CASE BackOff
  BY <1>1, <1>12 DEF BackOff, Abort, Trying
<1>13. CASE OnGotIp
  <2>1. Take("GOT_IP") /\ station = "idle"
    BY <1>13 DEF OnGotIp
  <2>2. 1 \in DOMAIN events /\ events[1] = "GOT_IP"
    BY <2>1, TakeFacts
  <2>3. \E m \in DOMAIN events : m # 1 /\ events[m] = "STA_DISCONNECTED"
    BY <2>1, <2>2 DEF EventsInv, GotIpHolds, Connected
  <2> QED  BY <2>1, <2>3, CallTaken DEF Calls, Trying
<1>14. CASE OnClientJoined
  <2>1. /\ Take("AP_STACONNECTED")
        /\ UNCHANGED <<settings, station, armed, tasks, untried>>
    BY <1>14 DEF OnClientJoined
  <2>2. Trying
    BY <1>2, <2>1
  <2>3. events[1] \notin Calls
    BY <2>1, TakeFacts DEF Calls
  <2>4. Alarms => Alarms'
    BY <2>1, <2>3, CallTaken DEF Alarms
  <2> QED  BY <2>1, <2>2, <2>4 DEF Trying
<1>15. CASE TimerFires
  <2>1. enabled
    BY <1>2, <1>15 DEF TimerFires
  <2>2. connect'["timer"] = "zero"
    BY <1>15, <2>1 DEF TimerFires, StationType, Threads
  <2> QED  BY <2>2 DEF Trying, Threads
<1>16. CASE DialOut
  <2>1. PICK t \in Threads : ZeroRetries(t) \/ StopTimer(t) \/ Connect(t)
    BY <1>16 DEF DialOut
  <2>2. CASE ZeroRetries(t) \/ StopTimer(t)
    <3>1. connect'[t] # "none"
      BY <2>2 DEF ZeroRetries, StopTimer, StationType
    <3> QED  BY <3>1 DEF Trying
  <2>3. CASE Connect(t)
    <3>1. ASSUME NEW ok, Dial(ok), UNCHANGED settings PROVE FALSE
      <4>1. Named
        BY <3>1 DEF settings, Named
      <4> QED  BY <3>1, <4>1, DialBegins
    <3> QED  BY <1>1, <2>3, <3>1 DEF Connect, Abort
  <2> QED  BY <2>1, <2>2, <2>3
<1>17. CASE Asks
  <2>0. ~Reboot
    BY <1>1 DEF Reboot
  <2>1. /\ http = HttpIdle /\ UNCHANGED <<settings, station, events, armed, event_task, connect>>
        /\ untried => untried'
    BY <1>17, <2>0 DEF Asks, Ask
  <2>2. station = "idle" /\ Serving /\ enabled /\ Named /\ ~untried
    BY <2>1 DEF settings, Serving, At, Named
  <2>3. Trying /\ ~Has(http.todo, "dial") /\ ~Has(http.todo, "sta_mode")
    BY <1>0, <2>1, <2>2, NothingToDo DEF NextAttempt, Wanted, HttpIdle
  <2> QED  BY <2>1, <2>3 DEF Trying, Alarms
<1>18. CASE Serve
  <2>1. CASE ChangeMode
    <3>1. /\ http.todo # <<>> /\ Head(http.todo) \notin {"dial", "sta_mode"} /\ Done
          /\ UNCHANGED <<settings, armed, event_task, connect, untried>>
          /\ Room
          /\ \/ station = "stopped" /\ Post("STA_START")
             \/ station = "idle" /\ UNCHANGED events
      BY <2>1 DEF ChangeMode, Doing, SetMode, Drives
    <3>2. CASE station = "stopped" /\ Post("STA_START")
      BY <3>1, <3>2, CallPosted DEF Events, Calls, Trying
    <3>3. CASE station = "idle" /\ UNCHANGED events
      <4>1. Trying
        BY <1>2, <3>1, <3>3
      <4>2. /\ Has(http.todo, "dial") => Has(http'.todo, "dial")
            /\ Has(http.todo, "sta_mode") => Has(http'.todo, "sta_mode")
            /\ http'.on => http.on
        BY <1>0, <3>1, AfterDone
      <4> QED  BY <3>1, <3>3, <4>1, <4>2 DEF Trying, Alarms
    <3> QED  BY <3>1, <3>2, <3>3
  <2>2. CASE StoreSetting
    <3>1. /\ http.todo # <<>> /\ Head(http.todo) # "dial" /\ Done /\ Serving
          /\ UNCHANGED <<station, events, armed, event_task, connect, untried>>
      BY <1>0, <2>2 DEF StoreSetting, Doing, Keys, Networks
    <3>2. ModeOrNetwork
      BY <1>0, <2>2, StoresModeOrNetwork
    <3>3. /\ \A step : Has(http.todo, step) /\ step # Head(http.todo) => Has(http'.todo, step)
          /\ http'.on => http.on
          /\ Has(http.todo, Head(http.todo))
      BY <1>0, <3>1, AfterDone
    <3>4. CASE enabled /\ Named
      <4>1. Trying
        BY <1>0, <3>1, <3>4 DEF NextAttempt, Wanted
      <4>2. Head(http.todo) = "sta_mode" => http.on
        BY <3>2 DEF ModeOrNetwork, Networks
      <4> QED  BY <3>1, <3>3, <4>1, <4>2 DEF Trying, Alarms
    <3>5. CASE ~(enabled /\ Named) /\ http.on
      <4>1. Head(http.todo) \in {"sta_mode"} \cup Networks /\ (Named \/ Head(http.todo) = "named")
        BY <3>2, <3>5 DEF ModeOrNetwork
      <4>2. ToBeWanted
        BY <3>3, <3>5, <4>1 DEF ToBeWanted
      <4>3. EnablesAndDials(http.todo)
        BY <1>0, <3>1, <4>2 DEF RequestDials
      <4>4. Has(http'.todo, "dial")
        BY <1>0, <3>1, <4>1, <4>3, AfterDone
      <4> QED  BY <4>4 DEF Trying
    <3>6. CASE ~(enabled /\ Named) /\ ~http.on
      <4>1. Head(http.todo) \in Networks
        BY <3>2, <3>6 DEF ModeOrNetwork
      <4>2. Has(http'.todo, "sta_mode") /\ ~http'.on
        BY <1>0, <3>1, <3>3, <3>6, <4>1, AfterDone DEF RequestDials
      <4> QED  BY <4>2 DEF Trying
    <3> QED  BY <3>4, <3>5, <3>6
  <2>3. CASE HangUp
    <3>1. /\ http.todo # <<>> /\ Head(http.todo) \in {"hang up", "hung up"} /\ Done
      BY <2>3 DEF HangUp, Doing
    <3>2. Has(http'.todo, "dial")
      BY <1>0, <3>1, AfterDone DEF RequestDials
    <3> QED  BY <3>2 DEF Trying
  <2>4. CASE Disconnect
    <3>1. /\ http.todo # <<>> /\ Head(http.todo) = "disconnect" /\ Done
      BY <2>4 DEF Disconnect, Doing
    <3>2. Has(http'.todo, "dial")
      BY <1>0, <3>1, AfterDone DEF RequestDials
    <3> QED  BY <3>2 DEF Trying
  <2>5. CASE DialAgain
    <3>1. connect'["http"] = "zero"
      BY <2>5 DEF DialAgain, StationType, Threads
    <3> QED  BY <3>1 DEF Trying, Threads
  <2>6. CASE NetworkRefused
    BY <1>1, <2>6 DEF NetworkRefused, Abort
  <2> QED  BY <1>18, <2>1, <2>2, <2>3, <2>4, <2>5, <2>6 DEF Serve
<1>19. CASE HandleEvent
  BY <1>9, <1>10, <1>11, <1>12, <1>13, <1>14, <1>19 DEF HandleEvent
<1> QED
  BY <1>3, <1>4, <1>5, <1>6, <1>7, <1>8, <1>15, <1>16, <1>17, <1>18, <1>19 DEF StationStep

LEMMA TryStep ==
    ASSUME SettingsInv, StationType, EventsInv, TryInv, StationStep \/ UNCHANGED <<settings, wifi>>
    PROVE  TryInv'
<1>1. RequestDials /\ NoStationYet
  BY DEF TryInv
<1> QED
  BY <1>1, RequestDialsStep, NoStationYetStep, NextAttemptStep DEF TryInv
-----------------------------------------------------------------------------
NetworkInv == SettingsInv /\ StationTypeInv /\ EventsInv /\ TryInv /\ ListenerInv /\ about \in About

LEMMA NetworkStep == NetworkInv /\ [Next]_vars => NetworkInv'
<1> SUFFICES ASSUME NetworkInv, [Next]_vars PROVE NetworkInv'
  OBVIOUS
<1>1. SettingsInv /\ StationTypeInv /\ EventsInv /\ TryInv /\ ListenerInv /\ about \in About /\ SettingsType /\ StationType
  BY DEF NetworkInv, SettingsInv, StationTypeInv
<1>2. SettingsInv' /\ StationTypeInv' /\ EventsInv' /\ TryInv'
  BY <1>1, StationMoves, SettingsStep, StationTypeStep, EventsStep, TryStep
<1>3. ListenerInv'
  <2>1. CASE StationStep /\ Told
    BY <1>1, <2>1, ListenerTold
  <2>2. CASE ListenerStep
    BY <1>1, <2>2, ListenerSteps
  <2>3. CASE UNCHANGED vars
    BY <1>1, <2>3 DEF vars, listener, settings, ListenerInv, ListenerType, Held, Sending, Serving, At
  <2> QED  BY <2>1, <2>2, <2>3 DEF Next
<1>4. about' = about
  BY DEF Next, Told, ListenerStep, vars
<1> QED
  BY <1>1, <1>2, <1>3, <1>4 DEF NetworkInv

THEOREM NetworkInvariant == Spec => []NetworkInv
<1>1. Init => NetworkInv
  BY SettingsInitially, StationTypeInitially, EventsInitially, TryInitially, ListenerInitially DEF Init, NetworkInv
<1> QED
  BY <1>1, NetworkStep, PTL DEF Spec

(* Every variable of the composition keeps its type: the queue of events   *)
(* its length, the retry counter its limit, the descriptors theirs.        *)
THEOREM NetworkTypeCorrect == Spec => []TypeOK
<1>1. NetworkInv => TypeOK
  BY DEF NetworkInv, SettingsInv, StationTypeInv, ListenerInv, IpAddresses, TypeOK
<1> QED
  BY <1>1, NetworkInvariant, PTL

(* No failure of socket, option or bind and no order of the loops and the  *)
(* poll reply leaks a descriptor, and a box that restarts holds none.      *)
THEOREM NoDescriptorLeaks == Spec => []DescriptorsAccounted
<1>1. NetworkInv => DescriptorsAccounted
  <2>1. ASSUME NetworkInv PROVE fds = Held("ap") + Held("sta") + Sending
    BY <2>1 DEF NetworkInv, ListenerInv
  <2> QED  BY <2>1, HeldFacts DEF DescriptorsAccounted, Held, Sending
<1> QED
  BY <1>1, NetworkInvariant, PTL

(* Between two events the bits say how the station is, whatever connects,  *)
(* drops and reconfigurations the queue has told of, in any order.         *)
THEOREM BitsTellTheTruth == Spec => []BitsAgree
<1>1. NetworkInv => BitsAgree
  BY DEF NetworkInv, EventsInv, BitsHold, Connected, Telling, BitsAgree, Settled
<1> QED
  BY <1>1, NetworkInvariant, PTL

(* A station that is wanted is never left idle without a next attempt: not *)
(* by a request that disconnects it, a timer that is stopped, a late event *)
(* or a retry that fails, in any order of the three threads.               *)
THEOREM StationKeepsTrying == Spec => []KeepsTrying
<1>1. NetworkInv => KeepsTrying
  BY NothingToDo DEF NetworkInv, TryInv, NextAttempt, Trying, Alarms, Quiet, KeepsTrying, EventIdle, HttpIdle
<1> QED
  BY <1>1, NetworkInvariant, PTL
=============================================================================
