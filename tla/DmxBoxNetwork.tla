--------------------------- MODULE DmxBoxNetwork ---------------------------
(***************************************************************************)
(* The box on the network: it boots, joins a Wi-Fi, is reconfigured over   *)
(* the web, and listens for Art-Net while it is connected.  The Wi-Fi side *)
(* tells the Art-Net tasks of a connection by two bits of an event group,  *)
(* and nothing of theirs comes back: in a behaviour that is about the      *)
(* station the listener may be left out.                                   *)
(***************************************************************************)
EXTENDS WifiStation, ArtnetListener

CONSTANTS
    Requests,       \* <<kind, on, network>>: what clients ask of the web server
    About,          \* subset of {"station", "listener"}: who is looked at
    ApAddress       \* address of the access point

ASSUME RequestAssumption == Requests \subseteq Kinds \X BOOLEAN \X Networks
ASSUME AboutAssumption == About \subseteq {"station", "listener"}
ASSUME SocketAssumption == {NoSocket, Unbound} \cap (Addresses \cup {NoAddress, ApAddress}) = {}

VARIABLE about      \* chosen at the beginning

vars == <<settings, wifi, listener, about>>

(* A box out of the factory, or one that was told of a network.            *)
Joined == [k \in Keys |-> CASE k = "network" -> "named" [] k = "sta_mode" -> "on" [] OTHER -> "set"]

Init ==
    /\ about \in About
    /\ flash = IF about = "station" THEN Blank ELSE Joined
    /\ enabled = FALSE /\ boot = [at |-> "button", n |-> 0] /\ reset_reason = "power"
    /\ StationOff
    /\ ListenerOff

(* Who waits for a bit sees it; the loop does not while it sleeps after    *)
(* opening its socket (50 ms).                                             *)
SleptThrough ==
    /\ loop["sta"] = "delay" /\ sock["sta"] # address
    /\ DisconnectedBit("sta") \in bits \ bits'

(* app_main starts the Art-Net tasks last; a restart ends them.            *)
Told ==
    /\ IF boot'.at = "button"
       THEN /\ loop' = [c \in Contexts |-> "off"]
            /\ sock' = [c \in Contexts |-> NoSocket]
            /\ fds' = 0
            /\ poll' = PollIdle
            /\ missed' = FALSE
       ELSE /\ loop' = IF Serving' /\ ~Serving /\ about = "listener" THEN Started(bits')
                       ELSE Woken(bits')
            /\ missed' = (missed \/ SleptThrough)
            /\ UNCHANGED <<sock, fds, poll>>
    /\ UNCHANGED about

Asks == about = "station" /\ (Reboot \/ \E r \in Requests : Ask(r[1], r[2], r[3]))
Joins == about = "listener" /\ ClientJoins

(* Which of the addresses it is matters to the listener only.              *)
Associates == Associate /\ (about = "station" => address' = CHOOSE ip \in Addresses : TRUE)

StationStep ==
    \/ Boot \/ PowerCut
    \/ AttemptFails \/ Associates \/ Drop \/ Joins
    \/ HandleEvent \/ TimerFires \/ DialOut
    \/ Asks \/ Serve

LocalAddress(c) == IF c = "ap" THEN ApAddress ELSE address

(* An interface without an address takes the socket or refuses it.         *)
LoopStep(c) ==
    \/ OpenSocket(c) \/ OpenFails(c, bits)
    \/ SetOption(c) \/ OptionFails(c, bits)
    \/ BindSocket(c, LocalAddress(c))
    \/ LocalAddress(c) = NoAddress /\ BindFails(c, bits)
    \/ EndDelay(c, bits) \/ ShutDown(c, bits)

ListenerStep ==
    /\ (\E c \in Contexts : LoopStep(c)) \/ Poll(bits)
    /\ UNCHANGED <<settings, wifi, about>>

Next == (StationStep /\ Told) \/ ListenerStep

(* Tasks run, the timer fires, an attempt to connect ends; one that is     *)
(* repeated for ever succeeds, and so does opening a socket, since nobody  *)
(* holds a descriptor for good but the two loops, and the option of one,   *)
(* since an interface that is up takes it.                                 *)
Fairness ==
    /\ WF_vars(Boot /\ Told) /\ WF_vars(HandleEvent /\ Told)
    /\ WF_vars(TimerFires /\ Told)
    /\ \A t \in Threads : WF_vars((ZeroRetries(t) \/ StopTimer(t) \/ Connect(t)) /\ Told)
    /\ WF_vars(Serve /\ Told)
    /\ WF_vars((AttemptFails \/ Associates) /\ Told) /\ SF_vars(Associates /\ Told)
    /\ \A c \in Contexts :
          /\ WF_vars(LoopStep(c) /\ UNCHANGED <<settings, wifi, about>>)
          /\ SF_vars(OpenSocket(c) /\ UNCHANGED <<settings, wifi, about>>)
          /\ SF_vars(SetOption(c) /\ UNCHANGED <<settings, wifi, about>>)
    /\ WF_vars(Poll(bits) /\ UNCHANGED <<settings, wifi, about>>)

Spec == Init /\ [][Next]_vars /\ Fairness
-----------------------------------------------------------------------------
TypeOK ==
    /\ SettingsType /\ StationType
    /\ ListenerType(Addresses \cup {NoAddress, ApAddress})
    /\ about \in About

(* A box that is switched on comes up, unless power is cut for ever, and   *)
(* comes up again whatever fails while it runs: also with the reset button *)
(* held down for good, when each panic may erase the flash.                *)
ComesUp == <>[][~PowerCut]_vars => []<>Serving

(* A station that stays wanted is connected in the end, once requests end  *)
(* and its network holds: after requests, drops, failures and back-offs in *)
(* any order.                                                              *)
Reconnects ==
    (<>[](Wanted /\ http = HttpIdle) /\ <>[][~Drop]_vars) => <>[](station = "connected")

(* While the station stays connected, Art-Net is in the end received on    *)
(* the address it has, unless the loop slept through the change of it.     *)
ArtnetServed ==
    (about = "listener" /\ <>[](Serving /\ station = "connected" /\ ~missed))
        => <>[](sock["sta"] = address)
=============================================================================
