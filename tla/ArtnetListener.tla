--------------------------- MODULE ArtnetListener ---------------------------
(***************************************************************************)
(* The Art-Net sockets: components/dmxbox_artnet, artnet_loop with its     *)
(* receive task, and the periodic poll reply.  One loop serves the access  *)
(* point and one the station; each opens its socket when its bit says      *)
(* connected and closes it when its other bit says disconnected.           *)
(*                                                                         *)
(* A receive task is told by its socket: it starts when the socket is      *)
(* bound and ends when it is closed.                                       *)
(***************************************************************************)
EXTENDS Integers, FiniteSets

CONSTANTS
    MaxFds,         \* descriptors the network stack has for these tasks
    NoSocket,       \* context->sock is -1
    Unbound         \* a socket was given out, bind has not returned

ASSUME FdsAssumption == MaxFds \in Nat \ {0} /\ NoSocket # Unbound

Contexts == {"ap", "sta"}

VARIABLES
    loop,           \* loop[c]: where artnet_loop is
    sock,           \* sock[c]: the address the socket of a loop is bound to
    fds,            \* descriptors in use
    poll,           \* contexts the poll reply still goes to, and what it does with its socket
    missed          \* history: the station's loop slept while it was told of a disconnect and
                    \* of another address, and has not closed its socket since

listener == <<loop, sock, fds, poll, missed>>
PollIdle == [todo |-> {}, has |-> "none"]

ListenerOff ==
    /\ loop = [c \in Contexts |-> "off"]
    /\ sock = [c \in Contexts |-> NoSocket]
    /\ fds = 0
    /\ poll = PollIdle
    /\ missed = FALSE

(* Nothing ever sets ap_stopped while the box is up, and nothing clears    *)
(* ap_sta_connected: the access point's loop opens its socket once.        *)
ConnectedBit(c) == IF c = "ap" THEN "ap_sta_connected" ELSE "sta_connected"
DisconnectedBit(c) == IF c = "ap" THEN "ap_stopped" ELSE "sta_disconnected"

(* xEventGroupWaitBits returns when the bit is set, or at once.            *)
Up(c, set) == IF ConnectedBit(c) \in set THEN "open" ELSE "wait_up"
Down(c, set) == IF DisconnectedBit(c) \in set THEN "close" ELSE "wait_down"

(* What the loops do when the bits become set.                             *)
Woken(set) ==
    [c \in Contexts |-> CASE loop[c] = "wait_up" -> Up(c, set)
                          [] loop[c] = "wait_down" -> Down(c, set)
                          [] OTHER -> loop[c]]

Started(set) == [c \in Contexts |-> Up(c, set)]
-----------------------------------------------------------------------------
(* create_socket: a descriptor, and the option that ties it to the         *)
(* interface.  When either fails, the loop begins again.                   *)
OpenSocket(c) ==
    /\ loop[c] = "open"
    /\ fds < MaxFds
    /\ fds' = fds + 1
    /\ sock' = [sock EXCEPT ![c] = Unbound]
    /\ loop' = [loop EXCEPT ![c] = "option"]
    /\ UNCHANGED <<poll, missed>>

OpenFails(c, set) ==
    /\ loop[c] = "open"
    /\ fds = MaxFds
    /\ loop' = [loop EXCEPT ![c] = Up(c, set)]
    /\ UNCHANGED <<sock, fds, poll, missed>>

SetOption(c) ==
    /\ loop[c] = "option"
    /\ loop' = [loop EXCEPT ![c] = "bind"]
    /\ UNCHANGED <<sock, fds, poll, missed>>

Released == fds' = fds - 1      \* lwip_close
Leaked == UNCHANGED fds         \* mutant: create_socket returns without it

RefusedSocket == Released

OptionFails(c, set) ==
    /\ loop[c] = "option"
    /\ RefusedSocket
    /\ sock' = [sock EXCEPT ![c] = NoSocket]
    /\ loop' = [loop EXCEPT ![c] = Up(c, set)]
    /\ UNCHANGED <<poll, missed>>

(* bind, to the address the interface has now: the receive task starts.    *)
BindSocket(c, ip) ==
    /\ loop[c] = "bind"
    /\ sock' = [sock EXCEPT ![c] = ip]
    /\ loop' = [loop EXCEPT ![c] = "delay"]
    /\ UNCHANGED <<fds, poll, missed>>

CloseSocket(c, set) ==
    /\ Released
    /\ sock' = [sock EXCEPT ![c] = NoSocket]
    /\ loop' = [loop EXCEPT ![c] = Up(c, set)]
    /\ missed' = (missed /\ c # "sta")
    /\ UNCHANGED poll

BindFails(c, set) == loop[c] = "bind" /\ CloseSocket(c, set)

EndDelay(c, set) ==
    /\ loop[c] = "delay"
    /\ loop' = [loop EXCEPT ![c] = Down(c, set)]
    /\ UNCHANGED <<sock, fds, poll, missed>>

ShutDown(c, set) == loop[c] = "close" /\ CloseSocket(c, set)

(* send_periodic_poll_reply_when_connected: for the contexts connected as  *)
(* it looks, the access point first, each from a socket of its own.        *)
PollWakes(set) ==
    /\ loop["ap"] # "off" /\ poll = PollIdle
    /\ LET up == {c \in Contexts : ConnectedBit(c) \in set}
       IN  up # {} /\ poll' = [poll EXCEPT !.todo = up]
    /\ UNCHANGED <<loop, sock, fds, missed>>

PollNext == IF "ap" \in poll.todo THEN "ap" ELSE "sta"
PollPasses == poll' = [todo |-> poll.todo \ {PollNext}, has |-> "none"]

PollOpens ==
    /\ poll.todo # {} /\ poll.has = "none"
    /\ IF fds < MaxFds
       THEN fds' = fds + 1 /\ poll' = [poll EXCEPT !.has = "socket"]
       ELSE PollPasses /\ UNCHANGED fds
    /\ UNCHANGED <<loop, sock, missed>>

PollSetsOption ==
    /\ poll.has = "socket"
    /\ \/ poll' = [poll EXCEPT !.has = "bound socket"] /\ UNCHANGED fds
       \/ PollPasses /\ RefusedSocket
    /\ UNCHANGED <<loop, sock, missed>>

PollSent ==
    /\ poll.has = "bound socket"
    /\ PollPasses
    /\ Released
    /\ UNCHANGED <<loop, sock, missed>>

Poll(set) == PollWakes(set) \/ PollOpens \/ PollSetsOption \/ PollSent
-----------------------------------------------------------------------------
ListenerType(ips) ==
    /\ loop \in [Contexts -> {"off", "wait_up", "open", "option", "bind", "delay", "wait_down", "close"}]
    /\ sock \in [Contexts -> ips \cup {NoSocket, Unbound}]
    /\ fds \in 0..MaxFds
    /\ poll \in [todo : SUBSET Contexts, has : {"none", "socket", "bound socket"}]
    /\ missed \in BOOLEAN

(* Every descriptor in use is held by a loop or by the poll reply: no      *)
(* failure, of the descriptor, the option or bind, and no order of the     *)
(* three tasks leaks one.                                                  *)
DescriptorsAccounted ==
    fds = Cardinality({c \in Contexts : sock[c] # NoSocket}) + (IF poll.has = "none" THEN 0 ELSE 1)
=============================================================================
