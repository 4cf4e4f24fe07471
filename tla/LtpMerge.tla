------------------------------ MODULE LtpMerge ------------------------------
(***************************************************************************)
(* What the Art-Net side of the box promises to a lighting operator, with  *)
(* no task, lock or packet buffer in sight: a "latest takes precedence"    *)
(* merge.  Every controller has a desk, the last frame it presented.  A    *)
(* channel is shown at the level of the controller that moved it last; a   *)
(* controller that merely repeats its frame takes nothing from another.    *)
(***************************************************************************)
EXTENDS Naturals, TLAPS

CONSTANTS
    Clients,     \* controllers, told apart by their IP address
    Universes,   \* the universes the box listens to
    Channels,    \* channels of a universe, numbered from 1
    Levels,      \* levels of a channel, 0 is off
    NoClient,    \* nobody: no controller is answerable for the channel
    NoFrame      \* nothing: the controller has not presented a frame yet

VARIABLES
    shown,       \* shown[u][ch]: the level the universe holds
    owner,       \* owner[u][ch]: the controller that moved the channel last
    desk         \* desk[c][u]: the frame the controller presented last

ltpVars == <<shown, owner, desk>>

Frame == [Channels -> Levels]
Dark == [ch \in Channels |-> 0]

(* The channels of a frame of n channels that differ from the desk.        *)
Moved(f, n, before) ==
    IF before = NoFrame THEN {} ELSE {ch \in Channels : ch <= n /\ f[ch] # before[ch]}

LtpInit ==
    /\ shown \in [Universes -> Frame]
    /\ owner = [u \in Universes |-> [ch \in Channels |-> NoClient]]
    /\ desk = [c \in Clients |-> [u \in Universes |-> NoFrame]]

(* A controller presents a frame of n channels.  What it moved is shown    *)
(* and becomes its own; a channel it no longer sends is let go of, and     *)
(* keeps its level.  The first frame of a controller only sets the desk.   *)
Present(c, u, f, n) ==
    LET moved == Moved(f, n, desk[c][u])
    IN  /\ shown' = [shown EXCEPT ![u] =
                        [ch \in Channels |-> IF ch \in moved THEN f[ch] ELSE @[ch]]]
        /\ owner' = [owner EXCEPT ![u] =
                        [ch \in Channels |->
                            IF ch \in moved THEN c
                            ELSE IF ch > n /\ @[ch] = c THEN NoClient ELSE @[ch]]]
        /\ desk' = [desk EXCEPT ![c][u] = f]

(* One universe goes dark.                                                 *)
Blackout(u) ==
    /\ shown' = [shown EXCEPT ![u] = Dark]
    /\ owner' = [owner EXCEPT ![u] = [ch \in Channels |-> NoClient]]
    /\ UNCHANGED desk

(* All desks are forgotten, except those a controller is busy with.        *)
Forget(busy) ==
    /\ desk' = [c \in Clients |-> [u \in Universes |->
                    IF <<c, u>> \in busy THEN desk[c][u] ELSE NoFrame]]
    /\ owner' = [u \in Universes |-> [ch \in Channels |->
                    IF <<owner[u][ch], u>> \in busy THEN owner[u][ch] ELSE NoClient]]
    /\ UNCHANGED shown

(* The box starts again from the levels it finds in flash.                 *)
PowerUp ==
    /\ shown' \in [Universes -> Frame]
    /\ owner' = [u \in Universes |-> [ch \in Channels |-> NoClient]]
    /\ desk' = [c \in Clients |-> [u \in Universes |-> NoFrame]]

LtpNext ==
    \/ \E c \in Clients, u \in Universes, f \in Frame, n \in Channels \cup {0} :
            Present(c, u, f, n)
    \/ \E u \in Universes : Blackout(u)
    \/ \E busy \in SUBSET (Clients \X Universes) : Forget(busy)
    \/ PowerUp

LtpSpec == LtpInit /\ [][LtpNext]_ltpVars

(* The merge rule: a channel some controller moved last is shown at the    *)
(* level of that controller's desk.                                        *)
OwnerIsShown ==
    \A u \in Universes, ch \in Channels :
        owner[u][ch] # NoClient =>
            /\ desk[owner[u][ch]][u] # NoFrame
            /\ shown[u][ch] = desk[owner[u][ch]][u][ch]
-----------------------------------------------------------------------------
LtpTypeOK ==
    /\ shown \in [Universes -> Frame]
    /\ owner \in [Universes -> [Channels -> Clients \cup {NoClient}]]
    /\ desk \in [Clients -> [Universes -> Frame \cup {NoFrame}]]

(* One step of the merge keeps the merge rule.                             *)
LEMMA MergeStep ==
    ASSUME 0 \in Levels, Channels \subseteq Nat, NoFrame \notin Frame,
           LtpTypeOK, OwnerIsShown, [LtpNext]_ltpVars
    PROVE  LtpTypeOK' /\ OwnerIsShown'
<1> USE DEF LtpTypeOK
<1>1. ASSUME NEW c \in Clients, NEW u \in Universes, NEW f \in Frame,
             NEW n \in Channels \cup {0}, Present(c, u, f, n)
      PROVE  LtpTypeOK' /\ OwnerIsShown'
  <2> DEFINE moved == Moved(f, n, desk[c][u])
  <2>1. LtpTypeOK'
    BY <1>1 DEF Present, Frame
  <2>2. \A v \in Universes, ch \in Channels :
           /\ v # u => shown'[v][ch] = shown[v][ch] /\ owner'[v][ch] = owner[v][ch]
           /\ ch \in moved => shown'[u][ch] = f[ch] /\ owner'[u][ch] = c
           /\ ch \notin moved =>
                 /\ shown'[u][ch] = shown[u][ch]
                 /\ owner'[u][ch] \in {owner[u][ch], NoClient}
                 /\ ch > n /\ owner[u][ch] = c => owner'[u][ch] = NoClient
    BY <1>1 DEF Present, Frame
  <2>3. \A d \in Clients, v \in Universes :
           desk'[d][v] = IF d = c /\ v = u THEN f ELSE desk[d][v]
    BY <1>1 DEF Present
  <2>4. SUFFICES ASSUME NEW v \in Universes, NEW ch \in Channels,
                        owner'[v][ch] # NoClient
                 PROVE  /\ desk'[owner'[v][ch]][v] # NoFrame
                        /\ shown'[v][ch] = desk'[owner'[v][ch]][v][ch]
    BY <2>1 DEF OwnerIsShown
  <2>5. owner'[v][ch] \in Clients
    BY <2>1, <2>4
  <2>6. CASE v # u
    BY <2>2, <2>3, <2>4, <2>5, <2>6 DEF OwnerIsShown
  <2>7. CASE v = u /\ ch \in moved
    BY <2>2, <2>3, <2>7
  <2>8. CASE v = u /\ ch \notin moved
    <3>1. /\ shown'[u][ch] = shown[u][ch]
          /\ owner'[u][ch] = owner[u][ch]
          /\ owner[u][ch] # NoClient
      BY <2>2, <2>4, <2>8
    <3>2. desk[owner[u][ch]][u] # NoFrame /\ shown[u][ch] = desk[owner[u][ch]][u][ch]
      BY <3>1 DEF OwnerIsShown
    <3>3. CASE owner[u][ch] # c
      BY <2>3, <2>5, <2>8, <3>1, <3>2, <3>3
    <3>4. CASE owner[u][ch] = c
      <4>1. ~(ch > n)
        BY <2>2, <2>8, <3>1, <3>4
      <4>2. f[ch] = desk[c][u][ch]
        BY <2>8, <3>2, <3>4, <4>1 DEF Moved
      <4>3. QED
        BY <2>3, <2>8, <3>1, <3>2, <3>4, <4>2
    <3>5. QED
      BY <3>3, <3>4
  <2>9. QED
    BY <2>6, <2>7, <2>8
<1>2. ASSUME NEW u \in Universes, Blackout(u)
      PROVE  LtpTypeOK' /\ OwnerIsShown'
  BY <1>2 DEF Blackout, OwnerIsShown, Frame, Dark
<1>3. ASSUME NEW busy \in SUBSET (Clients \X Universes), Forget(busy)
      PROVE  LtpTypeOK' /\ OwnerIsShown'
  BY <1>3 DEF Forget, OwnerIsShown
<1>4. CASE PowerUp
  BY <1>4 DEF PowerUp, OwnerIsShown
<1>5. CASE UNCHANGED ltpVars
  BY <1>5 DEF ltpVars, OwnerIsShown
<1>6. QED
  BY <1>1, <1>2, <1>3, <1>4, <1>5 DEF LtpNext

(* The merge rule holds of every merge: for any controllers, universes,    *)
(* channels and levels, a channel moved by a controller that still holds   *)
(* it is shown as that controller has it (apply_changes only ever copies   *)
(* what moved, and the desk changes with it).                              *)
THEOREM MergeRule ==
    ASSUME 0 \in Levels, Channels \subseteq Nat, NoFrame \notin Frame
    PROVE  LtpSpec => [](LtpTypeOK /\ OwnerIsShown)
<1>1. LtpInit => LtpTypeOK /\ OwnerIsShown
  BY DEF LtpInit, LtpTypeOK, OwnerIsShown
<1>2. LtpTypeOK /\ OwnerIsShown /\ [LtpNext]_ltpVars => LtpTypeOK' /\ OwnerIsShown'
  BY MergeStep
<1>3. QED
  BY <1>1, <1>2, PTL DEF LtpSpec
=============================================================================
