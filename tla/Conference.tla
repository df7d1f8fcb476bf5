------------------------------ MODULE Conference ------------------------------
(***************************************************************************)
(* The conference node (stasis/src/nodes/conference.executor.ts) for the   *)
(* callers of one room.  A room is an object in conferenceRooms and a      *)
(* bridge of a fixed id.  The object is stored after the request that      *)
(* creates the bridge: callers who find no room at the same time each make *)
(* one, for the same bridge, and the last stays in the map.  A room object *)
(* is named by the caller who made it.                                     *)
(*                                                                         *)
(* A caller's steps are the awaits of executeConference (confPc) and of    *)
(* finish (leavePc); a called participant ("pstn") enters the room's set   *)
(* and is never taken out.                                                 *)
(***************************************************************************)
EXTENDS Naturals, FiniteSets

CONSTANT Attendees

VARIABLES
  confChan,     \* the callers' channels
  moderator,    \* whom isModerator recognises
  waitForModerator, dialsPstn,    \* the node's settings
  confPc, leavePc,
  roomOf,       \* the room object a caller holds
  conferenceRooms,  \* the object stored under the room's name
  channels,     \* room.channels, per object
  mohChannels,  \* who hears music on hold
  soleTimer,    \* soleSurvivorTimer and its channel, per object
  countAfter,   \* channelCountAfter read by finish
  foundEmpty,   \* who read an empty room before the add
  confBridge,   \* the bridge exists
  inBridge      \* whom it connects

confVars == <<confChan, moderator, waitForModerator, dialsPstn, confPc,
              leavePc, roomOf, conferenceRooms, channels, mohChannels,
              soleTimer, countAfter, foundEmpty, confBridge, inBridge>>

ConfSettings == <<moderator, waitForModerator, dialsPstn>>

Nobody == "nobody"

ConfInit ==
  /\ confChan = [c \in Attendees |-> "up"]
  /\ moderator \in {{}} \cup {{c} : c \in Attendees}
  /\ waitForModerator \in BOOLEAN /\ dialsPstn \in BOOLEAN
  /\ moderator # {} => waitForModerator
  /\ confPc = [c \in Attendees |-> "lookup"]
  /\ leavePc = [c \in Attendees |-> "no"]
  /\ roomOf = [c \in Attendees |-> Nobody]
  /\ conferenceRooms = Nobody
  /\ channels = [c \in Attendees |-> {}]
  /\ mohChannels = {}
  /\ soleTimer = [c \in Attendees |-> Nobody]
  /\ countAfter = [c \in Attendees |-> 0]
  /\ foundEmpty = {} /\ confBridge = FALSE /\ inBridge = {}

GoTo(c, pc) == confPc' = [confPc EXCEPT ![c] = pc]

\* isModerator has answered: an existing room is taken, otherwise the bridge
\* is asked for.
FindRoom(c) ==
  /\ confPc[c] = "lookup"
  /\ IF conferenceRooms # Nobody
     THEN roomOf' = [roomOf EXCEPT ![c] = conferenceRooms] /\ GoTo(c, "dial")
     ELSE UNCHANGED roomOf /\ GoTo(c, "create")
  /\ UNCHANGED <<confChan, ConfSettings, leavePc, conferenceRooms, channels,
                 mohChannels, soleTimer, countAfter, confBridge, inBridge, foundEmpty>>

\* bridges.create, refused when the bridge exists; then the object is stored.
getOrCreateRoom(c) ==
  /\ confPc[c] = "create"
  /\ confBridge' = TRUE
  /\ conferenceRooms' = c
  /\ roomOf' = [roomOf EXCEPT ![c] = c]
  /\ GoTo(c, "dial")
  /\ UNCHANGED <<confChan, ConfSettings, leavePc, channels, mohChannels,
                 soleTimer, countAfter, inBridge, foundEmpty>>

\* Each called participant is originated and put in the room's set.  Then
\* the listeners for the caller's end are added, and a moderator looks
\* whether the room is empty, before the await of addChannel.
dialConferencePstnParticipants(c) ==
  /\ confPc[c] = "dial"
  /\ channels' = IF dialsPstn THEN [channels EXCEPT ![roomOf[c]] = @ \cup {"pstn"}]
                 ELSE channels
  /\ foundEmpty' = IF channels'[roomOf[c]] = {} THEN foundEmpty \cup {c} ELSE foundEmpty
  /\ GoTo(c, "add")
  /\ UNCHANGED <<confChan, ConfSettings, leavePc, roomOf, conferenceRooms,
                 mohChannels, soleTimer, countAfter, confBridge, inBridge>>

Listening(c) == confPc[c] \in {"add", "added", "joined"} /\ leavePc[c] = "no"

AddRequested(c) ==
  /\ confPc[c] = "add" /\ confBridge /\ confChan[c] = "up"
  /\ inBridge' = inBridge \cup {c}
  /\ GoTo(c, "added")
  /\ UNCHANGED <<confChan, ConfSettings, leavePc, roomOf, conferenceRooms,
                 channels, mohChannels, soleTimer, countAfter, confBridge, foundEmpty>>

\* Faulty variant: the refusal is only logged.
AddRefusedQuietly(c) ==
  /\ confPc[c] = "add" /\ ~(confBridge /\ confChan[c] = "up")
  /\ GoTo(c, "refused")
  /\ UNCHANGED <<confChan, ConfSettings, leavePc, roomOf, conferenceRooms,
                 channels, mohChannels, soleTimer, countAfter, confBridge,
                 inBridge, foundEmpty>>

\* addChannel is refused: the listeners are removed and the node returns.
AddRefused(c) ==
  /\ confPc[c] = "add" /\ ~(confBridge /\ confChan[c] = "up")
  /\ GoTo(c, "returned")
  /\ UNCHANGED <<confChan, ConfSettings, leavePc, roomOf, conferenceRooms,
                 channels, mohChannels, soleTimer, countAfter, confBridge,
                 inBridge, foundEmpty>>

(* The answer to addChannel: the caller is counted, whether or not it has  *)
(* left meanwhile, a sole survivor's timer is cancelled, and music starts  *)
(* for one who waits or stops for everybody.                               *)
Join(c) ==
  LET r == roomOf[c]
      now == channels[r] \cup {c}
      first == c \in moderator /\ c \in foundEmpty
      resumed == soleTimer[r] # Nobody
      waits == IF c \in moderator THEN first
               ELSE ~resumed /\ (waitForModerator \/ now = {c})
  IN /\ confPc[c] = "added"
     /\ channels' = [channels EXCEPT ![r] = now]
     /\ soleTimer' = IF first THEN soleTimer
                     ELSE [soleTimer EXCEPT ![r] = Nobody]
     /\ mohChannels' = IF waits THEN mohChannels \cup {c}
                       ELSE mohChannels \ now
     /\ GoTo(c, IF leavePc[c] = "done" THEN "returned" ELSE "joined")
     /\ UNCHANGED <<confChan, ConfSettings, leavePc, roomOf, conferenceRooms,
                    countAfter, confBridge, inBridge, foundEmpty>>

(***************************** leaving the room ****************************)

ConfHangsUp(c) ==
  /\ confChan[c] = "up"
  /\ confChan' = [confChan EXCEPT ![c] = "dead"]
  /\ UNCHANGED <<ConfSettings, confPc, leavePc, roomOf, conferenceRooms,
                 channels, mohChannels, soleTimer, countAfter, confBridge,
                 inBridge, foundEmpty>>

\* The start of finish, once per caller: the music is stopped.
finish(c) ==
  IF Listening(c)
  THEN /\ leavePc' = [leavePc EXCEPT ![c] = "leave"]
       /\ mohChannels' = mohChannels \ {c}
  ELSE UNCHANGED <<leavePc, mohChannels>>

\* ChannelLeftBridge, StasisEnd and ChannelDestroyed of a caller who left
ConfEnds(c) ==
  /\ confChan[c] = "dead"
  /\ confChan' = [confChan EXCEPT ![c] = "gone"]
  /\ inBridge' = inBridge \ {c}
  /\ finish(c)
  /\ UNCHANGED <<ConfSettings, confPc, roomOf, conferenceRooms, channels,
                 soleTimer, countAfter, confBridge, foundEmpty>>

\* ChannelLeftBridge of a caller whose bridge was destroyed
PutOut(c) ==
  /\ c \in inBridge /\ ~confBridge
  /\ inBridge' = inBridge \ {c}
  /\ finish(c)
  /\ UNCHANGED <<confChan, ConfSettings, confPc, roomOf, conferenceRooms,
                 channels, soleTimer, countAfter, confBridge, foundEmpty>>

\* The caller is taken out of the set and the rest is counted; the events
\* are published before the count is used.
LeaveRoom(c) ==
  /\ leavePc[c] = "leave"
  /\ channels' = [channels EXCEPT ![roomOf[c]] = @ \ {c}]
  /\ countAfter' = [countAfter EXCEPT ![c] = Cardinality(channels'[roomOf[c]])]
  /\ leavePc' = [leavePc EXCEPT ![c] = "publish"]
  /\ UNCHANGED <<confChan, ConfSettings, confPc, roomOf, conferenceRooms,
                 mohChannels, soleTimer, confBridge, inBridge, foundEmpty>>

Left(c) ==
  /\ leavePc' = [leavePc EXCEPT ![c] = "done"]
  /\ IF confPc[c] = "joined" THEN GoTo(c, "returned") ELSE UNCHANGED confPc

\* Nobody was left: the bridge is destroyed and the room's name freed.
DestroyRoom(c) ==
  /\ leavePc[c] = "publish" /\ countAfter[c] = 0
  /\ soleTimer' = [soleTimer EXCEPT ![roomOf[c]] = Nobody]
  /\ confBridge' = FALSE
  /\ conferenceRooms' = Nobody
  /\ Left(c)
  /\ UNCHANGED <<confChan, ConfSettings, roomOf, channels, mohChannels,
                 countAfter, inBridge, foundEmpty>>

\* One was left: music for the survivor, and a timer, if it is still alone.
startSoleSurvivorTimer(c) ==
  LET r == roomOf[c] IN
  /\ leavePc[c] = "publish" /\ countAfter[c] > 0
  /\ IF countAfter[c] = 1 /\ Cardinality(channels[r]) = 1
     THEN \E sole \in channels[r] :
            /\ mohChannels' = mohChannels \cup {sole}
            /\ soleTimer' = [soleTimer EXCEPT ![r] = sole]
     ELSE UNCHANGED <<mohChannels, soleTimer>>
  /\ Left(c)
  /\ UNCHANGED <<confChan, ConfSettings, roomOf, conferenceRooms, channels,
                 countAfter, confBridge, inBridge, foundEmpty>>

\* The timer fires: a caller who is still alone is hung up.
SoleSurvivorTimeout(r) ==
  LET sole == soleTimer[r] IN
  /\ sole # Nobody
  /\ soleTimer' = [soleTimer EXCEPT ![r] = Nobody]
  /\ IF channels[r] = {sole} /\ sole \in Attendees
     THEN /\ confChan' = [confChan EXCEPT ![sole] =
                            IF @ = "up" THEN "dead" ELSE @]
          /\ finish(sole)
     ELSE UNCHANGED <<confChan, leavePc, mohChannels>>
  /\ UNCHANGED <<ConfSettings, confPc, roomOf, conferenceRooms, channels,
                 countAfter, confBridge, inBridge, foundEmpty>>

ConfEnter(c) ==
  \/ FindRoom(c) \/ getOrCreateRoom(c) \/ dialConferencePstnParticipants(c)
  \/ AddRequested(c) \/ AddRefused(c) \/ Join(c)

ConfLeave(c) ==
  \/ ConfEnds(c) \/ PutOut(c) \/ LeaveRoom(c) \/ DestroyRoom(c)
  \/ startSoleSurvivorTimer(c)

ConfNext ==
  \E c \in Attendees : \/ ConfEnter(c) \/ ConfLeave(c) \/ ConfHangsUp(c)
                       \/ SoleSurvivorTimeout(c)

-----------------------------------------------------------------------------

(* Whoever has gone is not forgotten in the room: the request that adds him *)
(* is still to be refused, or his end was heard while he was being added or *)
(* after it and finish is on its way, and the node has not returned to      *)
(* waiting behind its back.                                                 *)
CallersHeard ==
  \A c \in Attendees :
    confChan[c] = "gone" =>
      \/ confPc[c] \in {"lookup", "create", "dial", "add", "returned"}
      \/ confPc[c] = "added" /\ leavePc[c] # "no"
      \/ confPc[c] = "joined" /\ leavePc[c] \in {"leave", "publish"}

(* The node of a caller who has gone returns, so that its session can end: *)
(* however the end races with the room's creation, the request that adds   *)
(* the caller, and a bridge that others destroy under it.                  *)
ConferenceReturns ==
  \A c \in Attendees :
    confChan[c] = "gone" ~> confPc[c] = "returned"
=============================================================================
