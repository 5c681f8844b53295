--------------------------- MODULE ChannelTracker ---------------------------
(***************************************************************************)
(* What the app knows about the node's channels.  NodeSupervisor turns the *)
(* channel events of the eclair node into two views: activeChannelsMap, in *)
(* memory, which every screen reads, and the table of LocalChannel rows,   *)
(* which keeps the history.  It also decides when the user is alerted that *)
(* a channel is closing.  The process may die between any two steps; the   *)
(* node then restores its channels from its own database.                  *)
(*                                                                         *)
(* The node is external: its channel state machine is reduced to the       *)
(* transitions that differ for NodeSupervisor, its commitments to what     *)
(* they leave to the wallet and what its outgoing HTLCs hold.              *)
(***************************************************************************)
EXTENDS Integers, Sequences

CONSTANTS
    Channels,    \* channels opened by the wallet
    Null,        \* Java's null
    Funding,     \* what a channel is funded with
    Reserve,     \* what must stay in a channel
    MaxMailbox,  \* bound: events waiting for NodeSupervisor
    MaxCrashes   \* bound: deaths of the application's process

ASSUME TrackerAssumption ==
    Funding \in Nat /\ Reserve \in Nat /\ MaxMailbox \in Nat /\ MaxCrashes \in Nat

VARIABLES
    node,        \* the node's channels
    map,         \* activeChannelsMap: the LocalChannel of each live channel
    rows,        \* the LocalChannel table, by channel id
    alerts,      \* notifications that a channel is closing, posted so far
    mailbox,     \* events not yet handled by NodeSupervisor
    crashes      \* process deaths so far

vars == <<node, map, rows, alerts, mailbox, crashes>>

\* WAIT_FOR_ACCEPT_CHANNEL and WAIT_FOR_FUNDING_SIGNED stand for the states
\* without commitments, before and after the channel has its final id;
\* WAIT_FOR_FUNDING_CONFIRMED for those with commitments, before NORMAL.
Opening == {"WAIT_FOR_ACCEPT_CHANNEL", "WAIT_FOR_FUNDING_SIGNED"}
Open == {"WAIT_FOR_FUNDING_CONFIRMED", "NORMAL", "OFFLINE"}
States == Opening \cup Open \cup {"WAIT_FOR_INIT_INTERNAL", "CLOSING", "CLOSED"}

\* What was published on the chain to close a channel: DATA_CLOSING.
Published == {"mutual", "local", "remote", "revoked"}

ClosingTypes == {"MUTUAL", "LOCAL", "REMOTE", "OTHER"}

\* A channel is first known by its temporary id.
ChannelIds == Channels \X {"temporary", "final"}

\* A channel of the node.  unused: not created.  live: has an actor.  stored:
\* in the node's database, not restored yet.  gone: deleted.  toLocal and flying:
\* what the local commitment leaves to the wallet, and its outgoing HTLCs.
NodeChannel == [life: {"unused", "live", "stored", "gone"}, state: States,
                locked: BOOLEAN, published: SUBSET Published, confirmed: BOOLEAN,
                toLocal: Nat, flying: Nat]

\* The columns of LocalChannel that the events write; except for the balance,
\* those that hold a text or a number are kept as whether they are set.  id: the
\* row the object is attached to.
LocalChannel == [id: ChannelIds \cup {Null}, channelId: ChannelIds \cup {Null},
                 state: States \cup {"N/A"}, shortChannelId: BOOLEAN,
                 toSelfDelay: BOOLEAN, refundAtBlock: BOOLEAN,
                 closingType: ClosingTypes \cup {Null},
                 closingErrorMessage: BOOLEAN, balanceMsat: Nat, isActive: BOOLEAN]

ASSUME NullAssumption == Null \notin ChannelIds /\ Null \notin LocalChannel

TypeOK ==
    /\ node \in [Channels -> NodeChannel]
    /\ map \in [Channels -> LocalChannel \cup {Null}]
    /\ rows \in [ChannelIds -> LocalChannel \cup {Null}]
    /\ alerts \in [Channels -> [count: Nat, complete: BOOLEAN]]
    /\ Len(mailbox) <= MaxMailbox
    /\ \A i \in 1..Len(mailbox) : mailbox[i].channel \in Channels
    /\ crashes \in 0..MaxCrashes

-----------------------------------------------------------------------------
(* The eclair node, external.                                              *)

PublishAll(ms) ==
    /\ Len(mailbox) + Len(ms) <= MaxMailbox
    /\ mailbox' = mailbox \o ms

Msg(type, c) == [type |-> type, channel |-> c]

StateChanged(c, previous, current, published) ==
    [type |-> "ChannelStateChanged", channel |-> c, previous |-> previous,
     current |-> current, published |-> published, toLocal |-> node[c].toLocal]

ChannelFailed(c, text) == [type |-> "ChannelFailed", channel |-> c, text |-> text]

\* Channel c, in a state of from, goes to another state after the events in ms.
Goto(c, from, to, published, ms) ==
    /\ node[c].life = "live"
    /\ node[c].state \in from
    /\ node' = [node EXCEPT ![c].state = to, ![c].published = published]
    /\ PublishAll(ms \o <<StateChanged(c, node[c].state, to, published)>>)
    /\ UNCHANGED <<map, rows, alerts, crashes>>

Create(c) ==
    /\ node[c].life = "unused"
    /\ node' = [node EXCEPT ![c].life = "live", ![c].state = "WAIT_FOR_ACCEPT_CHANNEL"]
    /\ PublishAll(<<Msg("ChannelCreated", c),
                    StateChanged(c, "WAIT_FOR_INIT_INTERNAL", "WAIT_FOR_ACCEPT_CHANNEL", {})>>)
    /\ UNCHANGED <<map, rows, alerts, crashes>>

AssignId(c) == Goto(c, {"WAIT_FOR_ACCEPT_CHANNEL"}, "WAIT_FOR_FUNDING_SIGNED", {},
                    <<Msg("ChannelIdAssigned", c)>>)

Fund(c) == Goto(c, {"WAIT_FOR_FUNDING_SIGNED"}, "WAIT_FOR_FUNDING_CONFIRMED", {}, <<>>)

Disconnect(c) == Goto(c, Open \ {"OFFLINE"}, "OFFLINE", {}, <<>>)

Reconnect(c) ==
    Goto(c, {"OFFLINE"}, IF node[c].locked THEN "NORMAL" ELSE "WAIT_FOR_FUNDING_CONFIRMED",
         {}, <<>>)

\* The funding is locked, and the channel has a short id.
Lock(c) ==
    /\ node[c].life = "live"
    /\ node[c].state = "WAIT_FOR_FUNDING_CONFIRMED"
    /\ node' = [node EXCEPT ![c].state = "NORMAL", ![c].locked = TRUE]
    /\ PublishAll(<<Msg("ShortChannelIdAssigned", c),
                    StateChanged(c, "WAIT_FOR_FUNDING_CONFIRMED", "NORMAL", {})>>)
    /\ UNCHANGED <<map, rows, alerts, crashes>>

\* The opening fails: an error of either side, or a disconnection.
Abort(c) == \E ms \in {<<>>} \cup {<<ChannelFailed(c, text)>> : text \in BOOLEAN} :
                Goto(c, Opening, "CLOSED", {}, ms)

\* An error makes the node publish its commitment.
Error(c, text) == Goto(c, Open, "CLOSING", {"local"}, <<ChannelFailed(c, text)>>)

\* A mutual close, or a commitment of the other side was published.
Close(c, kind) == Goto(c, Open, "CLOSING", {kind}, <<>>)

\* The other side signs a local commitment in which HTLCs were added or removed,
\* in either direction.
Sign(c, toLocal, flying) ==
    /\ node[c].life = "live"
    /\ node[c].state = "NORMAL"
    /\ toLocal + flying <= Funding
    /\ node' = [node EXCEPT ![c].toLocal = toLocal, ![c].flying = flying]
    /\ PublishAll(<<[type |-> "ChannelSignatureReceived", channel |-> c,
                     toLocal |-> toLocal, flying |-> flying]>>)
    /\ UNCHANGED <<map, rows, alerts, crashes>>

\* A closing transaction competes with another one.
Compete(c, kind) ==
    /\ node[c].life = "live"
    /\ node[c].state = "CLOSING"
    /\ kind \notin node[c].published
    /\ node' = [node EXCEPT ![c].published = @ \cup {kind}]
    /\ UNCHANGED <<map, rows, alerts, mailbox, crashes>>

\* The node's own commitment is confirmed.
Confirm(c) ==
    /\ node[c].life = "live"
    /\ node[c].state = "CLOSING"
    /\ "local" \in node[c].published
    /\ ~node[c].confirmed
    /\ node' = [node EXCEPT ![c].confirmed = TRUE]
    /\ PublishAll(<<Msg("LocalCommitConfirmed", c)>>)
    /\ UNCHANGED <<map, rows, alerts, crashes>>

Finish(c) == Goto(c, {"CLOSING"}, "CLOSED", node[c].published, <<>>)

\* The actor of a closed channel stops, once the channel is deleted.
Stop(c) ==
    /\ node[c].life = "live"
    /\ node[c].state = "CLOSED"
    /\ node' = [node EXCEPT ![c].life = "gone"]
    /\ PublishAll(<<Msg("Terminated", c)>>)
    /\ UNCHANGED <<map, rows, alerts, crashes>>

\* A stored channel is restored, in CLOSING if a closing had started.
Restore(c) ==
    LET closing == node[c].published # {}
        state == IF closing THEN "CLOSING" ELSE "OFFLINE"
        short == node[c].locked /\ ~closing
    IN /\ node[c].life = "stored"
       /\ node' = [node EXCEPT ![c].life = "live", ![c].state = state]
       /\ PublishAll(<<Msg("ChannelRestored", c)>>
                     \o (IF short THEN <<Msg("ShortChannelIdAssigned", c)>> ELSE <<>>)
                     \o <<StateChanged(c, "WAIT_FOR_INIT_INTERNAL", state, node[c].published)>>)
       /\ UNCHANGED <<map, rows, alerts, crashes>>

-----------------------------------------------------------------------------
(* NodeSupervisor.onReceive and DBHelper.                                  *)

\* A LocalChannel object before its first setter.
NewLocalChannel ==
    [id |-> Null, channelId |-> Null, state |-> "N/A", shortChannelId |-> FALSE,
     toSelfDelay |-> FALSE, refundAtBlock |-> FALSE, closingType |-> Null,
     closingErrorMessage |-> FALSE, balanceMsat |-> 0, isActive |-> TRUE]

getChannel(c) == IF map[c] # Null THEN map[c] ELSE NewLocalChannel

\* The object once it is saved: attached to the row of its channelId.  A null
\* channelId violates the NOT NULL of its column: the save throws, the actor is
\* restarted and the map, which is static, stays as it is.
Saved(lc) == IF lc.channelId # Null THEN [lc EXCEPT !.id = lc.channelId] ELSE lc

\* DBHelper.saveLocalChannel: insertOrReplace replaces the row the object is
\* attached to, and any row with the same channelId, with the columns of the
\* object.  The state is not a column.
saveLocalChannel(lc) ==
    rows' = [i \in ChannelIds |-> IF i = lc.channelId THEN [Saved(lc) EXCEPT !.state = "N/A"]
                                  ELSE IF i = lc.id THEN Null
                                  ELSE rows[i]]

\* The object of the map is saved.
PutAndSave(c, lc) ==
    /\ saveLocalChannel(lc)
    /\ map' = [map EXCEPT ![c] = Saved(lc)]

Event(type, c) ==
    /\ mailbox # <<>>
    /\ Head(mailbox).type = type
    /\ Head(mailbox).channel = c
    /\ mailbox' = Tail(mailbox)

HandleChannelCreated(c) ==
    /\ Event("ChannelCreated", c)
    /\ map' = [map EXCEPT ![c] = [getChannel(c) EXCEPT !.channelId = <<c, "temporary">>]]
    /\ UNCHANGED <<node, rows, alerts, crashes>>

\* Mutant of restored: nothing is read from the table.
restoredBlank(lc) == lc

\* The object of a restored channel: the refund height comes from the table.
restored(lc) ==
    LET channelInDB == rows[lc.channelId]
    IN IF channelInDB # Null
       THEN [lc EXCEPT !.refundAtBlock = channelInDB.refundAtBlock]
       ELSE lc

\* Mutant of HandleChannelRestored: the channel is left to its next event.
HandleChannelRestoredLater(c) ==
    /\ Event("ChannelRestored", c)
    /\ UNCHANGED <<node, map, rows, alerts, crashes>>

HandleChannelRestored(c) ==
    /\ Event("ChannelRestored", c)
    /\ map' = [map EXCEPT ![c] = restored([getChannel(c) EXCEPT !.channelId = <<c, "final">>])]
    /\ UNCHANGED <<node, rows, alerts, crashes>>

\* Mutant of HandleChannelIdAssigned: the final id goes into a row of its own.
HandleChannelIdAssignedAnew(c) ==
    /\ Event("ChannelIdAssigned", c)
    /\ PutAndSave(c, [map[c] EXCEPT !.channelId = <<c, "final">>, !.id = Null])
    /\ UNCHANGED <<node, alerts, crashes>>

\* A channel that is not in the map is ignored.
HandleChannelIdAssigned(c) ==
    /\ Event("ChannelIdAssigned", c)
    /\ IF map[c] # Null
       THEN PutAndSave(c, [map[c] EXCEPT !.channelId = <<c, "final">>])
       ELSE UNCHANGED <<map, rows>>
    /\ UNCHANGED <<node, alerts, crashes>>

\* The short id is only saved with the next event.
HandleShortChannelIdAssigned(c) ==
    /\ Event("ShortChannelIdAssigned", c)
    /\ map' = IF map[c] # Null THEN [map EXCEPT ![c].shortChannelId = TRUE] ELSE map
    /\ UNCHANGED <<node, rows, alerts, crashes>>

\* Mutant of signatureReceived: what is in flight is counted twice.
signatureReceivedTwice(lc, m) ==
    [lc EXCEPT !.balanceMsat = m.toLocal + m.flying + m.flying]

\* The object after ChannelSignatureReceived: the balance counts what is in flight.
signatureReceived(lc, m) == [lc EXCEPT !.balanceMsat = m.toLocal + m.flying]

\* The balance is only saved with the next event.
HandleChannelSignatureReceived(c) ==
    /\ Event("ChannelSignatureReceived", c)
    /\ map' = IF map[c] # Null
              THEN [map EXCEPT ![c] = signatureReceived(@, Head(mailbox))]
              ELSE map
    /\ UNCHANGED <<node, rows, alerts, crashes>>

\* Only an error with a text is saved.  The object is not put into the map.
HandleChannelFailed(c) ==
    /\ Event("ChannelFailed", c)
    /\ IF Head(mailbox).text
       THEN LET lc == [getChannel(c) EXCEPT !.closingErrorMessage = TRUE]
            IN /\ saveLocalChannel(lc)
               /\ map' = IF map[c] # Null THEN [map EXCEPT ![c] = Saved(lc)] ELSE map
       ELSE UNCHANGED <<map, rows>>
    /\ UNCHANGED <<node, alerts, crashes>>

HandleLocalCommitConfirmed(c) ==
    /\ Event("LocalCommitConfirmed", c)
    /\ IF map[c] # Null
       THEN PutAndSave(c, [map[c] EXCEPT !.refundAtBlock = TRUE])
       ELSE UNCHANGED <<map, rows>>
    /\ UNCHANGED <<node, alerts, crashes>>

closingType(published) ==
    CASE published = {"mutual"} -> "MUTUAL"
      [] published = {"remote"} -> "REMOTE"
      [] published = {"local"} -> "LOCAL"
      [] OTHER -> "OTHER"

\* Mutant of showNotification: the state before CLOSING is not looked at.
showNotificationAlways(m) == m.published # {} /\ m.current # "CLOSED"

\* Whether the closing of a channel is notified: not for a channel that was
\* closing when the app started, and not for CLOSING -> CLOSED.
showNotification(m) ==
    /\ m.published # {}
    /\ m.current # "CLOSED"
    /\ m.previous # "WAIT_FOR_INIT_INTERNAL"

HasCommitments(m) == m.current \in Open \/ m.published # {}

\* Mutant of stateChanged: the state is not updated on a disconnection.
stateChangedOnline(lc, m) ==
    [lc EXCEPT !.state = IF m.current = "OFFLINE" THEN @ ELSE m.current,
               !.closingType = IF m.published # {} THEN closingType(m.published) ELSE @,
               !.toSelfDelay = @ \/ HasCommitments(m),
               !.balanceMsat = IF HasCommitments(m) THEN m.toLocal ELSE @]

\* The object after ChannelStateChanged: the balance is without what is in flight.
stateChanged(lc, m) ==
    [lc EXCEPT !.state = m.current,
               !.closingType = IF m.published # {} THEN closingType(m.published) ELSE @,
               !.toSelfDelay = @ \/ HasCommitments(m),
               !.balanceMsat = IF HasCommitments(m) THEN m.toLocal ELSE @]

\* The notification is posted before the columns are updated: it carries the
\* delay the object had before this event.
HandleChannelStateChanged(c) ==
    /\ Event("ChannelStateChanged", c)
    /\ LET m == Head(mailbox)
           lc == getChannel(c)
       IN /\ alerts' = IF showNotification(m)
                       THEN [alerts EXCEPT ![c].count = @ + 1,
                                           ![c].complete = @ /\ lc.toSelfDelay]
                       ELSE alerts
          /\ PutAndSave(c, stateChanged(lc, m))
    /\ UNCHANGED <<node, crashes>>

\* Mutant of channelTerminated: the row is left as it is.
channelTerminatedNot(lc) == UNCHANGED rows

\* DBHelper.channelTerminated: the row, if there is one, is made inactive.  The
\* session returns the object of the map if that one is attached to the row.
channelTerminated(lc) ==
    IF lc.channelId # Null /\ rows[lc.channelId] # Null
    THEN LET channel == IF lc.id = lc.channelId THEN lc ELSE rows[lc.channelId]
         IN saveLocalChannel([channel EXCEPT !.isActive = FALSE])
    ELSE UNCHANGED rows

HandleTerminated(c) ==
    /\ Event("Terminated", c)
    /\ IF map[c] # Null THEN channelTerminated(map[c]) ELSE UNCHANGED rows
    /\ map' = [map EXCEPT ![c] = Null]
    /\ UNCHANGED <<node, alerts, crashes>>

-----------------------------------------------------------------------------

\* The process dies and is started again: the map and the mailbox are lost, the
\* node keeps the channels with commitments.
Crash ==
    /\ crashes < MaxCrashes
    /\ crashes' = crashes + 1
    /\ node' = [c \in Channels |->
           CASE node[c].life = "live" /\ (node[c].state \in Open \/ node[c].published # {}) ->
                  [node[c] EXCEPT !.life = "stored"]
             [] node[c].life = "live" /\ node[c].state \notin Open /\ node[c].published = {} ->
                  [node[c] EXCEPT !.life = "gone"]
             [] OTHER -> node[c]]
    /\ map' = [c \in Channels |-> Null]
    /\ mailbox' = <<>>
    /\ UNCHANGED <<rows, alerts>>

Init ==
    /\ node = [c \in Channels |-> [life |-> "unused", state |-> "WAIT_FOR_INIT_INTERNAL",
                                   locked |-> FALSE, published |-> {}, confirmed |-> FALSE,
                                   toLocal |-> Funding, flying |-> 0]]
    /\ map = [c \in Channels |-> Null]
    /\ rows = [i \in ChannelIds |-> Null]
    /\ alerts = [c \in Channels |-> [count |-> 0, complete |-> TRUE]]
    /\ mailbox = <<>>
    /\ crashes = 0

NodeStep(c) ==
    \/ Create(c) \/ AssignId(c) \/ Fund(c) \/ Lock(c)
    \/ Disconnect(c) \/ Reconnect(c)
    \/ Abort(c)
    \/ \E toLocal, flying \in 0..Funding : Sign(c, toLocal, flying)
    \/ \E text \in BOOLEAN : Error(c, text)
    \/ \E kind \in Published \ {"local"} : Close(c, kind)
    \/ \E kind \in Published : Compete(c, kind)
    \/ Confirm(c) \/ Finish(c) \/ Stop(c) \/ Restore(c)

Receive(c) ==
    \/ HandleChannelCreated(c) \/ HandleChannelRestored(c)
    \/ HandleChannelIdAssigned(c) \/ HandleShortChannelIdAssigned(c)
    \/ HandleChannelSignatureReceived(c)
    \/ HandleChannelFailed(c) \/ HandleLocalCommitConfirmed(c)
    \/ HandleChannelStateChanged(c) \/ HandleTerminated(c)

-----------------------------------------------------------------------------
(* What the screens ask of activeChannelsMap.                              *)

\* What getChannelsBalance, the balance of the home screen, adds up for channel c.
channelsBalance(c) ==
    IF map[c] # Null /\ map[c].state \notin {"CLOSING", "CLOSED"} THEN map[c].balanceMsat ELSE 0

\* The check of the payment screen before it asks for the PIN.
hasNormalChannelsWithBalance(requiredBalanceMsat) ==
    \E c \in Channels : /\ map[c] # Null
                       /\ map[c].state = "NORMAL"
                       /\ map[c].balanceMsat > requiredBalanceMsat + Reserve

-----------------------------------------------------------------------------

Next == \/ \E c \in Channels : NodeStep(c)
        \/ \E c \in Channels : Receive(c)
        \/ Crash

Spec == Init /\ [][Next]_vars

FairSpec == Spec /\ WF_vars(\E c \in Channels : Receive(c))

-----------------------------------------------------------------------------
(* Properties.                                                             *)

\* No event about c is waiting for NodeSupervisor.
Quiet(c) == \A i \in 1..Len(mailbox) : mailbox[i].channel # c

Rows(c) == {i \in ChannelIds : i[1] = c /\ rows[i] # Null}

\* The screens see the node as it is once its events are handled: the map holds
\* exactly the channels that have an actor, in their state and under their
\* current id (ChannelDetailsActivity and CloseChannelDialog look them up by
\* id), whatever was restored, disconnected, closed or killed in between.
MapFollowsNode ==
    \A c \in Channels : Quiet(c) =>
        /\ map[c] # Null <=> node[c].life = "live"
        /\ map[c] # Null =>
             /\ map[c].state = node[c].state
             /\ map[c].channelId \in Rows(c)
             /\ rows[map[c].channelId].isActive
             /\ node[c].state \in Open \cup {"CLOSING"} => map[c].channelId = <<c, "final">>

\* getChannelFromId dereferences the channel id of every entry of the map: none
\* is ever null, because a channel is put into the map with its id before any
\* event that would create an anonymous entry.
MapIsIdentified == \A c \in Channels : map[c] # Null => map[c].channelId # Null

\* While the process lives, a channel never has two rows, although it changes its
\* id while it is opened.  (A crash between the node's save and the handling of
\* ChannelIdAssigned leaves the row of the temporary id behind, active for ever.)
OneRowPerChannel ==
    crashes = 0 => \A c \in Channels : \A i, j \in Rows(c) : i = j

\* The user is alerted at most once that a channel closes, over all the restarts
\* of the app during the closing, and every alert knows the delay after which
\* the funds are back.
AlertedOnce == \A c \in Channels : alerts[c].count <= 1 /\ alerts[c].complete

\* The balance follows the node, although two events write it by different
\* formulas, both come late, it is not read back from the table, and a channel is
\* disconnected, restored or closed with HTLCs in flight: once the events of a
\* channel are handled, the home screen counts what the channel leaves to the
\* wallet, with or without what is in flight, and nothing of a channel that is
\* not open yet or not any more.  A payment whose amount is accepted has a channel
\* with these funds, but they may all be in flight.
BalanceFollowsNode ==
    /\ \A c \in Channels : Quiet(c) =>
          IF node[c].life = "live" /\ node[c].state \in Open
          THEN channelsBalance(c) \in {node[c].toLocal, node[c].toLocal + node[c].flying}
          ELSE channelsBalance(c) = 0
    /\ \A amount \in 0..Funding :
          (\A c \in Channels : Quiet(c)) /\ hasNormalChannelsWithBalance(amount) =>
              \E c \in Channels : /\ node[c].life = "live" /\ node[c].state = "NORMAL"
                                 /\ node[c].toLocal + node[c].flying > amount + Reserve

\* A refund height that was saved is never lost, although the node announces it
\* only once and the object of the channel is a new one after a restart.
RefundSurvives ==
    [][\A c \in Channels :
         LET i == <<c, "final">>
         IN rows[i] # Null /\ rows[i].refundAtBlock =>
              rows'[i] # Null /\ rows'[i].refundAtBlock]_vars

\* A channel whose actor stops while the app runs ends up in the history: its
\* row becomes inactive, which is the only thing the list of inactive channels
\* selects, and it leaves the map.  (After a death of the process between the
\* node's deletion of the channel and the handling of Terminated, it does not.)
StoppedIsHistory ==
    \A c \in Channels, n \in 0..MaxCrashes :
        (node[c].life = "gone" /\ ~Quiet(c) /\ crashes = n)
            ~> \/ crashes # n
               \/ map[c] = Null /\ \E i \in Rows(c) : ~rows[i].isActive
=============================================================================
