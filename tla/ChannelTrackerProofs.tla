------------------------ MODULE ChannelTrackerProofs ------------------------
(***************************************************************************)
(* Safety of the channel tracker, for any number of channels, any length   *)
(* of the mailbox, any funding and any number of deaths of the process.    *)
(***************************************************************************)
EXTENDS ChannelTracker, TLAPS

\* Messages of the node, in the mailbox.
Messages ==
    [type : {"ChannelCreated", "ChannelRestored", "ChannelIdAssigned", "ShortChannelIdAssigned",
             "LocalCommitConfirmed", "Terminated"}, channel : Channels]
    \cup [type : {"ChannelFailed"}, channel : Channels, text : BOOLEAN]
    \cup [type : {"ChannelStateChanged"}, channel : Channels, previous : States,
          current : States, published : SUBSET Published, toLocal : Nat]
    \cup [type : {"ChannelSignatureReceived"}, channel : Channels, toLocal : Nat, flying : Nat]

Introductions == {"ChannelCreated", "ChannelRestored"}

\* The places of a channel's messages in a mailbox, and of its state changes.
At(box, c)      == {i \in 1 .. Len(box) : box[i].channel = c}
Changes(box, c) == {i \in At(box, c) : box[i].type = "ChannelStateChanged"}

Notifies(m) == m.type = "ChannelStateChanged" /\ showNotification(m)

\* A channel's messages begin with its introduction and end with its
\* termination, each change starts from the state the one before it led to, and
\* one of them at most is notified.
InOrder(box, c) ==
    /\ \A i, j \in At(box, c) :
          i < j => box[j].type \notin Introductions /\ box[i].type # "Terminated"
    /\ \A i, j \in Changes(box, c) :
          i < j /\ (\A k \in Changes(box, c) : k <= i \/ k >= j) =>
              box[j].previous = box[i].current
    /\ \A i, j \in At(box, c) : Notifies(box[i]) /\ Notifies(box[j]) => i = j
    /\ \A i \in At(box, c) : Notifies(box[i]) => box[i].previous \in Open

\* lc, the object of the map, is what the first messages start from.
StartsFrom(box, c, lc) ==
    /\ \A i \in At(box, c) :
          (\A j \in At(box, c) : i <= j) => (box[i].type \in Introductions <=> lc = Null)
    /\ \A i \in Changes(box, c) :
          (\A j \in Changes(box, c) : i <= j) /\ box[i].previous # "WAIT_FOR_INIT_INTERNAL" =>
              lc # Null /\ lc.state = box[i].previous

\* nd, the node's channel, is what the last messages lead to.
LeadsTo(box, c, nd, lc) ==
    /\ \A i \in Changes(box, c) :
          (\A j \in Changes(box, c) : j <= i) => box[i].current = nd.state
    /\ nd.life = "live" /\ Changes(box, c) = {} =>
          lc # Null /\ lc.state = nd.state /\ lc.id = lc.channelId
    /\ nd.life \in {"unused", "stored"} => lc = Null /\ At(box, c) = {}
    /\ nd.life = "unused" => nd.state = "WAIT_FOR_INIT_INTERNAL"
    /\ nd.life = "gone" =>
          /\ lc # Null => At(box, c) # {}
          /\ \A i \in At(box, c) : (\A j \in At(box, c) : j <= i) => box[i].type = "Terminated"
    /\ nd.life # "gone" => \A i \in At(box, c) : box[i].type # "Terminated"

\* The states of a channel that was given its final id.
Identified == {"WAIT_FOR_FUNDING_SIGNED", "CLOSING"} \cup Open

HasFinalId(box, c, nd, lc) ==
    nd.life = "live" /\ nd.state \in Identified =>
        \/ \E i \in At(box, c) : box[i].type = "ChannelIdAssigned"
        \/ /\ lc # Null => lc.channelId = <<c, "final">>
           /\ \A i \in At(box, c) : box[i].type # "ChannelCreated"

\* An object of the map: one with a row is attached to it and saved.
ObjectOK(c, lc, table) ==
    lc # Null =>
        /\ lc.channelId \in {<<c, "temporary">>, <<c, "final">>}
        /\ lc.isActive
        /\ lc.state \in Open => lc.toSelfDelay
        /\ lc.id # Null => /\ lc.id = lc.channelId
                           /\ table[lc.id] # Null /\ table[lc.id].isActive
        /\ table[<<c, "final">>] # Null /\ table[<<c, "final">>].refundAtBlock => lc.refundAtBlock

RowsOf(c, table) == {i \in {<<c, "temporary">>, <<c, "final">>} : table[i] # Null}

TableOK(box, c, nd, lc, table, deaths) ==
    /\ \A i \in RowsOf(c, table) : table[i].channelId = i /\ table[i].id = i
    /\ nd.life = "unused" => RowsOf(c, table) = {}
    /\ \A i \in At(box, c) : box[i].type = "ChannelCreated" => RowsOf(c, table) = {}
    /\ deaths = 0 =>
          /\ nd.life # "stored"
          /\ \A i \in At(box, c) : box[i].type # "ChannelRestored"
          /\ \A i, j \in RowsOf(c, table) : i = j
          /\ lc # Null => \A i \in RowsOf(c, table) : i = lc.id

\* Closing is announced once, when something was published.
AlertsOK(box, c, nd, alert) ==
    /\ nd.state \in Opening \cup Open \cup {"WAIT_FOR_INIT_INTERNAL"} => nd.published = {}
    /\ nd.published = {} => alert.count = 0 /\ \A i \in At(box, c) : ~Notifies(box[i])
    /\ \A i \in At(box, c) : Notifies(box[i]) => alert.count = 0
    /\ alert.count <= 1 /\ alert.complete

\* All that is said of channel c.
CInv(box, c, nd, lc, table, alert, deaths) ==
    /\ InOrder(box, c)
    /\ StartsFrom(box, c, lc)
    /\ LeadsTo(box, c, nd, lc)
    /\ HasFinalId(box, c, nd, lc)
    /\ ObjectOK(c, lc, table)
    /\ TableOK(box, c, nd, lc, table, deaths)
    /\ AlertsOK(box, c, nd, alert)

ChannelsOK ==
    \A c \in Channels : CInv(mailbox, c, node[c], map[c], rows, alerts[c], crashes)

IInv == TypeOK /\ mailbox \in Seq(Messages) /\ ChannelsOK

-----------------------------------------------------------------------------
(* Mailboxes.                                                              *)

\* after is box without its first message.
Shifted(box, after, c) ==
    /\ \A i \in At(after, c) : i \in Nat /\ i >= 1 /\ i + 1 \in At(box, c) /\ after[i] = box[i + 1]
    /\ \A k \in At(box, c) : k \in Nat /\ k >= 1 /\ (k = 1 \/ k - 1 \in At(after, c))
    /\ \A i \in Changes(after, c) : i \in At(after, c) /\ i + 1 \in Changes(box, c)
    /\ \A k \in Changes(box, c) : k \in At(box, c) /\ (k = 1 \/ k - 1 \in Changes(after, c))

LEMMA TailShifts ==
    ASSUME NEW box \in Seq(Messages), box # <<>>, NEW c
    PROVE  /\ Shifted(box, Tail(box), c)
           /\ 1 \in At(box, c) <=> Head(box).channel = c
           /\ 1 \in Changes(box, c) <=> Head(box).channel = c /\ Head(box).type = "ChannelStateChanged"
           /\ box[1] = Head(box)
  <1> DEFINE after == Tail(box)
  <1>1. /\ \A i \in At(after, c) : i \in Nat /\ i >= 1 /\ i + 1 \in At(box, c) /\ after[i] = box[i + 1]
        /\ \A k \in At(box, c) : k \in Nat /\ k >= 1 /\ (k = 1 \/ k - 1 \in At(after, c))
        /\ 1 \in At(box, c) <=> Head(box).channel = c
        /\ box[1] = Head(box)
    BY DEF At
  <1> HIDE DEF after
  <1>2. \A i \in Changes(after, c) : i \in At(after, c) /\ i + 1 \in Changes(box, c)
    <2> TAKE i \in Changes(after, c)
    <2>1. i \in At(after, c) /\ after[i].type = "ChannelStateChanged"
      BY DEF Changes
    <2> QED BY <1>1, <2>1 DEF Changes
  <1>3. \A k \in Changes(box, c) : k \in At(box, c) /\ (k = 1 \/ k - 1 \in Changes(after, c))
    <2> TAKE k \in Changes(box, c)
    <2>1. k \in At(box, c) /\ box[k].type = "ChannelStateChanged"
      BY DEF Changes
    <2>2. k # 1 => k - 1 \in At(after, c) /\ after[k - 1] = box[k]
      BY <1>1, <2>1
    <2> QED BY <2>1, <2>2 DEF Changes
  <1>4. 1 \in Changes(box, c) <=> Head(box).channel = c /\ Head(box).type = "ChannelStateChanged"
    BY <1>1 DEF Changes
  <1> QED BY <1>1, <1>2, <1>3, <1>4 DEF Shifted, after

LEMMA TailInOrder ==
    ASSUME NEW box, NEW after, NEW c, Shifted(box, after, c), InOrder(box, c)
    PROVE  InOrder(after, c)
  <1>1. \A i, j \in At(after, c) :
          i < j => after[j].type \notin Introductions /\ after[i].type # "Terminated"
    <2> SUFFICES ASSUME NEW i \in At(after, c), NEW j \in At(after, c), i < j
                 PROVE  after[j].type \notin Introductions /\ after[i].type # "Terminated"
      OBVIOUS
    <2>1. i + 1 < j + 1 /\ i + 1 \in At(box, c) /\ j + 1 \in At(box, c)
          /\ after[i] = box[i + 1] /\ after[j] = box[j + 1]
      BY DEF Shifted
    <2> QED BY <2>1 DEF InOrder
  <1>2. \A i, j \in Changes(after, c) :
          i < j /\ (\A k \in Changes(after, c) : k <= i \/ k >= j) =>
              after[j].previous = after[i].current
    <2> SUFFICES ASSUME NEW i \in Changes(after, c), NEW j \in Changes(after, c), i < j,
                        \A k \in Changes(after, c) : k <= i \/ k >= j
                 PROVE  after[j].previous = after[i].current
      OBVIOUS
    <2>1. i + 1 < j + 1 /\ i + 1 \in Changes(box, c) /\ j + 1 \in Changes(box, c)
          /\ after[i] = box[i + 1] /\ after[j] = box[j + 1] /\ i \in Nat /\ j \in Nat /\ i >= 1
      BY DEF Shifted
    <2>2. \A k \in Changes(box, c) : k <= i + 1 \/ k >= j + 1
      BY <2>1 DEF Shifted
    <2> QED BY <2>1, <2>2 DEF InOrder
  <1>3. \A i, j \in At(after, c) : Notifies(after[i]) /\ Notifies(after[j]) => i = j
    <2> SUFFICES ASSUME NEW i \in At(after, c), NEW j \in At(after, c),
                        Notifies(after[i]), Notifies(after[j])
                 PROVE  i = j
      OBVIOUS
    <2>1. i + 1 \in At(box, c) /\ j + 1 \in At(box, c)
          /\ after[i] = box[i + 1] /\ after[j] = box[j + 1] /\ i \in Nat /\ j \in Nat
      BY DEF Shifted
    <2> QED BY <2>1 DEF InOrder
  <1>4. \A i \in At(after, c) : Notifies(after[i]) => after[i].previous \in Open
    BY DEF Shifted, InOrder
  <1> QED BY <1>1, <1>2, <1>3, <1>4 DEF InOrder

\* The messages of channel c are the same in after, at the same places.
Same(box, after, c) ==
    /\ At(after, c) = At(box, c)
    /\ Changes(after, c) = Changes(box, c)
    /\ \A i \in At(box, c) : after[i] = box[i]
    /\ \A i \in Changes(box, c) : i \in At(box, c)

LEMMA AppendedElsewhere ==
    ASSUME NEW box \in Seq(Messages), NEW ms \in Seq(Messages), NEW c,
           \A j \in 1 .. Len(ms) : ms[j].channel # c
    PROVE  Same(box, box \o ms, c)
  <1> DEFINE after == box \o ms
  <1>1. /\ Len(after) = Len(box) + Len(ms) /\ Len(box) \in Nat /\ Len(ms) \in Nat
        /\ \A i \in 1 .. Len(box) : after[i] = box[i]
        /\ \A i \in 1 .. Len(after) : i > Len(box) => after[i] = ms[i - Len(box)]
    OBVIOUS
  <1> HIDE DEF after
  <1>2. \A i \in 1 .. Len(after) : i > Len(box) => after[i].channel # c
    <2> TAKE i \in 1 .. Len(after)
    <2> HAVE i > Len(box)
    <2>1. i - Len(box) \in 1 .. Len(ms)
      BY <1>1
    <2> QED BY <1>1, <2>1
  <1>3. At(after, c) = At(box, c) /\ \A i \in At(box, c) : after[i] = box[i]
    BY <1>1, <1>2 DEF At
  <1>4. Changes(after, c) = Changes(box, c) /\ \A i \in Changes(box, c) : i \in At(box, c)
    BY <1>3 DEF Changes
  <1> QED BY <1>3, <1>4 DEF Same, after

LEMMA SameInvariant ==
    ASSUME NEW box, NEW after, NEW c, NEW nd, NEW lc, NEW table, NEW alert, NEW deaths,
           Same(box, after, c), CInv(box, c, nd, lc, table, alert, deaths)
    PROVE  CInv(after, c, nd, lc, table, alert, deaths)
  <1>1. InOrder(after, c)
    BY DEF Same, CInv, InOrder
  <1>2. StartsFrom(after, c, lc)
    BY DEF Same, CInv, StartsFrom
  <1>3. LeadsTo(after, c, nd, lc)
    BY DEF Same, CInv, LeadsTo
  <1>4. HasFinalId(after, c, nd, lc)
    BY DEF Same, CInv, HasFinalId
  <1>5. TableOK(after, c, nd, lc, table, deaths)
    BY DEF Same, CInv, TableOK
  <1>6. AlertsOK(after, c, nd, alert)
    BY DEF Same, CInv, AlertsOK
  <1> QED BY <1>1, <1>2, <1>3, <1>4, <1>5, <1>6 DEF CInv

\* The first message is another channel's.
LEMMA TailElsewhere ==
    ASSUME NEW box, NEW after, NEW c, NEW nd, NEW lc, NEW table, NEW alert, NEW deaths,
           Shifted(box, after, c), 1 \notin At(box, c),
           CInv(box, c, nd, lc, table, alert, deaths)
    PROVE  CInv(after, c, nd, lc, table, alert, deaths)
  <1>0. /\ \A i \in At(after, c) : i \in Nat /\ i + 1 \in At(box, c) /\ after[i] = box[i + 1]
        /\ \A k \in At(box, c) : k \in Nat /\ k - 1 \in At(after, c) /\ after[k - 1] = box[k]
        /\ \A i \in Changes(after, c) : i \in At(after, c) /\ i + 1 \in Changes(box, c)
        /\ \A k \in Changes(box, c) : k \in At(box, c) /\ k - 1 \in Changes(after, c)
    BY DEF Shifted
  <1>1. InOrder(after, c)
    BY TailInOrder DEF CInv
  <1>2. StartsFrom(after, c, lc)
    BY <1>0 DEF CInv, StartsFrom
  <1>3. LeadsTo(after, c, nd, lc)
    BY <1>0 DEF CInv, LeadsTo
  <1>4. HasFinalId(after, c, nd, lc)
    BY <1>0 DEF CInv, HasFinalId
  <1>5. TableOK(after, c, nd, lc, table, deaths)
    BY <1>0 DEF CInv, TableOK
  <1>6. AlertsOK(after, c, nd, alert)
    BY <1>0 DEF CInv, AlertsOK
  <1> QED BY <1>1, <1>2, <1>3, <1>4, <1>5, <1>6 DEF CInv

-----------------------------------------------------------------------------
(* The node adds messages of a channel.                                    *)

\* after is box with one more message of channel c, at n.
Added(box, after, c, m, n) ==
    /\ n \in Nat /\ after[n] = m
    /\ At(after, c) = At(box, c) \cup {n}
    /\ \A i \in At(box, c) : i \in Nat /\ i < n /\ after[i] = box[i]
    /\ Changes(after, c) = Changes(box, c) \cup (IF m.type = "ChannelStateChanged" THEN {n} ELSE {})
    /\ \A i \in Changes(box, c) : i \in At(box, c)

LEMMA AppendedOwn ==
    ASSUME NEW box \in Seq(Messages), NEW c, NEW m \in Messages, m.channel = c
    PROVE  Added(box, Append(box, m), c, m, Len(box) + 1)
  <1> DEFINE after == Append(box, m)
             n == Len(box) + 1
  <1>1. /\ Len(after) = n /\ n \in Nat /\ Len(box) \in Nat
        /\ \A i \in 1 .. Len(box) : after[i] = box[i]
        /\ after[n] = m
    OBVIOUS
  <1> HIDE DEF after
  <1>2. At(after, c) = At(box, c) \cup {n}
        /\ \A i \in At(box, c) : i \in Nat /\ i < n /\ after[i] = box[i]
    BY <1>1 DEF At
  <1> HIDE DEF n
  <1>3. Changes(after, c) = Changes(box, c) \cup (IF m.type = "ChannelStateChanged" THEN {n} ELSE {})
        /\ \A i \in Changes(box, c) : i \in At(box, c)
    BY <1>1, <1>2 DEF Changes
  <1> QED BY <1>1, <1>2, <1>3 DEF Added, after, n

Notes == {"ChannelIdAssigned", "ShortChannelIdAssigned", "ChannelSignatureReceived",
          "LocalCommitConfirmed", "ChannelFailed"}

\* A message that changes no state.
LEMMA NoteAdded ==
    ASSUME NEW box, NEW after, NEW c, NEW m, NEW n,
           NEW nd, NEW lc, NEW table, NEW alert, NEW deaths,
           Added(box, after, c, m, n), m.type \in Notes, nd.life = "live",
           CInv(box, c, nd, lc, table, alert, deaths)
    PROVE  CInv(after, c, nd, lc, table, alert, deaths)
  <1>0. /\ m.type \notin Introductions /\ m.type # "Terminated" /\ ~Notifies(m)
        /\ m.type # "ChannelStateChanged" /\ m.type \notin {"ChannelCreated", "ChannelRestored"}
        /\ Changes(after, c) = Changes(box, c)
    BY DEF Notes, Notifies, Introductions, Added
  <1>1. InOrder(after, c)
    BY <1>0 DEF CInv, InOrder, Added, LeadsTo
  <1>2. StartsFrom(after, c, lc)
    BY <1>0 DEF CInv, StartsFrom, Added, LeadsTo
  <1>3. LeadsTo(after, c, nd, lc)
    BY <1>0 DEF CInv, LeadsTo, Added
  <1>4. HasFinalId(after, c, nd, lc)
    BY <1>0 DEF CInv, HasFinalId, Added
  <1>5. TableOK(after, c, nd, lc, table, deaths)
    BY <1>0 DEF CInv, TableOK, Added
  <1>6. AlertsOK(after, c, nd, alert)
    BY <1>0 DEF CInv, AlertsOK, Added
  <1> QED BY <1>1, <1>2, <1>3, <1>4, <1>5, <1>6 DEF CInv

\* nd2 is nd after the change that m tells of.
Moves(box, c, m, nd, nd2) ==
    /\ m.type = "ChannelStateChanged" /\ m.previous = nd.state /\ m.current = nd2.state
    /\ m.published = nd2.published
    /\ nd.life = "live" /\ nd2.life = "live"
    /\ nd2.state # "WAIT_FOR_INIT_INTERNAL"
    /\ nd2.state \in Identified =>
          nd.state \in Identified \/ \E i \in At(box, c) : box[i].type = "ChannelIdAssigned"
    /\ nd2.state \in Opening \cup Open => nd2.published = {}
    /\ nd2.published = {} => nd.published = {}
    /\ nd2.published # {} /\ nd2.state # "CLOSED" => nd.state \in Open

LEMMA ChangeAdded ==
    ASSUME NEW box, NEW after, NEW c, NEW m, NEW n,
           NEW nd, NEW nd2, NEW lc, NEW table, NEW alert, NEW deaths,
           Added(box, after, c, m, n), Moves(box, c, m, nd, nd2),
           CInv(box, c, nd, lc, table, alert, deaths)
    PROVE  CInv(after, c, nd2, lc, table, alert, deaths)
  <1>0. /\ m.type \notin Introductions /\ m.type # "Terminated" /\ m.type # "ChannelIdAssigned"
        /\ Changes(after, c) = Changes(box, c) \cup {n}
        /\ nd.life = "live" /\ nd2.life = "live" /\ m.previous = nd.state /\ m.current = nd2.state
        /\ \A i \in At(box, c) : box[i].type # "Terminated"
        /\ \A i \in Changes(box, c) : (\A j \in Changes(box, c) : j <= i) => box[i].current = nd.state
    BY DEF Introductions, Added, Moves, CInv, LeadsTo
  <1>1. Notifies(m) => /\ m.previous \in Open /\ alert.count = 0
                       /\ \A i \in At(box, c) : ~Notifies(box[i])
    <2> SUFFICES ASSUME Notifies(m)
                 PROVE  /\ m.previous \in Open /\ alert.count = 0
                        /\ \A i \in At(box, c) : ~Notifies(box[i])
      OBVIOUS
    <2>1. nd2.published # {} /\ nd2.state # "CLOSED"
      BY DEF Notifies, showNotification, Moves
    <2>2. nd.state \in Open
      BY <2>1 DEF Moves
    <2>3. nd.published = {}
      BY <2>2 DEF CInv, AlertsOK
    <2> QED BY <2>2, <2>3, <1>0 DEF CInv, AlertsOK
  <1>2. InOrder(after, c)
    <2>1. \A i, j \in At(after, c) :
            i < j => after[j].type \notin Introductions /\ after[i].type # "Terminated"
      BY <1>0 DEF CInv, InOrder, Added
    <2>2. \A i, j \in Changes(after, c) :
            i < j /\ (\A k \in Changes(after, c) : k <= i \/ k >= j) =>
                after[j].previous = after[i].current
      BY <1>0 DEF CInv, InOrder, Added
    <2>3. \A i, j \in At(after, c) : Notifies(after[i]) /\ Notifies(after[j]) => i = j
      BY <1>1 DEF CInv, InOrder, Added
    <2>4. \A i \in At(after, c) : Notifies(after[i]) => after[i].previous \in Open
      BY <1>1 DEF CInv, InOrder, Added
    <2> QED BY <2>1, <2>2, <2>3, <2>4 DEF InOrder
  <1>3. StartsFrom(after, c, lc)
    BY <1>0 DEF CInv, StartsFrom, Added, LeadsTo
  <1>4. LeadsTo(after, c, nd2, lc)
    BY <1>0 DEF CInv, LeadsTo, Added
  <1>5. HasFinalId(after, c, nd2, lc)
    BY <1>0 DEF CInv, HasFinalId, Added, Moves, Introductions
  <1>6. TableOK(after, c, nd2, lc, table, deaths)
    BY <1>0 DEF CInv, TableOK, Added
  <1>7. AlertsOK(after, c, nd2, alert)
    <2>1. nd2.published = {} => ~Notifies(m)
      BY DEF Notifies, showNotification, Moves
    <2> QED BY <1>0, <1>1, <2>1 DEF CInv, AlertsOK, Added, Moves
  <1> QED BY <1>2, <1>3, <1>4, <1>5, <1>6, <1>7 DEF CInv

LEMMA TerminationAdded ==
    ASSUME NEW box, NEW after, NEW c, NEW m, NEW n,
           NEW nd, NEW nd2, NEW lc, NEW table, NEW alert, NEW deaths,
           Added(box, after, c, m, n), m.type = "Terminated",
           nd.life = "live", nd2.life = "gone", nd2.state = nd.state, nd2.published = nd.published,
           CInv(box, c, nd, lc, table, alert, deaths)
    PROVE  CInv(after, c, nd2, lc, table, alert, deaths)
  <1>0. /\ m.type \notin Introductions /\ ~Notifies(m)
        /\ Changes(after, c) = Changes(box, c)
        /\ \A i \in At(box, c) : box[i].type # "Terminated"
        /\ \A i \in At(after, c) : i <= n
    BY DEF Notifies, Introductions, Added, CInv, LeadsTo
  <1>1. InOrder(after, c)
    BY <1>0 DEF CInv, InOrder, Added
  <1>2. StartsFrom(after, c, lc)
    BY <1>0 DEF CInv, StartsFrom, Added, LeadsTo
  <1>3. LeadsTo(after, c, nd2, lc)
    BY <1>0 DEF CInv, LeadsTo, Added
  <1>4. HasFinalId(after, c, nd2, lc)
    BY DEF HasFinalId
  <1>5. TableOK(after, c, nd2, lc, table, deaths)
    BY <1>0 DEF CInv, TableOK, Added
  <1>6. AlertsOK(after, c, nd2, alert)
    BY <1>0 DEF CInv, AlertsOK, Added
  <1> QED BY <1>1, <1>2, <1>3, <1>4, <1>5, <1>6 DEF CInv

\* b2 is b1 or has one more message, a short id.
Continues(b1, b2, c) ==
    b2 = b1 \/ \E m, n : Added(b1, b2, c, m, n) /\ m.type = "ShortChannelIdAssigned"

\* A channel appears, or comes back.
LEMMA Introduced ==
    ASSUME NEW box, NEW b1, NEW b2, NEW b3, NEW c, NEW m1, NEW m3, NEW n1, NEW n3,
           NEW nd, NEW nd2, NEW lc, NEW table, NEW alert, NEW deaths,
           Added(box, b1, c, m1, n1),
           Continues(b1, b2, c),
           Added(b2, b3, c, m3, n3),
           \/ m1.type = "ChannelCreated" /\ nd.life = "unused"
           \/ m1.type = "ChannelRestored" /\ nd.life = "stored",
           m3.type = "ChannelStateChanged", m3.previous = "WAIT_FOR_INIT_INTERNAL",
           m3.current = nd2.state, m3.published = nd2.published,
           nd2.life = "live", nd2.published = nd.published,
           nd2.state \in Opening \cup Open => nd2.published = {},
           nd2.state # "WAIT_FOR_INIT_INTERNAL",
           nd2.state \in Identified => m1.type = "ChannelRestored",
           CInv(box, c, nd, lc, table, alert, deaths)
    PROVE  CInv(b3, c, nd2, lc, table, alert, deaths)
  <1>1. At(box, c) = {} /\ Changes(box, c) = {} /\ lc = Null
    BY DEF CInv, LeadsTo, Added
  <1>2. At(b1, c) = {n1} /\ Changes(b1, c) = {} /\ b1[n1] = m1 /\ n1 \in Nat
    BY <1>1 DEF Added
  <1>3. /\ n1 \in At(b2, c) /\ Changes(b2, c) = {} /\ b2[n1] = m1
        /\ \A i \in At(b2, c) : i \in Nat /\ n1 <= i
                                /\ (i = n1 \/ b2[i].type = "ShortChannelIdAssigned")
    BY <1>2 DEF Added, Continues
  <1>4. /\ n1 \in At(b3, c) /\ n3 \in At(b3, c) /\ Changes(b3, c) = {n3}
        /\ b3[n1] = m1 /\ b3[n3] = m3 /\ n1 \in Nat /\ n3 \in Nat /\ n1 < n3
        /\ \A i \in At(b3, c) : /\ i \in Nat /\ n1 <= i /\ i <= n3
                                /\ i = n1 \/ i = n3 \/ b3[i].type = "ShortChannelIdAssigned"
    BY <1>2, <1>3 DEF Added
  <1>5. ~Notifies(m1) /\ ~Notifies(m3) /\ m1.type \in Introductions
        /\ \A i \in At(b3, c) : ~Notifies(b3[i]) /\ b3[i].type # "Terminated"
                                /\ (i # n1 => b3[i].type \notin Introductions)
    BY <1>4 DEF Notifies, showNotification, Introductions
  <1>6. InOrder(b3, c)
    BY <1>4, <1>5 DEF InOrder
  <1>7. StartsFrom(b3, c, lc)
    BY <1>1, <1>4, <1>5 DEF StartsFrom
  <1>8. LeadsTo(b3, c, nd2, lc)
    BY <1>4, <1>5 DEF LeadsTo
  <1>9. HasFinalId(b3, c, nd2, lc)
    BY <1>1, <1>4 DEF HasFinalId
  <1>10. TableOK(b3, c, nd2, lc, table, deaths)
    BY <1>1, <1>4 DEF CInv, TableOK
  <1>11. AlertsOK(b3, c, nd2, alert)
    BY <1>4, <1>5 DEF CInv, AlertsOK, LeadsTo
  <1> QED BY <1>6, <1>7, <1>8, <1>9, <1>10, <1>11 DEF CInv

-----------------------------------------------------------------------------
(* NodeSupervisor takes the first message.                                 *)

\* The first message is one of channel c: what it says of the others.
LEMMA FirstMessage ==
    ASSUME NEW box, NEW after, NEW c, NEW nd, NEW lc, NEW table, NEW alert, NEW deaths,
           Shifted(box, after, c), 1 \in At(box, c),
           CInv(box, c, nd, lc, table, alert, deaths)
    PROVE  /\ box[1].type \in Introductions <=> lc = Null
           /\ \A i \in At(after, c) : after[i].type \notin Introductions
           /\ box[1].type = "Terminated" => At(after, c) = {} /\ nd.life = "gone"
           /\ nd.life \notin {"unused", "stored"}
  <1>1. \A i \in At(box, c) : 1 <= i
    BY DEF Shifted
  <1>2. box[1].type \in Introductions <=> lc = Null
    BY <1>1 DEF CInv, StartsFrom
  <1>3. \A i \in At(after, c) : /\ i \in Nat /\ i >= 1 /\ 1 < i + 1 /\ i + 1 \in At(box, c)
                                /\ after[i] = box[i + 1]
    BY DEF Shifted
  <1>4. /\ \A i \in At(after, c) : after[i].type \notin Introductions
        /\ box[1].type = "Terminated" => At(after, c) = {}
    BY <1>3 DEF CInv, InOrder
  <1>5. box[1].type = "Terminated" => nd.life = "gone"
    BY DEF CInv, LeadsTo
  <1>6. nd.life \notin {"unused", "stored"}
    BY DEF CInv, LeadsTo
  <1> QED BY <1>2, <1>4, <1>5, <1>6

\* lc2 is what the handler of h leaves of lc in the map.
Handled(h, lc, lc2) ==
    /\ lc2 = Null <=> h.type = "Terminated"
    /\ h.type = "ChannelStateChanged" => lc2.state = h.current /\ lc2.id = lc2.channelId
    /\ h.type \in Notes => lc2.state = lc.state /\ (lc.id = lc.channelId => lc2.id = lc2.channelId)

LEMMA OrderHandled ==
    ASSUME NEW box, NEW after, NEW c, NEW nd, NEW lc, NEW lc2, NEW table, NEW alert, NEW deaths,
           Shifted(box, after, c), 1 \in At(box, c),
           box[1].type \in Notes \cup Introductions \cup {"ChannelStateChanged", "Terminated"},
           CInv(box, c, nd, lc, table, alert, deaths), Handled(box[1], lc, lc2)
    PROVE  InOrder(after, c) /\ StartsFrom(after, c, lc2) /\ LeadsTo(after, c, nd, lc2)
  <1> DEFINE h == box[1]
  <1>0. /\ h.type \in Introductions <=> lc = Null
        /\ \A i \in At(after, c) : after[i].type \notin Introductions
        /\ h.type = "Terminated" => At(after, c) = {} /\ nd.life = "gone"
        /\ nd.life \notin {"unused", "stored"}
    BY FirstMessage
  <1>1. /\ \A i \in At(after, c) : i \in Nat /\ i >= 1 /\ i + 1 \in At(box, c) /\ after[i] = box[i + 1]
        /\ \A k \in At(box, c) : k \in Nat /\ k >= 1 /\ (k = 1 \/ k - 1 \in At(after, c))
        /\ \A i \in Changes(after, c) : i \in At(after, c) /\ i + 1 \in Changes(box, c)
        /\ \A k \in Changes(box, c) : k \in At(box, c) /\ (k = 1 \/ k - 1 \in Changes(after, c))
        /\ 1 \in Changes(box, c) <=> h.type = "ChannelStateChanged"
    BY DEF Shifted, Changes
  <1>2. InOrder(after, c)
    BY TailInOrder DEF CInv
  <1>3. \A i \in Changes(after, c) :
          (\A j \in Changes(after, c) : i <= j) /\ after[i].previous # "WAIT_FOR_INIT_INTERNAL" =>
              lc2 # Null /\ lc2.state = after[i].previous
    <2> SUFFICES ASSUME NEW i \in Changes(after, c), \A j \in Changes(after, c) : i <= j,
                        after[i].previous # "WAIT_FOR_INIT_INTERNAL"
                 PROVE  lc2 # Null /\ lc2.state = after[i].previous
      OBVIOUS
    <2>0. /\ i \in Nat /\ i >= 1 /\ i + 1 \in Changes(box, c) /\ after[i] = box[i + 1]
          /\ i \in At(after, c)
      BY <1>1
    <2>1. lc2 # Null
      BY <1>0, <2>0 DEF Handled
    <2>2. CASE h.type = "ChannelStateChanged"
      <3>1. 1 \in Changes(box, c) /\ 1 < i + 1
            /\ \A k \in Changes(box, c) : k <= 1 \/ k >= i + 1
        BY <1>1, <2>0, <2>2
      <3>2. box[i + 1].previous = h.current
        BY <2>0, <3>1 DEF CInv, InOrder
      <3> QED BY <2>0, <2>1, <2>2, <3>2 DEF Handled
    <2>3. CASE h.type # "ChannelStateChanged"
      <3>1. \A k \in Changes(box, c) : i + 1 <= k
        <4> TAKE k \in Changes(box, c)
        <4>1. k \in Nat /\ k - 1 \in Changes(after, c)
          BY <1>1, <2>3
        <4>2. i <= k - 1
          BY <4>1
        <4> QED BY <2>0, <4>1, <4>2
      <3>2. lc # Null /\ lc.state = after[i].previous
        BY <2>0, <3>1 DEF CInv, StartsFrom
      <3>3. h.type \in Notes
        BY <1>0, <2>0, <2>3, <3>2
      <3> QED BY <2>1, <3>2, <3>3 DEF Handled
    <2> QED BY <2>2, <2>3
  <1>4. StartsFrom(after, c, lc2)
    BY <1>0, <1>3 DEF StartsFrom, Handled
  <1>5. \A i \in Changes(after, c) :
          (\A j \in Changes(after, c) : j <= i) => after[i].current = nd.state
    <2> SUFFICES ASSUME NEW i \in Changes(after, c), \A j \in Changes(after, c) : j <= i
                 PROVE  after[i].current = nd.state
      OBVIOUS
    <2>0. i \in Nat /\ i >= 1 /\ i + 1 \in Changes(box, c) /\ after[i] = box[i + 1]
      BY <1>1
    <2>1. \A k \in Changes(box, c) : k <= i + 1
      <3> TAKE k \in Changes(box, c)
      <3>1. k \in Nat /\ (k = 1 \/ k - 1 \in Changes(after, c))
        BY <1>1
      <3>2. k = 1 \/ k - 1 <= i
        BY <3>1
      <3> QED BY <2>0, <3>1, <3>2
    <2> QED BY <2>0, <2>1 DEF CInv, LeadsTo
  <1>6. nd.life = "live" /\ Changes(after, c) = {} =>
          lc2 # Null /\ lc2.state = nd.state /\ lc2.id = lc2.channelId
    <2> SUFFICES ASSUME nd.life = "live", Changes(after, c) = {}
                 PROVE  lc2 # Null /\ lc2.state = nd.state /\ lc2.id = lc2.channelId
      OBVIOUS
    <2>1. lc2 # Null
      BY <1>0 DEF Handled
    <2>2. CASE h.type = "ChannelStateChanged"
      <3>1. 1 \in Changes(box, c) /\ \A k \in Changes(box, c) : k <= 1
        BY <1>1, <2>2
      <3> QED BY <2>1, <2>2, <3>1 DEF Handled, CInv, LeadsTo
    <2>3. CASE h.type # "ChannelStateChanged"
      <3>1. Changes(box, c) = {}
        BY <1>1, <2>3
      <3>2. lc # Null /\ lc.state = nd.state /\ lc.id = lc.channelId
        BY <3>1 DEF CInv, LeadsTo
      <3>3. h.type \in Notes
        BY <1>0, <2>3, <3>2
      <3> QED BY <2>1, <3>2, <3>3 DEF Handled
    <2> QED BY <2>2, <2>3
  <1>7. nd.life = "gone" =>
          /\ lc2 # Null => At(after, c) # {}
          /\ \A i \in At(after, c) : (\A j \in At(after, c) : j <= i) => after[i].type = "Terminated"
    <2> SUFFICES ASSUME nd.life = "gone"
                 PROVE  /\ lc2 # Null => At(after, c) # {}
                        /\ \A i \in At(after, c) :
                              (\A j \in At(after, c) : j <= i) => after[i].type = "Terminated"
      OBVIOUS
    <2>1. \A i \in At(box, c) : (\A j \in At(box, c) : j <= i) => box[i].type = "Terminated"
      BY DEF CInv, LeadsTo
    <2>2. At(after, c) = {} => \A k \in At(box, c) : k <= 1
      BY <1>1
    <2>3. lc2 # Null => At(after, c) # {}
      BY <2>1, <2>2 DEF Handled
    <2>4. \A i \in At(after, c) : (\A j \in At(after, c) : j <= i) => after[i].type = "Terminated"
      <3> SUFFICES ASSUME NEW i \in At(after, c), \A j \in At(after, c) : j <= i
                   PROVE  after[i].type = "Terminated"
        OBVIOUS
      <3>1. i \in Nat /\ i >= 1 /\ i + 1 \in At(box, c) /\ after[i] = box[i + 1]
        BY <1>1
      <3>2. \A k \in At(box, c) : k <= i + 1
        BY <1>1, <3>1
      <3> QED BY <2>1, <3>1, <3>2
    <2> QED BY <2>3, <2>4
  <1>8. nd.life # "gone" => \A i \in At(after, c) : after[i].type # "Terminated"
    BY <1>1 DEF CInv, LeadsTo
  <1>9. LeadsTo(after, c, nd, lc2)
    BY <1>0, <1>5, <1>6, <1>7, <1>8 DEF LeadsTo
  <1> QED BY <1>2, <1>4, <1>9

-----------------------------------------------------------------------------
(* Objects and rows.                                                       *)

Temp(c)  == <<c, "temporary">>
Final(c) == <<c, "final">>

\* The row of a saved object.
SavedRow(lc) == [Saved(lc) EXCEPT !.state = "N/A"]

LEMMA Ids ==
    ASSUME NEW c \in Channels
    PROVE  /\ Temp(c) \in ChannelIds /\ Final(c) \in ChannelIds /\ Temp(c) # Final(c)
           /\ Temp(c) # Null /\ Final(c) # Null
           /\ \A i \in ChannelIds : i[1] = c <=> i \in {Temp(c), Final(c)}
           /\ \A d : d # c => {Temp(c), Final(c)} \cap {Temp(d), Final(d)} = {}
           /\ \A i \in ChannelIds : i # Null
  BY NullAssumption DEF Temp, Final, ChannelIds

LEMMA SavedObject ==
    ASSUME NEW lc \in LocalChannel, lc.channelId \in ChannelIds
    PROVE  /\ Saved(lc) \in LocalChannel /\ SavedRow(lc) \in LocalChannel
           /\ Saved(lc) # Null /\ SavedRow(lc) # Null
           /\ Saved(lc).id = lc.channelId /\ Saved(lc).channelId = lc.channelId
           /\ Saved(lc).state = lc.state /\ Saved(lc).isActive = lc.isActive
           /\ Saved(lc).toSelfDelay = lc.toSelfDelay
           /\ Saved(lc).refundAtBlock = lc.refundAtBlock
           /\ Saved(lc).balanceMsat = lc.balanceMsat
           /\ SavedRow(lc).id = lc.channelId /\ SavedRow(lc).channelId = lc.channelId
           /\ SavedRow(lc).isActive = lc.isActive
           /\ SavedRow(lc).refundAtBlock = lc.refundAtBlock
  <1>1. lc.channelId # Null
    BY NullAssumption
  <1>2. Saved(lc) = [id |-> lc.channelId, channelId |-> lc.channelId, state |-> lc.state,
                     shortChannelId |-> lc.shortChannelId, toSelfDelay |-> lc.toSelfDelay,
                     refundAtBlock |-> lc.refundAtBlock, closingType |-> lc.closingType,
                     closingErrorMessage |-> lc.closingErrorMessage,
                     balanceMsat |-> lc.balanceMsat, isActive |-> lc.isActive]
    BY <1>1, Zenon DEF Saved, LocalChannel
  <1>3. SavedRow(lc) = [id |-> lc.channelId, channelId |-> lc.channelId, state |-> "N/A",
                     shortChannelId |-> lc.shortChannelId, toSelfDelay |-> lc.toSelfDelay,
                     refundAtBlock |-> lc.refundAtBlock, closingType |-> lc.closingType,
                     closingErrorMessage |-> lc.closingErrorMessage,
                     balanceMsat |-> lc.balanceMsat, isActive |-> lc.isActive]
    <2> DEFINE saved == Saved(lc)
    <2> HIDE DEF saved
    <2>1. saved \in LocalChannel
      BY <1>2 DEF saved, LocalChannel
    <2>3. SavedRow(lc) = [saved EXCEPT !.state = "N/A"]
      BY DEF SavedRow, saved
    <2>2. SavedRow(lc) = [id |-> saved.id, channelId |-> saved.channelId, state |-> "N/A",
                   shortChannelId |-> saved.shortChannelId, toSelfDelay |-> saved.toSelfDelay,
                   refundAtBlock |-> saved.refundAtBlock, closingType |-> saved.closingType,
                   closingErrorMessage |-> saved.closingErrorMessage,
                   balanceMsat |-> saved.balanceMsat, isActive |-> saved.isActive]
      BY <2>1, <2>3, Zenon DEF LocalChannel
    <2> QED BY <1>2, <2>2 DEF saved
  <1>4. Saved(lc) \in LocalChannel /\ SavedRow(lc) \in LocalChannel
    BY <1>2, <1>3 DEF LocalChannel
  <1> QED BY <1>2, <1>3, <1>4, NullAssumption

\* table2 is table after lc was saved, as far as the rows of c are concerned.
Saves(c, lc, table, table2) ==
    \A i \in {Temp(c), Final(c)} :
       table2[i] = IF i = lc.channelId THEN SavedRow(lc) ELSE IF i = lc.id THEN Null ELSE table[i]

\* x is a new state of the object lc.
Updates(c, lc, x) ==
    /\ x \in LocalChannel /\ x.id = lc.id /\ x.channelId \in {lc.channelId, Final(c)}
    /\ x.isActive /\ (lc.refundAtBlock => x.refundAtBlock)
    /\ x.state \in Open => x.toSelfDelay

LEMMA ObjectSaved ==
    ASSUME NEW c \in Channels, NEW box, NEW nd, NEW lc, NEW x, NEW table, NEW table2, NEW deaths,
           lc # Null, ObjectOK(c, lc, table), TableOK(box, c, nd, lc, table, deaths),
           Updates(c, lc, x), Saves(c, x, table, table2)
    PROVE  /\ ObjectOK(c, Saved(x), table2)
           /\ \A i \in RowsOf(c, table2) : table2[i].channelId = i /\ table2[i].id = i
           /\ deaths = 0 => \A i \in RowsOf(c, table2) : i = Saved(x).id
           /\ table[Final(c)] # Null /\ table[Final(c)].refundAtBlock =>
                 table2[Final(c)] # Null /\ table2[Final(c)].refundAtBlock
  <1>1. /\ Temp(c) \in ChannelIds /\ Final(c) \in ChannelIds /\ Temp(c) # Final(c)
        /\ Temp(c) # Null /\ Final(c) # Null
    BY Ids
  <1>2. /\ lc.channelId \in {Temp(c), Final(c)}
        /\ lc.id # Null => lc.id = lc.channelId
        /\ table[Final(c)] # Null /\ table[Final(c)].refundAtBlock => lc.refundAtBlock
    BY DEF ObjectOK, Temp, Final
  <1>3. x.channelId \in {Temp(c), Final(c)} /\ x.channelId \in ChannelIds
    BY <1>1, <1>2 DEF Updates
  <1>4. /\ Saved(x) # Null /\ SavedRow(x) # Null
        /\ Saved(x).id = x.channelId /\ Saved(x).channelId = x.channelId
        /\ Saved(x).state = x.state /\ Saved(x).isActive = x.isActive
        /\ Saved(x).toSelfDelay = x.toSelfDelay
        /\ Saved(x).refundAtBlock = x.refundAtBlock
        /\ SavedRow(x).id = x.channelId /\ SavedRow(x).channelId = x.channelId
        /\ SavedRow(x).isActive = x.isActive
        /\ SavedRow(x).refundAtBlock = x.refundAtBlock
    BY <1>3, SavedObject DEF Updates
  <1>5. table2[x.channelId] = SavedRow(x)
    BY <1>3 DEF Saves
  <1>6. x.channelId = Temp(c) => table2[Final(c)] = table[Final(c)]
    BY <1>1, <1>2 DEF Saves, Updates
  <1>7. x.channelId = Final(c) => table2[Temp(c)] = IF lc.id = Temp(c) THEN Null ELSE table[Temp(c)]
    BY <1>1 DEF Saves, Updates
  <1>8. /\ table2[Final(c)] # Null /\ table2[Final(c)].refundAtBlock => Saved(x).refundAtBlock
        /\ table[Final(c)] # Null /\ table[Final(c)].refundAtBlock =>
              table2[Final(c)] # Null /\ table2[Final(c)].refundAtBlock
    BY <1>2, <1>3, <1>4, <1>5, <1>6 DEF Updates
  <1>9. ObjectOK(c, Saved(x), table2)
    BY <1>3, <1>4, <1>5, <1>8 DEF ObjectOK, Updates, Temp, Final
  <1>10. /\ \A i \in RowsOf(c, table) : i \in {Temp(c), Final(c)} /\ table[i] # Null
                                        /\ table[i].channelId = i /\ table[i].id = i
         /\ deaths = 0 => \A i \in RowsOf(c, table) : i = lc.id
    BY DEF TableOK, RowsOf, Temp, Final
  <1>11. /\ RowsOf(c, table2) = {i \in {Temp(c), Final(c)} : table2[i] # Null}
         /\ RowsOf(c, table) = {i \in {Temp(c), Final(c)} : table[i] # Null}
    BY DEF RowsOf, Temp, Final
  <1>12. \A i \in RowsOf(c, table2) : table2[i].channelId = i /\ table2[i].id = i
    BY <1>3, <1>4, <1>5, <1>6, <1>7, <1>10, <1>11
  <1>13. deaths = 0 => \A i \in RowsOf(c, table2) : i = Saved(x).id
    <2> SUFFICES ASSUME deaths = 0, NEW i \in RowsOf(c, table2)
                 PROVE  i = x.channelId
      BY <1>4
    <2>1. CASE x.channelId = Temp(c) /\ i = Final(c)
      <3>1. i = lc.id
        BY <1>6, <1>10, <1>11, <2>1
      <3>2. lc.channelId = i
        BY <1>1, <1>2, <2>1, <3>1
      <3> QED BY <1>1, <2>1, <3>2 DEF Updates
    <2>2. CASE x.channelId = Final(c) /\ i = Temp(c)
      <3>1. lc.id # Temp(c) /\ table[Temp(c)] # Null
        BY <1>7, <1>11, <2>2
      <3> QED BY <1>10, <1>11, <2>2, <3>1
    <2> QED BY <1>3, <1>11, <2>1, <2>2
  <1> QED BY <1>8, <1>9, <1>12, <1>13

\* The id that the handler of h leaves, and the alerts it posts.
Named(c, h, lc, lc2) ==
    lc2 # Null =>
        /\ h.type \in {"ChannelIdAssigned", "ChannelRestored"} => lc2.channelId = Final(c)
        /\ h.type \notin {"ChannelIdAssigned"} \cup Introductions => lc2.channelId = lc.channelId

Alerted(h, lc, alert, alert2) ==
    /\ ~Notifies(h) => alert2 = alert
    /\ Notifies(h) => /\ alert2.count = alert.count + 1
                      /\ alert2.complete <=> alert.complete /\ lc.toSelfDelay

Tabled(c, lc2, table2, deaths) ==
    /\ \A i \in RowsOf(c, table2) : table2[i].channelId = i /\ table2[i].id = i
    /\ deaths = 0 => /\ \A i, j \in RowsOf(c, table2) : i = j
                     /\ lc2 # Null => \A i \in RowsOf(c, table2) : i = lc2.id

LEMMA EventHandled ==
    ASSUME NEW box, NEW after, NEW c, NEW nd, NEW lc, NEW lc2, NEW table, NEW table2,
           NEW alert, NEW alert2, NEW deaths,
           Shifted(box, after, c), 1 \in At(box, c),
           box[1].type \in Notes \cup Introductions \cup {"ChannelStateChanged", "Terminated"},
           CInv(box, c, nd, lc, table, alert, deaths),
           Handled(box[1], lc, lc2), Named(c, box[1], lc, lc2), Alerted(box[1], lc, alert, alert2),
           ObjectOK(c, lc2, table2), Tabled(c, lc2, table2, deaths)
    PROVE  CInv(after, c, nd, lc2, table2, alert2, deaths)
  <1> DEFINE h == box[1]
  <1>0. /\ h.type \in Introductions <=> lc = Null
        /\ \A i \in At(after, c) : after[i].type \notin Introductions
        /\ h.type = "Terminated" => At(after, c) = {} /\ nd.life = "gone"
        /\ nd.life \notin {"unused", "stored"}
    BY FirstMessage
  <1>1. /\ \A i \in At(after, c) : i \in Nat /\ i >= 1 /\ i + 1 # 1 /\ i + 1 \in At(box, c)
                                   /\ after[i] = box[i + 1]
        /\ \A k \in At(box, c) : k # 1 => k - 1 \in At(after, c) /\ after[k - 1] = box[k]
    BY DEF Shifted
  <1>2. InOrder(after, c) /\ StartsFrom(after, c, lc2) /\ LeadsTo(after, c, nd, lc2)
    BY OrderHandled
  <1>3. HasFinalId(after, c, nd, lc2)
    <2> SUFFICES ASSUME nd.life = "live", nd.state \in Identified,
                        \A i \in At(after, c) : after[i].type # "ChannelIdAssigned"
                 PROVE  lc2 # Null => lc2.channelId = Final(c)
      BY <1>0 DEF HasFinalId, Introductions, Final
    <2> SUFFICES ASSUME lc2 # Null PROVE lc2.channelId = Final(c)
      OBVIOUS
    <2>1. CASE h.type \in {"ChannelIdAssigned", "ChannelRestored"}
      BY <2>1 DEF Named
    <2>2. CASE h.type \notin {"ChannelIdAssigned", "ChannelRestored"}
      <3>1. \A k \in At(box, c) : box[k].type # "ChannelIdAssigned"
        BY <1>1, <2>2
      <3>2. /\ lc # Null => lc.channelId = Final(c)
            /\ \A i \in At(box, c) : box[i].type # "ChannelCreated"
        BY <3>1 DEF CInv, HasFinalId, Final
      <3>3. h.type \notin {"ChannelIdAssigned"} \cup Introductions
        BY <2>2, <3>2 DEF Introductions
      <3> QED BY <1>0, <3>2, <3>3 DEF Named
    <2> QED BY <2>1, <2>2
  <1>4. TableOK(after, c, nd, lc2, table2, deaths)
    BY <1>0, <1>1 DEF Tabled, CInv, TableOK, Introductions
  <1>5. Notifies(h) => /\ alert.count = 0 /\ lc.toSelfDelay /\ nd.published # {}
                       /\ \A i \in At(after, c) : ~Notifies(after[i])
    <2> SUFFICES ASSUME Notifies(h)
                 PROVE  /\ alert.count = 0 /\ lc.toSelfDelay /\ nd.published # {}
                        /\ \A i \in At(after, c) : ~Notifies(after[i])
      OBVIOUS
    <2>1. h.previous \in Open /\ \A i \in At(box, c) : Notifies(box[i]) => i = 1
      BY DEF CInv, InOrder
    <2>2. \A i \in At(after, c) : ~Notifies(after[i])
      BY <1>1, <2>1
    <2>3. 1 \in Changes(box, c) /\ (\A j \in Changes(box, c) : 1 <= j)
          /\ h.previous # "WAIT_FOR_INIT_INTERNAL"
      BY <2>1 DEF Shifted, Changes, Notifies, Open
    <2>4. lc # Null /\ lc.state = h.previous
      BY <2>3 DEF CInv, StartsFrom
    <2>5. lc.toSelfDelay
      BY <2>1, <2>4 DEF CInv, ObjectOK
    <2> QED BY <2>2, <2>5 DEF CInv, AlertsOK
  <1>6. AlertsOK(after, c, nd, alert2)
    <2>1. CASE Notifies(h)
      BY <1>5, <2>1 DEF CInv, AlertsOK, Alerted
    <2>2. CASE ~Notifies(h)
      BY <1>1, <2>2 DEF CInv, AlertsOK, Alerted
    <2> QED BY <2>1, <2>2
  <1> QED BY <1>2, <1>3, <1>4, <1>6 DEF CInv

\* What the setters of NodeSupervisor make of an object.
LEMMA Renamed ==
    ASSUME NEW lc \in LocalChannel, NEW i \in ChannelIds
    PROVE  LET x == [lc EXCEPT !.channelId = i]
           IN /\ x \in LocalChannel /\ x.channelId = i /\ x.id = lc.id /\ x.state = lc.state
              /\ x.isActive = lc.isActive /\ x.toSelfDelay = lc.toSelfDelay
              /\ x.refundAtBlock = lc.refundAtBlock
  <1> DEFINE x == [lc EXCEPT !.channelId = i]
  <1>1. x = [id |-> lc.id, channelId |-> i, state |-> lc.state,
             shortChannelId |-> lc.shortChannelId, toSelfDelay |-> lc.toSelfDelay,
             refundAtBlock |-> lc.refundAtBlock, closingType |-> lc.closingType,
             closingErrorMessage |-> lc.closingErrorMessage, balanceMsat |-> lc.balanceMsat,
             isActive |-> lc.isActive]
    BY DEF LocalChannel
  <1> HIDE DEF x
  <1>2. x \in LocalChannel
    BY <1>1 DEF LocalChannel
  <1> QED BY <1>1, <1>2 DEF x

LEMMA ShortIdSet ==
    ASSUME NEW lc \in LocalChannel
    PROVE  LET x == [lc EXCEPT !.shortChannelId = TRUE]
           IN /\ x \in LocalChannel /\ x.channelId = lc.channelId /\ x.id = lc.id
              /\ x.state = lc.state /\ x.isActive = lc.isActive
              /\ x.toSelfDelay = lc.toSelfDelay /\ x.refundAtBlock = lc.refundAtBlock
  <1>1. [lc EXCEPT !.shortChannelId = TRUE] \in LocalChannel
    BY Zenon DEF LocalChannel
  <1>2. LET x == [lc EXCEPT !.shortChannelId = TRUE]
        IN /\ x.channelId = lc.channelId /\ x.id = lc.id
           /\ x.state = lc.state /\ x.isActive = lc.isActive
           /\ x.toSelfDelay = lc.toSelfDelay /\ x.refundAtBlock = lc.refundAtBlock
    BY DEF LocalChannel
  <1> QED BY <1>1, <1>2

LEMMA BalanceSet ==
    ASSUME NEW lc \in LocalChannel, NEW b \in Nat
    PROVE  LET x == [lc EXCEPT !.balanceMsat = b]
           IN /\ x \in LocalChannel /\ x.channelId = lc.channelId /\ x.id = lc.id
              /\ x.state = lc.state /\ x.isActive = lc.isActive
              /\ x.toSelfDelay = lc.toSelfDelay /\ x.refundAtBlock = lc.refundAtBlock
  <1>1. [lc EXCEPT !.balanceMsat = b] \in LocalChannel
    BY Zenon DEF LocalChannel
  <1>2. LET x == [lc EXCEPT !.balanceMsat = b]
        IN /\ x.channelId = lc.channelId /\ x.id = lc.id
           /\ x.state = lc.state /\ x.isActive = lc.isActive
           /\ x.toSelfDelay = lc.toSelfDelay /\ x.refundAtBlock = lc.refundAtBlock
    BY DEF LocalChannel
  <1> QED BY <1>1, <1>2

LEMMA ErrorSet ==
    ASSUME NEW lc \in LocalChannel
    PROVE  LET x == [lc EXCEPT !.closingErrorMessage = TRUE]
           IN /\ x \in LocalChannel /\ x.channelId = lc.channelId /\ x.id = lc.id
              /\ x.state = lc.state /\ x.isActive = lc.isActive
              /\ x.toSelfDelay = lc.toSelfDelay /\ x.refundAtBlock = lc.refundAtBlock
  <1>1. [lc EXCEPT !.closingErrorMessage = TRUE] \in LocalChannel
    BY Zenon DEF LocalChannel
  <1>2. LET x == [lc EXCEPT !.closingErrorMessage = TRUE]
        IN /\ x.channelId = lc.channelId /\ x.id = lc.id
           /\ x.state = lc.state /\ x.isActive = lc.isActive
           /\ x.toSelfDelay = lc.toSelfDelay /\ x.refundAtBlock = lc.refundAtBlock
    BY DEF LocalChannel
  <1> QED BY <1>1, <1>2

LEMMA RefundSet ==
    ASSUME NEW lc \in LocalChannel
    PROVE  LET x == [lc EXCEPT !.refundAtBlock = TRUE]
           IN /\ x \in LocalChannel /\ x.channelId = lc.channelId /\ x.id = lc.id
              /\ x.state = lc.state /\ x.isActive = lc.isActive
              /\ x.toSelfDelay = lc.toSelfDelay /\ x.refundAtBlock
  <1>1. [lc EXCEPT !.refundAtBlock = TRUE] \in LocalChannel
    BY Zenon DEF LocalChannel
  <1>2. LET x == [lc EXCEPT !.refundAtBlock = TRUE]
        IN /\ x.channelId = lc.channelId /\ x.id = lc.id
           /\ x.state = lc.state /\ x.isActive = lc.isActive
           /\ x.toSelfDelay = lc.toSelfDelay /\ x.refundAtBlock
    BY DEF LocalChannel
  <1> QED BY <1>1, <1>2

LEMMA Deactivated ==
    ASSUME NEW lc \in LocalChannel
    PROVE  LET x == [lc EXCEPT !.isActive = FALSE]
           IN /\ x \in LocalChannel /\ x.channelId = lc.channelId /\ x.id = lc.id
              /\ x.refundAtBlock = lc.refundAtBlock
  <1>1. [lc EXCEPT !.isActive = FALSE] \in LocalChannel
    BY Zenon DEF LocalChannel
  <1>2. LET x == [lc EXCEPT !.isActive = FALSE]
        IN /\ x.channelId = lc.channelId /\ x.id = lc.id
           /\ x.refundAtBlock = lc.refundAtBlock
    BY DEF LocalChannel
  <1> QED BY <1>1, <1>2

LEMMA StateSet ==
    ASSUME NEW lc \in LocalChannel, NEW m, m.current \in States, m.toLocal \in Nat
    PROVE  LET x == stateChanged(lc, m)
           IN /\ x \in LocalChannel /\ x.channelId = lc.channelId /\ x.id = lc.id
              /\ x.state = m.current /\ x.isActive = lc.isActive
              /\ m.current \in Open => x.toSelfDelay
              /\ x.refundAtBlock = lc.refundAtBlock
  <1> DEFINE s == m.current
             t == IF m.published # {} THEN closingType(m.published) ELSE lc.closingType
             b == lc.toSelfDelay \/ HasCommitments(m)
             n == IF HasCommitments(m) THEN m.toLocal ELSE lc.balanceMsat
             x == [lc EXCEPT !.state = s, !.closingType = t, !.toSelfDelay = b, !.balanceMsat = n]
  <1>1. stateChanged(lc, m) = x
    BY DEF stateChanged
  <1>2. t \in ClosingTypes \cup {Null}
    BY DEF closingType, ClosingTypes, LocalChannel
  <1>3. b \in BOOLEAN /\ (m.current \in Open => b)
    BY DEF HasCommitments
  <1>7. n \in Nat
    BY DEF LocalChannel
  <1> HIDE DEF s, t, b, n
  <1>4. s \in States
    BY DEF s
  <1>5. x \in LocalChannel
    BY <1>2, <1>3, <1>4, <1>7, Zenon DEF LocalChannel
  <1>6. /\ x.channelId = lc.channelId /\ x.id = lc.id /\ x.state = s /\ x.toSelfDelay = b
        /\ x.isActive = lc.isActive /\ x.refundAtBlock = lc.refundAtBlock
    BY DEF LocalChannel
  <1> HIDE DEF x
  <1> QED BY <1>1, <1>3, <1>5, <1>6 DEF s

-----------------------------------------------------------------------------
(* The handlers.                                                           *)

LEMMA TableElsewhere ==
    ASSUME NEW box, NEW d, NEW nd, NEW lc, NEW table, NEW table2, NEW alert, NEW deaths,
           table2[Temp(d)] = table[Temp(d)], table2[Final(d)] = table[Final(d)],
           CInv(box, d, nd, lc, table, alert, deaths)
    PROVE  CInv(box, d, nd, lc, table2, alert, deaths)
  <1>1. RowsOf(d, table2) = RowsOf(d, table)
        /\ \A i \in RowsOf(d, table) : table2[i] = table[i]
    BY DEF RowsOf, Temp, Final
  <1>2. ObjectOK(d, lc, table2)
    BY DEF CInv, ObjectOK, Temp, Final
  <1>3. TableOK(box, d, nd, lc, table2, deaths)
    BY <1>1 DEF CInv, TableOK
  <1> QED BY <1>2, <1>3 DEF CInv

\* What a handler of an event of channel c leaves alone.
Aside(c) ==
    /\ node' = node /\ crashes' = crashes
    /\ \A d \in Channels : d # c =>
          /\ map'[d] = map[d] /\ alerts'[d] = alerts[d]
          /\ rows'[Temp(d)] = rows[Temp(d)] /\ rows'[Final(d)] = rows[Final(d)]

LEMMA OneHandled ==
    ASSUME IInv, NEW c \in Channels, mailbox # <<>>, Head(mailbox).channel = c,
           mailbox' = Tail(mailbox), Aside(c),
           CInv(mailbox', c, node[c], map'[c], rows', alerts'[c], crashes)
    PROVE  ChannelsOK'
  <1> SUFFICES ASSUME NEW d \in Channels
               PROVE  CInv(mailbox', d, node'[d], map'[d], rows', alerts'[d], crashes')
    BY DEF ChannelsOK
  <1>1. CASE d = c
    BY <1>1 DEF Aside
  <1>2. CASE d # c
    <2>1. Shifted(mailbox, mailbox', d) /\ 1 \notin At(mailbox, d)
      BY <1>2, TailShifts DEF IInv
    <2>2. CInv(mailbox, d, node[d], map[d], rows, alerts[d], crashes)
      BY DEF IInv, ChannelsOK
    <2>3. CInv(mailbox', d, node[d], map[d], rows, alerts[d], crashes)
      BY <2>1, <2>2, TailElsewhere
    <2>4. /\ node'[d] = node[d] /\ crashes' = crashes /\ map'[d] = map[d] /\ alerts'[d] = alerts[d]
          /\ rows'[Temp(d)] = rows[Temp(d)] /\ rows'[Final(d)] = rows[Final(d)]
      BY <1>2 DEF Aside
    <2>5. CInv(mailbox', d, node[d], map[d], rows', alerts[d], crashes)
      BY <2>3, <2>4, TableElsewhere
    <2> QED BY <2>4, <2>5
  <1> QED BY <1>1, <1>2

LEMMA EventTaken ==
    ASSUME IInv, NEW c \in Channels, NEW type, Event(type, c)
    PROVE  /\ mailbox # <<>> /\ mailbox' = Tail(mailbox) /\ mailbox' \in Seq(Messages)
           /\ Len(mailbox') <= MaxMailbox
           /\ \A i \in 1 .. Len(mailbox') : mailbox'[i].channel \in Channels
           /\ Head(mailbox).channel = c /\ Head(mailbox) \in Messages
           /\ Head(mailbox).type = type
           /\ Shifted(mailbox, mailbox', c) /\ 1 \in At(mailbox, c) /\ mailbox[1] = Head(mailbox)
           /\ CInv(mailbox, c, node[c], map[c], rows, alerts[c], crashes)
           /\ map[c] # Null => map[c] \in LocalChannel
           /\ type \in Introductions <=> map[c] = Null
  <1>1. /\ mailbox # <<>> /\ mailbox' = Tail(mailbox)
        /\ Head(mailbox).channel = c /\ Head(mailbox).type = type
        /\ mailbox \in Seq(Messages) /\ Len(mailbox) <= MaxMailbox
    BY DEF Event, IInv, TypeOK
  <1>2. mailbox' \in Seq(Messages) /\ Len(mailbox') = Len(mailbox) - 1 /\ Len(mailbox) \in Nat
        /\ Head(mailbox) \in Messages
    BY <1>1
  <1>3. \A i \in 1 .. Len(mailbox') : mailbox'[i].channel \in Channels
    <2> TAKE i \in 1 .. Len(mailbox')
    <2>1. mailbox'[i] \in Messages
      BY <1>2
    <2> QED BY <2>1 DEF Messages
  <1>4. Len(mailbox') <= MaxMailbox
    BY <1>1, <1>2, TrackerAssumption
  <1>5. Shifted(mailbox, mailbox', c) /\ 1 \in At(mailbox, c) /\ mailbox[1] = Head(mailbox)
    BY <1>1, TailShifts
  <1>6. CInv(mailbox, c, node[c], map[c], rows, alerts[c], crashes)
    BY DEF IInv, ChannelsOK
  <1>7. map[c] # Null => map[c] \in LocalChannel
    BY DEF IInv, TypeOK
  <1>8. type \in Introductions <=> map[c] = Null
    BY <1>1, <1>5, <1>6, FirstMessage
  <1> QED BY <1>1, <1>2, <1>3, <1>4, <1>5, <1>6, <1>7, <1>8

\* A handler that keeps the rows and the alerts.
LEMMA ObjectPut ==
    ASSUME IInv, NEW c \in Channels, NEW x \in LocalChannel, map' = [map EXCEPT ![c] = x],
           UNCHANGED <<node, rows, alerts, crashes>>
    PROVE  /\ map' \in [Channels -> LocalChannel \cup {Null}] /\ map'[c] = x
           /\ Aside(c) /\ x # Null
  <1>1. map \in [Channels -> LocalChannel \cup {Null}]
    BY DEF IInv, TypeOK
  <1> QED BY <1>1, NullAssumption DEF Aside

LEMMA ObjectPutAndSaved ==
    ASSUME IInv, NEW c \in Channels, NEW x \in LocalChannel, PutAndSave(c, x),
           x.channelId \in {Temp(c), Final(c)}, x.id \in {Null, Temp(c), Final(c)}
    PROVE  /\ map' \in [Channels -> LocalChannel \cup {Null}]
           /\ rows' \in [ChannelIds -> LocalChannel \cup {Null}]
           /\ map'[c] = Saved(x) /\ Saves(c, x, rows, rows')
           /\ \A d \in Channels : d # c =>
                 /\ map'[d] = map[d]
                 /\ rows'[Temp(d)] = rows[Temp(d)] /\ rows'[Final(d)] = rows[Final(d)]
  <1>0. map \in [Channels -> LocalChannel \cup {Null}]
        /\ rows \in [ChannelIds -> LocalChannel \cup {Null}]
    BY DEF IInv, TypeOK
  <1>1. /\ Temp(c) \in ChannelIds /\ Final(c) \in ChannelIds
        /\ \A i \in ChannelIds : i # Null
        /\ \A d \in Channels : Temp(d) \in ChannelIds /\ Final(d) \in ChannelIds
        /\ \A d : d # c => {Temp(c), Final(c)} \cap {Temp(d), Final(d)} = {}
    BY Ids
  <1>2. x.channelId \in ChannelIds
    BY <1>1
  <1>3. Saved(x) \in LocalChannel /\ SavedRow(x) \in LocalChannel
    BY <1>2, SavedObject
  <1>4. rows' = [i \in ChannelIds |-> IF i = x.channelId THEN SavedRow(x)
                                      ELSE IF i = x.id THEN Null ELSE rows[i]]
        /\ map' = [map EXCEPT ![c] = Saved(x)]
    BY DEF PutAndSave, saveLocalChannel, SavedRow
  <1>5. rows' \in [ChannelIds -> LocalChannel \cup {Null}]
    BY <1>0, <1>3, <1>4
  <1>6. map' \in [Channels -> LocalChannel \cup {Null}] /\ map'[c] = Saved(x)
        /\ \A d \in Channels : d # c => map'[d] = map[d]
    BY <1>0, <1>3, <1>4
  <1>7. Saves(c, x, rows, rows')
    BY <1>1, <1>4 DEF Saves
  <1>8. \A d \in Channels : d # c =>
           rows'[Temp(d)] = rows[Temp(d)] /\ rows'[Final(d)] = rows[Final(d)]
    <2> TAKE d \in Channels
    <2> HAVE d # c
    <2>1. \A i \in {Temp(d), Final(d)} : i \in ChannelIds /\ i # x.channelId /\ i # x.id
      BY <1>1
    <2> QED BY <1>4, <2>1
  <1> QED BY <1>5, <1>6, <1>7, <1>8

\* No row loses its refund height.
RefundKept ==
    \A c \in Channels : rows[Final(c)] # Null /\ rows[Final(c)].refundAtBlock =>
                            rows'[Final(c)] # Null /\ rows'[Final(c)].refundAtBlock

LEMMA NewObject == NewLocalChannel \in LocalChannel
  BY DEF NewLocalChannel, LocalChannel

\* What remains to be shown of the handler of an event of c.
LEMMA HandlerKeeps ==
    ASSUME IInv, NEW c \in Channels, NEW type, Event(type, c), Aside(c),
           type \in Notes \cup Introductions \cup {"ChannelStateChanged", "Terminated"},
           map' \in [Channels -> LocalChannel \cup {Null}],
           rows' \in [ChannelIds -> LocalChannel \cup {Null}],
           alerts' \in [Channels -> [count : Nat, complete : BOOLEAN]],
           Handled(Head(mailbox), map[c], map'[c]), Named(c, Head(mailbox), map[c], map'[c]),
           Alerted(Head(mailbox), map[c], alerts[c], alerts'[c]),
           ObjectOK(c, map'[c], rows'), Tabled(c, map'[c], rows', crashes)
    PROVE  IInv'
  <1>1. /\ mailbox # <<>> /\ mailbox' = Tail(mailbox) /\ mailbox' \in Seq(Messages)
        /\ Len(mailbox') <= MaxMailbox
        /\ \A i \in 1 .. Len(mailbox') : mailbox'[i].channel \in Channels
        /\ Head(mailbox).channel = c /\ Head(mailbox).type = type
        /\ Shifted(mailbox, mailbox', c) /\ 1 \in At(mailbox, c) /\ mailbox[1] = Head(mailbox)
        /\ CInv(mailbox, c, node[c], map[c], rows, alerts[c], crashes)
    BY EventTaken
  <1>2. CInv(mailbox', c, node[c], map'[c], rows', alerts'[c], crashes)
    BY <1>1, EventHandled
  <1>3. ChannelsOK'
    BY <1>1, <1>2, OneHandled
  <1>4. TypeOK'
    BY <1>1 DEF TypeOK, IInv, Aside
  <1> QED BY <1>1, <1>3, <1>4 DEF IInv

LEMMA CreatedKeeps ==
    ASSUME IInv, NEW c \in Channels, HandleChannelCreated(c)
    PROVE  IInv' /\ RefundKept
  <1> DEFINE x == [NewLocalChannel EXCEPT !.channelId = Temp(c)]
  <1>1. /\ Event("ChannelCreated", c) /\ UNCHANGED <<node, rows, alerts, crashes>>
        /\ map' = [map EXCEPT ![c] = [getChannel(c) EXCEPT !.channelId = Temp(c)]]
    BY DEF HandleChannelCreated, Temp
  <1>2. /\ map[c] = Null /\ Head(mailbox).type = "ChannelCreated"
        /\ 1 \in At(mailbox, c) /\ mailbox[1] = Head(mailbox)
        /\ CInv(mailbox, c, node[c], map[c], rows, alerts[c], crashes)
    BY <1>1, EventTaken DEF Introductions
  <1>3. map' = [map EXCEPT ![c] = x]
    BY <1>1, <1>2 DEF getChannel
  <1>4. /\ x \in LocalChannel /\ x.channelId = Temp(c) /\ x.id = Null /\ x.state = "N/A"
        /\ x.isActive
    <2>1. NewLocalChannel.id = Null /\ NewLocalChannel.state = "N/A" /\ NewLocalChannel.isActive
      BY DEF NewLocalChannel
    <2> QED BY <2>1, Ids, NewObject, Renamed
  <1> HIDE DEF x
  <1>5. map' \in [Channels -> LocalChannel \cup {Null}] /\ map'[c] = x /\ Aside(c) /\ x # Null
    BY <1>1, <1>3, <1>4, ObjectPut
  <1>6. RowsOf(c, rows) = {}
    BY <1>2 DEF CInv, TableOK
  <1>7. ObjectOK(c, x, rows)
    BY <1>4, <1>6 DEF ObjectOK, RowsOf, Temp, Final, Open
  <1>8. Tabled(c, x, rows, crashes)
    BY <1>6 DEF Tabled
  <1>9. Handled(Head(mailbox), map[c], x) /\ Named(c, Head(mailbox), map[c], x)
        /\ Alerted(Head(mailbox), map[c], alerts[c], alerts[c])
    BY <1>2, <1>5 DEF Handled, Named, Alerted, Notes, Introductions, Notifies
  <1>10. IInv'
    BY <1>1, <1>5, <1>7, <1>8, <1>9, HandlerKeeps DEF Introductions, IInv, TypeOK
  <1> QED BY <1>1, <1>10 DEF RefundKept

LEMMA RestoredKeeps ==
    ASSUME IInv, NEW c \in Channels, HandleChannelRestored(c)
    PROVE  IInv' /\ RefundKept
  <1> DEFINE y == [NewLocalChannel EXCEPT !.channelId = Final(c)]
             x == restored(y)
  <1>1. /\ Event("ChannelRestored", c) /\ UNCHANGED <<node, rows, alerts, crashes>>
        /\ map' = [map EXCEPT ![c] = restored([getChannel(c) EXCEPT !.channelId = Final(c)])]
    BY DEF HandleChannelRestored, Final
  <1>2. /\ map[c] = Null /\ Head(mailbox).type = "ChannelRestored"
        /\ 1 \in At(mailbox, c) /\ mailbox[1] = Head(mailbox)
        /\ CInv(mailbox, c, node[c], map[c], rows, alerts[c], crashes)
    BY <1>1, EventTaken DEF Introductions
  <1>3. map' = [map EXCEPT ![c] = x]
    BY <1>1, <1>2 DEF getChannel
  <1>4. /\ y \in LocalChannel /\ y.channelId = Final(c) /\ y.id = Null /\ y.state = "N/A"
        /\ y.isActive
    <2>1. NewLocalChannel.id = Null /\ NewLocalChannel.state = "N/A" /\ NewLocalChannel.isActive
      BY DEF NewLocalChannel
    <2> QED BY <2>1, Ids, NewObject, Renamed
  <1> HIDE DEF y
  <1>5. /\ x \in LocalChannel /\ x.channelId = Final(c) /\ x.id = Null /\ x.state = "N/A"
        /\ x.isActive
        /\ rows[Final(c)] # Null /\ rows[Final(c)].refundAtBlock => x.refundAtBlock
    <2>1. CASE rows[Final(c)] = Null
      BY <1>4, <2>1 DEF restored
    <2>2. CASE rows[Final(c)] # Null
      <3> DEFINE b == rows[Final(c)].refundAtBlock
      <3>1. x = [y EXCEPT !.refundAtBlock = b]
        BY <1>4, <2>2 DEF restored
      <3>2. b \in BOOLEAN
        BY <2>2, Ids DEF IInv, TypeOK, LocalChannel
      <3> HIDE DEF b
      <3>3. [y EXCEPT !.refundAtBlock = b] \in LocalChannel
        BY <1>4, <3>2, Zenon DEF LocalChannel
      <3>4. LET z == [y EXCEPT !.refundAtBlock = b]
            IN /\ z.channelId = y.channelId /\ z.id = y.id /\ z.state = y.state
               /\ z.isActive = y.isActive /\ z.refundAtBlock = b
        BY <1>4 DEF LocalChannel
      <3> QED BY <1>4, <3>1, <3>3, <3>4 DEF b
    <2> QED BY <2>1, <2>2
  <1> HIDE DEF x
  <1>6. map' \in [Channels -> LocalChannel \cup {Null}] /\ map'[c] = x /\ Aside(c) /\ x # Null
    BY <1>1, <1>3, <1>5, ObjectPut
  <1>7. /\ \A i \in RowsOf(c, rows) : rows[i].channelId = i /\ rows[i].id = i
        /\ crashes # 0
    BY <1>2 DEF CInv, TableOK
  <1>8. ObjectOK(c, x, rows)
    BY <1>5 DEF ObjectOK, Final, Open
  <1>9. Tabled(c, x, rows, crashes)
    BY <1>7 DEF Tabled
  <1>10. Handled(Head(mailbox), map[c], x) /\ Named(c, Head(mailbox), map[c], x)
         /\ Alerted(Head(mailbox), map[c], alerts[c], alerts[c])
    BY <1>2, <1>5, <1>6 DEF Handled, Named, Alerted, Notes, Introductions, Notifies
  <1>11. IInv'
    BY <1>1, <1>6, <1>8, <1>9, <1>10, HandlerKeeps DEF Introductions, IInv, TypeOK
  <1> QED BY <1>1, <1>11 DEF RefundKept

\* A handler that updates the object of the map and saves it.
LEMMA UpdateKeeps ==
    ASSUME IInv, NEW c \in Channels, NEW type \in Notes \cup {"ChannelStateChanged"},
           NEW x, Event(type, c), Updates(c, map[c], x), PutAndSave(c, x),
           node' = node, crashes' = crashes,
           alerts' \in [Channels -> [count : Nat, complete : BOOLEAN]],
           \A d \in Channels : d # c => alerts'[d] = alerts[d],
           Alerted(Head(mailbox), map[c], alerts[c], alerts'[c]),
           type \in Notes => x.state = map[c].state,
           type = "ChannelStateChanged" => x.state = Head(mailbox).current,
           IF type = "ChannelIdAssigned" THEN x.channelId = Final(c)
                                         ELSE x.channelId = map[c].channelId
    PROVE  IInv' /\ RefundKept
  <1>0. type \notin Introductions /\ type # "Terminated" /\ type # "ChannelRestored"
    BY DEF Notes, Introductions
  <1>1. /\ map[c] # Null /\ Head(mailbox).type = type
        /\ CInv(mailbox, c, node[c], map[c], rows, alerts[c], crashes)
    BY <1>0, EventTaken
  <1>2. /\ x \in LocalChannel /\ x.channelId \in {Temp(c), Final(c)}
        /\ x.id \in {Null, Temp(c), Final(c)} /\ x.channelId \in ChannelIds
    <2>1. /\ map[c].channelId \in {Temp(c), Final(c)}
          /\ map[c].id # Null => map[c].id = map[c].channelId
      BY <1>1 DEF CInv, ObjectOK, Temp, Final
    <2>2. Temp(c) \in ChannelIds /\ Final(c) \in ChannelIds
      BY Ids
    <2> QED BY <2>1, <2>2 DEF Updates
  <1>3. /\ map' \in [Channels -> LocalChannel \cup {Null}]
        /\ rows' \in [ChannelIds -> LocalChannel \cup {Null}]
        /\ map'[c] = Saved(x) /\ Saves(c, x, rows, rows')
        /\ \A d \in Channels : d # c =>
              /\ map'[d] = map[d]
              /\ rows'[Temp(d)] = rows[Temp(d)] /\ rows'[Final(d)] = rows[Final(d)]
    BY <1>2, ObjectPutAndSaved
  <1>4. Saved(x) # Null /\ Saved(x).id = x.channelId /\ Saved(x).channelId = x.channelId
        /\ Saved(x).state = x.state
    BY <1>2, SavedObject
  <1>5. /\ ObjectOK(c, Saved(x), rows')
        /\ \A i \in RowsOf(c, rows') : rows'[i].channelId = i /\ rows'[i].id = i
        /\ crashes = 0 => \A i \in RowsOf(c, rows') : i = Saved(x).id
        /\ rows[Final(c)] # Null /\ rows[Final(c)].refundAtBlock =>
              rows'[Final(c)] # Null /\ rows'[Final(c)].refundAtBlock
    <2>1. ObjectOK(c, map[c], rows) /\ TableOK(mailbox, c, node[c], map[c], rows, crashes)
      BY <1>1 DEF CInv
    <2> QED BY <1>1, <1>3, <2>1, ObjectSaved
  <1>6. Tabled(c, Saved(x), rows', crashes)
    BY <1>5 DEF Tabled
  <1>7. Aside(c)
    BY <1>3 DEF Aside
  <1>8. Handled(Head(mailbox), map[c], Saved(x))
    BY <1>0, <1>1, <1>4 DEF Handled
  <1>9. Named(c, Head(mailbox), map[c], Saved(x))
    BY <1>0, <1>1, <1>4 DEF Named
  <1>10. IInv'
    BY <1>3, <1>5, <1>6, <1>7, <1>8, <1>9, HandlerKeeps
  <1>11. RefundKept
    BY <1>3, <1>5 DEF RefundKept
  <1> QED BY <1>10, <1>11

\* A note changes no alert.
LEMMA NoteIsSilent ==
    ASSUME NEW h, NEW lc, NEW alert, h.type \in Notes
    PROVE  Alerted(h, lc, alert, alert)
  BY DEF Alerted, Notifies, Notes

\* A handler that changes nothing but the mailbox and the object of the map,
\* which stays in its row.
LEMMA NoteKeeps ==
    ASSUME IInv, NEW c \in Channels, NEW type \in Notes \ {"ChannelIdAssigned"}, NEW x, Event(type, c),
           \/ x = map[c]
           \/ x = [map[c] EXCEPT !.shortChannelId = TRUE]
           \/ \E b \in Nat : x = [map[c] EXCEPT !.balanceMsat = b],
           map' = [map EXCEPT ![c] = x], UNCHANGED <<node, rows, alerts, crashes>>
    PROVE  IInv' /\ RefundKept
  <1>0. type \notin Introductions /\ type # "Terminated" /\ type # "ChannelRestored"
        /\ type # "ChannelStateChanged"
    BY DEF Notes, Introductions
  <1>1. /\ map[c] # Null /\ map[c] \in LocalChannel /\ Head(mailbox).type = type
        /\ CInv(mailbox, c, node[c], map[c], rows, alerts[c], crashes)
    BY <1>0, EventTaken
  <1>2. /\ x \in LocalChannel /\ x.channelId = map[c].channelId /\ x.id = map[c].id
        /\ x.state = map[c].state /\ x.isActive = map[c].isActive
        /\ x.toSelfDelay = map[c].toSelfDelay /\ x.refundAtBlock = map[c].refundAtBlock
    <2>1. CASE x = map[c]
      BY <1>1, <2>1
    <2>2. CASE x = [map[c] EXCEPT !.shortChannelId = TRUE]
      BY <1>1, <2>2, ShortIdSet
    <2>3. CASE \E b \in Nat : x = [map[c] EXCEPT !.balanceMsat = b]
      BY <1>1, <2>3, BalanceSet
    <2> QED BY <2>1, <2>2, <2>3
  <1>3. map' \in [Channels -> LocalChannel \cup {Null}] /\ map'[c] = x /\ Aside(c) /\ x # Null
    BY <1>2, ObjectPut
  <1>4. ObjectOK(c, x, rows)
    BY <1>1, <1>2 DEF CInv, ObjectOK
  <1>5. Tabled(c, x, rows, crashes)
    BY <1>1, <1>2 DEF CInv, TableOK, Tabled
  <1>6. Handled(Head(mailbox), map[c], x) /\ Named(c, Head(mailbox), map[c], x)
    BY <1>0, <1>1, <1>2, <1>3 DEF Handled, Named
  <1>7. Alerted(Head(mailbox), map[c], alerts[c], alerts[c])
    BY <1>1, NoteIsSilent
  <1>8. IInv'
    BY <1>3, <1>4, <1>5, <1>6, <1>7, HandlerKeeps DEF IInv, TypeOK
  <1> QED BY <1>8 DEF RefundKept

LEMMA IdAssignedKeeps ==
    ASSUME IInv, NEW c \in Channels, HandleChannelIdAssigned(c)
    PROVE  IInv' /\ RefundKept
  <1> DEFINE x == [map[c] EXCEPT !.channelId = Final(c)]
  <1>1. Event("ChannelIdAssigned", c) /\ UNCHANGED <<node, alerts, crashes>>
    BY DEF HandleChannelIdAssigned
  <1>2. /\ map[c] # Null /\ map[c] \in LocalChannel /\ Head(mailbox).type = "ChannelIdAssigned"
        /\ CInv(mailbox, c, node[c], map[c], rows, alerts[c], crashes)
    BY <1>1, EventTaken DEF Introductions
  <1>3. PutAndSave(c, x)
    BY <1>2 DEF HandleChannelIdAssigned, Final
  <1>4. /\ x \in LocalChannel /\ x.channelId = Final(c) /\ x.id = map[c].id
        /\ x.state = map[c].state /\ x.isActive = map[c].isActive
        /\ x.toSelfDelay = map[c].toSelfDelay /\ x.refundAtBlock = map[c].refundAtBlock
    BY <1>2, Ids, Renamed
  <1> HIDE DEF x
  <1>5. Updates(c, map[c], x)
    BY <1>2, <1>4 DEF Updates, CInv, ObjectOK
  <1>6. Alerted(Head(mailbox), map[c], alerts[c], alerts[c])
    BY <1>2, NoteIsSilent DEF Notes
  <1> QED BY <1>1, <1>3, <1>4, <1>5, <1>6, UpdateKeeps DEF Notes, IInv, TypeOK

LEMMA ShortIdAssignedKeeps ==
    ASSUME IInv, NEW c \in Channels, HandleShortChannelIdAssigned(c)
    PROVE  IInv' /\ RefundKept
  <1>1. Event("ShortChannelIdAssigned", c) /\ UNCHANGED <<node, rows, alerts, crashes>>
    BY DEF HandleShortChannelIdAssigned
  <1>2. map[c] # Null
    BY <1>1, EventTaken DEF Introductions
  <1>3. map' = [map EXCEPT ![c] = [map[c] EXCEPT !.shortChannelId = TRUE]]
    BY <1>2 DEF HandleShortChannelIdAssigned
  <1> QED BY <1>1, <1>3, NoteKeeps DEF Notes

LEMMA SignatureReceivedKeeps ==
    ASSUME IInv, NEW c \in Channels, HandleChannelSignatureReceived(c)
    PROVE  IInv' /\ RefundKept
  <1> DEFINE m == Head(mailbox)
             b == m.toLocal + m.flying
  <1>1. Event("ChannelSignatureReceived", c) /\ UNCHANGED <<node, rows, alerts, crashes>>
    BY DEF HandleChannelSignatureReceived
  <1>2. map[c] # Null /\ m \in Messages /\ m.type = "ChannelSignatureReceived"
    BY <1>1, EventTaken DEF Introductions
  <1>3. b \in Nat
    BY <1>2 DEF Messages
  <1>4. map' = [map EXCEPT ![c] = [map[c] EXCEPT !.balanceMsat = b]]
    BY <1>2 DEF HandleChannelSignatureReceived, signatureReceived
  <1> QED BY <1>1, <1>3, <1>4, NoteKeeps DEF Notes

LEMMA FailedKeeps ==
    ASSUME IInv, NEW c \in Channels, HandleChannelFailed(c)
    PROVE  IInv' /\ RefundKept
  <1> DEFINE x == [map[c] EXCEPT !.closingErrorMessage = TRUE]
  <1>1. Event("ChannelFailed", c) /\ UNCHANGED <<node, alerts, crashes>>
    BY DEF HandleChannelFailed
  <1>2. /\ map[c] # Null /\ map[c] \in LocalChannel /\ Head(mailbox).type = "ChannelFailed"
        /\ CInv(mailbox, c, node[c], map[c], rows, alerts[c], crashes)
    BY <1>1, EventTaken DEF Introductions
  <1>3. CASE Head(mailbox).text
    <2>1. PutAndSave(c, x)
      BY <1>2, <1>3 DEF HandleChannelFailed, PutAndSave, getChannel
    <2>2. /\ x \in LocalChannel /\ x.channelId = map[c].channelId /\ x.id = map[c].id
          /\ x.state = map[c].state /\ x.isActive = map[c].isActive
          /\ x.toSelfDelay = map[c].toSelfDelay /\ x.refundAtBlock = map[c].refundAtBlock
      BY <1>2, ErrorSet
    <2> HIDE DEF x
    <2>3. Updates(c, map[c], x)
      BY <1>2, <2>2 DEF Updates, CInv, ObjectOK
    <2>4. Alerted(Head(mailbox), map[c], alerts[c], alerts[c])
      BY <1>2, NoteIsSilent DEF Notes
    <2> QED BY <1>1, <2>1, <2>2, <2>3, <2>4, UpdateKeeps DEF Notes, IInv, TypeOK
  <1>4. CASE ~Head(mailbox).text
    <2>1. UNCHANGED <<map, rows>>
      BY <1>4 DEF HandleChannelFailed
    <2>2. map' = [map EXCEPT ![c] = map[c]]
      BY <2>1 DEF IInv, TypeOK
    <2> QED BY <1>1, <2>1, <2>2, NoteKeeps DEF Notes
  <1> QED BY <1>3, <1>4

LEMMA CommitConfirmedKeeps ==
    ASSUME IInv, NEW c \in Channels, HandleLocalCommitConfirmed(c)
    PROVE  IInv' /\ RefundKept
  <1> DEFINE x == [map[c] EXCEPT !.refundAtBlock = TRUE]
  <1>1. Event("LocalCommitConfirmed", c) /\ UNCHANGED <<node, alerts, crashes>>
    BY DEF HandleLocalCommitConfirmed
  <1>2. /\ map[c] # Null /\ map[c] \in LocalChannel /\ Head(mailbox).type = "LocalCommitConfirmed"
        /\ CInv(mailbox, c, node[c], map[c], rows, alerts[c], crashes)
    BY <1>1, EventTaken DEF Introductions
  <1>3. PutAndSave(c, x)
    BY <1>2 DEF HandleLocalCommitConfirmed
  <1>4. /\ x \in LocalChannel /\ x.channelId = map[c].channelId /\ x.id = map[c].id
        /\ x.state = map[c].state /\ x.isActive = map[c].isActive
        /\ x.toSelfDelay = map[c].toSelfDelay /\ x.refundAtBlock
    BY <1>2, RefundSet
  <1> HIDE DEF x
  <1>5. Updates(c, map[c], x)
    BY <1>2, <1>4 DEF Updates, CInv, ObjectOK
  <1>6. Alerted(Head(mailbox), map[c], alerts[c], alerts[c])
    BY <1>2, NoteIsSilent DEF Notes
  <1> QED BY <1>1, <1>3, <1>4, <1>5, <1>6, UpdateKeeps DEF Notes, IInv, TypeOK

LEMMA StateChangedKeeps ==
    ASSUME IInv, NEW c \in Channels, HandleChannelStateChanged(c)
    PROVE  IInv' /\ RefundKept
  <1> DEFINE m == Head(mailbox)
             x == stateChanged(map[c], m)
  <1>1. Event("ChannelStateChanged", c) /\ UNCHANGED <<node, crashes>>
    BY DEF HandleChannelStateChanged
  <1>2. /\ map[c] # Null /\ map[c] \in LocalChannel /\ m.type = "ChannelStateChanged"
        /\ m \in Messages
        /\ CInv(mailbox, c, node[c], map[c], rows, alerts[c], crashes)
    BY <1>1, EventTaken DEF Introductions
  <1>3. /\ PutAndSave(c, x)
        /\ alerts' = IF showNotification(m)
                     THEN [alerts EXCEPT ![c].count = @ + 1,
                                         ![c].complete = @ /\ map[c].toSelfDelay]
                     ELSE alerts
    BY <1>2 DEF HandleChannelStateChanged, getChannel
  <1>4. m.current \in States /\ m.toLocal \in Nat
    BY <1>2 DEF Messages
  <1>5. /\ x \in LocalChannel /\ x.channelId = map[c].channelId /\ x.id = map[c].id
        /\ x.state = m.current /\ x.isActive = map[c].isActive
        /\ m.current \in Open => x.toSelfDelay
        /\ x.refundAtBlock = map[c].refundAtBlock
    BY <1>2, <1>4, StateSet
  <1>6. showNotification(m) <=> Notifies(m)
    BY <1>2 DEF Notifies
  <1>7. alerts \in [Channels -> [count : Nat, complete : BOOLEAN]]
        /\ map[c].toSelfDelay \in BOOLEAN
    BY <1>2 DEF IInv, TypeOK, LocalChannel
  <1> HIDE DEF x, m
  <1>8. /\ alerts' \in [Channels -> [count : Nat, complete : BOOLEAN]]
        /\ \A d \in Channels : d # c => alerts'[d] = alerts[d]
        /\ Alerted(m, map[c], alerts[c], alerts'[c])
    <2>1. CASE Notifies(m)
      <3> DEFINE n == alerts[c].count + 1
                 b == alerts[c].complete /\ map[c].toSelfDelay
                 a == [alerts[c] EXCEPT !.count = n, !.complete = b]
      <3>1. alerts[c] \in [count : Nat, complete : BOOLEAN]
        BY <1>7
      <3>2. n \in Nat /\ b \in BOOLEAN
        BY <1>7
      <3>3. alerts' = [alerts EXCEPT ![c].count = n, ![c].complete = b]
        BY <1>3, <1>6, <1>7, <2>1
      <3> HIDE DEF n, b
      <3>4. alerts' = [alerts EXCEPT ![c] = a]
        BY <1>7, <3>3
      <3>5. a \in [count : Nat, complete : BOOLEAN]
        BY <3>1, <3>2, Zenon
      <3>6. a.count = n /\ a.complete = b
        BY <3>1
      <3> HIDE DEF a
      <3>7. /\ alerts' \in [Channels -> [count : Nat, complete : BOOLEAN]]
            /\ \A d \in Channels : d # c => alerts'[d] = alerts[d]
            /\ alerts'[c] = a
        BY <1>7, <3>4, <3>5
      <3> QED BY <2>1, <3>6, <3>7 DEF Alerted, n, b
    <2>2. CASE ~Notifies(m)
      BY <1>3, <1>6, <1>7, <2>2 DEF Alerted
    <2> QED BY <2>1, <2>2
  <1>9. Updates(c, map[c], x)
    BY <1>2, <1>5 DEF Updates, CInv, ObjectOK
  <1> QED BY <1>1, <1>3, <1>5, <1>8, <1>9, UpdateKeeps DEF Notes, m

LEMMA TerminatedKeeps ==
    ASSUME IInv, NEW c \in Channels, HandleTerminated(c)
    PROVE  IInv' /\ RefundKept
  <1> DEFINE lc == map[c]
             i == lc.channelId
  <1>1. /\ Event("Terminated", c) /\ UNCHANGED <<node, alerts, crashes>>
        /\ map' = [map EXCEPT ![c] = Null]
    BY DEF HandleTerminated
  <1>2. /\ lc # Null /\ lc \in LocalChannel /\ Head(mailbox).type = "Terminated"
        /\ CInv(mailbox, c, node[c], lc, rows, alerts[c], crashes)
    BY <1>1, EventTaken DEF Introductions
  <1>3. channelTerminated(lc)
    BY <1>2 DEF HandleTerminated
  <1>4. /\ Temp(c) \in ChannelIds /\ Final(c) \in ChannelIds
        /\ \A d \in Channels : Temp(d) \in ChannelIds /\ Final(d) \in ChannelIds
        /\ \A d : d # c => {Temp(c), Final(c)} \cap {Temp(d), Final(d)} = {}
        /\ \A j \in ChannelIds : j # Null
    BY Ids
  <1>5. /\ i \in {Temp(c), Final(c)} /\ i \in ChannelIds /\ i # Null
        /\ rows[Final(c)] # Null /\ rows[Final(c)].refundAtBlock => lc.refundAtBlock
    <2>1. /\ i \in {Temp(c), Final(c)}
          /\ rows[Final(c)] # Null /\ rows[Final(c)].refundAtBlock => lc.refundAtBlock
      BY <1>2 DEF CInv, ObjectOK, Temp, Final
    <2> QED BY <1>4, <2>1
  <1>6. rows \in [ChannelIds -> LocalChannel \cup {Null}]
        /\ map \in [Channels -> LocalChannel \cup {Null}]
    BY DEF IInv, TypeOK
  <1>7. RowsOf(c, rows) = {j \in {Temp(c), Final(c)} : rows[j] # Null}
        /\ RowsOf(c, rows') = {j \in {Temp(c), Final(c)} : rows'[j] # Null}
    BY DEF RowsOf, Temp, Final
  <1>8. /\ \A j \in RowsOf(c, rows) : rows[j].channelId = j /\ rows[j].id = j
        /\ crashes = 0 => \A j, k \in RowsOf(c, rows) : j = k
    BY <1>2 DEF CInv, TableOK
  <1> HIDE DEF i, lc
  \* the row, if there is one, is replaced by row
  <1>9. \/ rows' = rows
        \/ \E row \in LocalChannel :
              /\ row.channelId = i /\ row.id = i
              /\ i = Final(c) /\ rows[i].refundAtBlock => row.refundAtBlock
              /\ rows[i] # Null
              /\ rows' = [rows EXCEPT ![i] = row]
    <2>1. CASE rows[i] = Null
      BY <1>3, <2>1 DEF channelTerminated, i
    <2>2. CASE rows[i] # Null
      <3> DEFINE channel == IF lc.id = i THEN lc ELSE rows[i]
                 y == [channel EXCEPT !.isActive = FALSE]
      <3>1. saveLocalChannel(y)
        BY <1>3, <1>5, <2>2 DEF channelTerminated, i
      <3>2. /\ channel \in LocalChannel /\ channel.channelId = i /\ channel.id = i
            /\ i = Final(c) /\ rows[i].refundAtBlock => channel.refundAtBlock
        BY <1>2, <1>5, <1>6, <1>7, <1>8, <2>2 DEF i
      <3> HIDE DEF channel
      <3>3. /\ y \in LocalChannel /\ y.channelId = i /\ y.id = i
            /\ y.refundAtBlock = channel.refundAtBlock
        BY <3>2, Deactivated
      <3> HIDE DEF y
      <3>4. /\ SavedRow(y) \in LocalChannel /\ SavedRow(y).id = i /\ SavedRow(y).channelId = i
            /\ SavedRow(y).refundAtBlock = y.refundAtBlock
        BY <1>5, <3>3, SavedObject
      <3>5. rows' = [j \in ChannelIds |-> IF j = y.channelId THEN SavedRow(y)
                                          ELSE IF j = y.id THEN Null ELSE rows[j]]
        BY <3>1 DEF saveLocalChannel, SavedRow
      <3>6. rows' = [rows EXCEPT ![i] = SavedRow(y)]
        BY <1>5, <1>6, <3>3, <3>5
      <3> QED BY <2>2, <3>2, <3>3, <3>4, <3>6
    <2> QED BY <2>1, <2>2
  <1> DEFINE Kept ==
         /\ rows' \in [ChannelIds -> LocalChannel \cup {Null}]
         /\ \A j \in ChannelIds : j # i => rows'[j] = rows[j]
         /\ RowsOf(c, rows') = RowsOf(c, rows)
         /\ \A j \in RowsOf(c, rows') : rows'[j].channelId = j /\ rows'[j].id = j
         /\ rows[Final(c)] # Null /\ rows[Final(c)].refundAtBlock =>
               rows'[Final(c)] # Null /\ rows'[Final(c)].refundAtBlock
  <1>10. Kept
    <2>1. CASE rows' = rows
      BY <1>6, <1>8, <2>1
    <2>2. ASSUME NEW row \in LocalChannel,
                 row.channelId = i, row.id = i,
                 i = Final(c) /\ rows[i].refundAtBlock => row.refundAtBlock,
                 rows[i] # Null, rows' = [rows EXCEPT ![i] = row]
          PROVE  Kept
      <3>1. /\ rows' \in [ChannelIds -> LocalChannel \cup {Null}] /\ rows'[i] = row
            /\ row # Null /\ \A j \in ChannelIds : j # i => rows'[j] = rows[j]
        BY <1>5, <1>6, <2>2, NullAssumption
      <3>2. RowsOf(c, rows') = RowsOf(c, rows)
        BY <1>4, <1>7, <2>2, <3>1
      <3>3. \A j \in RowsOf(c, rows') : rows'[j].channelId = j /\ rows'[j].id = j
        BY <1>4, <1>7, <1>8, <2>2, <3>1, <3>2
      <3>4. rows[Final(c)] # Null /\ rows[Final(c)].refundAtBlock =>
               rows'[Final(c)] # Null /\ rows'[Final(c)].refundAtBlock
        BY <1>4, <2>2, <3>1
      <3> QED BY <3>1, <3>2, <3>3, <3>4
    <2> QED BY <1>9, <2>1, <2>2
  <1>11. \A d \in Channels : d # c =>
            rows'[Temp(d)] = rows[Temp(d)] /\ rows'[Final(d)] = rows[Final(d)]
    <2> TAKE d \in Channels
    <2> HAVE d # c
    <2>1. \A j \in {Temp(d), Final(d)} : j \in ChannelIds /\ j # i
      BY <1>4, <1>5
    <2> QED BY <1>10, <2>1
  <1>12. map' \in [Channels -> LocalChannel \cup {Null}] /\ map'[c] = Null
         /\ \A d \in Channels : d # c => map'[d] = map[d]
    BY <1>1, <1>6
  <1>13. Aside(c)
    BY <1>1, <1>11, <1>12 DEF Aside
  <1>14. Tabled(c, Null, rows', crashes) /\ ObjectOK(c, Null, rows')
    BY <1>8, <1>10 DEF Tabled, ObjectOK
  <1>15. Handled(Head(mailbox), map[c], Null) /\ Named(c, Head(mailbox), map[c], Null)
         /\ Alerted(Head(mailbox), map[c], alerts[c], alerts[c])
    BY <1>2 DEF Handled, Named, Alerted, Notes, Notifies
  <1>16. IInv'
    BY <1>1, <1>10, <1>12, <1>13, <1>14, <1>15, HandlerKeeps DEF IInv, TypeOK
  <1>17. RefundKept
    BY <1>10, <1>11 DEF RefundKept
  <1> QED BY <1>16, <1>17

-----------------------------------------------------------------------------
(* The node's steps.                                                       *)

\* Of a node's channel only these components are spoken of.
LEMMA NodeElsewhere ==
    ASSUME NEW box, NEW c, NEW nd, NEW nd2, NEW lc, NEW table, NEW alert, NEW deaths,
           nd2.life = nd.life, nd2.state = nd.state, nd2.published = nd.published,
           CInv(box, c, nd, lc, table, alert, deaths)
    PROVE  CInv(box, c, nd2, lc, table, alert, deaths)
  <1>1. LeadsTo(box, c, nd2, lc)
    BY DEF CInv, LeadsTo
  <1>2. HasFinalId(box, c, nd2, lc) /\ TableOK(box, c, nd2, lc, table, deaths)
    BY DEF CInv, HasFinalId, TableOK
  <1>3. AlertsOK(box, c, nd2, alert)
    BY DEF CInv, AlertsOK
  <1> QED BY <1>1, <1>2, <1>3 DEF CInv

\* The records of NodeChannel after a step.
Moved(nd, to, published) == [nd EXCEPT !.state = to, !.published = published]
Locked(nd, to) == [nd EXCEPT !.state = to, !.locked = TRUE]
Entered(nd, life, to) == [nd EXCEPT !.life = life, !.state = to]
Lives(nd, life) == [nd EXCEPT !.life = life]
PublishedAs(nd, published) == [nd EXCEPT !.published = published]
Confirmed(nd) == [nd EXCEPT !.confirmed = TRUE]
Signed(nd, toLocal, flying) == [nd EXCEPT !.toLocal = toLocal, !.flying = flying]

LEMMA NodeMoved ==
    ASSUME NEW nd \in NodeChannel, NEW to \in States, NEW published \in SUBSET Published
    PROVE  LET nd2 == Moved(nd, to, published)
           IN /\ nd2 \in NodeChannel /\ nd2.life = nd.life /\ nd2.state = to /\ nd2.published = published
              /\ nd2.toLocal = nd.toLocal /\ nd2.flying = nd.flying
  <1>1. Moved(nd, to, published) \in NodeChannel
    BY Zenon DEF NodeChannel, Moved
  <1>2. LET nd2 == Moved(nd, to, published)
        IN /\ nd2.life = nd.life /\ nd2.state = to /\ nd2.published = published
           /\ nd2.toLocal = nd.toLocal /\ nd2.flying = nd.flying
    BY DEF NodeChannel, Moved
  <1> QED BY <1>1, <1>2

LEMMA NodeLocked ==
    ASSUME NEW nd \in NodeChannel, NEW to \in States
    PROVE  LET nd2 == Locked(nd, to)
           IN /\ nd2 \in NodeChannel /\ nd2.life = nd.life /\ nd2.state = to /\ nd2.published = nd.published
              /\ nd2.toLocal = nd.toLocal /\ nd2.flying = nd.flying
  <1>1. Locked(nd, to) \in NodeChannel
    BY Zenon DEF NodeChannel, Locked
  <1>2. LET nd2 == Locked(nd, to)
        IN /\ nd2.life = nd.life /\ nd2.state = to /\ nd2.published = nd.published
           /\ nd2.toLocal = nd.toLocal /\ nd2.flying = nd.flying
    BY DEF NodeChannel, Locked
  <1> QED BY <1>1, <1>2

LEMMA NodeEntered ==
    ASSUME NEW nd \in NodeChannel,
           NEW life \in {"unused", "live", "stored", "gone"}, NEW to \in States
    PROVE  LET nd2 == Entered(nd, life, to)
           IN /\ nd2 \in NodeChannel /\ nd2.life = life /\ nd2.state = to /\ nd2.published = nd.published
              /\ nd2.toLocal = nd.toLocal /\ nd2.flying = nd.flying
  <1>1. Entered(nd, life, to) \in NodeChannel
    BY Zenon DEF NodeChannel, Entered
  <1>2. LET nd2 == Entered(nd, life, to)
        IN /\ nd2.life = life /\ nd2.state = to /\ nd2.published = nd.published
           /\ nd2.toLocal = nd.toLocal /\ nd2.flying = nd.flying
    BY DEF NodeChannel, Entered
  <1> QED BY <1>1, <1>2

LEMMA NodeLives ==
    ASSUME NEW nd \in NodeChannel,
           NEW life \in {"unused", "live", "stored", "gone"}
    PROVE  LET nd2 == Lives(nd, life)
           IN /\ nd2 \in NodeChannel /\ nd2.life = life /\ nd2.state = nd.state /\ nd2.published = nd.published
              /\ nd2.toLocal = nd.toLocal /\ nd2.flying = nd.flying
  <1>1. Lives(nd, life) \in NodeChannel
    BY Zenon DEF NodeChannel, Lives
  <1>2. LET nd2 == Lives(nd, life)
        IN /\ nd2.life = life /\ nd2.state = nd.state /\ nd2.published = nd.published
           /\ nd2.toLocal = nd.toLocal /\ nd2.flying = nd.flying
    BY DEF NodeChannel, Lives
  <1> QED BY <1>1, <1>2

LEMMA NodePublished ==
    ASSUME NEW nd \in NodeChannel, NEW published \in SUBSET Published
    PROVE  LET nd2 == PublishedAs(nd, published)
           IN /\ nd2 \in NodeChannel /\ nd2.life = nd.life /\ nd2.state = nd.state /\ nd2.published = published
              /\ nd2.toLocal = nd.toLocal /\ nd2.flying = nd.flying
  <1>1. PublishedAs(nd, published) \in NodeChannel
    BY Zenon DEF NodeChannel, PublishedAs
  <1>2. LET nd2 == PublishedAs(nd, published)
        IN /\ nd2.life = nd.life /\ nd2.state = nd.state /\ nd2.published = published
           /\ nd2.toLocal = nd.toLocal /\ nd2.flying = nd.flying
    BY DEF NodeChannel, PublishedAs
  <1> QED BY <1>1, <1>2

LEMMA NodeConfirmed ==
    ASSUME NEW nd \in NodeChannel
    PROVE  LET nd2 == Confirmed(nd)
           IN /\ nd2 \in NodeChannel /\ nd2.life = nd.life /\ nd2.state = nd.state /\ nd2.published = nd.published
              /\ nd2.toLocal = nd.toLocal /\ nd2.flying = nd.flying
  <1>1. Confirmed(nd) \in NodeChannel
    BY Zenon DEF NodeChannel, Confirmed
  <1>2. LET nd2 == Confirmed(nd)
        IN /\ nd2.life = nd.life /\ nd2.state = nd.state /\ nd2.published = nd.published
           /\ nd2.toLocal = nd.toLocal /\ nd2.flying = nd.flying
    BY DEF NodeChannel, Confirmed
  <1> QED BY <1>1, <1>2

LEMMA NodeSigned ==
    ASSUME NEW nd \in NodeChannel, NEW toLocal \in Nat, NEW flying \in Nat
    PROVE  LET nd2 == Signed(nd, toLocal, flying)
           IN /\ nd2 \in NodeChannel /\ nd2.life = nd.life /\ nd2.state = nd.state
              /\ nd2.published = nd.published /\ nd2.toLocal = toLocal /\ nd2.flying = flying
  <1>1. Signed(nd, toLocal, flying) \in NodeChannel
    BY Zenon DEF NodeChannel, Signed
  <1>2. LET nd2 == Signed(nd, toLocal, flying)
        IN /\ nd2.life = nd.life /\ nd2.state = nd.state
           /\ nd2.published = nd.published /\ nd2.toLocal = toLocal /\ nd2.flying = flying
    BY DEF NodeChannel, Signed
  <1> QED BY <1>1, <1>2

\* What remains to be shown of a step of channel c of the node.
LEMMA NodeKeeps ==
    ASSUME IInv, NEW c \in Channels, NEW nd \in NodeChannel, NEW ms \in Seq(Messages),
           node' = [node EXCEPT ![c] = nd], mailbox' = mailbox \o ms,
           Len(mailbox) + Len(ms) <= MaxMailbox,
           \A j \in 1 .. Len(ms) : ms[j].channel = c,
           UNCHANGED <<map, rows, alerts, crashes>>,
           CInv(mailbox', c, nd, map[c], rows, alerts[c], crashes)
    PROVE  IInv' /\ RefundKept
  <1>1. mailbox \in Seq(Messages) /\ node \in [Channels -> NodeChannel]
    BY DEF IInv, TypeOK
  <1>2. /\ mailbox' \in Seq(Messages) /\ Len(mailbox') = Len(mailbox) + Len(ms)
        /\ \A i \in 1 .. Len(mailbox') : mailbox'[i] \in Messages
    BY <1>1
  <1>3. ChannelsOK'
    <2> SUFFICES ASSUME NEW d \in Channels
                 PROVE  CInv(mailbox', d, node'[d], map'[d], rows', alerts'[d], crashes')
      BY DEF ChannelsOK
    <2>1. CASE d = c
      BY <1>1, <2>1
    <2>2. CASE d # c
      <3>1. Same(mailbox, mailbox', d)
        BY <1>1, <2>2, AppendedElsewhere
      <3>2. CInv(mailbox, d, node[d], map[d], rows, alerts[d], crashes)
        BY DEF IInv, ChannelsOK
      <3>3. CInv(mailbox', d, node[d], map[d], rows, alerts[d], crashes)
        BY <3>1, <3>2, SameInvariant
      <3> QED BY <1>1, <2>2, <3>3
    <2> QED BY <2>1, <2>2
  <1>4. TypeOK'
    <2>1. \A i \in 1 .. Len(mailbox') : mailbox'[i].channel \in Channels
      BY <1>2 DEF Messages
    <2>2. node' \in [Channels -> NodeChannel]
      BY <1>1
    <2> QED BY <1>2, <2>1, <2>2 DEF IInv, TypeOK
  <1> QED BY <1>2, <1>3, <1>4 DEF IInv, RefundKept

\* What is known of channel c before a step of the node.
LEMMA NodeBefore ==
    ASSUME IInv, NEW c \in Channels
    PROVE  /\ node[c] \in NodeChannel /\ node \in [Channels -> NodeChannel]
           /\ mailbox \in Seq(Messages)
           /\ CInv(mailbox, c, node[c], map[c], rows, alerts[c], crashes)
           /\ node[c].state \in Opening \cup Open \cup {"WAIT_FOR_INIT_INTERNAL"} =>
                 node[c].published = {}
           /\ node[c].state \in States /\ node[c].published \in SUBSET Published
           /\ node[c].toLocal \in Nat /\ node[c].flying \in Nat
  <1>1. /\ node[c] \in NodeChannel /\ node \in [Channels -> NodeChannel]
        /\ mailbox \in Seq(Messages)
        /\ CInv(mailbox, c, node[c], map[c], rows, alerts[c], crashes)
    BY DEF IInv, TypeOK, ChannelsOK
  <1>2. node[c].state \in Opening \cup Open \cup {"WAIT_FOR_INIT_INTERNAL"} =>
           node[c].published = {}
    BY <1>1 DEF CInv, AlertsOK
  <1> QED BY <1>1, <1>2 DEF NodeChannel

LEMMA ChangeIsMessage ==
    ASSUME NEW c \in Channels, NEW previous \in States, NEW current \in States,
           NEW published \in SUBSET Published, node[c].toLocal \in Nat
    PROVE  LET m == StateChanged(c, previous, current, published)
           IN /\ m \in Messages /\ m.channel = c /\ m.type = "ChannelStateChanged"
              /\ m.previous = previous /\ m.current = current /\ m.published = published
              /\ m.toLocal = node[c].toLocal
  BY DEF StateChanged, Messages

\* What comes before a change: one note or nothing.
NoteOrNone(c, ms) ==
    \/ ms = <<>>
    \/ \E note \in Messages : ms = <<note>> /\ note.channel = c /\ note.type \in Notes

\* The changes that the node makes.
MayGo(nd, to, published, ms) ==
    /\ to # "WAIT_FOR_INIT_INTERNAL"
    /\ to \in Identified =>
          \/ nd.state \in Identified
          \/ \E note \in Messages : ms = <<note>> /\ note.type = "ChannelIdAssigned"
    /\ to \in Opening \cup Open => published = {}
    /\ published = {} => nd.published = {}
    /\ published # {} /\ to # "CLOSED" => nd.state \in Open

\* One note or none, then the change to another state.
LEMMA MovesKeep ==
    ASSUME IInv, NEW c \in Channels, NEW nd \in NodeChannel, NEW ms \in Seq(Messages), NEW m,
           node' = [node EXCEPT ![c] = nd], UNCHANGED <<map, rows, alerts, crashes>>,
           m = StateChanged(c, node[c].state, nd.state, nd.published),
           PublishAll(ms \o <<m>>),
           NoteOrNone(c, ms),
           node[c].life = "live", nd.life = "live",
           MayGo(node[c], nd.state, nd.published, ms)
    PROVE  IInv' /\ RefundKept
  <1>1. /\ node[c] \in NodeChannel /\ mailbox \in Seq(Messages)
        /\ CInv(mailbox, c, node[c], map[c], rows, alerts[c], crashes)
        /\ node[c].state \in States /\ node[c].toLocal \in Nat
    BY NodeBefore
  <1>2. /\ m \in Messages /\ m.channel = c /\ m.type = "ChannelStateChanged"
        /\ m.previous = node[c].state /\ m.current = nd.state /\ m.published = nd.published
    BY <1>1, ChangeIsMessage DEF NodeChannel
  <1> DEFINE box == mailbox \o ms
  <1>3. /\ box \in Seq(Messages) /\ mailbox' = Append(box, m)
        /\ mailbox' = mailbox \o (ms \o <<m>>) /\ ms \o <<m>> \in Seq(Messages)
        /\ Len(mailbox) + Len(ms \o <<m>>) <= MaxMailbox
        /\ \A j \in 1 .. Len(ms \o <<m>>) : (ms \o <<m>>)[j].channel = c
    <2>1. /\ mailbox' = mailbox \o (ms \o <<m>>)
          /\ Len(mailbox) + Len(ms \o <<m>>) <= MaxMailbox
      BY DEF PublishAll
    <2>2. ms \o <<m>> \in Seq(Messages) /\ box \in Seq(Messages)
      BY <1>1, <1>2
    <2>3. mailbox' = Append(box, m)
      BY <1>1, <1>2, <2>1
    <2>4. \A j \in 1 .. Len(ms \o <<m>>) : (ms \o <<m>>)[j].channel = c
      BY <1>2 DEF NoteOrNone
    <2> QED BY <2>1, <2>2, <2>3, <2>4
  <1>4. /\ CInv(box, c, node[c], map[c], rows, alerts[c], crashes)
        /\ \A note \in Messages : ms = <<note>> /\ note.type = "ChannelIdAssigned" =>
              \E i \in At(box, c) : box[i].type = "ChannelIdAssigned"
    <2>1. CASE ms = <<>>
      <3>1. box = mailbox
        BY <1>1, <2>1
      <3>2. \A note \in Messages : ms # <<note>>
        BY <2>1
      <3> QED BY <1>1, <3>1, <3>2
    <2>2. CASE ms # <<>>
      <3>0. PICK note \in Messages : ms = <<note>> /\ note.channel = c /\ note.type \in Notes
        BY <2>2 DEF NoteOrNone
      <3> DEFINE n == Len(mailbox) + 1
      <3>1. box = Append(mailbox, note)
        BY <1>1, <3>0
      <3>2. Added(mailbox, box, c, note, n)
        BY <1>1, <3>0, <3>1, AppendedOwn
      <3>3. CInv(box, c, node[c], map[c], rows, alerts[c], crashes)
        BY <1>1, <1>2, <3>0, <3>2, NoteAdded
      <3>4. n \in At(box, c) /\ box[n] = note
        BY <3>2 DEF Added
      <3>5. \A other : ms = <<other>> => other = note
        BY <3>0
      <3> QED BY <3>3, <3>4, <3>5
    <2> QED BY <2>1, <2>2
  <1>5. Moves(box, c, m, node[c], nd)
    BY <1>2, <1>4 DEF Moves, MayGo
  <1>6. Added(box, mailbox', c, m, Len(box) + 1)
    BY <1>2, <1>3, AppendedOwn
  <1>7. CInv(mailbox', c, nd, map[c], rows, alerts[c], crashes)
    BY <1>4, <1>5, <1>6, ChangeAdded
  <1> QED BY <1>3, <1>7, NodeKeeps

LEMMA GotoKeeps ==
    ASSUME IInv, NEW c \in Channels, NEW from, NEW to \in States, NEW published \in SUBSET Published,
           NEW ms \in Seq(Messages), Goto(c, from, to, published, ms),
           NoteOrNone(c, ms),
           MayGo(node[c], to, published, ms)
    PROVE  IInv' /\ RefundKept
  <1> DEFINE nd == Moved(node[c], to, published)
             m  == StateChanged(c, node[c].state, to, published)
  <1>1. /\ node[c].life = "live" /\ PublishAll(ms \o <<m>>)
        /\ UNCHANGED <<map, rows, alerts, crashes>>
        /\ node' = [node EXCEPT ![c].state = to, ![c].published = published]
    BY DEF Goto
  <1>2. node[c] \in NodeChannel /\ node \in [Channels -> NodeChannel]
    BY NodeBefore
  <1>3. node' = [node EXCEPT ![c] = nd]
    BY <1>1, <1>2 DEF Moved
  <1>4. nd \in NodeChannel /\ nd.life = node[c].life /\ nd.state = to /\ nd.published = published
    BY <1>2, NodeMoved
  <1> HIDE DEF nd
  <1>5. m = StateChanged(c, node[c].state, nd.state, nd.published)
    BY <1>4
  <1> HIDE DEF m
  <1> QED BY <1>1, <1>3, <1>4, <1>5, MovesKeep

\* Two and three messages one after the other.
LEMMA Two ==
    ASSUME NEW a \in Messages, NEW b \in Messages
    PROVE  <<a>> \o <<b>> = <<a, b>>
  <1> DEFINE s == <<a>> \o <<b>>
  <1>1. s \in Seq(Messages) /\ Len(s) = 2 /\ s[1] = a /\ s[2] = b
    OBVIOUS
  <1> HIDE DEF s
  <1>2. s = <<s[1], s[2]>>
    BY <1>1
  <1> QED BY <1>1, <1>2 DEF s

LEMMA Three ==
    ASSUME NEW a \in Messages, NEW b \in Messages, NEW d \in Messages
    PROVE  <<a, b>> \o <<d>> = <<a, b, d>>
  <1> DEFINE s == <<a, b>> \o <<d>>
  <1>1. s \in Seq(Messages) /\ Len(s) = 3 /\ s[1] = a /\ s[2] = b /\ s[3] = d
    OBVIOUS
  <1> HIDE DEF s
  <1>2. s = <<s[1], s[2], s[3]>>
    BY <1>1
  <1> QED BY <1>1, <1>2 DEF s

LEMMA CreateKeeps ==
    ASSUME IInv, NEW c \in Channels, Create(c)
    PROVE  IInv' /\ RefundKept
  <1> DEFINE nd == Entered(node[c], "live", "WAIT_FOR_ACCEPT_CHANNEL")
             m1 == Msg("ChannelCreated", c)
             m3 == StateChanged(c, "WAIT_FOR_INIT_INTERNAL", "WAIT_FOR_ACCEPT_CHANNEL", {})
             b1 == Append(mailbox, m1)
  <1>1. /\ node[c].life = "unused" /\ PublishAll(<<m1, m3>>)
        /\ UNCHANGED <<map, rows, alerts, crashes>>
        /\ node' = [node EXCEPT ![c].life = "live", ![c].state = "WAIT_FOR_ACCEPT_CHANNEL"]
    BY DEF Create
  <1>2. /\ node[c] \in NodeChannel /\ node \in [Channels -> NodeChannel]
        /\ mailbox \in Seq(Messages)
        /\ CInv(mailbox, c, node[c], map[c], rows, alerts[c], crashes)
        /\ node[c].state \in Opening \cup Open \cup {"WAIT_FOR_INIT_INTERNAL"} =>
              node[c].published = {}
        /\ node[c].toLocal \in Nat
    BY NodeBefore
  <1>3. node' = [node EXCEPT ![c] = nd]
    BY <1>1, <1>2 DEF Entered
  <1>4. node[c].published = {}
    BY <1>1, <1>2 DEF CInv, LeadsTo
  <1>5. /\ nd \in NodeChannel /\ nd.life = "live" /\ nd.state = "WAIT_FOR_ACCEPT_CHANNEL"
        /\ nd.published = node[c].published
    BY <1>2, NodeEntered DEF States, Opening
  <1> HIDE DEF nd
  <1>6. /\ m1 \in Messages /\ m1.channel = c /\ m1.type = "ChannelCreated"
    BY DEF Msg, Messages
  <1>7. /\ m3 \in Messages /\ m3.channel = c /\ m3.type = "ChannelStateChanged"
        /\ m3.previous = "WAIT_FOR_INIT_INTERNAL" /\ m3.current = nd.state
        /\ m3.published = nd.published
    <2>1. {"WAIT_FOR_INIT_INTERNAL", "WAIT_FOR_ACCEPT_CHANNEL"} \subseteq States
      BY DEF States, Opening
    <2> QED BY <1>2, <1>4, <1>5, <2>1, ChangeIsMessage
  <1> HIDE DEF m1, m3
  <1>8. /\ b1 \in Seq(Messages) /\ mailbox' = Append(b1, m3)
        /\ <<m1, m3>> \in Seq(Messages) /\ mailbox' = mailbox \o <<m1, m3>>
        /\ Len(mailbox) + Len(<<m1, m3>>) <= MaxMailbox
        /\ \A j \in 1 .. Len(<<m1, m3>>) : <<m1, m3>>[j].channel = c
    BY <1>1, <1>2, <1>6, <1>7 DEF PublishAll
  <1>9. /\ Added(mailbox, b1, c, m1, Len(mailbox) + 1)
        /\ Added(b1, mailbox', c, m3, Len(b1) + 1)
    <2>1. Added(mailbox, b1, c, m1, Len(mailbox) + 1)
      BY <1>2, <1>6, AppendedOwn
    <2> HIDE DEF b1
    <2> QED BY <1>7, <1>8, <2>1, AppendedOwn
  <1>10. CInv(mailbox', c, nd, map[c], rows, alerts[c], crashes)
    <2>1. nd.state \notin Identified /\ nd.state # "WAIT_FOR_INIT_INTERNAL"
      BY <1>5 DEF Identified, Open
    <2>2. Continues(b1, b1, c)
      BY DEF Continues
    <2> HIDE DEF b1
    <2> QED BY <1>1, <1>2, <1>4, <1>5, <1>6, <1>7, <1>9, <2>1, <2>2, Introduced
  <1> QED BY <1>1, <1>3, <1>5, <1>8, <1>10, NodeKeeps

LEMMA RestoreKeeps ==
    ASSUME IInv, NEW c \in Channels, Restore(c)
    PROVE  IInv' /\ RefundKept
  <1> DEFINE closing == node[c].published # {}
             state == IF closing THEN "CLOSING" ELSE "OFFLINE"
             short == node[c].locked /\ ~closing
             nd == Entered(node[c], "live", state)
             m1 == Msg("ChannelRestored", c)
             m2 == Msg("ShortChannelIdAssigned", c)
             m3 == StateChanged(c, "WAIT_FOR_INIT_INTERNAL", state, node[c].published)
             ms == <<m1>> \o (IF short THEN <<m2>> ELSE <<>>) \o <<m3>>
             b1 == Append(mailbox, m1)
             b2 == IF short THEN Append(b1, m2) ELSE b1
  <1>1. /\ node[c].life = "stored" /\ PublishAll(ms)
        /\ UNCHANGED <<map, rows, alerts, crashes>>
        /\ node' = [node EXCEPT ![c].life = "live", ![c].state = state]
    BY DEF Restore
  <1>2. /\ node[c] \in NodeChannel /\ node \in [Channels -> NodeChannel]
        /\ mailbox \in Seq(Messages)
        /\ CInv(mailbox, c, node[c], map[c], rows, alerts[c], crashes)
        /\ node[c].published \in SUBSET Published /\ node[c].toLocal \in Nat
    BY NodeBefore
  <1>3. node' = [node EXCEPT ![c] = nd]
    BY <1>1, <1>2 DEF Entered
  <1>4. /\ state \in States /\ state # "WAIT_FOR_INIT_INTERNAL"
        /\ state \in Opening \cup Open => node[c].published = {}
    BY DEF States, Opening, Open
  <1> HIDE DEF state
  <1>5. /\ nd \in NodeChannel /\ nd.life = "live" /\ nd.state = state
        /\ nd.published = node[c].published
    BY <1>2, <1>4, NodeEntered
  <1> HIDE DEF nd
  <1>6. /\ m1 \in Messages /\ m1.channel = c /\ m1.type = "ChannelRestored"
        /\ m2 \in Messages /\ m2.channel = c /\ m2.type = "ShortChannelIdAssigned"
    BY DEF Msg, Messages
  <1>7. /\ m3 \in Messages /\ m3.channel = c /\ m3.type = "ChannelStateChanged"
        /\ m3.previous = "WAIT_FOR_INIT_INTERNAL" /\ m3.current = nd.state
        /\ m3.published = nd.published
    <2>1. "WAIT_FOR_INIT_INTERNAL" \in States
      BY DEF States
    <2> QED BY <1>2, <1>4, <1>5, <2>1, ChangeIsMessage
  <1> HIDE DEF m1, m2, m3, short
  <1>8. /\ b1 \in Seq(Messages) /\ b2 \in Seq(Messages) /\ mailbox' = Append(b2, m3)
        /\ ms \in Seq(Messages) /\ mailbox' = mailbox \o ms
        /\ Len(mailbox) + Len(ms) <= MaxMailbox
        /\ \A j \in 1 .. Len(ms) : ms[j].channel = c
    <2>1. CASE short
      <3>1. ms = <<m1, m2, m3>>
        <4>1. <<m1>> \o <<m2>> = <<m1, m2>> /\ <<m1, m2>> \o <<m3>> = <<m1, m2, m3>>
          BY <1>6, <1>7, Two, Three
        <4> QED BY <2>1, <4>1
      <3> QED BY <1>1, <1>2, <1>6, <1>7, <2>1, <3>1 DEF PublishAll
    <2>2. CASE ~short
      <3>1. ms = <<m1, m3>>
        <4>1. <<m1>> \o <<>> = <<m1>>
          BY <1>6
        <4>2. <<m1>> \o <<m3>> = <<m1, m3>>
          BY <1>6, <1>7, Two
        <4> QED BY <2>2, <4>1, <4>2
      <3> QED BY <1>1, <1>2, <1>6, <1>7, <2>2, <3>1 DEF PublishAll
    <2> QED BY <2>1, <2>2
  <1>9. /\ Added(mailbox, b1, c, m1, Len(mailbox) + 1)
        /\ Continues(b1, b2, c)
        /\ Added(b2, mailbox', c, m3, Len(b2) + 1)
    <2>1. Added(mailbox, b1, c, m1, Len(mailbox) + 1)
      BY <1>2, <1>6, AppendedOwn
    <2> HIDE DEF b1
    <2>2. b2 = b1 \/ (Added(b1, b2, c, m2, Len(b1) + 1) /\ m2.type = "ShortChannelIdAssigned")
      BY <1>6, <1>8, AppendedOwn
    <2>3. Continues(b1, b2, c)
      BY <2>2 DEF Continues
    <2> HIDE DEF b2
    <2> QED BY <1>7, <1>8, <2>1, <2>3, AppendedOwn
  <1>10. CInv(mailbox', c, nd, map[c], rows, alerts[c], crashes)
    <2> HIDE DEF b1, b2
    <2> QED BY <1>1, <1>2, <1>4, <1>5, <1>6, <1>7, <1>9, Introduced
  <1> HIDE DEF ms
  <1> QED BY <1>1, <1>3, <1>5, <1>8, <1>10, NodeKeeps

LEMMA LockKeeps ==
    ASSUME IInv, NEW c \in Channels, Lock(c)
    PROVE  IInv' /\ RefundKept
  <1> DEFINE nd == Locked(node[c], "NORMAL")
             note == Msg("ShortChannelIdAssigned", c)
             m == StateChanged(c, "WAIT_FOR_FUNDING_CONFIRMED", "NORMAL", {})
  <1>1. /\ node[c].life = "live" /\ node[c].state = "WAIT_FOR_FUNDING_CONFIRMED"
        /\ PublishAll(<<note, m>>)
        /\ UNCHANGED <<map, rows, alerts, crashes>>
        /\ node' = [node EXCEPT ![c].state = "NORMAL", ![c].locked = TRUE]
    BY DEF Lock
  <1>2. /\ node[c] \in NodeChannel /\ node \in [Channels -> NodeChannel]
        /\ node[c].published = {} /\ node[c].toLocal \in Nat
    BY <1>1, NodeBefore DEF Open
  <1>3. node' = [node EXCEPT ![c] = nd]
    BY <1>1, <1>2 DEF Locked
  <1>4. nd \in NodeChannel /\ nd.life = "live" /\ nd.state = "NORMAL" /\ nd.published = {}
    BY <1>1, <1>2, NodeLocked DEF States, Open
  <1> HIDE DEF nd
  <1>5. m = StateChanged(c, node[c].state, nd.state, nd.published)
    BY <1>1, <1>4
  <1>6. note \in Messages /\ note.channel = c /\ note.type \in Notes
    BY DEF Msg, Messages, Notes
  <1>7. m \in Messages
    BY <1>2, ChangeIsMessage DEF States, Open
  <1> HIDE DEF note, m
  <1>8. PublishAll(<<note>> \o <<m>>) /\ NoteOrNone(c, <<note>>) /\ <<note>> \in Seq(Messages)
    <2>1. <<note>> \o <<m>> = <<note, m>>
      BY <1>6, <1>7, Two
    <2>2. NoteOrNone(c, <<note>>)
      BY <1>6 DEF NoteOrNone
    <2>3. PublishAll(<<note>> \o <<m>>)
      BY <1>1, <2>1
    <2> QED BY <1>6, <2>2, <2>3
  <1>9. MayGo(node[c], nd.state, nd.published, <<note>>)
    BY <1>1, <1>2, <1>4 DEF MayGo, Identified, Open
  <1> QED BY <1>1, <1>3, <1>4, <1>5, <1>8, <1>9, MovesKeep

\* A step without a note.
LEMMA SilentGotoKeeps ==
    ASSUME IInv, NEW c \in Channels, NEW from, NEW to \in States, NEW published \in SUBSET Published,
           Goto(c, from, to, published, <<>>), MayGo(node[c], to, published, <<>>)
    PROVE  IInv' /\ RefundKept
  <1>1. NoteOrNone(c, <<>>) /\ <<>> \in Seq(Messages)
    BY DEF NoteOrNone
  <1> QED BY <1>1, GotoKeeps

LEMMA NotedGotoKeeps ==
    ASSUME IInv, NEW c \in Channels, NEW from, NEW to \in States, NEW published \in SUBSET Published,
           NEW note \in Messages, note.channel = c, note.type \in Notes,
           Goto(c, from, to, published, <<note>>), MayGo(node[c], to, published, <<note>>)
    PROVE  IInv' /\ RefundKept
  <1>1. NoteOrNone(c, <<note>>) /\ <<note>> \in Seq(Messages)
    BY DEF NoteOrNone
  <1> QED BY <1>1, GotoKeeps

LEMMA OpeningKeeps ==
    ASSUME IInv, NEW c \in Channels, AssignId(c) \/ Fund(c)
    PROVE  IInv' /\ RefundKept
  <1>0. /\ {} \in SUBSET Published
        /\ {"WAIT_FOR_FUNDING_SIGNED", "WAIT_FOR_FUNDING_CONFIRMED"} \subseteq States
    BY DEF States, Opening, Open
  <1>1. CASE AssignId(c)
    <2> DEFINE note == Msg("ChannelIdAssigned", c)
    <2>1. Goto(c, {"WAIT_FOR_ACCEPT_CHANNEL"}, "WAIT_FOR_FUNDING_SIGNED", {}, <<note>>)
      BY <1>1 DEF AssignId
    <2>2. node[c].published = {}
      BY <2>1, NodeBefore DEF Goto, Opening
    <2>3. /\ note \in Messages /\ note.channel = c /\ note.type = "ChannelIdAssigned"
          /\ note.type \in Notes
      BY DEF Msg, Messages, Notes
    <2> HIDE DEF note
    <2>4. MayGo(node[c], "WAIT_FOR_FUNDING_SIGNED", {}, <<note>>)
      BY <2>2, <2>3 DEF MayGo
    <2> QED BY <1>0, <2>1, <2>3, <2>4, NotedGotoKeeps
  <1>2. CASE Fund(c)
    <2>1. Goto(c, {"WAIT_FOR_FUNDING_SIGNED"}, "WAIT_FOR_FUNDING_CONFIRMED", {}, <<>>)
      BY <1>2 DEF Fund
    <2>2. node[c].state = "WAIT_FOR_FUNDING_SIGNED" /\ node[c].published = {}
      BY <2>1, NodeBefore DEF Goto, Opening
    <2>3. MayGo(node[c], "WAIT_FOR_FUNDING_CONFIRMED", {}, <<>>)
      BY <2>2 DEF MayGo, Identified
    <2> QED BY <1>0, <2>1, <2>3, SilentGotoKeeps
  <1> QED BY <1>1, <1>2

LEMMA ConnectionKeeps ==
    ASSUME IInv, NEW c \in Channels, Disconnect(c) \/ Reconnect(c)
    PROVE  IInv' /\ RefundKept
  <1> DEFINE back == IF node[c].locked THEN "NORMAL" ELSE "WAIT_FOR_FUNDING_CONFIRMED"
  <1>1. PICK to \in Open : Goto(c, Open, to, {}, <<>>)
    <2>1. CASE Disconnect(c)
      <3>1. Goto(c, Open, "OFFLINE", {}, <<>>)
        BY <2>1 DEF Disconnect, Goto
      <3> QED BY <3>1 DEF Open
    <2>2. CASE Reconnect(c)
      <3>1. Goto(c, Open, back, {}, <<>>)
        BY <2>2 DEF Reconnect, Goto, Open
      <3>2. back \in Open
        BY DEF Open
      <3> QED BY <3>1, <3>2
    <2> QED BY <2>1, <2>2
  <1>2. node[c].state \in Open
    BY <1>1 DEF Goto
  <1>3. node[c].published = {}
    BY <1>2, NodeBefore
  <1>4. MayGo(node[c], to, {}, <<>>)
    BY <1>2, <1>3 DEF MayGo, Identified, Open
  <1>5. to \in States /\ {} \in SUBSET Published
    BY DEF States
  <1> QED BY <1>1, <1>4, <1>5, SilentGotoKeeps

LEMMA AbortKeeps ==
    ASSUME IInv, NEW c \in Channels, Abort(c)
    PROVE  IInv' /\ RefundKept
  <1>1. PICK ms \in {<<>>} \cup {<<ChannelFailed(c, text)>> : text \in BOOLEAN} :
           Goto(c, Opening, "CLOSED", {}, ms)
    BY DEF Abort
  <1>2. node[c].published = {}
    <2>1. node[c].state \in Opening
      BY <1>1 DEF Goto
    <2> QED BY <2>1, NodeBefore
  <1>3. MayGo(node[c], "CLOSED", {}, ms)
    BY <1>2 DEF MayGo, Identified, Opening, Open
  <1>4. "CLOSED" \in States /\ {} \in SUBSET Published
    BY DEF States
  <1>5. CASE ms = <<>>
    BY <1>1, <1>3, <1>4, <1>5, SilentGotoKeeps
  <1>6. ASSUME NEW text \in BOOLEAN, ms = <<ChannelFailed(c, text)>>
        PROVE  IInv' /\ RefundKept
    <2> DEFINE note == ChannelFailed(c, text)
    <2>1. note \in Messages /\ note.channel = c /\ note.type \in Notes
      BY DEF ChannelFailed, Messages, Notes
    <2>2. Goto(c, Opening, "CLOSED", {}, <<note>>) /\ MayGo(node[c], "CLOSED", {}, <<note>>)
      BY <1>1, <1>3, <1>6
    <2> HIDE DEF note
    <2> QED BY <1>4, <2>1, <2>2, NotedGotoKeeps
  <1> QED BY <1>5, <1>6

LEMMA ClosingKeeps ==
    ASSUME IInv, NEW c \in Channels,
           \/ \E text \in BOOLEAN : Error(c, text)
           \/ \E kind \in Published \ {"local"} : Close(c, kind)
    PROVE  IInv' /\ RefundKept
  <1>0. "CLOSING" \in States /\ "local" \in Published
    BY DEF States, Published
  <1>1. ASSUME NEW kind \in Published, NEW ms, Goto(c, Open, "CLOSING", {kind}, ms)
        PROVE  MayGo(node[c], "CLOSING", {kind}, ms)
    <2>1. node[c].state \in Open
      BY <1>1 DEF Goto
    <2> QED BY <2>1 DEF MayGo, Identified, Opening, Open
  <1>2. ASSUME NEW text \in BOOLEAN, Error(c, text)
        PROVE  IInv' /\ RefundKept
    <2> DEFINE note == ChannelFailed(c, text)
    <2>1. note \in Messages /\ note.channel = c /\ note.type \in Notes
      BY DEF ChannelFailed, Messages, Notes
    <2>2. Goto(c, Open, "CLOSING", {"local"}, <<note>>)
      BY <1>2 DEF Error
    <2> HIDE DEF note
    <2>3. MayGo(node[c], "CLOSING", {"local"}, <<note>>)
      BY <1>0, <1>1, <2>2
    <2> QED BY <1>0, <2>1, <2>2, <2>3, NotedGotoKeeps
  <1>3. ASSUME NEW kind \in Published \ {"local"}, Close(c, kind)
        PROVE  IInv' /\ RefundKept
    <2>1. Goto(c, Open, "CLOSING", {kind}, <<>>)
      BY <1>3 DEF Close
    <2>2. MayGo(node[c], "CLOSING", {kind}, <<>>)
      BY <1>1, <2>1
    <2> QED BY <1>0, <2>1, <2>2, SilentGotoKeeps
  <1> QED BY <1>2, <1>3

LEMMA FinishKeeps ==
    ASSUME IInv, NEW c \in Channels, Finish(c)
    PROVE  IInv' /\ RefundKept
  <1>1. Goto(c, {"CLOSING"}, "CLOSED", node[c].published, <<>>)
    BY DEF Finish
  <1>2. node[c].published \in SUBSET Published /\ "CLOSED" \in States
    BY NodeBefore DEF States
  <1>3. MayGo(node[c], "CLOSED", node[c].published, <<>>)
    BY DEF MayGo, Identified, Opening, Open
  <1> QED BY <1>1, <1>2, <1>3, SilentGotoKeeps

\* The node's channel changes, and nothing is published.
LEMMA CompeteKeeps ==
    ASSUME IInv, NEW c \in Channels, NEW kind \in Published, Compete(c, kind)
    PROVE  IInv' /\ RefundKept
  <1> DEFINE published == node[c].published \cup {kind}
             nd == PublishedAs(node[c], published)
  <1>1. /\ node[c].life = "live" /\ node[c].state = "CLOSING"
        /\ UNCHANGED <<map, rows, alerts, mailbox, crashes>>
        /\ node' = [node EXCEPT ![c].published = published]
    BY NodeBefore DEF Compete
  <1>2. /\ node[c] \in NodeChannel /\ node \in [Channels -> NodeChannel]
        /\ mailbox \in Seq(Messages) /\ published \in SUBSET Published
        /\ CInv(mailbox, c, node[c], map[c], rows, alerts[c], crashes)
    BY NodeBefore
  <1>3. node' = [node EXCEPT ![c] = nd]
    BY <1>1, <1>2 DEF PublishedAs
  <1>4. /\ nd \in NodeChannel /\ nd.life = node[c].life /\ nd.state = node[c].state
        /\ nd.published # {}
    <2> HIDE DEF published
    <2>1. nd \in NodeChannel /\ nd.life = node[c].life /\ nd.state = node[c].state
          /\ nd.published = published
      BY <1>2, NodePublished
    <2> QED BY <2>1 DEF published
  <1> HIDE DEF nd
  <1>5. CInv(mailbox, c, nd, map[c], rows, alerts[c], crashes)
    <2>1. LeadsTo(mailbox, c, nd, map[c])
      BY <1>2, <1>4 DEF CInv, LeadsTo
    <2>2. HasFinalId(mailbox, c, nd, map[c])
          /\ TableOK(mailbox, c, nd, map[c], rows, crashes)
      BY <1>2, <1>4 DEF CInv, HasFinalId, TableOK
    <2>3. AlertsOK(mailbox, c, nd, alerts[c])
      BY <1>1, <1>2, <1>4 DEF CInv, AlertsOK, Opening, Open
    <2> QED BY <1>2, <2>1, <2>2, <2>3 DEF CInv
  <1>6. /\ <<>> \in Seq(Messages) /\ mailbox' = mailbox \o <<>>
        /\ Len(mailbox) + Len(<<>>) <= MaxMailbox /\ \A j \in 1 .. Len(<<>>) : <<>>[j].channel = c
        /\ CInv(mailbox', c, nd, map[c], rows, alerts[c], crashes)
    BY <1>1, <1>2, <1>5 DEF IInv, TypeOK
  <1> QED BY <1>1, <1>3, <1>4, <1>6, NodeKeeps

LEMMA ConfirmKeeps ==
    ASSUME IInv, NEW c \in Channels, Confirm(c)
    PROVE  IInv' /\ RefundKept
  <1> DEFINE nd == Confirmed(node[c])
             m == Msg("LocalCommitConfirmed", c)
             n == Len(mailbox) + 1
  <1>1. /\ node[c].life = "live" /\ PublishAll(<<m>>)
        /\ UNCHANGED <<map, rows, alerts, crashes>>
        /\ node' = [node EXCEPT ![c].confirmed = TRUE]
    BY DEF Confirm
  <1>2. /\ node[c] \in NodeChannel /\ node \in [Channels -> NodeChannel]
        /\ mailbox \in Seq(Messages)
        /\ CInv(mailbox, c, node[c], map[c], rows, alerts[c], crashes)
    BY NodeBefore
  <1>3. node' = [node EXCEPT ![c] = nd]
    BY <1>1, <1>2 DEF Confirmed
  <1>4. /\ nd \in NodeChannel /\ nd.life = node[c].life /\ nd.state = node[c].state
        /\ nd.published = node[c].published
    BY <1>2, NodeConfirmed
  <1> HIDE DEF nd
  <1>5. m \in Messages /\ m.channel = c /\ m.type \in Notes
    BY DEF Msg, Messages, Notes
  <1> HIDE DEF m
  <1>6. /\ mailbox' = Append(mailbox, m) /\ mailbox' = mailbox \o <<m>>
        /\ <<m>> \in Seq(Messages) /\ Len(mailbox) + Len(<<m>>) <= MaxMailbox
        /\ \A j \in 1 .. Len(<<m>>) : <<m>>[j].channel = c
    BY <1>1, <1>2, <1>5 DEF PublishAll
  <1>7. Added(mailbox, mailbox', c, m, n)
    BY <1>2, <1>5, <1>6, AppendedOwn
  <1>8. CInv(mailbox', c, node[c], map[c], rows, alerts[c], crashes)
    BY <1>1, <1>2, <1>5, <1>7, NoteAdded
  <1>9. CInv(mailbox', c, nd, map[c], rows, alerts[c], crashes)
    BY <1>4, <1>8, NodeElsewhere
  <1> QED BY <1>1, <1>3, <1>4, <1>6, <1>9, NodeKeeps

LEMMA SignKeeps ==
    ASSUME IInv, NEW c \in Channels, NEW toLocal \in Nat, NEW flying \in Nat,
           Sign(c, toLocal, flying)
    PROVE  IInv' /\ RefundKept
  <1> DEFINE nd == Signed(node[c], toLocal, flying)
             m == [type |-> "ChannelSignatureReceived", channel |-> c,
                   toLocal |-> toLocal, flying |-> flying]
             n == Len(mailbox) + 1
  <1>1. /\ node[c].life = "live" /\ PublishAll(<<m>>)
        /\ UNCHANGED <<map, rows, alerts, crashes>>
        /\ node' = [node EXCEPT ![c].toLocal = toLocal, ![c].flying = flying]
    BY DEF Sign
  <1>2. /\ node[c] \in NodeChannel /\ node \in [Channels -> NodeChannel]
        /\ mailbox \in Seq(Messages)
        /\ CInv(mailbox, c, node[c], map[c], rows, alerts[c], crashes)
    BY NodeBefore
  <1>3. node' = [node EXCEPT ![c] = nd]
    BY <1>1, <1>2 DEF Signed
  <1>4. /\ nd \in NodeChannel /\ nd.life = node[c].life /\ nd.state = node[c].state
        /\ nd.published = node[c].published
    BY <1>2, NodeSigned
  <1> HIDE DEF nd
  <1>5. m \in Messages /\ m.channel = c /\ m.type \in Notes
    BY DEF Messages, Notes
  <1> HIDE DEF m
  <1>6. /\ mailbox' = Append(mailbox, m) /\ mailbox' = mailbox \o <<m>>
        /\ <<m>> \in Seq(Messages) /\ Len(mailbox) + Len(<<m>>) <= MaxMailbox
        /\ \A j \in 1 .. Len(<<m>>) : <<m>>[j].channel = c
    BY <1>1, <1>2, <1>5 DEF PublishAll
  <1>7. Added(mailbox, mailbox', c, m, n)
    BY <1>2, <1>5, <1>6, AppendedOwn
  <1>8. CInv(mailbox', c, node[c], map[c], rows, alerts[c], crashes)
    BY <1>1, <1>2, <1>5, <1>7, NoteAdded
  <1>9. CInv(mailbox', c, nd, map[c], rows, alerts[c], crashes)
    BY <1>4, <1>8, NodeElsewhere
  <1> QED BY <1>1, <1>3, <1>4, <1>6, <1>9, NodeKeeps

LEMMA StopKeeps ==
    ASSUME IInv, NEW c \in Channels, Stop(c)
    PROVE  IInv' /\ RefundKept
  <1> DEFINE nd == Lives(node[c], "gone")
             m == Msg("Terminated", c)
             n == Len(mailbox) + 1
  <1>1. /\ node[c].life = "live" /\ PublishAll(<<m>>)
        /\ UNCHANGED <<map, rows, alerts, crashes>>
        /\ node' = [node EXCEPT ![c].life = "gone"]
    BY DEF Stop
  <1>2. /\ node[c] \in NodeChannel /\ node \in [Channels -> NodeChannel]
        /\ mailbox \in Seq(Messages)
        /\ CInv(mailbox, c, node[c], map[c], rows, alerts[c], crashes)
    BY NodeBefore
  <1>3. node' = [node EXCEPT ![c] = nd]
    BY <1>1, <1>2 DEF Lives
  <1>4. /\ nd \in NodeChannel /\ nd.life = "gone" /\ nd.state = node[c].state
        /\ nd.published = node[c].published
    BY <1>2, NodeLives
  <1> HIDE DEF nd
  <1>5. m \in Messages /\ m.channel = c /\ m.type = "Terminated"
    BY DEF Msg, Messages
  <1> HIDE DEF m
  <1>6. /\ mailbox' = Append(mailbox, m) /\ mailbox' = mailbox \o <<m>>
        /\ <<m>> \in Seq(Messages) /\ Len(mailbox) + Len(<<m>>) <= MaxMailbox
        /\ \A j \in 1 .. Len(<<m>>) : <<m>>[j].channel = c
    BY <1>1, <1>2, <1>5 DEF PublishAll
  <1>7. Added(mailbox, mailbox', c, m, n)
    BY <1>2, <1>5, <1>6, AppendedOwn
  <1>8. CInv(mailbox', c, nd, map[c], rows, alerts[c], crashes)
    BY <1>1, <1>2, <1>4, <1>5, <1>7, TerminationAdded
  <1> QED BY <1>1, <1>3, <1>4, <1>6, <1>8, NodeKeeps

\* An empty mailbox and an empty map: only the rows and the alerts are left.
LEMMA CrashKeeps ==
    ASSUME IInv, Crash
    PROVE  IInv' /\ RefundKept
  <1>1. /\ crashes < MaxCrashes /\ crashes' = crashes + 1
        /\ map' = [c \in Channels |-> Null] /\ mailbox' = <<>>
        /\ rows' = rows /\ alerts' = alerts
        /\ TypeOK /\ crashes \in Nat /\ MaxCrashes \in Nat /\ MaxMailbox \in Nat
    BY TrackerAssumption DEF Crash, IInv, TypeOK
  <1>2. \A c \in Channels :
          /\ node'[c] \in NodeChannel
          /\ node'[c].state = node[c].state /\ node'[c].published = node[c].published
          /\ \/ node'[c].life \in {"stored", "gone"}
             \/ node'[c].life = node[c].life /\ node[c].life # "live"
    <2> TAKE c \in Channels
    <2> DEFINE kept == node[c].state \in Open \/ node[c].published # {}
    <2>0. node'[c] = CASE node[c].life = "live" /\ kept -> Lives(node[c], "stored")
                       [] node[c].life = "live" /\ node[c].state \notin Open /\ node[c].published = {}
                            -> Lives(node[c], "gone")
                       [] OTHER -> node[c]
      BY DEF Crash, Lives
    <2>1. node[c] \in NodeChannel
      BY <1>1 DEF TypeOK
    <2>2. CASE node[c].life = "live" /\ kept
      <3>1. node'[c] = Lives(node[c], "stored")
        BY <2>0, <2>2
      <3> QED BY <2>1, <3>1, NodeLives
    <2>3. CASE node[c].life = "live" /\ ~kept
      <3>1. node'[c] = Lives(node[c], "gone")
        BY <2>0, <2>3
      <3> QED BY <2>1, <3>1, NodeLives
    <2>4. CASE node[c].life # "live"
      <3>1. node'[c] = node[c]
        BY <2>0, <2>4
      <3> QED BY <2>1, <2>4, <3>1
    <2> QED BY <2>2, <2>3, <2>4
  <1>3. node' \in [Channels -> NodeChannel]
    <2>1. node' = [c \in Channels |-> node'[c]]
      BY DEF Crash
    <2> QED BY <1>2, <2>1
  <1>4. ChannelsOK'
    <2> SUFFICES ASSUME NEW c \in Channels
                 PROVE  CInv(mailbox', c, node'[c], map'[c], rows', alerts'[c], crashes')
      BY DEF ChannelsOK
    <2>0. /\ CInv(mailbox, c, node[c], map[c], rows, alerts[c], crashes)
          /\ map'[c] = Null /\ crashes' # 0
      BY <1>1 DEF IInv, ChannelsOK
    <2>1. At(mailbox', c) = {} /\ Changes(mailbox', c) = {}
      BY <1>1 DEF At, Changes
    <2>2. InOrder(mailbox', c) /\ StartsFrom(mailbox', c, map'[c])
      BY <2>1 DEF InOrder, StartsFrom
    <2>3. node'[c].life # "live" /\ (node'[c].life = "unused" => node[c].life = "unused")
      BY <1>2
    <2>4. LeadsTo(mailbox', c, node'[c], map'[c])
      BY <1>2, <2>0, <2>1, <2>3 DEF CInv, LeadsTo
    <2>5. HasFinalId(mailbox', c, node'[c], map'[c]) /\ ObjectOK(c, map'[c], rows')
      BY <2>0, <2>3 DEF HasFinalId, ObjectOK
    <2>6. TableOK(mailbox', c, node'[c], map'[c], rows', crashes')
      BY <1>1, <2>0, <2>1, <2>3 DEF CInv, TableOK
    <2>7. AlertsOK(mailbox', c, node'[c], alerts'[c])
      BY <1>1, <1>2, <2>0, <2>1 DEF CInv, AlertsOK
    <2> QED BY <2>2, <2>4, <2>5, <2>6, <2>7 DEF CInv
  <1>5. mailbox' \in Seq(Messages) /\ Len(mailbox') = 0
    BY <1>1
  <1>6. TypeOK'
    BY <1>1, <1>3, <1>5 DEF TypeOK
  <1>7. RefundKept
    BY <1>1 DEF RefundKept
  <1> QED BY <1>4, <1>5, <1>6, <1>7 DEF IInv

-----------------------------------------------------------------------------
(* The theorems.                                                           *)

LEMMA InitOK == Init => IInv
  <1> SUFFICES ASSUME Init PROVE IInv
    OBVIOUS
  <1> DEFINE nd == [life |-> "unused", state |-> "WAIT_FOR_INIT_INTERNAL", locked |-> FALSE,
                    published |-> {}, confirmed |-> FALSE,
                    toLocal |-> Funding, flying |-> 0]
  <1>1. /\ node = [c \in Channels |-> nd] /\ map = [c \in Channels |-> Null]
        /\ rows = [i \in ChannelIds |-> Null] /\ mailbox = <<>> /\ crashes = 0
        /\ alerts = [c \in Channels |-> [count |-> 0, complete |-> TRUE]]
    BY DEF Init
  <1>2. nd \in NodeChannel
    BY TrackerAssumption DEF NodeChannel, States
  <1>3. /\ nd.life = "unused" /\ nd.state = "WAIT_FOR_INIT_INTERNAL" /\ nd.published = {}
    OBVIOUS
  <1> HIDE DEF nd
  <1>4. mailbox \in Seq(Messages) /\ Len(mailbox) = 0
    BY <1>1
  <1>5. TypeOK
    <2>1. alerts \in [Channels -> [count : Nat, complete : BOOLEAN]]
      BY <1>1
    <2> QED BY <1>1, <1>2, <1>4, <2>1, TrackerAssumption DEF TypeOK
  <1>6. ChannelsOK
    <2> SUFFICES ASSUME NEW c \in Channels
                 PROVE  CInv(mailbox, c, node[c], map[c], rows, alerts[c], crashes)
      BY DEF ChannelsOK
    <2>1. /\ node[c] = nd /\ map[c] = Null /\ crashes = 0
          /\ alerts[c].count = 0 /\ alerts[c].complete
      BY <1>1
    <2>2. At(mailbox, c) = {} /\ Changes(mailbox, c) = {}
      BY <1>1 DEF At, Changes
    <2>3. RowsOf(c, rows) = {}
      <3>1. \A i \in {Temp(c), Final(c)} : rows[i] = Null
        BY <1>1, Ids
      <3> QED BY <3>1 DEF RowsOf, Temp, Final
    <2>4. InOrder(mailbox, c) /\ StartsFrom(mailbox, c, map[c])
      BY <2>2 DEF InOrder, StartsFrom
    <2>5. LeadsTo(mailbox, c, node[c], map[c]) /\ HasFinalId(mailbox, c, node[c], map[c])
      BY <1>3, <2>1, <2>2 DEF LeadsTo, HasFinalId
    <2>6. ObjectOK(c, map[c], rows)
      BY <2>1 DEF ObjectOK
    <2>7. TableOK(mailbox, c, node[c], map[c], rows, crashes)
      BY <1>3, <2>1, <2>2, <2>3 DEF TableOK
    <2>8. AlertsOK(mailbox, c, node[c], alerts[c])
      BY <1>3, <2>1, <2>2 DEF AlertsOK
    <2> QED BY <2>4, <2>5, <2>6, <2>7, <2>8 DEF CInv
  <1> QED BY <1>4, <1>5, <1>6 DEF IInv

LEMMA NextKeeps == IInv /\ [Next]_vars => IInv' /\ RefundKept
  <1> SUFFICES ASSUME IInv, [Next]_vars PROVE IInv' /\ RefundKept
    OBVIOUS
  <1>1. ASSUME NEW c \in Channels, NodeStep(c)
        PROVE  IInv' /\ RefundKept
    <2>1. CASE Create(c)
      BY <2>1, CreateKeeps
    <2>2. CASE AssignId(c) \/ Fund(c)
      BY <2>2, OpeningKeeps
    <2>3. CASE Lock(c)
      BY <2>3, LockKeeps
    <2>4. CASE Disconnect(c) \/ Reconnect(c)
      BY <2>4, ConnectionKeeps
    <2>5. CASE Abort(c)
      BY <2>5, AbortKeeps
    <2>6. CASE \/ \E text \in BOOLEAN : Error(c, text)
               \/ \E kind \in Published \ {"local"} : Close(c, kind)
      BY <2>6, ClosingKeeps
    <2>7. CASE \E kind \in Published : Compete(c, kind)
      BY <2>7, CompeteKeeps
    <2>8. CASE Confirm(c)
      BY <2>8, ConfirmKeeps
    <2>9. CASE Finish(c)
      BY <2>9, FinishKeeps
    <2>10. CASE Stop(c)
      BY <2>10, StopKeeps
    <2>11. CASE Restore(c)
      BY <2>11, RestoreKeeps
    <2>12. CASE \E toLocal, flying \in 0 .. Funding : Sign(c, toLocal, flying)
      BY <2>12, SignKeeps, TrackerAssumption
    <2> QED BY <1>1, <2>1, <2>2, <2>3, <2>4, <2>5, <2>6, <2>7, <2>8, <2>9, <2>10, <2>11, <2>12 DEF NodeStep
  <1>2. ASSUME NEW c \in Channels, Receive(c)
        PROVE  IInv' /\ RefundKept
    <2>1. CASE HandleChannelCreated(c)
      BY <2>1, CreatedKeeps
    <2>2. CASE HandleChannelRestored(c)
      BY <2>2, RestoredKeeps
    <2>3. CASE HandleChannelIdAssigned(c)
      BY <2>3, IdAssignedKeeps
    <2>4. CASE HandleShortChannelIdAssigned(c)
      BY <2>4, ShortIdAssignedKeeps
    <2>5. CASE HandleChannelFailed(c)
      BY <2>5, FailedKeeps
    <2>6. CASE HandleLocalCommitConfirmed(c)
      BY <2>6, CommitConfirmedKeeps
    <2>7. CASE HandleChannelStateChanged(c)
      BY <2>7, StateChangedKeeps
    <2>8. CASE HandleTerminated(c)
      BY <2>8, TerminatedKeeps
    <2>9. CASE HandleChannelSignatureReceived(c)
      BY <2>9, SignatureReceivedKeeps
    <2> QED BY <1>2, <2>1, <2>2, <2>3, <2>4, <2>5, <2>6, <2>7, <2>8, <2>9 DEF Receive
  <1>3. CASE Crash
    BY <1>3, CrashKeeps
  <1>4. CASE UNCHANGED vars
    <2>1. UNCHANGED <<node, map, rows, alerts, mailbox, crashes>>
      BY <1>4 DEF vars
    <2>2. IInv'
      BY <2>1 DEF IInv, TypeOK, ChannelsOK
    <2> QED BY <2>1, <2>2 DEF RefundKept
  <1> QED BY <1>1, <1>2, <1>3, <1>4 DEF Next

-----------------------------------------------------------------------------
(* The balance.                                                            *)

\* The messages that write the balance of a channel, and what they write.
WritesBalance(m) ==
    \/ m.type = "ChannelSignatureReceived"
    \/ m.type = "ChannelStateChanged" /\ HasCommitments(m)

Accounts(box, c) == {i \in At(box, c) : WritesBalance(box[i])}

Shown(m) == IF m.type = "ChannelSignatureReceived" THEN m.toLocal + m.flying ELSE m.toLocal

Covers(amount, nd) == amount \in {nd.toLocal, nd.toLocal + nd.flying}

NotOpenYet == Opening \cup {"WAIT_FOR_INIT_INTERNAL"}

\* The last message that writes the balance has it from the node as it is; with
\* none left, the map has it, and before the channel is open there is none.
BalanceOK(box, c, nd, lc) ==
    /\ \A i \in Accounts(box, c) :
          (\A j \in Accounts(box, c) : j <= i) => Covers(Shown(box[i]), nd)
    /\ nd.life = "live" /\ nd.state \in Open /\ Accounts(box, c) = {} =>
          lc # Null /\ Covers(lc.balanceMsat, nd)
    /\ nd.state \in NotOpenYet =>
          Accounts(box, c) = {} /\ (lc # Null => lc.balanceMsat = 0)

BalancesOK == \A c \in Channels : BalanceOK(mailbox, c, node[c], map[c])

LEMMA AccountsAppended ==
    ASSUME NEW box \in Seq(Messages), NEW ms \in Seq(Messages), NEW c
    PROVE  LET after == box \o ms
           IN /\ Len(box) \in Nat
              /\ \A i \in Accounts(box, c) : /\ i \in Nat /\ i <= Len(box)
                                             /\ i \in Accounts(after, c) /\ after[i] = box[i]
              /\ \A i \in Accounts(after, c) :
                    \/ i \in Accounts(box, c)
                    \/ /\ i - Len(box) \in Accounts(ms, c)
                       /\ after[i] = ms[i - Len(box)]
              /\ \A j \in Accounts(ms, c) : /\ j \in Nat /\ j >= 1 /\ j <= Len(ms)
                                            /\ Len(box) + j \in Accounts(after, c)
  <1> DEFINE after == box \o ms
             l == Len(box)
  <1>1. /\ Len(after) = l + Len(ms) /\ l \in Nat /\ Len(ms) \in Nat
        /\ \A i \in 1 .. l : after[i] = box[i]
        /\ \A i \in 1 .. Len(after) : i > l => after[i] = ms[i - l]
        /\ \A j \in 1 .. Len(ms) : after[l + j] = ms[j]
    OBVIOUS
  <1> HIDE DEF after
  <1>2. \A i \in Accounts(box, c) : /\ i \in Nat /\ i <= l
                                    /\ i \in Accounts(after, c) /\ after[i] = box[i]
    BY <1>1 DEF Accounts, At
  <1>3. \A i \in Accounts(after, c) :
           i \in Accounts(box, c) \/ (i - l \in Accounts(ms, c) /\ after[i] = ms[i - l])
    <2> TAKE i \in Accounts(after, c)
    <2>1. i \in 1 .. Len(after) /\ after[i].channel = c /\ WritesBalance(after[i])
      BY DEF Accounts, At
    <2>2. CASE i <= l
      BY <1>1, <2>1, <2>2 DEF Accounts, At
    <2>3. CASE i > l
      <3>1. i - l \in 1 .. Len(ms) /\ after[i] = ms[i - l]
        BY <1>1, <2>1, <2>3
      <3> QED BY <2>1, <3>1 DEF Accounts, At
    <2> QED BY <1>1, <2>1, <2>2, <2>3
  <1>4. \A j \in Accounts(ms, c) : /\ j \in Nat /\ j >= 1 /\ j <= Len(ms)
                                   /\ l + j \in Accounts(after, c)
    <2> TAKE j \in Accounts(ms, c)
    <2>1. j \in 1 .. Len(ms) /\ ms[j].channel = c /\ WritesBalance(ms[j])
      BY DEF Accounts, At
    <2>2. l + j \in 1 .. Len(after) /\ after[l + j] = ms[j]
      BY <1>1, <2>1
    <2> QED BY <1>1, <2>1, <2>2 DEF Accounts, At
  <1> QED BY <1>1, <1>2, <1>3, <1>4 DEF after

\* A step of the node from nd to nd2 that publishes ms says what it changes: either
\* no amount and no message about one, or the last message has it.
SaysBalance(ms, c, nd, nd2) ==
    \/ /\ Accounts(ms, c) = {}
       /\ nd2.toLocal = nd.toLocal /\ nd2.flying = nd.flying
       /\ nd2.life = "live" /\ nd2.state \in Open => nd.life = "live" /\ nd.state \in Open
       /\ nd2.state \in NotOpenYet => nd.state \in NotOpenYet
    \/ /\ Len(ms) \in Accounts(ms, c)
       /\ Covers(Shown(ms[Len(ms)]), nd2)
       /\ nd2.state \notin NotOpenYet

LEMMA BalanceSent ==
    ASSUME NEW box \in Seq(Messages), NEW ms \in Seq(Messages), NEW c, NEW nd, NEW nd2, NEW lc,
           BalanceOK(box, c, nd, lc), SaysBalance(ms, c, nd, nd2)
    PROVE  BalanceOK(box \o ms, c, nd2, lc)
  <1> DEFINE after == box \o ms
             l == Len(box)
  <1>1. /\ l \in Nat
        /\ \A i \in Accounts(box, c) : /\ i \in Nat /\ i <= l
                                       /\ i \in Accounts(after, c) /\ after[i] = box[i]
        /\ \A i \in Accounts(after, c) :
              i \in Accounts(box, c) \/ (i - l \in Accounts(ms, c) /\ after[i] = ms[i - l])
        /\ \A j \in Accounts(ms, c) : /\ j \in Nat /\ j >= 1 /\ j <= Len(ms)
                                      /\ l + j \in Accounts(after, c)
    BY AccountsAppended
  <1>2. after \in Seq(Messages) /\ Len(ms) \in Nat /\ \A i \in Accounts(after, c) : i \in Nat
    BY DEF Accounts, At
  <1> HIDE DEF after, l
  <1>3. CASE Accounts(ms, c) = {}
    <2>1. Len(ms) \notin Accounts(ms, c)
      BY <1>3
    <2>2. /\ nd2.toLocal = nd.toLocal /\ nd2.flying = nd.flying
          /\ nd2.life = "live" /\ nd2.state \in Open => nd.life = "live" /\ nd.state \in Open
          /\ nd2.state \in NotOpenYet => nd.state \in NotOpenYet
      BY <2>1 DEF SaysBalance
    <2>3. /\ Accounts(after, c) = Accounts(box, c)
          /\ \A i \in Accounts(box, c) : after[i] = box[i]
      BY <1>1, <1>3
    <2>4. \A x : Covers(x, nd2) <=> Covers(x, nd)
      BY <2>2 DEF Covers
    <2> QED BY <2>2, <2>3, <2>4 DEF BalanceOK, after
  <1>4. CASE Accounts(ms, c) # {}
    <2>1. /\ Len(ms) \in Accounts(ms, c) /\ Covers(Shown(ms[Len(ms)]), nd2)
          /\ nd2.state \notin NotOpenYet
      BY <1>4 DEF SaysBalance
    <2>2. l + Len(ms) \in Accounts(after, c) /\ Len(ms) >= 1
      BY <1>1, <2>1
    <2>3. ASSUME NEW i \in Accounts(after, c), \A j \in Accounts(after, c) : j <= i
          PROVE  Covers(Shown(after[i]), nd2)
      <3>1. l + Len(ms) <= i /\ i \in Nat
        BY <1>2, <2>2, <2>3
      <3>2. i \notin Accounts(box, c)
        BY <1>1, <1>2, <2>2, <3>1
      <3>3. i - l \in Accounts(ms, c) /\ after[i] = ms[i - l]
        BY <1>1, <3>2
      <3>4. i - l = Len(ms)
        <4>1. i - l <= Len(ms)
          BY <1>1, <3>3
        <4>2. l \in Nat /\ Len(ms) \in Nat
          BY <1>1, <1>2
        <4> QED BY <3>1, <4>1, <4>2
      <3> QED BY <2>1, <3>3, <3>4
    <2> QED BY <2>1, <2>2, <2>3 DEF BalanceOK, after
  <1> QED BY <1>3, <1>4

\* What the handler of h, an event of the channel nd, leaves of the balance of lc.
TakesBalance(h, nd, lc, lc2) ==
    \/ WritesBalance(h) /\ lc2 # Null /\ lc2.balanceMsat = Shown(h)
    \/ /\ ~WritesBalance(h)
       /\ lc2 # Null /\ lc2.balanceMsat = IF lc # Null THEN lc.balanceMsat ELSE 0
    \/ ~WritesBalance(h) /\ lc2 = Null /\ nd.life = "gone"

LEMMA BalanceTaken ==
    ASSUME NEW box \in Seq(Messages), box # <<>>, NEW c, NEW nd, NEW lc, NEW lc2,
           BalanceOK(box, c, nd, lc),
           \/ Head(box).channel # c /\ lc2 = lc
           \/ Head(box).channel = c /\ TakesBalance(Head(box), nd, lc, lc2)
    PROVE  BalanceOK(Tail(box), c, nd, lc2)
  <1> DEFINE after == Tail(box)
             h == Head(box)
  <1>1. /\ Shifted(box, after, c) /\ box[1] = h
        /\ 1 \in At(box, c) <=> h.channel = c
    BY TailShifts
  <1> HIDE DEF after, h
  <1>2. \A i \in Accounts(after, c) : /\ i \in Nat /\ i >= 1 /\ i + 1 \in Accounts(box, c)
                                      /\ after[i] = box[i + 1]
    BY <1>1 DEF Accounts, Shifted
  <1>3. \A k \in Accounts(box, c) : /\ k \in Nat /\ k >= 1
                                    /\ k = 1 \/ k - 1 \in Accounts(after, c)
    <2> TAKE k \in Accounts(box, c)
    <2>1. k \in At(box, c) /\ WritesBalance(box[k])
      BY DEF Accounts
    <2>2. k \in Nat /\ k >= 1 /\ (k = 1 \/ k - 1 \in At(after, c))
      BY <1>1, <2>1 DEF Shifted
    <2>3. k - 1 \in At(after, c) => after[k - 1] = box[k]
      BY <1>1, <2>2 DEF Shifted
    <2> QED BY <2>1, <2>2, <2>3 DEF Accounts
  <1>4. 1 \in Accounts(box, c) <=> h.channel = c /\ WritesBalance(h)
    BY <1>1 DEF Accounts
  <1>5. ASSUME NEW i \in Accounts(after, c), \A j \in Accounts(after, c) : j <= i
        PROVE  Covers(Shown(after[i]), nd)
    <2>1. i \in Nat /\ i + 1 \in Accounts(box, c) /\ after[i] = box[i + 1]
      BY <1>2
    <2>2. ASSUME NEW k \in Accounts(box, c)
          PROVE  k <= i + 1
      <3>1. k \in Nat /\ (k = 1 \/ k - 1 \in Accounts(after, c))
        BY <1>3
      <3>2. CASE k = 1
        BY <2>1, <3>2
      <3>3. CASE k - 1 \in Accounts(after, c)
        <4>1. k - 1 <= i
          BY <1>5, <3>3
        <4> QED BY <2>1, <3>1, <4>1
      <3> QED BY <3>1, <3>2, <3>3
    <2> QED BY <2>1, <2>2 DEF BalanceOK
  <1>6. ASSUME nd.life = "live", nd.state \in Open, Accounts(after, c) = {}
        PROVE  lc2 # Null /\ Covers(lc2.balanceMsat, nd)
    <2>1. \A k \in Accounts(box, c) : k = 1
      BY <1>3, <1>6
    <2>2. CASE 1 \in Accounts(box, c)
      <3>1. Covers(Shown(h), nd)
        BY <1>1, <2>1, <2>2 DEF BalanceOK
      <3>2. h.channel = c /\ WritesBalance(h)
        BY <1>4, <2>2
      <3>3. lc2 # Null /\ lc2.balanceMsat = Shown(h)
        BY <3>2 DEF TakesBalance, h
      <3> QED BY <3>1, <3>3
    <2>3. CASE 1 \notin Accounts(box, c)
      <3>1. lc # Null /\ Covers(lc.balanceMsat, nd)
        BY <1>6, <2>1, <2>3 DEF BalanceOK
      <3>2. h.channel = c => ~WritesBalance(h)
        BY <1>4, <2>3
      <3> QED BY <1>6, <3>1, <3>2 DEF TakesBalance, h
    <2> QED BY <2>2, <2>3
  <1>7. ASSUME nd.state \in NotOpenYet
        PROVE  Accounts(after, c) = {} /\ (lc2 # Null => lc2.balanceMsat = 0)
    <2>1. Accounts(box, c) = {} /\ (lc # Null => lc.balanceMsat = 0)
      BY <1>7 DEF BalanceOK
    <2>2. Accounts(after, c) = {}
      BY <1>2, <2>1
    <2>3. h.channel = c => ~WritesBalance(h)
      BY <1>4, <2>1
    <2> QED BY <2>1, <2>2, <2>3 DEF TakesBalance, h
  <1> QED BY <1>5, <1>6, <1>7 DEF BalanceOK, after

\* A handler of an event of channel c, and what it leaves in the map.
LEMMA HandlerBalance ==
    ASSUME IInv, BalancesOK, NEW c \in Channels, NEW type, Event(type, c), node' = node,
           NEW y, map' = [map EXCEPT ![c] = y],
           TakesBalance(Head(mailbox), node[c], map[c], y)
    PROVE  BalancesOK'
  <1>1. /\ mailbox # <<>> /\ mailbox' = Tail(mailbox) /\ mailbox \in Seq(Messages)
        /\ Head(mailbox).channel = c /\ map \in [Channels -> LocalChannel \cup {Null}]
    BY DEF Event, IInv, TypeOK
  <1> SUFFICES ASSUME NEW d \in Channels
               PROVE  BalanceOK(mailbox', d, node'[d], map'[d])
    BY DEF BalancesOK
  <1>2. BalanceOK(mailbox, d, node[d], map[d])
    BY DEF BalancesOK
  <1>3. CASE d = c
    <2>1. map'[d] = y /\ node'[d] = node[c]
      BY <1>1, <1>3
    <2> QED BY <1>1, <1>2, <1>3, <2>1, BalanceTaken
  <1>4. CASE d # c
    <2>1. map'[d] = map[d] /\ node'[d] = node[d]
      BY <1>1, <1>4
    <2> QED BY <1>1, <1>2, <1>4, <2>1, BalanceTaken
  <1> QED BY <1>3, <1>4

\* The setters that leave the balance alone.
LEMMA BalanceKept ==
    ASSUME NEW lc \in LocalChannel, NEW v
    PROVE  /\ [lc EXCEPT !.channelId = v].balanceMsat = lc.balanceMsat
           /\ [lc EXCEPT !.shortChannelId = v].balanceMsat = lc.balanceMsat
           /\ [lc EXCEPT !.refundAtBlock = v].balanceMsat = lc.balanceMsat
           /\ [lc EXCEPT !.closingErrorMessage = v].balanceMsat = lc.balanceMsat
  BY DEF LocalChannel

LEMMA SavedBalance ==
    ASSUME NEW lc, NEW v, lc = [v EXCEPT !.id = v.channelId] \/ lc = v, v \in LocalChannel
    PROVE  lc.balanceMsat = v.balanceMsat
  BY DEF LocalChannel

\* An object of the map that is saved, with or without a new balance.
LEMMA PutBalance ==
    ASSUME IInv, BalancesOK, NEW c \in Channels, NEW type, Event(type, c), node' = node,
           NEW x \in LocalChannel, map' = [map EXCEPT ![c] = Saved(x)],
           map[c] # Null,
           x.balanceMsat = IF WritesBalance(Head(mailbox)) THEN Shown(Head(mailbox))
                                                           ELSE map[c].balanceMsat
    PROVE  BalancesOK'
  <1>1. Saved(x) \in LocalChannel /\ Saved(x).balanceMsat = x.balanceMsat
    <2>1. Saved(x) = [x EXCEPT !.id = x.channelId] \/ Saved(x) = x
      BY DEF Saved
    <2>2. x.channelId \in ChannelIds \cup {Null}
      BY DEF LocalChannel
    <2>3. Saved(x) \in LocalChannel
      BY <2>1, <2>2, Zenon DEF LocalChannel
    <2> QED BY <2>1, <2>3, SavedBalance
  <1>2. Saved(x) # Null
    BY <1>1, NullAssumption
  <1>3. TakesBalance(Head(mailbox), node[c], map[c], Saved(x))
    BY <1>1, <1>2 DEF TakesBalance
  <1> QED BY <1>3, HandlerBalance

LEMMA IntroductionBalance ==
    ASSUME IInv, BalancesOK, NEW c \in Channels, HandleChannelCreated(c) \/ HandleChannelRestored(c)
    PROVE  BalancesOK'
  <1> DEFINE new == NewLocalChannel
             x == [new EXCEPT !.channelId = Temp(c)]
             y == [new EXCEPT !.channelId = Final(c)]
             z == [y EXCEPT !.refundAtBlock = rows[y.channelId].refundAtBlock]
  <1>1. PICK type \in Introductions : Event(type, c) /\ node' = node
    BY DEF HandleChannelCreated, HandleChannelRestored, Introductions
  <1>2. map[c] = Null /\ Head(mailbox).type \in Introductions
    BY <1>1, EventTaken
  <1>3. ~WritesBalance(Head(mailbox))
    BY <1>2 DEF WritesBalance, Introductions
  <1>4. getChannel(c) = new /\ new \in LocalChannel /\ new.balanceMsat = 0
    BY <1>2, NewObject DEF getChannel, NewLocalChannel
  <1>5. /\ x \in LocalChannel /\ x.balanceMsat = 0
        /\ y \in LocalChannel /\ y.balanceMsat = 0 /\ y.channelId = Final(c)
    <2> HIDE DEF new
    <2>1. x.balanceMsat = 0 /\ y.balanceMsat = 0
      BY <1>4, BalanceKept
    <2> QED BY <1>4, <2>1, Renamed, Ids
  <1>6. rows[Final(c)] # Null => z \in LocalChannel /\ z.balanceMsat = 0
    <2> HIDE DEF y
    <2>1. z.balanceMsat = 0
      BY <1>5, BalanceKept
    <2>2. rows[Final(c)] # Null => rows[y.channelId].refundAtBlock \in BOOLEAN
      BY <1>5, Ids DEF IInv, TypeOK, LocalChannel
    <2>3. ASSUME rows[y.channelId].refundAtBlock \in BOOLEAN
          PROVE  z \in LocalChannel
      BY <1>5, <2>3, Zenon DEF LocalChannel
    <2> QED BY <2>1, <2>2, <2>3
  <1>7. PICK v \in LocalChannel : map' = [map EXCEPT ![c] = v] /\ v.balanceMsat = 0
    <2>1. CASE HandleChannelCreated(c)
      <3>1. map' = [map EXCEPT ![c] = x]
        BY <1>4, <2>1 DEF HandleChannelCreated, Temp
      <3> HIDE DEF x
      <3> QED BY <1>5, <3>1
    <2>2. CASE HandleChannelRestored(c)
      <3>1. map' = [map EXCEPT ![c] = restored(y)]
        BY <1>4, <2>2 DEF HandleChannelRestored, Final
      <3>2. restored(y) = IF rows[y.channelId] # Null THEN z ELSE y
        BY DEF restored
      <3> HIDE DEF y, z
      <3> QED BY <1>5, <1>6, <3>1, <3>2
    <2> QED BY <2>1, <2>2
  <1>8. TakesBalance(Head(mailbox), node[c], map[c], v)
    BY <1>2, <1>3, <1>7, NullAssumption DEF TakesBalance
  <1> QED BY <1>1, <1>7, <1>8, HandlerBalance

LEMMA NoteBalance ==
    ASSUME IInv, BalancesOK, NEW c \in Channels,
           \/ HandleChannelIdAssigned(c)
           \/ HandleShortChannelIdAssigned(c)
           \/ HandleChannelFailed(c)
           \/ HandleLocalCommitConfirmed(c)
    PROVE  BalancesOK'
  <1>1. PICK type \in Notes \ {"ChannelSignatureReceived"} : Event(type, c) /\ node' = node
    BY DEF HandleChannelIdAssigned, HandleShortChannelIdAssigned, HandleChannelFailed,
           HandleLocalCommitConfirmed, Notes
  <1>2. map[c] # Null /\ map[c] \in LocalChannel /\ Head(mailbox).type = type
    BY <1>1, EventTaken DEF Notes, Introductions
  <1>3. ~WritesBalance(Head(mailbox))
    BY <1>1, <1>2 DEF WritesBalance, Notes
  <1>4. ASSUME NEW x \in LocalChannel, x.balanceMsat = map[c].balanceMsat, PutAndSave(c, x)
        PROVE  BalancesOK'
    BY <1>1, <1>2, <1>3, <1>4, PutBalance DEF PutAndSave
  <1>5. ASSUME NEW x \in LocalChannel, x.balanceMsat = map[c].balanceMsat,
               map' = [map EXCEPT ![c] = x]
        PROVE  BalancesOK'
    <2>1. TakesBalance(Head(mailbox), node[c], map[c], x)
      BY <1>2, <1>3, <1>5, NullAssumption DEF TakesBalance
    <2> QED BY <1>1, <1>5, <2>1, HandlerBalance
  <1>6. CASE HandleChannelIdAssigned(c)
    <2> DEFINE x == [map[c] EXCEPT !.channelId = Final(c)]
    <2>1. PutAndSave(c, x)
      BY <1>2, <1>6 DEF HandleChannelIdAssigned, Final
    <2>2. x \in LocalChannel /\ x.balanceMsat = map[c].balanceMsat
      BY <1>2, Ids, Renamed, BalanceKept
    <2> QED BY <1>4, <2>1, <2>2
  <1>7. CASE HandleShortChannelIdAssigned(c)
    <2> DEFINE x == [map[c] EXCEPT !.shortChannelId = TRUE]
    <2>1. map' = [map EXCEPT ![c] = x]
      BY <1>2, <1>7 DEF HandleShortChannelIdAssigned
    <2>2. x \in LocalChannel /\ x.balanceMsat = map[c].balanceMsat
      BY <1>2, ShortIdSet, BalanceKept
    <2> HIDE DEF x
    <2> QED BY <1>5, <2>1, <2>2
  <1>8. CASE HandleChannelFailed(c)
    <2> DEFINE x == [map[c] EXCEPT !.closingErrorMessage = TRUE]
    <2>1. PutAndSave(c, x) \/ map' = [map EXCEPT ![c] = map[c]]
      <3>1. CASE Head(mailbox).text
        BY <1>2, <1>8, <3>1 DEF HandleChannelFailed, PutAndSave, getChannel
      <3>2. CASE ~Head(mailbox).text
        BY <1>8, <3>2 DEF HandleChannelFailed, IInv, TypeOK
      <3> QED BY <3>1, <3>2
    <2>2. x \in LocalChannel /\ x.balanceMsat = map[c].balanceMsat
      BY <1>2, ErrorSet, BalanceKept
    <2> HIDE DEF x
    <2> QED BY <1>2, <1>4, <1>5, <2>1, <2>2
  <1>9. CASE HandleLocalCommitConfirmed(c)
    <2> DEFINE x == [map[c] EXCEPT !.refundAtBlock = TRUE]
    <2>1. PutAndSave(c, x)
      BY <1>2, <1>9 DEF HandleLocalCommitConfirmed
    <2>2. x \in LocalChannel /\ x.balanceMsat = map[c].balanceMsat
      BY <1>2, RefundSet, BalanceKept
    <2> QED BY <1>4, <2>1, <2>2
  <1> QED BY <1>6, <1>7, <1>8, <1>9

LEMMA SignatureBalance ==
    ASSUME IInv, BalancesOK, NEW c \in Channels, HandleChannelSignatureReceived(c)
    PROVE  BalancesOK'
  <1> DEFINE m == Head(mailbox)
             b == m.toLocal + m.flying
             x == [map[c] EXCEPT !.balanceMsat = b]
  <1>1. Event("ChannelSignatureReceived", c) /\ node' = node
    BY DEF HandleChannelSignatureReceived
  <1>2. /\ map[c] # Null /\ map[c] \in LocalChannel
        /\ m \in Messages /\ m.type = "ChannelSignatureReceived"
    BY <1>1, EventTaken DEF Introductions
  <1>3. b \in Nat /\ WritesBalance(m) /\ Shown(m) = b
    BY <1>2 DEF Messages, WritesBalance, Shown
  <1>4. map' = [map EXCEPT ![c] = x]
    BY <1>2 DEF HandleChannelSignatureReceived, signatureReceived
  <1> HIDE DEF b
  <1>5. x \in LocalChannel /\ x.balanceMsat = b
    <2>1. x \in LocalChannel
      BY <1>2, <1>3, BalanceSet
    <2>2. x.balanceMsat = b
      BY <1>2 DEF LocalChannel
    <2> QED BY <2>1, <2>2
  <1> HIDE DEF x
  <1>6. TakesBalance(m, node[c], map[c], x)
    BY <1>3, <1>5, NullAssumption DEF TakesBalance
  <1> QED BY <1>1, <1>4, <1>6, HandlerBalance

LEMMA ChangeBalance ==
    ASSUME IInv, BalancesOK, NEW c \in Channels, HandleChannelStateChanged(c)
    PROVE  BalancesOK'
  <1> DEFINE m == Head(mailbox)
             x == stateChanged(map[c], m)
  <1>1. Event("ChannelStateChanged", c) /\ node' = node
    BY DEF HandleChannelStateChanged
  <1>2. /\ map[c] # Null /\ map[c] \in LocalChannel /\ m.type = "ChannelStateChanged"
        /\ m \in Messages
    BY <1>1, EventTaken DEF Introductions
  <1>3. map' = [map EXCEPT ![c] = Saved(x)]
    BY <1>2 DEF HandleChannelStateChanged, getChannel, PutAndSave
  <1>4. m.current \in States /\ m.toLocal \in Nat
    BY <1>2 DEF Messages
  <1>5. x \in LocalChannel
    BY <1>2, <1>4, StateSet
  <1>6. x.balanceMsat = IF HasCommitments(m) THEN m.toLocal ELSE map[c].balanceMsat
    BY <1>2 DEF stateChanged, LocalChannel
  <1>7. x.balanceMsat = IF WritesBalance(m) THEN Shown(m) ELSE map[c].balanceMsat
    BY <1>2, <1>6 DEF WritesBalance, Shown
  <1> HIDE DEF x
  <1> QED BY <1>1, <1>2, <1>3, <1>5, <1>7, PutBalance

LEMMA TerminationBalance ==
    ASSUME IInv, BalancesOK, NEW c \in Channels, HandleTerminated(c)
    PROVE  BalancesOK'
  <1>1. Event("Terminated", c) /\ node' = node /\ map' = [map EXCEPT ![c] = Null]
    BY DEF HandleTerminated
  <1>2. /\ Head(mailbox).type = "Terminated"
        /\ Shifted(mailbox, mailbox', c) /\ 1 \in At(mailbox, c) /\ mailbox[1] = Head(mailbox)
        /\ CInv(mailbox, c, node[c], map[c], rows, alerts[c], crashes)
    BY <1>1, EventTaken
  <1>3. node[c].life = "gone"
    BY <1>2, FirstMessage
  <1>4. TakesBalance(Head(mailbox), node[c], map[c], Null)
    BY <1>2, <1>3 DEF TakesBalance, WritesBalance
  <1> QED BY <1>1, <1>4, HandlerBalance

LEMMA ReceiveBalance ==
    ASSUME IInv, BalancesOK, NEW c \in Channels, Receive(c)
    PROVE  BalancesOK'
  BY IntroductionBalance, NoteBalance, SignatureBalance, ChangeBalance, TerminationBalance
     DEF Receive

\* A step of channel c of the node that publishes ms.
LEMMA NodeBalance ==
    ASSUME IInv, BalancesOK, NEW c \in Channels, NEW nd, NEW ms \in Seq(Messages),
           node' = [node EXCEPT ![c] = nd], map' = map, mailbox' = mailbox \o ms,
           \A j \in 1 .. Len(ms) : ms[j].channel = c,
           SaysBalance(ms, c, node[c], nd)
    PROVE  BalancesOK'
  <1>1. mailbox \in Seq(Messages) /\ node \in [Channels -> NodeChannel]
    BY DEF IInv, TypeOK
  <1> SUFFICES ASSUME NEW d \in Channels
               PROVE  BalanceOK(mailbox', d, node'[d], map'[d])
    BY DEF BalancesOK
  <1>2. BalanceOK(mailbox, d, node[d], map[d])
    BY DEF BalancesOK
  <1>3. CASE d = c
    <2>1. node'[d] = nd
      BY <1>1, <1>3
    <2> QED BY <1>1, <1>2, <1>3, <2>1, BalanceSent
  <1>4. CASE d # c
    <2>1. node'[d] = node[d]
      BY <1>1, <1>4
    <2>2. Accounts(ms, d) = {}
      BY <1>4 DEF Accounts, At
    <2>3. SaysBalance(ms, d, node[d], node[d])
      BY <2>2 DEF SaysBalance
    <2> QED BY <1>1, <1>2, <2>1, <2>3, BalanceSent
  <1> QED BY <1>3, <1>4

\* What is announced of a channel that goes from state old to state new after ms.
Announced(ms, c, old, new, published) ==
    \/ new \in Open
    \/ published # {} /\ new \notin NotOpenYet
    \/ /\ new \notin Open /\ published = {} /\ Accounts(ms, c) = {}
       /\ new \in NotOpenYet => old \in NotOpenYet

\* A step that leaves the amounts alone, and ends in an announced state.
LEMMA AnnouncedBalance ==
    ASSUME IInv, BalancesOK, NEW c \in Channels, NEW nd \in NodeChannel, NEW ms \in Seq(Messages),
           NEW m, NEW previous \in States,
           node' = [node EXCEPT ![c] = nd], map' = map, PublishAll(ms \o <<m>>),
           m = StateChanged(c, previous, nd.state, nd.published),
           nd.toLocal = node[c].toLocal, nd.flying = node[c].flying,
           \A j \in 1 .. Len(ms) : ms[j].channel = c,
           Announced(ms, c, node[c].state, nd.state, nd.published)
    PROVE  BalancesOK'
  <1> DEFINE all == ms \o <<m>>
  <1>1. mailbox \in Seq(Messages) /\ node[c].toLocal \in Nat
    BY NodeBefore
  <1>2. /\ m \in Messages /\ m.channel = c /\ m.type = "ChannelStateChanged"
        /\ m.current = nd.state /\ m.published = nd.published /\ m.toLocal = nd.toLocal
    BY <1>1, ChangeIsMessage DEF NodeChannel
  <1>3. /\ all \in Seq(Messages) /\ mailbox' = mailbox \o all /\ Len(all) = Len(ms) + 1
        /\ all[Len(all)] = m /\ Len(ms) \in Nat
        /\ \A j \in 1 .. Len(all) : all[j].channel = c
        /\ \A j \in 1 .. Len(all) : j # Len(all) => j \in 1 .. Len(ms) /\ all[j] = ms[j]
    <2>1. mailbox' = mailbox \o all
      BY DEF PublishAll
    <2>2. /\ all \in Seq(Messages) /\ Len(all) = Len(ms) + 1 /\ all[Len(all)] = m
          /\ Len(ms) \in Nat
          /\ \A j \in 1 .. Len(ms) : all[j] = ms[j]
      BY <1>2
    <2> HIDE DEF all
    <2>3. \A j \in 1 .. Len(all) : j # Len(all) => j \in 1 .. Len(ms)
      BY <2>2
    <2>4. \A j \in 1 .. Len(all) : all[j].channel = c
      BY <1>2, <2>2, <2>3
    <2> QED BY <2>1, <2>2, <2>3, <2>4
  <1> HIDE DEF all
  <1>4. SaysBalance(all, c, node[c], nd)
    <2>1. CASE \/ nd.state \in Open
               \/ nd.published # {} /\ nd.state \notin NotOpenYet
      <3>1. WritesBalance(m) /\ Shown(m) = nd.toLocal
        BY <1>2, <2>1 DEF WritesBalance, HasCommitments, Shown
      <3>2. Len(all) \in Accounts(all, c)
        BY <1>3, <3>1 DEF Accounts, At
      <3>3. nd.state \notin NotOpenYet
        BY <2>1 DEF NotOpenYet, Opening, Open
      <3> QED BY <1>3, <3>1, <3>2, <3>3 DEF SaysBalance, Covers
    <2>2. CASE /\ nd.state \notin Open /\ nd.published = {} /\ Accounts(ms, c) = {}
               /\ nd.state \in NotOpenYet => node[c].state \in NotOpenYet
      <3>1. ~WritesBalance(m)
        BY <1>2, <2>2 DEF WritesBalance, HasCommitments
      <3>2. Accounts(all, c) = {}
        <4> SUFFICES ASSUME NEW j \in Accounts(all, c) PROVE FALSE
          OBVIOUS
        <4>1. j \in 1 .. Len(all) /\ WritesBalance(all[j])
          BY DEF Accounts, At
        <4>2. j # Len(all)
          BY <1>3, <3>1, <4>1
        <4>3. j \in Accounts(ms, c)
          BY <1>3, <4>1, <4>2 DEF Accounts, At
        <4> QED BY <2>2, <4>3
      <3> QED BY <2>2, <3>2 DEF SaysBalance
    <2> QED BY <2>1, <2>2 DEF Announced
  <1> QED BY <1>3, <1>4, NodeBalance

LEMMA GotoBalance ==
    ASSUME IInv, BalancesOK, NEW c \in Channels, NEW from, NEW to \in States,
           NEW published \in SUBSET Published, NEW ms \in Seq(Messages),
           Goto(c, from, to, published, ms),
           \A j \in 1 .. Len(ms) : ms[j].channel = c /\ ~WritesBalance(ms[j]),
           to \in Open \cup {"CLOSING", "CLOSED"} \/ node[c].state \in NotOpenYet,
           to \in NotOpenYet => published = {}
    PROVE  BalancesOK'
  <1> DEFINE nd == Moved(node[c], to, published)
             m  == StateChanged(c, node[c].state, to, published)
  <1>1. /\ PublishAll(ms \o <<m>>) /\ map' = map
        /\ node' = [node EXCEPT ![c].state = to, ![c].published = published]
    BY DEF Goto
  <1>2. node[c] \in NodeChannel /\ node \in [Channels -> NodeChannel] /\ node[c].state \in States
    BY NodeBefore
  <1>3. node' = [node EXCEPT ![c] = nd]
    BY <1>1, <1>2 DEF Moved
  <1>4. /\ nd \in NodeChannel /\ nd.state = to /\ nd.published = published
        /\ nd.toLocal = node[c].toLocal /\ nd.flying = node[c].flying
    BY <1>2, NodeMoved
  <1> HIDE DEF nd
  <1>5. m = StateChanged(c, node[c].state, nd.state, nd.published)
    BY <1>4
  <1> HIDE DEF m
  <1>6. Accounts(ms, c) = {}
    BY DEF Accounts, At
  <1>7. to \in Open \cup {"CLOSING", "CLOSED"} => to \notin NotOpenYet
    BY DEF Open, NotOpenYet, Opening
  <1>8. Announced(ms, c, node[c].state, nd.state, nd.published)
    BY <1>4, <1>6, <1>7 DEF Announced
  <1>9. \A j \in 1 .. Len(ms) : ms[j].channel = c
    OBVIOUS
  <1>10. ASSUME NEW previous \in States, m = StateChanged(c, previous, nd.state, nd.published)
         PROVE  BalancesOK'
    BY <1>1, <1>3, <1>4, <1>8, <1>9, <1>10, AnnouncedBalance, ZenonT(40)
  <1> QED BY <1>2, <1>5, <1>10

\* The steps of the node that are a Goto.
LEMMA TransitionBalance ==
    ASSUME IInv, BalancesOK, NEW c \in Channels,
           \/ AssignId(c) \/ Fund(c) \/ Disconnect(c) \/ Reconnect(c) \/ Abort(c) \/ Finish(c)
           \/ \E text \in BOOLEAN : Error(c, text)
           \/ \E kind \in Published \ {"local"} : Close(c, kind)
    PROVE  BalancesOK'
  <1>1. /\ <<>> \in Seq(Messages) /\ {} \in SUBSET Published
        /\ \A j \in 1 .. Len(<<>>) : <<>>[j].channel = c /\ ~WritesBalance(<<>>[j])
        /\ Opening \cup Open \cup {"CLOSING", "CLOSED"} \subseteq States
    BY DEF States
  <1>2. ASSUME NEW from, NEW to \in Open \cup {"CLOSING", "CLOSED"},
               NEW published \in SUBSET Published, Goto(c, from, to, published, <<>>)
        PROVE  BalancesOK'
    <2>1. to \notin NotOpenYet /\ to \in States
      BY <1>1 DEF Open, NotOpenYet, Opening
    <2> QED BY <1>1, <1>2, <2>1, GotoBalance
  <1>3. ASSUME NEW note \in Messages, note.channel = c,
               note.type \in {"ChannelIdAssigned", "ChannelFailed"}
        PROVE  /\ <<note>> \in Seq(Messages)
               /\ \A j \in 1 .. Len(<<note>>) :
                     <<note>>[j].channel = c /\ ~WritesBalance(<<note>>[j])
    <2>1. ~WritesBalance(note)
      BY <1>3 DEF WritesBalance
    <2> QED BY <1>3, <2>1
  <1>4. \A text \in BOOLEAN : /\ ChannelFailed(c, text) \in Messages
                              /\ ChannelFailed(c, text).channel = c
                              /\ ChannelFailed(c, text).type = "ChannelFailed"
    BY DEF ChannelFailed, Messages
  <1>5. CASE AssignId(c)
    <2> DEFINE note == Msg("ChannelIdAssigned", c)
    <2>1. Goto(c, {"WAIT_FOR_ACCEPT_CHANNEL"}, "WAIT_FOR_FUNDING_SIGNED", {}, <<note>>)
      BY <1>5 DEF AssignId
    <2>2. node[c].state \in NotOpenYet /\ "WAIT_FOR_FUNDING_SIGNED" \in States
      BY <1>1, <2>1 DEF Goto, NotOpenYet, Opening
    <2>3. note \in Messages /\ note.channel = c /\ note.type = "ChannelIdAssigned"
      BY DEF Msg, Messages
    <2> HIDE DEF note
    <2>4. /\ <<note>> \in Seq(Messages)
          /\ \A j \in 1 .. Len(<<note>>) :
                <<note>>[j].channel = c /\ ~WritesBalance(<<note>>[j])
      BY <1>3, <2>3
    <2> QED BY <1>1, <2>1, <2>2, <2>4, GotoBalance
  <1>6. CASE Fund(c)
    <2>1. Goto(c, {"WAIT_FOR_FUNDING_SIGNED"}, "WAIT_FOR_FUNDING_CONFIRMED", {}, <<>>)
      BY <1>6 DEF Fund
    <2> QED BY <1>1, <1>2, <2>1 DEF Open
  <1>7. CASE Disconnect(c)
    <2>1. Goto(c, Open \ {"OFFLINE"}, "OFFLINE", {}, <<>>)
      BY <1>7 DEF Disconnect
    <2> QED BY <1>1, <1>2, <2>1 DEF Open
  <1>8. CASE Reconnect(c)
    <2> DEFINE back == IF node[c].locked THEN "NORMAL" ELSE "WAIT_FOR_FUNDING_CONFIRMED"
    <2>1. Goto(c, {"OFFLINE"}, back, {}, <<>>)
      BY <1>8 DEF Reconnect
    <2>2. back \in Open
      BY DEF Open
    <2> HIDE DEF back
    <2> QED BY <1>1, <1>2, <2>1, <2>2
  <1>9. CASE Abort(c)
    <2>1. PICK ms \in {<<>>} \cup {<<ChannelFailed(c, text)>> : text \in BOOLEAN} :
             Goto(c, Opening, "CLOSED", {}, ms)
      BY <1>9 DEF Abort
    <2>2. CASE ms = <<>>
      BY <1>1, <1>2, <2>1, <2>2
    <2>3. ASSUME NEW text \in BOOLEAN, ms = <<ChannelFailed(c, text)>>
          PROVE  BalancesOK'
      <3>1. /\ ms \in Seq(Messages)
            /\ \A j \in 1 .. Len(ms) : ms[j].channel = c /\ ~WritesBalance(ms[j])
        BY <1>3, <1>4, <2>3
      <3>2. "CLOSED" \notin NotOpenYet
        BY DEF NotOpenYet, Opening
      <3> QED BY <1>1, <2>1, <3>1, <3>2, GotoBalance
    <2> QED BY <2>2, <2>3
  <1>10. CASE Finish(c)
    <2>1. Goto(c, {"CLOSING"}, "CLOSED", node[c].published, <<>>)
      BY <1>10 DEF Finish
    <2> QED BY <1>2, <2>1, NodeBefore
  <1>11. ASSUME NEW text \in BOOLEAN, Error(c, text)
         PROVE  BalancesOK'
    <2> DEFINE ms == <<ChannelFailed(c, text)>>
    <2>1. Goto(c, Open, "CLOSING", {"local"}, ms)
      BY <1>11 DEF Error
    <2>2. /\ ms \in Seq(Messages)
          /\ \A j \in 1 .. Len(ms) : ms[j].channel = c /\ ~WritesBalance(ms[j])
      BY <1>3, <1>4
    <2>3. "CLOSING" \notin NotOpenYet /\ {"local"} \in SUBSET Published
      BY DEF NotOpenYet, Opening, Published
    <2> HIDE DEF ms
    <2> QED BY <1>1, <2>1, <2>2, <2>3, GotoBalance
  <1>12. ASSUME NEW kind \in Published \ {"local"}, Close(c, kind)
         PROVE  BalancesOK'
    <2>1. Goto(c, Open, "CLOSING", {kind}, <<>>)
      BY <1>12 DEF Close
    <2> QED BY <1>2, <2>1
  <1> QED BY <1>5, <1>6, <1>7, <1>8, <1>9, <1>10, <1>11, <1>12

LEMMA CreateBalance ==
    ASSUME IInv, BalancesOK, NEW c \in Channels, Create(c)
    PROVE  BalancesOK'
  <1> DEFINE nd == Entered(node[c], "live", "WAIT_FOR_ACCEPT_CHANNEL")
             m1 == Msg("ChannelCreated", c)
             m2 == StateChanged(c, "WAIT_FOR_INIT_INTERNAL", "WAIT_FOR_ACCEPT_CHANNEL", {})
  <1>1. /\ node[c].life = "unused" /\ PublishAll(<<m1, m2>>) /\ map' = map
        /\ node' = [node EXCEPT ![c].life = "live", ![c].state = "WAIT_FOR_ACCEPT_CHANNEL"]
    BY DEF Create
  <1>2. /\ node[c] \in NodeChannel /\ node \in [Channels -> NodeChannel]
        /\ CInv(mailbox, c, node[c], map[c], rows, alerts[c], crashes)
        /\ node[c].toLocal \in Nat
        /\ node[c].state \in Opening \cup Open \cup {"WAIT_FOR_INIT_INTERNAL"} =>
              node[c].published = {}
    BY NodeBefore
  <1>3. node' = [node EXCEPT ![c] = nd]
    BY <1>1, <1>2 DEF Entered
  <1>4. node[c].state = "WAIT_FOR_INIT_INTERNAL" /\ node[c].published = {}
    BY <1>1, <1>2 DEF CInv, LeadsTo
  <1>5. /\ nd \in NodeChannel /\ nd.state = "WAIT_FOR_ACCEPT_CHANNEL" /\ nd.published = {}
        /\ nd.toLocal = node[c].toLocal /\ nd.flying = node[c].flying
    BY <1>2, <1>4, NodeEntered DEF States, Opening
  <1> HIDE DEF nd
  <1>6. m1 \in Messages /\ m1.channel = c /\ ~WritesBalance(m1)
    BY DEF Msg, Messages, WritesBalance
  <1>7. m2 \in Messages
    <2>1. {"WAIT_FOR_INIT_INTERNAL", "WAIT_FOR_ACCEPT_CHANNEL"} \subseteq States
      BY DEF States, Opening
    <2> QED BY <1>2, <2>1, ChangeIsMessage
  <1>8. m2 = StateChanged(c, "WAIT_FOR_INIT_INTERNAL", nd.state, nd.published)
    BY <1>5
  <1> HIDE DEF m1, m2
  <1>9. /\ PublishAll(<<m1>> \o <<m2>>) /\ <<m1>> \in Seq(Messages)
        /\ \A j \in 1 .. Len(<<m1>>) : <<m1>>[j].channel = c
    <2>1. <<m1>> \o <<m2>> = <<m1, m2>>
      BY <1>6, <1>7, Two
    <2>2. PublishAll(<<m1>> \o <<m2>>)
      BY <1>1, <2>1
    <2> QED BY <1>6, <2>2
  <1>10. Accounts(<<m1>>, c) = {}
    BY <1>6 DEF Accounts, At
  <1>11. "WAIT_FOR_INIT_INTERNAL" \in States /\ "WAIT_FOR_INIT_INTERNAL" \in NotOpenYet
         /\ "WAIT_FOR_ACCEPT_CHANNEL" \notin Open
    BY DEF States, NotOpenYet, Open
  <1>12. Announced(<<m1>>, c, node[c].state, nd.state, nd.published)
    BY <1>4, <1>5, <1>10, <1>11 DEF Announced
  <1> QED BY <1>1, <1>3, <1>5, <1>8, <1>9, <1>11, <1>12, AnnouncedBalance

LEMMA RestoreBalance ==
    ASSUME IInv, BalancesOK, NEW c \in Channels, Restore(c)
    PROVE  BalancesOK'
  <1> DEFINE closing == node[c].published # {}
             state == IF closing THEN "CLOSING" ELSE "OFFLINE"
             short == node[c].locked /\ ~closing
             nd == Entered(node[c], "live", state)
             m1 == Msg("ChannelRestored", c)
             m2 == Msg("ShortChannelIdAssigned", c)
             m3 == StateChanged(c, "WAIT_FOR_INIT_INTERNAL", state, node[c].published)
             ms == <<m1>> \o (IF short THEN <<m2>> ELSE <<>>)
  <1>1. /\ PublishAll(ms \o <<m3>>) /\ map' = map
        /\ node' = [node EXCEPT ![c].life = "live", ![c].state = state]
    BY DEF Restore
  <1>2. /\ node[c] \in NodeChannel /\ node \in [Channels -> NodeChannel]
        /\ node[c].published \in SUBSET Published
    BY NodeBefore
  <1>3. node' = [node EXCEPT ![c] = nd]
    BY <1>1, <1>2 DEF Entered
  <1>4. /\ state \in States /\ state \notin NotOpenYet
        /\ state \in Open \/ node[c].published # {}
    BY DEF States, Opening, Open, NotOpenYet
  <1> HIDE DEF state
  <1>5. /\ nd \in NodeChannel /\ nd.state = state /\ nd.published = node[c].published
        /\ nd.toLocal = node[c].toLocal /\ nd.flying = node[c].flying
    BY <1>2, <1>4, NodeEntered
  <1> HIDE DEF nd
  <1>6. m3 = StateChanged(c, "WAIT_FOR_INIT_INTERNAL", nd.state, nd.published)
    BY <1>5
  <1>7. m1 \in Messages /\ m1.channel = c /\ m2 \in Messages /\ m2.channel = c
    BY DEF Msg, Messages
  <1> HIDE DEF m1, m2, m3, short
  <1>8. ms \in Seq(Messages) /\ \A j \in 1 .. Len(ms) : ms[j].channel = c
    BY <1>7
  <1>9. "WAIT_FOR_INIT_INTERNAL" \in States
    BY DEF States
  <1>10. Announced(ms, c, node[c].state, nd.state, nd.published)
    BY <1>4, <1>5 DEF Announced
  <1> HIDE DEF ms
  <1> QED BY <1>1, <1>3, <1>5, <1>6, <1>8, <1>9, <1>10, AnnouncedBalance, ZenonT(40)

LEMMA LockBalance ==
    ASSUME IInv, BalancesOK, NEW c \in Channels, Lock(c)
    PROVE  BalancesOK'
  <1> DEFINE nd == Locked(node[c], "NORMAL")
             note == Msg("ShortChannelIdAssigned", c)
             m == StateChanged(c, "WAIT_FOR_FUNDING_CONFIRMED", "NORMAL", {})
  <1>1. /\ PublishAll(<<note, m>>) /\ map' = map
        /\ node[c].state = "WAIT_FOR_FUNDING_CONFIRMED"
        /\ node' = [node EXCEPT ![c].state = "NORMAL", ![c].locked = TRUE]
    BY DEF Lock
  <1>2. /\ node[c] \in NodeChannel /\ node \in [Channels -> NodeChannel]
        /\ node[c].published = {} /\ node[c].toLocal \in Nat
    BY <1>1, NodeBefore DEF Open
  <1>3. node' = [node EXCEPT ![c] = nd]
    BY <1>1, <1>2 DEF Locked
  <1>4. /\ nd \in NodeChannel /\ nd.state = "NORMAL" /\ nd.published = {}
        /\ nd.toLocal = node[c].toLocal /\ nd.flying = node[c].flying
    BY <1>1, <1>2, NodeLocked DEF States, Open
  <1> HIDE DEF nd
  <1>5. m = StateChanged(c, "WAIT_FOR_FUNDING_CONFIRMED", nd.state, nd.published)
    BY <1>4
  <1>6. note \in Messages /\ note.channel = c
    BY DEF Msg, Messages
  <1>7. m \in Messages /\ "WAIT_FOR_FUNDING_CONFIRMED" \in States /\ "NORMAL" \in Open
    BY <1>2, ChangeIsMessage DEF States, Open
  <1> HIDE DEF note, m
  <1>8. /\ PublishAll(<<note>> \o <<m>>) /\ <<note>> \in Seq(Messages)
        /\ \A j \in 1 .. Len(<<note>>) : <<note>>[j].channel = c
    <2>1. <<note>> \o <<m>> = <<note, m>>
      BY <1>6, <1>7, Two
    <2>2. PublishAll(<<note>> \o <<m>>)
      BY <1>1, <2>1
    <2> QED BY <1>6, <2>2
  <1>9. Announced(<<note>>, c, node[c].state, nd.state, nd.published)
    BY <1>4, <1>7 DEF Announced
  <1> QED BY <1>1, <1>3, <1>4, <1>5, <1>7, <1>8, <1>9, AnnouncedBalance

\* The steps that announce no state.
LEMMA SignBalance ==
    ASSUME IInv, BalancesOK, NEW c \in Channels, NEW toLocal \in Nat, NEW flying \in Nat,
           Sign(c, toLocal, flying)
    PROVE  BalancesOK'
  <1> DEFINE nd == Signed(node[c], toLocal, flying)
             m == [type |-> "ChannelSignatureReceived", channel |-> c,
                   toLocal |-> toLocal, flying |-> flying]
  <1>1. /\ node[c].state = "NORMAL" /\ PublishAll(<<m>>) /\ map' = map
        /\ node' = [node EXCEPT ![c].toLocal = toLocal, ![c].flying = flying]
    BY DEF Sign
  <1>2. node[c] \in NodeChannel /\ node \in [Channels -> NodeChannel]
    BY NodeBefore
  <1>3. node' = [node EXCEPT ![c] = nd]
    BY <1>1, <1>2 DEF Signed
  <1>4. nd.state = "NORMAL" /\ nd.toLocal = toLocal /\ nd.flying = flying
    BY <1>1, <1>2, NodeSigned
  <1> HIDE DEF nd
  <1>5. /\ m \in Messages /\ m.channel = c /\ WritesBalance(m)
        /\ Covers(Shown(m), nd)
    BY <1>4 DEF Messages, WritesBalance, Shown, Covers
  <1> HIDE DEF m
  <1>6. /\ <<m>> \in Seq(Messages) /\ mailbox' = mailbox \o <<m>> /\ Len(<<m>>) = 1
        /\ <<m>>[1] = m /\ \A j \in 1 .. Len(<<m>>) : <<m>>[j].channel = c
    BY <1>1, <1>5 DEF PublishAll
  <1>7. 1 \in Accounts(<<m>>, c)
    BY <1>5, <1>6 DEF Accounts, At
  <1>8. SaysBalance(<<m>>, c, node[c], nd)
    BY <1>4, <1>5, <1>6, <1>7 DEF SaysBalance, NotOpenYet, Opening
  <1> QED BY <1>1, <1>3, <1>6, <1>8, NodeBalance

LEMMA SilentBalance ==
    ASSUME IInv, BalancesOK, NEW c \in Channels,
           (\E kind \in Published : Compete(c, kind)) \/ Confirm(c) \/ Stop(c)
    PROVE  BalancesOK'
  <1>1. /\ node[c] \in NodeChannel /\ node \in [Channels -> NodeChannel]
        /\ node[c].published \in SUBSET Published /\ mailbox \in Seq(Messages)
    BY NodeBefore
  <1>2. ASSUME NEW nd, node' = [node EXCEPT ![c] = nd], map' = map, nd.state = node[c].state,
               nd.life \in {node[c].life, "gone"},
               nd.toLocal = node[c].toLocal, nd.flying = node[c].flying,
               NEW ms \in Seq(Messages), mailbox' = mailbox \o ms,
               \A j \in 1 .. Len(ms) : ms[j].channel = c /\ ~WritesBalance(ms[j])
        PROVE  BalancesOK'
    <2>1. Accounts(ms, c) = {} /\ \A j \in 1 .. Len(ms) : ms[j].channel = c
      BY <1>2 DEF Accounts, At
    <2>2. SaysBalance(ms, c, node[c], nd)
      BY <1>2, <2>1 DEF SaysBalance
    <2> QED BY <1>2, <2>1, <2>2, NodeBalance
  <1>3. ASSUME NEW type \in {"LocalCommitConfirmed", "Terminated"},
               PublishAll(<<Msg(type, c)>>)
        PROVE  /\ <<Msg(type, c)>> \in Seq(Messages) /\ mailbox' = mailbox \o <<Msg(type, c)>>
               /\ \A j \in 1 .. Len(<<Msg(type, c)>>) :
                     /\ <<Msg(type, c)>>[j].channel = c
                     /\ ~WritesBalance(<<Msg(type, c)>>[j])
    <2> DEFINE m == Msg(type, c)
    <2>1. m \in Messages /\ m.channel = c /\ ~WritesBalance(m)
      BY DEF Msg, Messages, WritesBalance
    <2>2. mailbox' = mailbox \o <<m>>
      BY <1>3 DEF PublishAll
    <2> HIDE DEF m
    <2>3. <<m>> \in Seq(Messages) /\ \A j \in 1 .. Len(<<m>>) : <<m>>[j] = m
      BY <2>1
    <2>4. \A j \in 1 .. Len(<<m>>) : <<m>>[j].channel = c /\ ~WritesBalance(<<m>>[j])
      BY <2>1, <2>3
    <2> QED BY <2>2, <2>3, <2>4 DEF m
  <1>4. ASSUME NEW kind \in Published, Compete(c, kind)
        PROVE  BalancesOK'
    <2> DEFINE published == node[c].published \cup {kind}
               nd == PublishedAs(node[c], published)
    <2>1. /\ node' = [node EXCEPT ![c].published = published] /\ map' = map /\ mailbox' = mailbox
      BY <1>1, <1>4 DEF Compete
    <2>2. node' = [node EXCEPT ![c] = nd]
      BY <1>1, <2>1 DEF PublishedAs
    <2>3. published \in SUBSET Published
      BY <1>1
    <2> HIDE DEF published
    <2>4. /\ nd.state = node[c].state /\ nd.life = node[c].life
          /\ nd.toLocal = node[c].toLocal /\ nd.flying = node[c].flying
      BY <1>1, <2>3, NodePublished
    <2> HIDE DEF nd
    <2>5. /\ <<>> \in Seq(Messages) /\ mailbox' = mailbox \o <<>>
          /\ \A j \in 1 .. Len(<<>>) : <<>>[j].channel = c /\ ~WritesBalance(<<>>[j])
      BY <1>1, <2>1
    <2> QED BY <1>2, <2>1, <2>2, <2>4, <2>5
  <1>5. CASE Confirm(c)
    <2> DEFINE nd == Confirmed(node[c])
               ms == <<Msg("LocalCommitConfirmed", c)>>
    <2>1. /\ PublishAll(ms) /\ map' = map /\ node' = [node EXCEPT ![c].confirmed = TRUE]
      BY <1>5 DEF Confirm
    <2>2. node' = [node EXCEPT ![c] = nd]
      BY <1>1, <2>1 DEF Confirmed
    <2>3. /\ nd.state = node[c].state /\ nd.life = node[c].life
          /\ nd.toLocal = node[c].toLocal /\ nd.flying = node[c].flying
      BY <1>1, NodeConfirmed
    <2>4. /\ ms \in Seq(Messages) /\ mailbox' = mailbox \o ms
          /\ \A j \in 1 .. Len(ms) : ms[j].channel = c /\ ~WritesBalance(ms[j])
      BY <1>3, <2>1
    <2> HIDE DEF nd, ms
    <2> QED BY <1>2, <2>1, <2>2, <2>3, <2>4
  <1>6. CASE Stop(c)
    <2> DEFINE nd == Lives(node[c], "gone")
               ms == <<Msg("Terminated", c)>>
    <2>1. /\ PublishAll(ms) /\ map' = map /\ node' = [node EXCEPT ![c].life = "gone"]
      BY <1>6 DEF Stop
    <2>2. node' = [node EXCEPT ![c] = nd]
      BY <1>1, <2>1 DEF Lives
    <2>3. /\ nd.state = node[c].state /\ nd.life = "gone"
          /\ nd.toLocal = node[c].toLocal /\ nd.flying = node[c].flying
      BY <1>1, NodeLives
    <2>4. /\ ms \in Seq(Messages) /\ mailbox' = mailbox \o ms
          /\ \A j \in 1 .. Len(ms) : ms[j].channel = c /\ ~WritesBalance(ms[j])
      BY <1>3, <2>1
    <2> HIDE DEF nd, ms
    <2> QED BY <1>2, <2>1, <2>2, <2>3, <2>4
  <1> QED BY <1>4, <1>5, <1>6

LEMMA CrashBalance ==
    ASSUME IInv, BalancesOK, Crash
    PROVE  BalancesOK'
  <1> SUFFICES ASSUME NEW c \in Channels
               PROVE  BalanceOK(mailbox', c, node'[c], map'[c])
    BY DEF BalancesOK
  <1>1. mailbox' = <<>> /\ map'[c] = Null
    BY DEF Crash
  <1>2. Accounts(mailbox', c) = {}
    BY <1>1 DEF Accounts, At
  <1>3. node'[c].life # "live"
    <2> DEFINE kept == node[c].state \in Open \/ node[c].published # {}
    <2>1. node'[c] = CASE node[c].life = "live" /\ kept -> Lives(node[c], "stored")
                       [] node[c].life = "live" /\ node[c].state \notin Open /\ node[c].published = {}
                            -> Lives(node[c], "gone")
                       [] OTHER -> node[c]
      BY DEF Crash, Lives
    <2>2. node[c] \in NodeChannel
      BY NodeBefore
    <2>3. CASE node[c].life = "live" /\ kept
      <3>1. node'[c] = Lives(node[c], "stored")
        BY <2>1, <2>3
      <3> QED BY <2>2, <3>1, NodeLives
    <2>4. CASE node[c].life = "live" /\ ~kept
      <3>1. node'[c] = Lives(node[c], "gone")
        BY <2>1, <2>4
      <3> QED BY <2>2, <3>1, NodeLives
    <2>5. CASE node[c].life # "live"
      BY <2>1, <2>5
    <2> QED BY <2>3, <2>4, <2>5
  <1> QED BY <1>1, <1>2, <1>3 DEF BalanceOK

LEMMA InitBalance == Init => BalancesOK
  <1> SUFFICES ASSUME Init, NEW c \in Channels
               PROVE  BalanceOK(mailbox, c, node[c], map[c])
    BY DEF BalancesOK
  <1>1. mailbox = <<>> /\ map[c] = Null /\ node[c].life = "unused"
    BY DEF Init
  <1>2. Accounts(mailbox, c) = {}
    BY <1>1 DEF Accounts, At
  <1> QED BY <1>1, <1>2 DEF BalanceOK

LEMMA BalanceKeeps == IInv /\ BalancesOK /\ [Next]_vars => BalancesOK'
  <1> SUFFICES ASSUME IInv, BalancesOK, [Next]_vars
               PROVE  BalancesOK'
    OBVIOUS
  <1>1. ASSUME NEW c \in Channels, NodeStep(c)
        PROVE  BalancesOK'
    <2>1. CASE \E toLocal, flying \in 0 .. Funding : Sign(c, toLocal, flying)
      <3>1. PICK toLocal \in 0 .. Funding, flying \in 0 .. Funding : Sign(c, toLocal, flying)
        BY <2>1
      <3>2. toLocal \in Nat /\ flying \in Nat
        BY TrackerAssumption
      <3> QED BY <3>1, <3>2, SignBalance
    <2>2. CASE Create(c) \/ Restore(c) \/ Lock(c)
      BY <2>2, CreateBalance, RestoreBalance, LockBalance
    <2>3. CASE (\E kind \in Published : Compete(c, kind)) \/ Confirm(c) \/ Stop(c)
      BY <2>3, SilentBalance
    <2>4. CASE \/ AssignId(c) \/ Fund(c) \/ Disconnect(c) \/ Reconnect(c) \/ Abort(c) \/ Finish(c)
               \/ \E text \in BOOLEAN : Error(c, text)
               \/ \E kind \in Published \ {"local"} : Close(c, kind)
      BY <2>4, TransitionBalance
    <2> QED BY <1>1, <2>1, <2>2, <2>3, <2>4 DEF NodeStep
  <1>2. ASSUME NEW c \in Channels, Receive(c)
        PROVE  BalancesOK'
    BY <1>2, ReceiveBalance
  <1>3. CASE Crash
    BY <1>3, CrashBalance
  <1>4. CASE UNCHANGED vars
    BY <1>4 DEF vars, BalancesOK
  <1> QED BY <1>1, <1>2, <1>3, <1>4 DEF Next
\* The messages in the mailbox lead from what the map knows of a channel to what
\* the node knows of it, and the rows follow, in every reachable state.
THEOREM TrackerInvariant == Spec => []IInv
  <1>1. Init => IInv
    BY InitOK
  <1>2. IInv /\ [Next]_vars => IInv'
    BY NextKeeps
  <1> QED BY <1>1, <1>2, PTL DEF Spec

\* Every variable keeps its type.
THEOREM TypeCorrect == Spec => []TypeOK
  <1>1. IInv => TypeOK
    BY DEF IInv
  <1> QED BY <1>1, TrackerInvariant, PTL

\* Once the events of a channel are handled, the map shows it as the node has it,
\* for any number of channels, crashes and waiting events.
THEOREM MapShowsNode == Spec => []MapFollowsNode
  <1>1. IInv => MapFollowsNode
    <2> SUFFICES ASSUME IInv, NEW c \in Channels, Quiet(c)
                 PROVE  /\ map[c] # Null <=> node[c].life = "live"
                        /\ map[c] # Null =>
                             /\ map[c].state = node[c].state
                             /\ map[c].channelId \in Rows(c)
                             /\ rows[map[c].channelId].isActive
                             /\ node[c].state \in Open \cup {"CLOSING"} =>
                                   map[c].channelId = <<c, "final">>
      BY DEF MapFollowsNode
    <2>1. /\ CInv(mailbox, c, node[c], map[c], rows, alerts[c], crashes)
          /\ node[c].life \in {"unused", "live", "stored", "gone"}
      BY DEF IInv, ChannelsOK, TypeOK, NodeChannel
    <2>2. At(mailbox, c) = {} /\ Changes(mailbox, c) = {}
      BY DEF Quiet, At, Changes
    <2>3. /\ map[c] # Null <=> node[c].life = "live"
          /\ map[c] # Null => map[c].state = node[c].state /\ map[c].id = map[c].channelId
      BY <2>1, <2>2 DEF CInv, LeadsTo
    <2>4. ASSUME map[c] # Null
          PROVE  map[c].channelId \in Rows(c) /\ rows[map[c].channelId].isActive
      <3>1. /\ map[c].channelId \in {Temp(c), Final(c)}
            /\ map[c].id # Null => rows[map[c].id] # Null /\ rows[map[c].id].isActive
        BY <2>1, <2>4 DEF CInv, ObjectOK, Temp, Final
      <3>2. map[c].channelId \in ChannelIds /\ map[c].channelId[1] = c /\ map[c].channelId # Null
        BY <3>1, Ids
      <3> QED BY <2>3, <2>4, <3>1, <3>2 DEF Rows
    <2>5. map[c] # Null /\ node[c].state \in Open \cup {"CLOSING"} =>
             map[c].channelId = <<c, "final">>
      BY <2>1, <2>2, <2>3 DEF CInv, HasFinalId, Identified
    <2> QED BY <2>3, <2>4, <2>5
  <1> QED BY <1>1, TrackerInvariant, PTL

\* No channel of the map is without an id.
THEOREM EntriesAreIdentified == Spec => []MapIsIdentified
  <1>1. IInv => MapIsIdentified
    <2> SUFFICES ASSUME IInv, NEW c \in Channels, map[c] # Null PROVE map[c].channelId # Null
      BY DEF MapIsIdentified
    <2>1. CInv(mailbox, c, node[c], map[c], rows, alerts[c], crashes)
      BY DEF IInv, ChannelsOK
    <2>2. map[c].channelId \in {Temp(c), Final(c)}
      BY <2>1 DEF CInv, ObjectOK, Temp, Final
    <2> QED BY <2>2, Ids
  <1> QED BY <1>1, TrackerInvariant, PTL

\* While the process lives, the two ids of a channel never have a row each.
THEOREM RowsAreUnique == Spec => []OneRowPerChannel
  <1>1. IInv => OneRowPerChannel
    <2> SUFFICES ASSUME IInv, crashes = 0, NEW c \in Channels, NEW i \in Rows(c), NEW j \in Rows(c)
                 PROVE  i = j
      BY DEF OneRowPerChannel
    <2>1. CInv(mailbox, c, node[c], map[c], rows, alerts[c], crashes)
      BY DEF IInv, ChannelsOK
    <2>2. i \in RowsOf(c, rows) /\ j \in RowsOf(c, rows)
      BY Ids DEF Rows, RowsOf, Temp, Final
    <2> QED BY <2>1, <2>2 DEF CInv, TableOK
  <1> QED BY <1>1, TrackerInvariant, PTL

\* A closing is alerted once at most, whatever dies or competes, and the alert
\* knows its delay.
THEOREM ClosingIsAlertedOnce == Spec => []AlertedOnce
  <1>1. IInv => AlertedOnce
    BY DEF IInv, ChannelsOK, CInv, AlertsOK, AlertedOnce
  <1> QED BY <1>1, TrackerInvariant, PTL

\* A refund height that is in the table stays there.
THEOREM RefundIsKept == Spec => RefundSurvives
  <1>1. IInv /\ [Next]_vars => RefundKept
    BY NextKeeps
  <1>2. RefundKept => \A c \in Channels :
                         LET i == <<c, "final">>
                         IN rows[i] # Null /\ rows[i].refundAtBlock =>
                               rows'[i] # Null /\ rows'[i].refundAtBlock
    BY DEF RefundKept, Final
  <1> QED BY <1>1, <1>2, TrackerInvariant, PTL DEF Spec, RefundSurvives

\* Once its events are handled, the balance that is shown for a channel is what
\* the node's commitment leaves to the wallet, with or without what is in flight,
\* and a payment is accepted only if a channel has that much, for any funding,
\* any reserve and any number of channels.
THEOREM BalancesAreShown == Spec => []BalanceFollowsNode
  <1>1. Init => BalancesOK
    BY InitBalance
  <1>2. IInv /\ BalancesOK /\ [Next]_vars => BalancesOK'
    BY BalanceKeeps
  <1>3. IInv /\ MapFollowsNode /\ BalancesOK => BalanceFollowsNode
    <2> SUFFICES ASSUME IInv, MapFollowsNode, BalancesOK
                 PROVE  BalanceFollowsNode
      OBVIOUS
    <2>1. ASSUME NEW c \in Channels, Quiet(c)
          PROVE  /\ BalanceOK(mailbox, c, node[c], map[c]) /\ Accounts(mailbox, c) = {}
                 /\ map[c] # Null <=> node[c].life = "live"
                 /\ map[c] # Null => map[c].state = node[c].state
      BY <2>1 DEF BalancesOK, MapFollowsNode, Quiet, Accounts, At
    <2>2. ASSUME NEW c \in Channels, Quiet(c)
          PROVE  IF node[c].life = "live" /\ node[c].state \in Open
                 THEN channelsBalance(c) \in {node[c].toLocal, node[c].toLocal + node[c].flying}
                 ELSE channelsBalance(c) = 0
      <3>1. CASE node[c].life = "live" /\ node[c].state \in Open
        <4>1. map[c] # Null /\ Covers(map[c].balanceMsat, node[c])
          BY <2>1, <2>2, <3>1 DEF BalanceOK
        <4>2. map[c].state \notin {"CLOSING", "CLOSED"}
          BY <2>1, <2>2, <3>1, <4>1 DEF Open
        <4> QED BY <3>1, <4>1, <4>2 DEF channelsBalance, Covers
      <3>2. CASE node[c].life = "live" /\ node[c].state \notin Open
        <4>1. map[c] # Null /\ map[c].state = node[c].state /\ node[c].state \in States
          BY <2>1, <2>2, <3>2, NodeBefore
        <4>2. CASE node[c].state \in {"CLOSING", "CLOSED"}
          BY <3>2, <4>1, <4>2 DEF channelsBalance
        <4>3. CASE node[c].state \in NotOpenYet
          <5>1. map[c].balanceMsat = 0
            BY <2>1, <2>2, <4>1, <4>3 DEF BalanceOK
          <5> QED BY <3>2, <5>1 DEF channelsBalance
        <4> QED BY <3>2, <4>1, <4>2, <4>3 DEF States, NotOpenYet
      <3>3. CASE node[c].life # "live"
        BY <2>1, <2>2, <3>3 DEF channelsBalance
      <3> QED BY <3>1, <3>2, <3>3
    <2>3. ASSUME NEW amount \in 0 .. Funding, \A c \in Channels : Quiet(c),
                 hasNormalChannelsWithBalance(amount)
          PROVE  \E c \in Channels : /\ node[c].life = "live" /\ node[c].state = "NORMAL"
                                     /\ node[c].toLocal + node[c].flying > amount + Reserve
      <3>1. PICK c \in Channels : /\ map[c] # Null /\ map[c].state = "NORMAL"
                                  /\ map[c].balanceMsat > amount + Reserve
        BY <2>3 DEF hasNormalChannelsWithBalance
      <3>2. Quiet(c)
        BY <2>3
      <3>3. node[c].life = "live" /\ node[c].state = "NORMAL"
        BY <2>1, <3>1, <3>2
      <3>4. map[c].balanceMsat \in {node[c].toLocal, node[c].toLocal + node[c].flying}
        BY <2>1, <3>2, <3>3 DEF BalanceOK, Covers, Open
      <3>5. node[c].toLocal \in Nat /\ node[c].flying \in Nat
        BY DEF IInv, TypeOK, NodeChannel
      <3>6. node[c].toLocal + node[c].flying > amount + Reserve
        BY <3>1, <3>4, <3>5, TrackerAssumption
      <3> QED BY <3>3, <3>6
    <2> QED BY <2>2, <2>3 DEF BalanceFollowsNode
  <1> QED BY <1>1, <1>2, <1>3, TrackerInvariant, MapShowsNode, PTL DEF Spec
=============================================================================
