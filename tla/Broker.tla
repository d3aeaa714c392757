------------------------------- MODULE Broker -------------------------------
(***************************************************************************)
(* The resource registry (mcp/resources.go) and the broker that fans its   *)
(* changes out to subscriptions/listen streams (mcp/subscriptions.go).     *)
(*                                                                         *)
(* A mutator is any goroutine that calls the registry.  It changes the     *)
(* registry under r.mu and calls the broker only after releasing it, so    *)
(* between the two other mutators, listeners and readers may run.  The     *)
(* tool registry of mcp/tools.go is the same machine without "updated".    *)
(***************************************************************************)
EXTENDS Integers, Sequences, FiniteSets

CONSTANTS
  Uris,       \* resource URIs
  Mutators,   \* goroutines that call Register, Unregister and NotifyUpdated
  Listeners,  \* subscriptions/listen streams
  Filter,     \* the notification filter of every stream
  Cap,        \* capacity of a subscription's channel (16 in the code)
  WireCap,    \* bound: messages in flight to a client before a write blocks
  MaxVer      \* bound: versions, of resources and of what is behind them

Topics == {"list"} \cup Uris  \* resources/list_changed, resources/updated for a URI

ASSUME BrokerConstants ==
  /\ "list" \notin Uris /\ "ack" \notin Uris /\ "none" \notin Uris
  /\ Filter \in [Listeners -> SUBSET Topics]
  /\ Cap \in Nat \ {0} /\ WireCap \in Nat \ {0} /\ MaxVer \in Nat

VARIABLES
  list,       \* r.resources: entries in registration order
  functions,  \* functions[u]: version of what u's function returns, 0 if none
  version,    \* the last version given out
  todo,       \* todo[m]: what mutator m has still to do after unlocking
  subs,       \* b.subs
  ch,         \* ch[l]: the buffered channel of l's subscription
  lh,         \* lh[l]: where the listen handler stands
  cur,        \* cur[l]: the notification it has taken from the channel
  wire,       \* wire[l]: messages on the stream to the client of l
  ended       \* the listeners whose context is cancelled

registryVars == <<list, functions, version>>
brokerVars   == <<subs, ch, lh, cur>>
serverVars   == <<registryVars, todo, brokerVars, wire, ended>>

Entries == [uri: Uris, ver: 1 .. MaxVer]
Announce(t) == [do |-> "announce", topic |-> t]
Check(u)    == [do |-> "check", topic |-> u]

BrokerInit ==
  /\ list = <<>> /\ functions = [u \in Uris |-> 0] /\ version = 0
  /\ todo = [m \in Mutators |-> <<>>]
  /\ subs = {}
  /\ ch = [l \in Listeners |-> <<>>]
  /\ lh = [l \in Listeners |-> "idle"]
  /\ cur = [l \in Listeners |-> "none"]
  /\ wire = [l \in Listeners |-> <<>>]
  /\ ended = {}

-----------------------------------------------------------------------------
(* The registry.                                                           *)

Known(u) == functions[u] # 0

KeepLocked(u) == list

(* removeLocked: the entry of u is cut out of the slice.  At most one entry *)
(* has the URI (RegistryConsistent), so it is the first that the code finds. *)
RemoveLocked(u) ==
  LET at == {i \in 1 .. Len(list) : list[i].uri = u}
      i  == CHOOSE j \in at : TRUE
  IN IF Known(u) /\ at # {}
       THEN SubSeq(list, 1, i - 1) \o SubSeq(list, i + 1, Len(list))
       ELSE list

AfterRegister(u) ==
  IF Known(u) THEN <<Announce("list"), Announce(u)>> ELSE <<Announce("list")>>

QuietUnregister(u) == <<>>
AfterUnregister(u) == <<Announce("list")>>

Register(m, u) ==
  /\ todo[m] = <<>>
  /\ version < MaxVer
  /\ version' = version + 1
  /\ list' = Append(RemoveLocked(u), [uri |-> u, ver |-> version'])
  /\ functions' = [functions EXCEPT ![u] = version']
  /\ todo' = [todo EXCEPT ![m] = AfterRegister(u)]
  /\ UNCHANGED <<brokerVars, wire, ended>>

(* Of an absent URI it does nothing and notifies nobody. *)
Unregister(m, u) ==
  /\ todo[m] = <<>>
  /\ Known(u)
  /\ list' = RemoveLocked(u)
  /\ functions' = [functions EXCEPT ![u] = 0]
  /\ todo' = [todo EXCEPT ![m] = AfterUnregister(u)]
  /\ UNCHANGED <<version, brokerVars, wire, ended>>

(* What is behind a registered resource changes, without the registry      *)
(* taking part; the goroutine that changed it goes on to NotifyUpdated.    *)
ContentChanges(m, u) ==
  /\ todo[m] = <<>>
  /\ Known(u)
  /\ version < MaxVer
  /\ version' = version + 1
  /\ functions' = [functions EXCEPT ![u] = version']
  /\ todo' = [todo EXCEPT ![m] = <<Check(u)>>]
  /\ UNCHANGED <<list, brokerVars, wire, ended>>

(* NotifyUpdated looks the URI up under the lock; unknown means no-op. *)
NotifyUpdated(m) ==
  /\ todo[m] # <<>>
  /\ Head(todo[m]).do = "check"
  /\ LET u == Head(todo[m]).topic
     IN todo' = [todo EXCEPT ![m] = IF Known(u) THEN <<Announce(u)>> ELSE <<>>]
  /\ UNCHANGED <<registryVars, brokerVars, wire, ended>>

-----------------------------------------------------------------------------
(* Broker.broadcast: under b.mu, a non-blocking send to every subscription *)
(* that wants the topic; a full channel drops it.                          *)

Wants(l, t) == l \in subs /\ t \in Filter[l]

RoomPlusOne(l) == Len(ch[l]) <= Cap
HasRoom(l)     == Len(ch[l]) < Cap

WaitForRoom(t) == \A l \in Listeners : Wants(l, t) => HasRoom(l)
NeverWait(t)   == TRUE

Broadcast(m) ==
  /\ todo[m] # <<>>
  /\ Head(todo[m]).do = "announce"
  /\ LET t == Head(todo[m]).topic
     IN /\ NeverWait(t)
        /\ ch' = [l \in Listeners |-> IF Wants(l, t) /\ HasRoom(l)
                                      THEN Append(ch[l], t) ELSE ch[l]]
  /\ todo' = [todo EXCEPT ![m] = Tail(@)]
  /\ UNCHANGED <<registryVars, subs, lh, cur, wire, ended>>

-----------------------------------------------------------------------------
(* handleSubscriptionsListen.                                              *)

Goto(l, s) == lh' = [lh EXCEPT ![l] = s]

(* A new listen request: a subscription with a channel of its own. *)
Subscribe(l) ==
  /\ lh[l] \in {"idle", "ended"}
  /\ subs' = subs \cup {l}
  /\ ch' = [ch EXCEPT ![l] = <<>>]
  /\ cur' = [cur EXCEPT ![l] = "none"]
  /\ wire' = [wire EXCEPT ![l] = <<>>]
  /\ ended' = ended \ {l}
  /\ Goto(l, "ack")
  /\ UNCHANGED <<registryVars, todo>>

(* The stream takes a message; with the client gone a write may fail. *)
Acknowledge(l) ==
  /\ lh[l] = "ack"
  /\ Len(wire[l]) < WireCap
  /\ wire' = [wire EXCEPT ![l] = Append(@, "ack")]
  /\ Goto(l, "select")
  /\ UNCHANGED <<registryVars, todo, subs, ch, cur, ended>>

AckFails(l) ==
  /\ lh[l] = "ack"
  /\ l \in ended
  /\ subs' = subs \ {l}
  /\ Goto(l, "ended")
  /\ UNCHANGED <<registryVars, todo, ch, cur, wire, ended>>

TakeNotification(l) ==
  /\ lh[l] = "select"
  /\ ch[l] # <<>>
  /\ cur' = [cur EXCEPT ![l] = Head(ch[l])]
  /\ ch' = [ch EXCEPT ![l] = Tail(@)]
  /\ Goto(l, "write")
  /\ UNCHANGED <<registryVars, todo, subs, wire, ended>>

(* The error of the write is ignored: only a done context ends the loop. *)
WriteNotification(l) ==
  /\ lh[l] = "write"
  /\ \/ /\ Len(wire[l]) < WireCap
        /\ wire' = [wire EXCEPT ![l] = Append(@, cur[l])]
     \/ /\ l \in ended
        /\ UNCHANGED wire
  /\ cur' = [cur EXCEPT ![l] = "none"]
  /\ Goto(l, "select")
  /\ UNCHANGED <<registryVars, todo, subs, ch, ended>>

StillSubscribed(l) == subs
Unsubscribed(l)    == subs \ {l}

ListenReturns(l) ==
  /\ lh[l] = "select"
  /\ l \in ended
  /\ subs' = Unsubscribed(l)
  /\ Goto(l, "ended")
  /\ UNCHANGED <<registryVars, todo, ch, cur, wire, ended>>

(* The client cancels the request or closes its stream. *)
Cancel(l) ==
  /\ lh[l] \in {"ack", "select", "write"}
  /\ ended' = ended \cup {l}
  /\ UNCHANGED <<registryVars, todo, brokerVars, wire>>

Mutate(m) == \E u \in Uris : Register(m, u) \/ Unregister(m, u) \/ ContentChanges(m, u)
Finish(m) == NotifyUpdated(m) \/ Broadcast(m)
Listen(l) == \/ Acknowledge(l) \/ AckFails(l) \/ TakeNotification(l)
             \/ WriteNotification(l) \/ ListenReturns(l)

-----------------------------------------------------------------------------
(* Properties of the server side.                                          *)

BrokerTypeOK ==
  /\ list \in Seq(Entries)
  /\ functions \in [Uris -> 0 .. MaxVer] /\ version \in 0 .. MaxVer
  /\ todo \in [Mutators -> Seq([do: {"announce"}, topic: Topics] \cup [do: {"check"}, topic: Uris])]
  /\ subs \subseteq Listeners
  /\ ch \in [Listeners -> Seq(Topics)] /\ \A l \in Listeners : Len(ch[l]) <= Cap
  /\ lh \in [Listeners -> {"idle", "ack", "select", "write", "ended"}]
  /\ cur \in [Listeners -> Topics \cup {"none"}]
  /\ wire \in [Listeners -> Seq(Topics \cup {"ack"})]
  /\ ended \subseteq Listeners

(* "the list and the URI-keyed function map must not be allowed to         *)
(* disagree": the same URIs in both, no URI twice, through every order of  *)
(* registering, replacing and unregistering.                               *)
RegistryConsistent ==
  /\ {list[i].uri : i \in 1 .. Len(list)} = {u \in Uris : Known(u)}
  /\ \A i, j \in 1 .. Len(list) : list[i].uri = list[j].uri => i = j

(* The broker keeps no subscription of a handler that has returned, and    *)
(* every running handler has one.                                          *)
NoLeakedSubscription == subs = {l \in Listeners : lh[l] \in {"ack", "select", "write"}}

(* A registry mutation, or NotifyUpdated, "must never stall behind a slow  *)
(* client": the mutator finishes although no listener and no client moves. *)
MutatorsNeverStall == \A m \in Mutators : todo[m] # <<>> ~> todo[m] = <<>>
=============================================================================
