--------------------------- MODULE CatalogProofs ----------------------------
(***************************************************************************)
(* What holds of the registry, the broker and a client's copy for any      *)
(* number of URIs, mutators and listeners, any page size and any capacity  *)
(* of channels and streams: proved with TLAPS from the specification of    *)
(* module Catalog.                                                         *)
(***************************************************************************)
EXTENDS Catalog, SequenceTheorems, TLAPS

-----------------------------------------------------------------------------
(* Cutting one element out of a sequence, as removeLocked does. *)
Without(s, i) == SubSeq(s, 1, i - 1) \o SubSeq(s, i + 1, Len(s))

LEMMA CutOut ==
  ASSUME NEW S, NEW s \in Seq(S), NEW i \in 1 .. Len(s)
  PROVE  /\ Without(s, i) \in Seq(S)
         /\ Len(Without(s, i)) = Len(s) - 1
         /\ \A j \in 1 .. Len(s) - 1 : Without(s, i)[j] = IF j < i THEN s[j] ELSE s[j + 1]
<1> DEFINE a == SubSeq(s, 1, i - 1)
           b == SubSeq(s, i + 1, Len(s))
<1>1. a \in Seq(S) /\ Len(a) = i - 1 /\ \A j \in 1 .. i - 1 : a[j] = s[j]
  OBVIOUS
<1>2. b \in Seq(S) /\ Len(b) = Len(s) - i /\ \A j \in 1 .. Len(s) - i : b[j] = s[j + i]
  OBVIOUS
<1>3. Without(s, i) = a \o b
  BY DEF Without
<1> HIDE DEF a, b
<1>4. /\ Without(s, i) \in Seq(S) /\ Len(Without(s, i)) = Len(a) + Len(b)
      /\ \A j \in 1 .. Len(a) + Len(b) :
           Without(s, i)[j] = IF j <= Len(a) THEN a[j] ELSE b[j - Len(a)]
  <2>1. a \in Seq(S) /\ b \in Seq(S)
    BY <1>1, <1>2
  <2>2. QED
    BY <1>3, <2>1, ConcatProperties
<1>5. Len(a) + Len(b) = Len(s) - 1
  BY <1>1, <1>2
<1>6. ASSUME NEW j \in 1 .. Len(s) - 1 PROVE Without(s, i)[j] = IF j < i THEN s[j] ELSE s[j + 1]
  <2>1. CASE j < i
    BY <1>1, <1>4, <1>5, <2>1
  <2>2. CASE ~(j < i)
    <3>1. ~(j <= Len(a)) /\ j - Len(a) \in 1 .. Len(s) - i /\ (j - Len(a)) + i = j + 1
      BY <1>1, <2>2
    <3>2. b[j - Len(a)] = s[j + 1]
      BY <1>2, <3>1
    <3>3. QED
      BY <1>4, <1>5, <2>2, <3>1, <3>2
  <2>3. QED
    BY <2>1, <2>2
<1>7. QED
  BY <1>4, <1>5, <1>6

-----------------------------------------------------------------------------
(* The registry.                                                           *)

(* The sequence r has one entry for each URI of the set K, and no other. *)
Lists(r, K) ==
  /\ r \in Seq(Entries)
  /\ {r[i].uri : i \in 1 .. Len(r)} = K
  /\ \A i, j \in 1 .. Len(r) : r[i].uri = r[j].uri => i = j

(* What RemoveLocked leaves: the other entries, in a list that agrees with *)
(* the function map once that has forgotten the URI too.                   *)
LEMMA RemoveLockedOK ==
  ASSUME NEW u \in Uris, list \in Seq(Entries), RegistryConsistent
  PROVE  \A r : r = RemoveLocked(u) =>
           Lists(r, {v \in Uris : Known(v)} \ {u})
<1> SUFFICES ASSUME NEW r, r = RemoveLocked(u)
             PROVE  /\ r \in Seq(Entries)
                    /\ {r[i].uri : i \in 1 .. Len(r)} = {v \in Uris : Known(v)} \ {u}
                    /\ \A i, j \in 1 .. Len(r) : r[i].uri = r[j].uri => i = j
  BY DEF Lists
<1>1. CASE ~Known(u)
  <2>1. r = list
    BY <1>1 DEF RemoveLocked
  <2>2. QED
    BY <1>1, <2>1 DEF RegistryConsistent
<1>2. CASE Known(u)
  <2> DEFINE at == {i \in 1 .. Len(list) : list[i].uri = u}
  <2>1. at # {}
    <3>1. u \in {list[i].uri : i \in 1 .. Len(list)}
      BY <1>2 DEF RegistryConsistent
    <3>2. QED
      BY <3>1
  <2>2. PICK k \in 1 .. Len(list) : k = (CHOOSE j \in at : TRUE) /\ list[k].uri = u
    <3>1. (CHOOSE j \in at : TRUE) \in at
      BY <2>1
    <3>2. QED
      BY <3>1
  <2>3. r = Without(list, k)
    BY <1>2, <2>1, <2>2 DEF RemoveLocked, Without
  <2>4. /\ r \in Seq(Entries) /\ Len(r) = Len(list) - 1
        /\ \A j \in 1 .. Len(list) - 1 : r[j] = IF j < k THEN list[j] ELSE list[j + 1]
    BY <2>3, CutOut
  <2>5. \A i, j \in 1 .. Len(r) : r[i].uri = r[j].uri => i = j
    <3>1. \A i, j \in 1 .. Len(list) : list[i].uri = list[j].uri => i = j
      BY DEF RegistryConsistent
    <3>2. QED
      BY <2>4, <3>1
  <2>6. ASSUME NEW j \in 1 .. Len(r) PROVE r[j].uri \in {v \in Uris : Known(v)} \ {u}
    <3>1. PICK i \in 1 .. Len(list) : i # k /\ r[j] = list[i]
      <4>1. CASE j < k
        BY <2>4, <4>1
      <4>2. CASE ~(j < k)
        BY <2>4, <4>2
      <4>3. QED
        BY <4>1, <4>2
    <3>2. list[i].uri # u
      BY <2>2, <3>1 DEF RegistryConsistent
    <3>3. QED
      BY <3>1, <3>2 DEF RegistryConsistent
  <2>7. ASSUME NEW v \in Uris, Known(v), v # u PROVE \E j \in 1 .. Len(r) : r[j].uri = v
    <3>1. v \in {list[i].uri : i \in 1 .. Len(list)}
      BY <2>7 DEF RegistryConsistent
    <3>2. PICK i \in 1 .. Len(list) : list[i].uri = v
      BY <3>1
    <3>3. i # k
      BY <2>2, <2>7, <3>2
    <3>4. CASE i < k
      BY <2>4, <3>2, <3>4
    <3>5. CASE i > k
      <4>1. i - 1 \in 1 .. Len(r) /\ ~(i - 1 < k) /\ (i - 1) + 1 = i
        BY <2>4, <3>5
      <4>2. r[i - 1] = list[i]
        BY <2>4, <4>1
      <4>3. QED
        BY <3>2, <4>1, <4>2
    <3>6. QED
      BY <3>3, <3>4, <3>5
  <2>8. QED
    BY <2>4, <2>5, <2>6, <2>7
<1>3. QED
  BY <1>1, <1>2

-----------------------------------------------------------------------------
(* Types, the registry and the subscriptions.                              *)

(* A handler holds a notification exactly when it is about to write it. *)
HasWhatItWrites ==
  \A l \in Listeners : IF lh[l] = "write" THEN cur[l] \in Topics ELSE cur[l] = "none"

Inv == TypeOK /\ RegistryConsistent /\ NoLeakedSubscription /\ HasWhatItWrites

LEMMA InitInv == Init => Inv
  BY BrokerConstants
  DEF Init, BrokerInit, Inv, TypeOK, BrokerTypeOK, RegistryConsistent, NoLeakedSubscription,
      HasWhatItWrites, Known, NoReply, Entries, Topics

(* The registry's own step: what registers, replaces and unregisters. *)
LEMMA NextRegistry ==
  Inv /\ [Next]_vars =>
    /\ list' \in Seq(Entries) /\ functions' \in [Uris -> 0 .. MaxVer] /\ version' \in 0 .. MaxVer
    /\ RegistryConsistent'
<1> SUFFICES ASSUME Inv, [Next]_vars
             PROVE  /\ list' \in Seq(Entries) /\ functions' \in [Uris -> 0 .. MaxVer]
                    /\ version' \in 0 .. MaxVer /\ RegistryConsistent'
  OBVIOUS
<1>1. /\ list \in Seq(Entries) /\ functions \in [Uris -> 0 .. MaxVer] /\ version \in 0 .. MaxVer
      /\ RegistryConsistent /\ MaxVer \in Nat
  BY BrokerConstants DEF Inv, TypeOK, BrokerTypeOK
<1>2. ASSUME NEW m \in Mutators, NEW u \in Uris, Register(m, u)
      PROVE  /\ list' \in Seq(Entries) /\ functions' \in [Uris -> 0 .. MaxVer]
             /\ version' \in 0 .. MaxVer /\ RegistryConsistent'
  <2>1. PICK r : r = RemoveLocked(u)
    OBVIOUS
  <2>5. version' \in 1 .. MaxVer
    BY <1>1, <1>2 DEF Register
  <2>2. PICK e \in Entries : e = [uri |-> u, ver |-> version'] /\ e.uri = u
    <3>1. [uri |-> u, ver |-> version'] \in Entries
      BY <2>5 DEF Entries
    <3>2. QED
      BY <3>1
  <2>3. /\ r \in Seq(Entries)
        /\ {r[i].uri : i \in 1 .. Len(r)} = {v \in Uris : Known(v)} \ {u}
        /\ \A i, j \in 1 .. Len(r) : r[i].uri = r[j].uri => i = j
    <3>1. Lists(r, {v \in Uris : Known(v)} \ {u})
      BY <1>1, <2>1, RemoveLockedOK
    <3>2. QED
      BY <3>1 DEF Lists
  <2>4. list' = Append(r, e) /\ functions' = [functions EXCEPT ![u] = version']
    BY <1>2, <2>1, <2>2 DEF Register
  <2>6. /\ list' \in Seq(Entries) /\ Len(list') = Len(r) + 1
        /\ \A i \in 1 .. Len(r) : list'[i] = r[i]
        /\ list'[Len(r) + 1] = e
    BY <2>3, <2>4, AppendProperties
  <2>7. {list'[i].uri : i \in 1 .. Len(list')} = {r[i].uri : i \in 1 .. Len(r)} \cup {u}
    BY <2>2, <2>3, <2>6
  <2>8. {v \in Uris : functions'[v] # 0} = {v \in Uris : Known(v)} \cup {u}
    BY <1>1, <2>4, <2>5 DEF Known
  <2>9. \A i, j \in 1 .. Len(list') : list'[i].uri = list'[j].uri => i = j
    <3>1. \A i \in 1 .. Len(r) : r[i].uri # u
      BY <2>3
    <3>2. QED
      BY <2>2, <2>3, <2>6, <3>1
  <2>10. QED
    <3>1. RegistryConsistent'
      BY <2>3, <2>7, <2>8, <2>9 DEF RegistryConsistent, Known
    <3>2. QED
      BY <1>1, <2>4, <2>5, <2>6, <3>1
<1>3. ASSUME NEW m \in Mutators, NEW u \in Uris, Unregister(m, u)
      PROVE  /\ list' \in Seq(Entries) /\ functions' \in [Uris -> 0 .. MaxVer]
             /\ version' \in 0 .. MaxVer /\ RegistryConsistent'
  <2>1. PICK r : r = RemoveLocked(u)
    OBVIOUS
  <2>2. /\ r \in Seq(Entries)
        /\ {r[i].uri : i \in 1 .. Len(r)} = {v \in Uris : Known(v)} \ {u}
        /\ \A i, j \in 1 .. Len(r) : r[i].uri = r[j].uri => i = j
    <3>1. Lists(r, {v \in Uris : Known(v)} \ {u})
      BY <1>1, <2>1, RemoveLockedOK
    <3>2. QED
      BY <3>1 DEF Lists
  <2>3. list' = r /\ functions' = [functions EXCEPT ![u] = 0] /\ version' = version
    BY <1>3, <2>1 DEF Unregister
  <2>4. {v \in Uris : functions'[v] # 0} = {v \in Uris : Known(v)} \ {u}
    BY <1>1, <2>3 DEF Known
  <2>5. QED
    BY <1>1, <2>2, <2>3, <2>4 DEF RegistryConsistent, Known
<1>4. ASSUME NEW m \in Mutators, NEW u \in Uris, ContentChanges(m, u)
      PROVE  /\ list' \in Seq(Entries) /\ functions' \in [Uris -> 0 .. MaxVer]
             /\ version' \in 0 .. MaxVer /\ RegistryConsistent'
  BY <1>1, <1>4 DEF ContentChanges, RegistryConsistent, Known
<1>5. CASE UNCHANGED registryVars
  BY <1>1, <1>5 DEF registryVars, RegistryConsistent, Known
<1>6. QED
  BY <1>2, <1>3, <1>4, <1>5
  DEF Next, Mutate, Finish, NotifyUpdated, Broadcast, Listen, Acknowledge, AckFails,
      TakeNotification, WriteNotification, ListenReturns, Cancel, Connect, Subscribe, GetsStuck,
      Client, ReadStream, ListPage, TakePage, vars, serverVars, registryVars

(* A listen handler and its subscription come and go together. *)
LEMMA NextSubscriptions == Inv /\ [Next]_vars => NoLeakedSubscription' /\ subs' \subseteq Listeners
<1> SUFFICES ASSUME Inv, [Next]_vars PROVE NoLeakedSubscription' /\ subs' \subseteq Listeners
  OBVIOUS
<1>1. subs = {l \in Listeners : lh[l] \in {"ack", "select", "write"}} /\ subs \subseteq Listeners
  BY DEF Inv, NoLeakedSubscription
<1>2. DOMAIN lh = Listeners /\ lh = [l \in Listeners |-> lh[l]]
  BY DEF Inv, TypeOK, BrokerTypeOK
<1>3. CASE UNCHANGED <<subs, lh>>
  BY <1>1, <1>3 DEF NoLeakedSubscription
<1>4. ASSUME NEW l \in Listeners, Listen(l) \/ Subscribe(l)
      PROVE  NoLeakedSubscription' /\ subs' \subseteq Listeners
  <2> USE DEF NoLeakedSubscription, Goto
  <2>1. CASE Acknowledge(l)
    BY <1>1, <1>2, <2>1 DEF Acknowledge
  <2>2. CASE AckFails(l)
    BY <1>1, <1>2, <2>2 DEF AckFails
  <2>3. CASE TakeNotification(l)
    BY <1>1, <1>2, <2>3 DEF TakeNotification
  <2>4. CASE WriteNotification(l)
    BY <1>1, <1>2, <2>4 DEF WriteNotification
  <2>5. CASE ListenReturns(l)
    BY <1>1, <1>2, <2>5 DEF ListenReturns, Unsubscribed
  <2>6. CASE Subscribe(l)
    BY <1>1, <1>2, <2>6 DEF Subscribe
  <2>7. QED
    BY <1>4, <2>1, <2>2, <2>3, <2>4, <2>5, <2>6 DEF Listen
<1>5. QED
  BY <1>3, <1>4
  DEF Next, Mutate, Finish, Register, Unregister, ContentChanges, NotifyUpdated, Broadcast,
      Cancel, Connect, GetsStuck, Client, ReadStream, ListPage, TakePage,
      vars, serverVars, brokerVars

(* What a mutator has still to do. *)
Chores == [do: {"announce"}, topic: Topics] \cup [do: {"check"}, topic: Uris]

LEMMA NextTodo == Inv /\ [Next]_vars => todo' \in [Mutators -> Seq(Chores)]
<1> SUFFICES ASSUME Inv, [Next]_vars PROVE todo' \in [Mutators -> Seq(Chores)]
  OBVIOUS
<1>1. todo \in [Mutators -> Seq(Chores)]
  BY DEF Inv, TypeOK, BrokerTypeOK, Chores
<1>2. ASSUME NEW m \in Mutators, NEW s \in Seq(Chores), todo' = [todo EXCEPT ![m] = s]
      PROVE  todo' \in [Mutators -> Seq(Chores)]
  BY <1>1, <1>2
<1>3. ASSUME NEW u \in Uris
      PROVE  /\ AfterRegister(u) \in Seq(Chores) /\ AfterUnregister(u) \in Seq(Chores)
             /\ <<Check(u)>> \in Seq(Chores) /\ <<Announce(u)>> \in Seq(Chores) /\ <<>> \in Seq(Chores)
  <2>1. Announce("list") \in Chores /\ Announce(u) \in Chores /\ Check(u) \in Chores
    BY DEF Chores, Announce, Check, Topics
  <2>2. QED
    BY <2>1 DEF AfterRegister, AfterUnregister
<1>4. ASSUME NEW m \in Mutators, Mutate(m) PROVE todo' \in [Mutators -> Seq(Chores)]
  BY <1>2, <1>3, <1>4 DEF Mutate, Register, Unregister, ContentChanges
<1>5. ASSUME NEW m \in Mutators, NotifyUpdated(m) PROVE todo' \in [Mutators -> Seq(Chores)]
  <2>1. Head(todo[m]) \in Chores /\ Head(todo[m]).do = "check"
    BY <1>1, <1>5 DEF NotifyUpdated
  <2>2. Head(todo[m]).topic \in Uris
    BY <2>1 DEF Chores
  <2>3. QED
    BY <1>2, <1>3, <1>5, <2>2 DEF NotifyUpdated
<1>6. ASSUME NEW m \in Mutators, Broadcast(m) PROVE todo' \in [Mutators -> Seq(Chores)]
  <2>1. Tail(todo[m]) \in Seq(Chores)
    BY <1>1, <1>6 DEF Broadcast
  <2>2. QED
    BY <1>2, <1>6, <2>1 DEF Broadcast
<1>7. CASE UNCHANGED todo
  BY <1>1, <1>7
<1>8. QED
  BY <1>4, <1>5, <1>6, <1>7
  DEF Next, Finish, Listen, Acknowledge, AckFails, TakeNotification, WriteNotification,
      ListenReturns, Cancel, Connect, Subscribe, GetsStuck, Client, ReadStream, ListPage,
      TakePage, vars, serverVars

(* Channels, handlers and streams. *)
StreamTypes ==
  /\ ch \in [Listeners -> Seq(Topics)] /\ \A l \in Listeners : Len(ch[l]) <= Cap
  /\ lh \in [Listeners -> {"idle", "ack", "select", "write", "ended"}]
  /\ cur \in [Listeners -> Topics \cup {"none"}]
  /\ wire \in [Listeners -> Seq(Topics \cup {"ack"})]
  /\ ended \subseteq Listeners

LEMMA NextStreamTypes == Inv /\ [Next]_vars => StreamTypes'
<1> SUFFICES ASSUME Inv, [Next]_vars PROVE StreamTypes'
  OBVIOUS
<1>1. StreamTypes /\ todo \in [Mutators -> Seq(Chores)] /\ Cap \in Nat \ {0}
  BY BrokerConstants DEF Inv, TypeOK, BrokerTypeOK, StreamTypes, Chores
<1>2. ASSUME NEW m \in Mutators, Broadcast(m) PROVE StreamTypes'
  <2>1. PICK t \in Topics : ch' = [l \in Listeners |-> IF Wants(l, t) /\ HasRoom(l)
                                                       THEN Append(ch[l], t) ELSE ch[l]]
    <3>1. Head(todo[m]) \in Chores
      BY <1>1, <1>2 DEF Broadcast
    <3>2. Head(todo[m]).topic \in Topics
      BY <3>1 DEF Chores, Topics
    <3>3. QED
      BY <1>2, <3>2 DEF Broadcast
  <2>2. ASSUME NEW l \in Listeners PROVE ch'[l] \in Seq(Topics) /\ Len(ch'[l]) <= Cap
    <3>1. ch[l] \in Seq(Topics) /\ Len(ch[l]) <= Cap
      BY <1>1 DEF StreamTypes
    <3>2. CASE HasRoom(l)
      <4>1. Append(ch[l], t) \in Seq(Topics) /\ Len(Append(ch[l], t)) = Len(ch[l]) + 1
        BY <3>1, AppendProperties
      <4>2. QED
        BY <1>1, <2>1, <3>1, <3>2, <4>1 DEF HasRoom
    <3>3. CASE ~HasRoom(l)
      BY <2>1, <3>1, <3>3
    <3>4. QED
      BY <3>2, <3>3
  <2>3. UNCHANGED <<lh, cur, wire, ended>>
    BY <1>2 DEF Broadcast
  <2>4. ch' = [l \in Listeners |-> ch'[l]]
    BY <2>1
  <2>5. QED
    BY <1>1, <2>2, <2>3, <2>4 DEF StreamTypes
<1>3. ASSUME NEW l \in Listeners, NEW c \in Seq(Topics), Len(c) <= Cap, NEW s,
             NEW n \in Topics \cup {"none"}, NEW w \in Seq(Topics \cup {"ack"}),
             s \in {"idle", "ack", "select", "write", "ended"},
             ch' = [ch EXCEPT ![l] = c], lh' = [lh EXCEPT ![l] = s],
             cur' = [cur EXCEPT ![l] = n], wire' = [wire EXCEPT ![l] = w],
             ended' \subseteq Listeners
      PROVE  StreamTypes'
  BY <1>1, <1>3 DEF StreamTypes
<1>4. ASSUME NEW l \in Listeners
      PROVE  /\ ch[l] \in Seq(Topics) /\ Len(ch[l]) <= Cap /\ ch = [ch EXCEPT ![l] = ch[l]]
             /\ lh[l] \in {"idle", "ack", "select", "write", "ended"} /\ lh = [lh EXCEPT ![l] = lh[l]]
             /\ cur[l] \in Topics \cup {"none"} /\ cur = [cur EXCEPT ![l] = cur[l]]
             /\ wire[l] \in Seq(Topics \cup {"ack"}) /\ wire = [wire EXCEPT ![l] = wire[l]]
             /\ ended \subseteq Listeners
  BY <1>1 DEF StreamTypes
<1>5. ASSUME NEW l \in Listeners, Subscribe(l) PROVE StreamTypes'
  <2>1. <<>> \in Seq(Topics) /\ Len(<<>>) <= Cap /\ <<>> \in Seq(Topics \cup {"ack"})
    BY <1>1
  <2>2. QED
    BY <1>3, <1>4, <1>5, <2>1 DEF Subscribe, Goto
<1>6. ASSUME NEW l \in Listeners, Acknowledge(l) PROVE StreamTypes'
  <2>1. Append(wire[l], "ack") \in Seq(Topics \cup {"ack"})
    BY <1>4
  <2>2. QED
    <3>1. lh' = [lh EXCEPT ![l] = "select"] /\ wire' = [wire EXCEPT ![l] = Append(wire[l], "ack")]
      BY <1>6 DEF Acknowledge, Goto
    <3>2. UNCHANGED <<ch, cur, ended>>
      BY <1>6 DEF Acknowledge
    <3>3. QED
      BY <1>1, <2>1, <3>1, <3>2 DEF StreamTypes
<1>7. ASSUME NEW l \in Listeners, AckFails(l) \/ ListenReturns(l) PROVE StreamTypes'
  <2>1. lh' = [lh EXCEPT ![l] = "ended"] /\ UNCHANGED <<ch, cur, wire, ended>>
    BY <1>7 DEF AckFails, ListenReturns, Goto
  <2>2. QED
    BY <1>1, <2>1 DEF StreamTypes
<1>8. ASSUME NEW l \in Listeners, TakeNotification(l) PROVE StreamTypes'
  <2>1. Tail(ch[l]) \in Seq(Topics) /\ Len(Tail(ch[l])) <= Cap /\ Head(ch[l]) \in Topics
    BY <1>1, <1>4, <1>8 DEF TakeNotification
  <2>2. QED
    BY <1>3, <1>4, <1>8, <2>1 DEF TakeNotification, Goto
<1>9. ASSUME NEW l \in Listeners, WriteNotification(l) PROVE StreamTypes'
  <2>1. cur[l] \in Topics
    BY <1>9 DEF WriteNotification, Inv, HasWhatItWrites
  <2>2. Append(wire[l], cur[l]) \in Seq(Topics \cup {"ack"})
    <3>1. cur[l] \in Topics \cup {"ack"}
      BY <2>1
    <3>2. QED
      BY <1>4, <3>1, AppendProperties
  <2>3. PICK w \in Seq(Topics \cup {"ack"}) : wire' = [wire EXCEPT ![l] = w]
    BY <1>4, <1>9, <2>2 DEF WriteNotification
  <2>4. UNCHANGED <<ch, ended>> /\ lh' = [lh EXCEPT ![l] = "select"] /\ cur' = [cur EXCEPT ![l] = "none"]
    BY <1>9 DEF WriteNotification, Goto
  <2>5. QED
    BY <1>3, <1>4, <2>3, <2>4
<1>10. ASSUME NEW l \in Listeners, ReadStream(l) PROVE StreamTypes'
  <2>1. Tail(wire[l]) \in Seq(Topics \cup {"ack"})
    BY <1>4, <1>10 DEF ReadStream
  <2>2. QED
    <3>1. wire' = [wire EXCEPT ![l] = Tail(wire[l])] /\ UNCHANGED <<ch, lh, cur, ended>>
      BY <1>10 DEF ReadStream, brokerVars
    <3>2. QED
      BY <1>1, <2>1, <3>1 DEF StreamTypes
<1>11. ASSUME NEW l \in Listeners, Cancel(l) PROVE StreamTypes'
  BY <1>1, <1>11 DEF Cancel, brokerVars, StreamTypes
<1>12. CASE UNCHANGED <<ch, lh, cur, wire, ended>>
  BY <1>1, <1>12 DEF StreamTypes
<1>13. QED
  BY <1>2, <1>5, <1>6, <1>7, <1>8, <1>9, <1>10, <1>11, <1>12
  DEF Next, Mutate, Finish, Register, Unregister, ContentChanges, NotifyUpdated, Listen,
      Connect, GetsStuck, Client, ListPage, TakePage, vars, serverVars, brokerVars

(* The answer to resources/list. *)
Replies == [ok: BOOLEAN, page: Seq(Entries), next: Nat]

LEMMA PaginateType ==
  ASSUME list \in Seq(Entries), NEW o \in Nat
  PROVE  /\ Paginate(o) \in Replies
         /\ NoReply \in Replies
<1>1. NoReply \in Replies
  BY DEF NoReply, Replies
<1>2. CASE o > Len(list)
  BY <1>1, <1>2 DEF Paginate
<1>3. CASE ~(o > Len(list))
  <2>1. PageEnd(o) \in 0 .. Len(list) /\ PageEnd(o) \in Nat
    BY <1>3, PageSizeOK DEF PageEnd
  <2>2. SubSeq(list, o + 1, PageEnd(o)) \in Seq(Entries)
    BY <2>1
  <2>3. QED
    BY <1>1, <1>3, <2>1, <2>2 DEF Paginate, Replies
<1>4. QED
  BY <1>2, <1>3

(* What the client knows. *)
ClientTypes ==
  /\ phase \in [Listeners -> {"deaf", "due", "asked", "fresh", "stuck"}]
  /\ off \in [Listeners -> Nat]
  /\ acc \in [Listeners -> Seq(Entries)]
  /\ reply \in [Listeners -> Replies]
  /\ view \in [Listeners -> Seq(Entries)]

LEMMA NextClientTypes == Inv /\ [Next]_vars => ClientTypes'
<1> SUFFICES ASSUME Inv, [Next]_vars PROVE ClientTypes'
  OBVIOUS
<1>1. ClientTypes /\ list \in Seq(Entries) /\ NoReply \in Replies
  BY DEF Inv, TypeOK, BrokerTypeOK, ClientTypes, Replies, NoReply
<1>2. ASSUME NEW l \in Listeners, NEW p \in {"deaf", "due", "stuck"}, Forget(l, p), UNCHANGED view
      PROVE  ClientTypes'
  BY <1>1, <1>2 DEF Forget, ClientTypes
<1>3. ASSUME NEW l \in Listeners, ListPage(l) PROVE ClientTypes'
  <2>1. Paginate(off[l]) \in Replies
    BY <1>1, PaginateType DEF ClientTypes
  <2>2. QED
    BY <1>1, <1>3, <2>1 DEF ListPage, ClientTypes
<1>4. ASSUME NEW l \in Listeners, TakePage(l), reply[l].ok PROVE ClientTypes'
  <2>1. reply[l] \in Replies /\ reply[l].next \in Nat /\ reply[l].page \in Seq(Entries)
    BY <1>1 DEF ClientTypes, Replies
  <2>2. acc[l] \o reply[l].page \in Seq(Entries) /\ <<>> \in Seq(Entries)
    <3>1. acc[l] \in Seq(Entries)
      BY <1>1 DEF ClientTypes
    <3>2. QED
      BY <2>1, <3>1, ConcatProperties
  <2>3. /\ reply' = [reply EXCEPT ![l] = NoReply] /\ off' = [off EXCEPT ![l] = reply[l].next]
        /\ \/ /\ phase' = [phase EXCEPT ![l] = "due"]
              /\ acc' = [acc EXCEPT ![l] = acc[l] \o reply[l].page] /\ view' = view
           \/ /\ phase' = [phase EXCEPT ![l] = "fresh"] /\ acc' = [acc EXCEPT ![l] = <<>>]
              /\ view' = [view EXCEPT ![l] = acc[l] \o reply[l].page]
    BY <1>4 DEF TakePage
  <2>4. QED
    BY <1>1, <2>1, <2>2, <2>3 DEF ClientTypes
<1>5. CASE UNCHANGED clientVars
  BY <1>1, <1>5 DEF clientVars, ClientTypes
<1>6. ASSUME NEW l \in Listeners, Connect(l) \/ GetsStuck(l) \/ Client(l) PROVE ClientTypes'
  BY <1>1, <1>2, <1>3, <1>4, <1>6
  DEF Connect, GetsStuck, Client, ReadStream, TakePage, Restart, ClientTypes
<1>7. QED
  BY <1>5, <1>6 DEF Next, vars

LEMMA NextHolds == Inv /\ [Next]_vars => HasWhatItWrites'
<1> SUFFICES ASSUME Inv, [Next]_vars PROVE HasWhatItWrites'
  OBVIOUS
<1>1. HasWhatItWrites /\ ch \in [Listeners -> Seq(Topics)]
      /\ lh \in [Listeners -> {"idle", "ack", "select", "write", "ended"}]
      /\ cur \in [Listeners -> Topics \cup {"none"}]
  BY DEF Inv, TypeOK, BrokerTypeOK
<1>2. ASSUME NEW l \in Listeners, TakeNotification(l) PROVE HasWhatItWrites'
  <2>1. Head(ch[l]) \in Topics
    BY <1>1, <1>2 DEF TakeNotification
  <2>2. QED
    BY <1>1, <1>2, <2>1 DEF TakeNotification, Goto, HasWhatItWrites
<1>3. ASSUME NEW l \in Listeners,
             Acknowledge(l) \/ AckFails(l) \/ WriteNotification(l) \/ ListenReturns(l) \/ Subscribe(l)
      PROVE  HasWhatItWrites'
  <2>1. \E s \in {"ack", "select", "ended"} : lh' = [lh EXCEPT ![l] = s]
    BY <1>3 DEF Acknowledge, AckFails, WriteNotification, ListenReturns, Subscribe, Goto
  <2>2. cur' = [cur EXCEPT ![l] = "none"] \/ (cur' = cur /\ lh[l] \in {"ack", "select"})
    <3>1. CASE WriteNotification(l)
      BY <3>1 DEF WriteNotification
    <3>2. CASE Subscribe(l)
      BY <3>2 DEF Subscribe
    <3>3. CASE Acknowledge(l) \/ AckFails(l) \/ ListenReturns(l)
      BY <3>3 DEF Acknowledge, AckFails, ListenReturns
    <3>4. QED
      BY <1>3, <3>1, <3>2, <3>3
  <2>3. ASSUME NEW k \in Listeners
        PROVE  IF lh'[k] = "write" THEN cur'[k] \in Topics ELSE cur'[k] = "none"
    <3>1. CASE k = l
      BY <1>1, <2>1, <2>2, <3>1 DEF HasWhatItWrites
    <3>2. CASE k # l
      BY <1>1, <2>1, <2>2, <3>2 DEF HasWhatItWrites
    <3>3. QED
      BY <3>1, <3>2
  <2>4. QED
    BY <2>3 DEF HasWhatItWrites
<1>4. CASE UNCHANGED <<lh, cur>>
  BY <1>1, <1>4 DEF HasWhatItWrites
<1>5. QED
  BY <1>2, <1>3, <1>4
  DEF Next, Mutate, Finish, Register, Unregister, ContentChanges, NotifyUpdated, Broadcast,
      Listen, Cancel, Connect, GetsStuck, Client, ReadStream, ListPage, TakePage,
      vars, serverVars, brokerVars

LEMMA NextInv == Inv /\ [Next]_vars => Inv'
<1> SUFFICES ASSUME Inv, [Next]_vars PROVE Inv'
  OBVIOUS
<1>1. TypeOK'
  BY NextRegistry, NextSubscriptions, NextTodo, NextStreamTypes, NextClientTypes
  DEF TypeOK, BrokerTypeOK, StreamTypes, ClientTypes, Chores, Replies
<1>2. QED
  BY <1>1, NextRegistry, NextSubscriptions, NextHolds DEF Inv

LEMMA Invariant == Spec => []Inv
  BY InitInv, NextInv, PTL DEF Spec

(* The type invariant, for every reachable state. *)
THEOREM TypeCorrect == Spec => []TypeOK
<1>1. Inv => TypeOK
  BY DEF Inv
<1>2. QED
  BY <1>1, Invariant, PTL

(* However registrations, replacements and removals follow one another,    *)
(* r.resources and the function map hold the same URIs, each once.         *)
THEOREM RegistryAlwaysConsistent == Spec => []RegistryConsistent
<1>1. Inv => RegistryConsistent
  BY DEF Inv
<1>2. QED
  BY <1>1, Invariant, PTL

(* The broker holds the subscriptions of the running listen handlers, and  *)
(* no other, however handlers fail, are cancelled and connect again.       *)
THEOREM SubscriptionsNeverLeak == Spec => []NoLeakedSubscription
<1>1. Inv => NoLeakedSubscription
  BY DEF Inv
<1>2. QED
  BY <1>1, Invariant, PTL

-----------------------------------------------------------------------------
(* No change is lost.  While no list_changed is on its way to a client,    *)
(* what it has fetched so far is a prefix of the list as it is, the page   *)
(* it is being sent the next piece of it, and its copy, once complete, the *)
(* list.  A channel that drops list_changed is full, and of a stream that  *)
(* asked for nothing else it is full of list_changed.                      *)

(* A channel holds only topics that its stream has asked for. *)
Filtered == \A l \in Listeners : \A i \in 1 .. Len(ch[l]) : ch[l][i] \in Filter[l]

(* Before NotifyUpdated has looked its URI up there is nothing to announce.*)
ChecksAlone ==
  \A m \in Mutators : \A i \in 1 .. Len(todo[m]) : todo[m][i].do = "check" => Len(todo[m]) = 1

(* Without a listen handler a client has nothing to go by. *)
HearsNothing == \A l \in Listeners : lh[l] = "idle" => phase[l] \in {"deaf", "stuck"} /\ wire[l] = <<>>

PrefixHeld(l) == off[l] \in 0 .. Len(list) /\ acc[l] = SubSeq(list, 1, off[l])

UpToDate(l) ==
  /\ phase[l] = "due" => PrefixHeld(l)
  /\ phase[l] = "asked" => PrefixHeld(l) /\ reply[l] = Paginate(off[l])
  /\ phase[l] = "fresh" => view[l] = list

ListsOnly(l) == Filter[l] = {"list"}

CaughtUp ==
  \A l \in Listeners :
    ListsOnly(l) /\ Connected(l) => UpToDate(l) \/ OnItsWay(l, "list")

LostInv == Filtered /\ ChecksAlone /\ HearsNothing /\ CaughtUp

LEMMA InitLostInv == Init => LostInv
  BY BrokerConstants
  DEF Init, BrokerInit, LostInv, Filtered, ChecksAlone, HearsNothing, CaughtUp, UpToDate

LEMMA NextFiltered == Inv /\ Filtered /\ [Next]_vars => Filtered'
<1> SUFFICES ASSUME Inv, Filtered, [Next]_vars PROVE Filtered'
  OBVIOUS
<1>1. ch \in [Listeners -> Seq(Topics)] /\ todo \in [Mutators -> Seq(Chores)] /\ Filtered
  BY DEF Inv, TypeOK, BrokerTypeOK, Chores
<1>2. ASSUME NEW m \in Mutators, Broadcast(m), NEW l \in Listeners
      PROVE  \A i \in 1 .. Len(ch'[l]) : ch'[l][i] \in Filter[l]
  <2>1. PICK t \in Topics : ch'[l] = IF Wants(l, t) /\ HasRoom(l) THEN Append(ch[l], t) ELSE ch[l]
    <3>1. Head(todo[m]) \in Chores
      BY <1>1, <1>2 DEF Broadcast
    <3>2. Head(todo[m]).topic \in Topics
      BY <3>1 DEF Chores, Topics
    <3>3. QED
      BY <1>2, <3>2 DEF Broadcast
  <2>2. CASE Wants(l, t) /\ HasRoom(l)
    <3>1. /\ Len(Append(ch[l], t)) = Len(ch[l]) + 1
          /\ \A i \in 1 .. Len(ch[l]) : Append(ch[l], t)[i] = ch[l][i]
          /\ Append(ch[l], t)[Len(ch[l]) + 1] = t
      BY <1>1, AppendProperties
    <3>2. QED
      BY <1>1, <2>1, <2>2, <3>1 DEF Filtered, Wants
  <2>3. CASE ~(Wants(l, t) /\ HasRoom(l))
    BY <1>1, <2>1, <2>3 DEF Filtered
  <2>4. QED
    BY <2>2, <2>3
<1>3. ASSUME NEW l \in Listeners, TakeNotification(l) PROVE Filtered'
  <2>1. /\ ch' = [ch EXCEPT ![l] = Tail(ch[l])] /\ Len(Tail(ch[l])) = Len(ch[l]) - 1
        /\ \A i \in 1 .. Len(Tail(ch[l])) : Tail(ch[l])[i] = ch[l][i + 1]
    BY <1>1, <1>3, HeadTailProperties DEF TakeNotification
  <2>2. \A i \in 1 .. Len(Tail(ch[l])) : Tail(ch[l])[i] \in Filter[l]
    BY <1>1, <2>1 DEF Filtered
  <2>3. QED
    BY <1>1, <2>1, <2>2 DEF Filtered
<1>4. ASSUME NEW l \in Listeners, Subscribe(l) PROVE Filtered'
  BY <1>1, <1>4 DEF Subscribe, Filtered
<1>5. CASE UNCHANGED ch
  BY <1>1, <1>5 DEF Filtered
<1>6. ASSUME NEW m \in Mutators, Broadcast(m) PROVE Filtered'
  BY <1>2, <1>6 DEF Filtered
<1>7. QED
  BY <1>3, <1>4, <1>5, <1>6
  DEF Next, Mutate, Finish, Register, Unregister, ContentChanges, NotifyUpdated,
      Listen, Acknowledge, AckFails, WriteNotification, ListenReturns, Cancel, Connect,
      GetsStuck, Client, ReadStream, ListPage, TakePage, vars, serverVars, brokerVars

LEMMA NextChecksAlone == Inv /\ ChecksAlone /\ [Next]_vars => ChecksAlone'
<1> SUFFICES ASSUME Inv, ChecksAlone, [Next]_vars PROVE ChecksAlone'
  OBVIOUS
<1>1. todo \in [Mutators -> Seq(Chores)] /\ ChecksAlone
  BY DEF Inv, TypeOK, BrokerTypeOK, Chores
<1>2. ASSUME NEW m \in Mutators, NEW s, todo' = [todo EXCEPT ![m] = s],
             \A i \in 1 .. Len(s) : s[i].do = "check" => Len(s) = 1
      PROVE  ChecksAlone'
  BY <1>1, <1>2 DEF ChecksAlone
<1>3. ASSUME NEW m \in Mutators, Mutate(m) \/ NotifyUpdated(m) PROVE ChecksAlone'
  <2>1. \A u : /\ Announce(u).do = "announce"
               /\ Len(<<Check(u)>>) = 1 /\ <<Announce(u)>>[1] = Announce(u) /\ Len(<<Announce(u)>>) = 1
               /\ Len(<<Announce("list"), Announce(u)>>) = 2
               /\ <<Announce("list"), Announce(u)>>[1] = Announce("list")
               /\ <<Announce("list"), Announce(u)>>[2] = Announce(u)
    BY DEF Announce, Check
  <2>2. PICK s, u : /\ todo' = [todo EXCEPT ![m] = s]
                    /\ s \in {<<>>, <<Check(u)>>, <<Announce(u)>>, <<Announce("list")>>,
                              <<Announce("list"), Announce(u)>>}
    BY <1>3 DEF Mutate, Register, Unregister, ContentChanges, NotifyUpdated, AfterRegister, AfterUnregister
  <2>3. \A i \in 1 .. Len(s) : s[i].do = "check" => Len(s) = 1
    BY <2>1, <2>2
  <2>4. QED
    BY <1>2, <2>2, <2>3
<1>4. ASSUME NEW m \in Mutators, Broadcast(m) PROVE ChecksAlone'
  <2>1. /\ todo[m] \in Seq(Chores) /\ todo[m] # <<>>
        /\ todo' = [todo EXCEPT ![m] = Tail(todo[m])] /\ Head(todo[m]).do = "announce"
    BY <1>1, <1>4 DEF Broadcast
  <2>2. /\ Len(Tail(todo[m])) = Len(todo[m]) - 1
        /\ \A i \in 1 .. Len(Tail(todo[m])) : Tail(todo[m])[i] = todo[m][i + 1]
    BY <2>1, HeadTailProperties
  <2>3. ASSUME NEW i \in 1 .. Len(Tail(todo[m])), Tail(todo[m])[i].do = "check" PROVE FALSE
    <3>1. i + 1 \in 1 .. Len(todo[m]) /\ todo[m][i + 1].do = "check" /\ Len(todo[m]) >= 2
      BY <2>1, <2>2, <2>3
    <3>2. QED
      BY <1>1, <3>1 DEF ChecksAlone
  <2>4. QED
    BY <1>2, <2>1, <2>3
<1>5. CASE UNCHANGED todo
  BY <1>1, <1>5 DEF ChecksAlone
<1>6. QED
  BY <1>3, <1>4, <1>5
  DEF Next, Finish, Listen, Acknowledge, AckFails, TakeNotification, WriteNotification,
      ListenReturns, Cancel, Connect, Subscribe, GetsStuck, Client, ReadStream, ListPage,
      TakePage, vars, serverVars

LEMMA NextHearsNothing == Inv /\ HearsNothing /\ [Next]_vars => HearsNothing'
<1> SUFFICES ASSUME Inv, HearsNothing, [Next]_vars, NEW k \in Listeners, lh'[k] = "idle"
             PROVE  phase'[k] \in {"deaf", "stuck"} /\ wire'[k] = <<>>
  BY DEF HearsNothing
<1>1. /\ DOMAIN phase = Listeners /\ DOMAIN wire = Listeners
      /\ lh \in [Listeners -> {"idle", "ack", "select", "write", "ended"}]
      /\ (lh[k] = "idle" => phase[k] \in {"deaf", "stuck"} /\ wire[k] = <<>>)
  BY DEF Inv, TypeOK, BrokerTypeOK, HearsNothing
<1>2. ASSUME NEW l \in Listeners, Listen(l) PROVE lh[l] # "idle" /\ l # k
  BY <1>1, <1>2
  DEF Listen, Acknowledge, AckFails, TakeNotification, WriteNotification, ListenReturns, Goto
<1>3. ASSUME NEW l \in Listeners, Listen(l), UNCHANGED clientVars
      PROVE  lh'[k] = lh[k] /\ phase'[k] = phase[k] /\ wire'[k] = wire[k]
  BY <1>1, <1>2, <1>3
  DEF Listen, Acknowledge, AckFails, TakeNotification, WriteNotification, ListenReturns, Goto,
      clientVars
<1>4. ASSUME NEW l \in Listeners, Connect(l)
      PROVE  lh'[k] = lh[k] /\ phase'[k] = phase[k] /\ wire'[k] = wire[k]
  BY <1>1, <1>4 DEF Connect, Subscribe, Goto, Forget
<1>5. ASSUME NEW l \in Listeners, GetsStuck(l)
      PROVE  lh'[k] = lh[k] /\ phase'[k] \in {phase[k], "stuck"} /\ wire'[k] = wire[k]
  BY <1>1, <1>5 DEF GetsStuck, Forget, serverVars, brokerVars
<1>6. ASSUME NEW l \in Listeners, Client(l)
      PROVE  lh'[k] = lh[k] /\ (lh[k] = "idle" => phase'[k] = phase[k] /\ wire'[k] = wire[k])
  <2>1. CASE l = k
    BY <1>1, <1>6, <2>1
    DEF Client, ReadStream, ListPage, TakePage, serverVars, brokerVars
  <2>2. CASE l # k
    BY <1>1, <1>6, <2>2
    DEF Client, ReadStream, ListPage, TakePage, Restart, Forget, serverVars, brokerVars
  <2>3. QED
    BY <2>1, <2>2
<1>7. CASE UNCHANGED <<lh, phase, wire>>
  BY <1>1, <1>7
<1>8. QED
  BY <1>1, <1>3, <1>4, <1>5, <1>6, <1>7
  DEF Next, Mutate, Finish, Register, Unregister, ContentChanges, NotifyUpdated, Broadcast,
      Cancel, vars, serverVars, brokerVars, clientVars

(* The ways a list_changed can be on. *)
Pending   == \E m \in Mutators : \E i \in 1 .. Len(todo[m]) : todo[m][i] = Announce("list")
Queued(l) == \E i \in 1 .. Len(ch[l]) : ch[l][i] = "list"
Sent(l)   == \E i \in 1 .. Len(wire[l]) : wire[l][i] = "list"

LEMMA Ways ==
  ASSUME NEW l
  PROVE  OnItsWay(l, "list") <=> Pending \/ Queued(l) \/ cur[l] = "list" \/ Sent(l)
  BY DEF OnItsWay, Pending, Queued, Sent

(* A client that starts again has the empty prefix of any list. *)
LEMMA FreshStart ==
  ASSUME Inv, NEW l \in Listeners, Restart(l), UNCHANGED list
  PROVE  UpToDate(l)'
<1>1. phase'[l] = "due" /\ off'[l] = 0 /\ acc'[l] = <<>>
  BY DEF Restart, Forget, Inv, TypeOK
<1>2. list \in Seq(Entries) /\ SubSeq(list, 1, 0) = <<>>
  BY SubSeqEmpty DEF Inv, TypeOK, BrokerTypeOK
<1>3. QED
  BY <1>1, <1>2 DEF UpToDate, PrefixHeld

(* A page continues the prefix, and the last one completes the list. *)
LEMMA PageFits ==
  ASSUME Inv, NEW l \in Listeners, phase[l] = "asked", UpToDate(l), TakePage(l)
  PROVE  UpToDate(l)'
<1>1. /\ list \in Seq(Entries) /\ off[l] \in 0 .. Len(list) /\ acc[l] = SubSeq(list, 1, off[l])
      /\ reply[l] = Paginate(off[l]) /\ list' = list
  BY DEF Inv, TypeOK, BrokerTypeOK, UpToDate, PrefixHeld, TakePage, serverVars, registryVars
<1>2. PICK e \in Nat : e = PageEnd(off[l])
  BY <1>1, PageSizeOK DEF PageEnd
<1>3. e \in off[l] .. Len(list) /\ (e # Len(list) => e < Len(list) /\ e # 0)
  BY <1>1, <1>2, PageSizeOK DEF PageEnd
<1>4. /\ reply[l].ok /\ reply[l].page = SubSeq(list, off[l] + 1, e)
      /\ reply[l].next = IF e < Len(list) THEN e ELSE 0
  <2>1. ~(off[l] > Len(list))
    BY <1>1
  <2>2. QED
    BY <1>1, <1>2, <2>1 DEF Paginate
<1>5. acc[l] \o reply[l].page = SubSeq(list, 1, e)
  <2>1. 1 \in 1 .. Len(list) + 1 /\ off[l] \in 1 - 1 .. Len(list) /\ e \in off[l] .. Len(list)
    BY <1>1, <1>3
  <2>2. SubSeq(list, 1, off[l]) \o SubSeq(list, off[l] + 1, e) = SubSeq(list, 1, e)
    BY <1>1, <2>1, ConcatAdjacentSubSeq
  <2>3. QED
    BY <1>1, <1>4, <2>2
<1>6. DOMAIN phase = Listeners /\ DOMAIN off = Listeners /\ DOMAIN acc = Listeners /\ DOMAIN view = Listeners
  BY DEF Inv, TypeOK
<1>7. CASE e < Len(list)
  <2>1. phase'[l] = "due" /\ off'[l] = e /\ acc'[l] = SubSeq(list, 1, e)
    <3>1. reply[l].next = e /\ reply[l].next # 0 /\ reply[l].ok
      BY <1>3, <1>4, <1>7
    <3>2. /\ phase' = [phase EXCEPT ![l] = "due"] /\ off' = [off EXCEPT ![l] = reply[l].next]
          /\ acc' = [acc EXCEPT ![l] = acc[l] \o reply[l].page]
      BY <3>1 DEF TakePage
    <3>3. QED
      BY <1>5, <1>6, <3>1, <3>2
  <2>2. QED
    BY <1>1, <1>3, <2>1 DEF UpToDate, PrefixHeld
<1>8. CASE e = Len(list)
  <2>1. phase'[l] = "fresh" /\ view'[l] = SubSeq(list, 1, e)
    <3>1. reply[l].next = 0 /\ reply[l].ok
      BY <1>4, <1>8
    <3>2. /\ phase' = [phase EXCEPT ![l] = "fresh"]
          /\ view' = [view EXCEPT ![l] = acc[l] \o reply[l].page]
      BY <3>1 DEF TakePage
    <3>3. QED
      BY <1>5, <1>6, <3>1, <3>2
  <2>2. SubSeq(list, 1, e) = list
    BY <1>1, <1>8, SubSeqFull
  <2>3. QED
    BY <1>1, <2>1, <2>2 DEF UpToDate
<1>9. QED
  BY <1>3, <1>7, <1>8

(* What is said of the client of l when a step changes neither the list    *)
(* nor what the client knows.                                              *)
LEMMA SameKnowledge ==
  ASSUME NEW l, UpToDate(l), UNCHANGED <<list, clientVars>>
  PROVE  UpToDate(l)'
  BY DEF UpToDate, PrefixHeld, Paginate, PageEnd, clientVars

LEMMA NextCaughtUp == Inv /\ LostInv /\ [Next]_vars => CaughtUp'
<1> SUFFICES ASSUME Inv, LostInv, [Next]_vars, NEW l \in Listeners, ListsOnly(l), Connected(l)'
             PROVE  UpToDate(l)' \/ OnItsWay(l, "list")'
  BY DEF CaughtUp, ListsOnly
<1>1. /\ list \in Seq(Entries) /\ todo \in [Mutators -> Seq(Chores)]
      /\ ch \in [Listeners -> Seq(Topics)] /\ wire \in [Listeners -> Seq(Topics \cup {"ack"})]
      /\ cur \in [Listeners -> Topics \cup {"none"}]
      /\ lh \in [Listeners -> {"idle", "ack", "select", "write", "ended"}]
      /\ phase \in [Listeners -> {"deaf", "due", "asked", "fresh", "stuck"}]
  BY DEF Inv, TypeOK, BrokerTypeOK, Chores
<1>2. Connected(l) => UpToDate(l) \/ OnItsWay(l, "list")
  BY DEF LostInv, CaughtUp
<1> DEFINE Goal == UpToDate(l)' \/ OnItsWay(l, "list")'
<1>3. OnItsWay(l, "list")' <=> Pending' \/ Queued(l)' \/ cur'[l] = "list" \/ Sent(l)'
  BY DEF OnItsWay, Pending, Queued, Sent
<1>4. ASSUME NEW m \in Mutators, NEW u \in Uris, Register(m, u) \/ Unregister(m, u) PROVE Goal
  <2>1. PICK s : /\ todo' = [todo EXCEPT ![m] = s]
                 /\ s \in {<<Announce("list")>>, <<Announce("list"), Announce(u)>>}
    BY <1>4 DEF Register, Unregister, AfterRegister, AfterUnregister
  <2>2. 1 \in 1 .. Len(s) /\ s[1] = Announce("list")
    BY <2>1
  <2>3. todo'[m] = s
    BY <1>1, <2>1
  <2>4. QED
    BY <1>3, <2>2, <2>3 DEF Pending
<1>5. ASSUME NEW m \in Mutators, UNCHANGED <<list, clientVars, ch, lh, cur, wire, ended>>,
             Pending => Pending'
      PROVE  Goal
  <2>1. Connected(l) /\ (Queued(l) => Queued(l)') /\ (Sent(l) => Sent(l)') /\ cur'[l] = cur[l]
    BY <1>5 DEF Connected, Queued, Sent
  <2>2. QED
    BY <1>2, <1>3, <1>5, <2>1, Ways, SameKnowledge
<1>6. ASSUME NEW m \in Mutators, NEW u \in Uris, ContentChanges(m, u), UNCHANGED clientVars PROVE Goal
  <2>1. Pending => Pending'
    BY <1>1, <1>6 DEF ContentChanges, Pending
  <2>2. QED
    BY <1>5, <1>6, <2>1 DEF ContentChanges, brokerVars
<1>7. ASSUME NEW m \in Mutators, NotifyUpdated(m), UNCHANGED clientVars PROVE Goal
  <2>1. \A i \in 1 .. Len(todo[m]) : todo[m][i] # Announce("list")
    <3>1. todo[m] \in Seq(Chores) /\ todo[m] # <<>> /\ todo[m][1].do = "check"
      BY <1>1, <1>7 DEF NotifyUpdated
    <3>2. Len(todo[m]) = 1
      BY <3>1 DEF LostInv, ChecksAlone
    <3>3. QED
      BY <3>1, <3>2 DEF Announce
  <2>2. \E s : todo' = [todo EXCEPT ![m] = s]
    BY <1>7 DEF NotifyUpdated
  <2>3. Pending => Pending'
    BY <1>1, <2>1, <2>2 DEF Pending
  <2>4. QED
    BY <1>5, <1>7, <2>3 DEF NotifyUpdated, brokerVars, registryVars
<1>8. ASSUME NEW m \in Mutators, Broadcast(m), UNCHANGED clientVars PROVE Goal
  <2>1. PICK t \in Topics :
          /\ Head(todo[m]).topic = t
          /\ ch'[l] = IF Wants(l, t) /\ HasRoom(l) THEN Append(ch[l], t) ELSE ch[l]
    <3>1. Head(todo[m]) \in Chores
      BY <1>1, <1>8 DEF Broadcast
    <3>2. Head(todo[m]).topic \in Topics
      BY <3>1 DEF Chores, Topics
    <3>3. QED
      BY <1>8, <3>2 DEF Broadcast
  <2>2. UNCHANGED <<list, lh, cur, wire, ended>> /\ Connected(l)
    BY <1>8 DEF Broadcast, registryVars, Connected
  <2>3. Queued(l) => Queued(l)'
    <3>1. /\ Len(Append(ch[l], t)) = Len(ch[l]) + 1
          /\ \A i \in 1 .. Len(ch[l]) : Append(ch[l], t)[i] = ch[l][i]
      BY <1>1, AppendProperties
    <3>2. \A i \in 1 .. Len(ch[l]) : i \in 1 .. Len(ch'[l]) /\ ch'[l][i] = ch[l][i]
      BY <1>1, <2>1, <3>1
    <3>3. QED
      BY <3>2 DEF Queued
  <2>4. CASE UpToDate(l) \/ Queued(l) \/ cur[l] = "list" \/ Sent(l)
    <3>1. Sent(l) => Sent(l)'
      BY <2>2 DEF Sent
    <3>2. QED
      BY <1>3, <1>8, <2>2, <2>3, <2>4, <3>1, SameKnowledge
  <2>5. CASE Pending /\ ~UpToDate(l)
    <3>0. PICK n \in Mutators : \E i \in 1 .. Len(todo[n]) : todo[n][i] = Announce("list")
      BY <2>5 DEF Pending
    <3>1. PICK i \in 1 .. Len(todo[n]) : todo[n][i] = Announce("list")
      BY <3>0
    <3>2. /\ todo[m] \in Seq(Chores) /\ todo[m] # <<>> /\ Head(todo[m]) = todo[m][1]
          /\ todo' = [todo EXCEPT ![m] = Tail(todo[m])]
          /\ Len(Tail(todo[m])) = Len(todo[m]) - 1
          /\ \A j \in 1 .. Len(Tail(todo[m])) : Tail(todo[m])[j] = todo[m][j + 1]
      BY <1>1, <1>8, HeadTailProperties DEF Broadcast
    <3>3. CASE n # m
      BY <1>1, <1>3, <3>1, <3>2, <3>3 DEF Pending
    <3>4. CASE n = m /\ i # 1
      <4>1. i - 1 \in 1 .. Len(Tail(todo[m])) /\ (i - 1) + 1 = i
        BY <1>1, <3>1, <3>2, <3>4
      <4>2. todo'[m] = Tail(todo[m]) /\ Tail(todo[m])[i - 1] = Announce("list")
        BY <1>1, <3>1, <3>2, <3>4, <4>1
      <4>3. QED
        BY <1>3, <4>1, <4>2 DEF Pending
    <3>5. CASE n = m /\ i = 1
      <4>1. t = "list"
        BY <2>1, <3>1, <3>2, <3>5 DEF Announce
      <4>2. Wants(l, t)
        <5>1. lh[l] \notin {"idle", "ended"}
          BY <2>2, <2>5 DEF LostInv, HearsNothing, UpToDate, Connected
        <5>2. QED
          BY <1>1, <4>1, <5>1 DEF Wants, ListsOnly, Inv, NoLeakedSubscription
      <4>3. Queued(l)'
        <5>1. ch[l] \in Seq(Topics) /\ Cap \in Nat \ {0}
          BY <1>1, BrokerConstants
        <5>2. CASE HasRoom(l)
          <6>1. ch'[l] = Append(ch[l], "list")
            BY <2>1, <4>1, <4>2, <5>2
          <6>2. Len(ch'[l]) = Len(ch[l]) + 1 /\ ch'[l][Len(ch[l]) + 1] = "list"
            BY <4>1, <5>1, <6>1, AppendProperties
          <6>3. QED
            BY <5>1, <6>2 DEF Queued
        <5>3. CASE ~HasRoom(l)
          <6>1. 1 \in 1 .. Len(ch[l]) /\ ch'[l] = ch[l]
            BY <2>1, <5>1, <5>3 DEF HasRoom
          <6>2. ch[l][1] = "list"
            BY <6>1 DEF LostInv, Filtered, ListsOnly
          <6>3. QED
            BY <6>1, <6>2 DEF Queued
        <5>4. QED
          BY <5>2, <5>3
      <4>4. QED
        BY <1>3, <4>3
    <3>6. QED
      BY <3>3, <3>4, <3>5
  <2>6. QED
    BY <1>2, <2>2, <2>4, <2>5, Ways
<1>9. ASSUME NEW k \in Listeners, k # l, Listen(k), UNCHANGED clientVars PROVE Goal
  <2>1. /\ UNCHANGED <<list, todo, ended>> /\ lh'[l] = lh[l]
        /\ ch'[l] = ch[l] /\ cur'[l] = cur[l] /\ wire'[l] = wire[l]
    BY <1>1, <1>9
    DEF Listen, Acknowledge, AckFails, TakeNotification, WriteNotification, ListenReturns, Goto,
        registryVars
  <2>2. QED
    BY <1>2, <1>3, <1>9, <2>1, Ways, SameKnowledge DEF Connected, Pending, Queued, Sent
<1>10. ASSUME Listen(l), UNCHANGED clientVars PROVE Goal
  <2>1. UNCHANGED <<list, todo, ended>> /\ l \notin ended /\ lh'[l] # "ended"
    BY <1>10
    DEF Listen, Acknowledge, AckFails, TakeNotification, WriteNotification, ListenReturns,
        registryVars, Connected
  <2>2. Pending => Pending'
    BY <2>1 DEF Pending
  <2>3. CASE Acknowledge(l)
    <3>1. wire'[l] = Append(wire[l], "ack") /\ UNCHANGED <<ch, cur>> /\ Connected(l)
      BY <1>1, <2>1, <2>3 DEF Acknowledge, Connected
    <3>2. Sent(l) => Sent(l)'
      BY <1>1, <3>1 DEF Sent
    <3>3. Queued(l) => Queued(l)'
      BY <3>1 DEF Queued
    <3>4. QED
      BY <1>2, <1>3, <1>10, <2>1, <2>2, <3>1, <3>2, <3>3, Ways, SameKnowledge
  <2>4. CASE TakeNotification(l)
    <3>1. /\ ch[l] # <<>> /\ ch'[l] = Tail(ch[l]) /\ cur'[l] = ch[l][1] /\ UNCHANGED wire
          /\ Connected(l) /\ cur[l] # "list"
      <4>1. lh[l] = "select" /\ cur[l] = "none" /\ Connected(l)
        BY <2>1, <2>4 DEF TakeNotification, Connected, Inv, HasWhatItWrites
      <4>2. ch[l] # <<>> /\ ch' = [ch EXCEPT ![l] = Tail(ch[l])] /\ cur' = [cur EXCEPT ![l] = Head(ch[l])]
            /\ UNCHANGED wire
        BY <2>4 DEF TakeNotification
      <4>3. Head(ch[l]) = ch[l][1]
        BY <1>1, <4>2
      <4>4. QED
        BY <1>1, <4>1, <4>2, <4>3
    <3>2. Queued(l) => cur'[l] = "list" \/ Queued(l)'
      <4>1. /\ Len(Tail(ch[l])) = Len(ch[l]) - 1
            /\ \A i \in 1 .. Len(Tail(ch[l])) : Tail(ch[l])[i] = ch[l][i + 1]
        BY <1>1, <3>1, HeadTailProperties
      <4>2. ASSUME NEW i \in 1 .. Len(ch[l]), ch[l][i] = "list", i # 1 PROVE Queued(l)'
        <5>1. i - 1 \in 1 .. Len(Tail(ch[l])) /\ (i - 1) + 1 = i
          BY <1>1, <4>1, <4>2
        <5>2. QED
          BY <3>1, <4>1, <4>2, <5>1 DEF Queued
      <4>3. QED
        BY <3>1, <4>2 DEF Queued
    <3>3. Sent(l) => Sent(l)'
      BY <3>1 DEF Sent
    <3>4. QED
      BY <1>2, <1>3, <1>10, <2>1, <2>2, <3>1, <3>2, <3>3, Ways, SameKnowledge
  <2>5. CASE WriteNotification(l)
    <3>1. wire'[l] = Append(wire[l], cur[l]) /\ UNCHANGED ch /\ Connected(l) /\ cur[l] \in Topics
      BY <1>1, <2>1, <2>5 DEF WriteNotification, Connected, Inv, HasWhatItWrites
    <3>2. (Sent(l) => Sent(l)') /\ (cur[l] = "list" => Sent(l)')
      <4>1. /\ Len(wire'[l]) = Len(wire[l]) + 1
            /\ \A i \in 1 .. Len(wire[l]) : wire'[l][i] = wire[l][i]
            /\ wire'[l][Len(wire[l]) + 1] = cur[l]
        <5>1. wire[l] \in Seq(Topics \cup {"ack"}) /\ cur[l] \in Topics \cup {"ack"}
          BY <1>1, <3>1
        <5>2. /\ Len(Append(wire[l], cur[l])) = Len(wire[l]) + 1
              /\ \A i \in 1 .. Len(wire[l]) : Append(wire[l], cur[l])[i] = wire[l][i]
              /\ Append(wire[l], cur[l])[Len(wire[l]) + 1] = cur[l]
          BY <5>1, AppendProperties
        <5>3. QED
          BY <3>1, <5>2
      <4>2. Len(wire[l]) \in Nat /\ Len(wire'[l]) = Len(wire[l]) + 1
        BY <1>1, <4>1
      <4>3. ASSUME NEW i \in 1 .. Len(wire[l]), wire[l][i] = "list" PROVE Sent(l)'
        BY <4>1, <4>2, <4>3 DEF Sent
      <4>4. ASSUME cur[l] = "list" PROVE Sent(l)'
        BY <4>1, <4>2, <4>4 DEF Sent
      <4>5. QED
        BY <4>3, <4>4 DEF Sent
    <3>3. Queued(l) => Queued(l)'
      BY <3>1 DEF Queued
    <3>4. QED
      BY <1>2, <1>3, <1>10, <2>1, <2>2, <3>1, <3>2, <3>3, Ways, SameKnowledge
  <2>6. QED
    BY <1>10, <2>1, <2>3, <2>4, <2>5 DEF Listen, AckFails, ListenReturns
<1>11. ASSUME NEW k \in Listeners, Cancel(k), UNCHANGED clientVars PROVE Goal
  <2>1. UNCHANGED <<list, todo, ch, cur, wire, lh>> /\ Connected(l)
    BY <1>11 DEF Cancel, brokerVars, registryVars, Connected
  <2>2. QED
    BY <1>2, <1>3, <1>11, <2>1, Ways, SameKnowledge DEF Pending, Queued, Sent
<1>12. ASSUME phase'[l] \in {"deaf", "stuck"} PROVE Goal
  BY <1>12 DEF UpToDate
<1>13. ASSUME NEW k \in Listeners, k # l, Connect(k) \/ GetsStuck(k) \/ Client(k) PROVE Goal
  <2>1. DOMAIN off = Listeners /\ DOMAIN acc = Listeners /\ DOMAIN reply = Listeners /\ DOMAIN view = Listeners
    BY DEF Inv, TypeOK
  <2>2. /\ UNCHANGED <<list, todo>> /\ lh'[l] = lh[l] /\ (l \in ended <=> l \in ended')
        /\ ch'[l] = ch[l] /\ cur'[l] = cur[l] /\ wire'[l] = wire[l]
        /\ phase'[l] = phase[l] /\ off'[l] = off[l] /\ acc'[l] = acc[l]
        /\ reply'[l] = reply[l] /\ view'[l] = view[l]
    <3>1. CASE Connect(k)
      BY <1>1, <1>13, <2>1, <3>1 DEF Connect, Subscribe, Goto, Forget, registryVars
    <3>2. CASE GetsStuck(k)
      BY <1>1, <1>13, <2>1, <3>2 DEF GetsStuck, Forget, serverVars, brokerVars, registryVars
    <3>3. CASE ReadStream(k)
      BY <1>1, <1>13, <2>1, <3>3 DEF ReadStream, Restart, Forget, brokerVars, registryVars
    <3>4. CASE ListPage(k)
      BY <1>1, <1>13, <2>1, <3>4 DEF ListPage, serverVars, brokerVars, registryVars
    <3>5. CASE TakePage(k)
      BY <1>1, <1>13, <2>1, <3>5 DEF TakePage, Restart, Forget, serverVars, brokerVars, registryVars
    <3>6. QED
      BY <1>13, <3>1, <3>2, <3>3, <3>4, <3>5 DEF Client
  <2>3. UpToDate(l) => UpToDate(l)'
    BY <2>2 DEF UpToDate, PrefixHeld, Paginate, PageEnd
  <2>4. QED
    BY <1>2, <1>3, <2>2, <2>3, Ways DEF Connected, Pending, Queued, Sent
<1>14. ASSUME ReadStream(l) PROVE Goal
  <2>1. CASE Head(wire[l]) \in {"ack", "list"}
    BY <1>14, <2>1, FreshStart DEF ReadStream, registryVars
  <2>2. CASE Head(wire[l]) \notin {"ack", "list"}
    <3>1. /\ wire[l] # <<>> /\ wire'[l] = Tail(wire[l]) /\ Head(wire[l]) = wire[l][1]
          /\ UNCHANGED <<list, todo, ch, cur, clientVars>> /\ Connected(l)
      BY <1>1, <1>14, <2>2 DEF ReadStream, brokerVars, registryVars, clientVars, Connected
    <3>2. Sent(l) => Sent(l)'
      <4>1. /\ Len(Tail(wire[l])) = Len(wire[l]) - 1
            /\ \A i \in 1 .. Len(Tail(wire[l])) : Tail(wire[l])[i] = wire[l][i + 1]
        BY <1>1, <3>1, HeadTailProperties
      <4>2. ASSUME NEW i \in 1 .. Len(wire[l]), wire[l][i] = "list" PROVE Sent(l)'
        <5>1. i # 1
          BY <2>2, <3>1, <4>2
        <5>2. i - 1 \in 1 .. Len(Tail(wire[l])) /\ (i - 1) + 1 = i
          BY <1>1, <4>1, <4>2, <5>1
        <5>3. QED
          BY <3>1, <4>1, <4>2, <5>2 DEF Sent
      <4>3. QED
        BY <4>2 DEF Sent
    <3>3. QED
      BY <1>2, <1>3, <3>1, <3>2, Ways, SameKnowledge DEF Pending, Queued
  <2>3. QED
    BY <2>1, <2>2
<1>15. ASSUME ListPage(l) \/ TakePage(l) PROVE Goal
  <2>1. UNCHANGED <<list, todo, ch, cur, wire>> /\ Connected(l)
    BY <1>15 DEF ListPage, TakePage, serverVars, brokerVars, registryVars, Connected
  <2>2. CASE UpToDate(l)
    <3>1. CASE ListPage(l)
      <4>1. /\ phase[l] = "due" /\ phase'[l] = "asked" /\ UNCHANGED <<off, acc>>
            /\ reply'[l] = Paginate(off[l])
        BY <1>1, <3>1 DEF ListPage, Inv, TypeOK
      <4>2. QED
        BY <2>1, <2>2, <4>1 DEF UpToDate, PrefixHeld, Paginate, PageEnd
    <3>2. CASE TakePage(l)
      BY <2>2, <3>2, PageFits DEF TakePage
    <3>3. QED
      BY <1>15, <3>1, <3>2
  <2>3. CASE OnItsWay(l, "list")
    BY <1>3, <2>1, <2>3, Ways DEF Pending, Queued, Sent
  <2>4. QED
    BY <1>2, <2>1, <2>2, <2>3
<1>16. CASE UNCHANGED vars
  <2>1. UNCHANGED <<list, todo, ch, cur, wire, clientVars>> /\ Connected(l)
    BY <1>16 DEF vars, serverVars, brokerVars, registryVars, Connected
  <2>2. QED
    BY <1>2, <1>3, <2>1, Ways, SameKnowledge DEF Pending, Queued, Sent
<1>17. ASSUME Connect(l) \/ GetsStuck(l) PROVE Goal
  BY <1>1, <1>12, <1>17 DEF Connect, GetsStuck, Forget
<1>18. ASSUME NEW k \in Listeners, Connect(k) \/ GetsStuck(k) \/ Client(k) PROVE Goal
  BY <1>13, <1>14, <1>15, <1>17, <1>18 DEF Client
<1>19. QED
  BY <1>4, <1>6, <1>7, <1>8, <1>9, <1>10, <1>11, <1>16, <1>18
  DEF Next, Mutate, Finish

LEMMA LostInvariant == Spec => []LostInv
<1>1. Inv /\ LostInv /\ [Next]_vars => LostInv'
  BY NextFiltered, NextChecksAlone, NextHearsNothing, NextCaughtUp DEF LostInv
<1>2. QED
  BY <1>1, InitLostInv, Invariant, PTL DEF Spec

(* Whatever the page size and the capacities, however many mutators change *)
(* the list between two pages, and although a full channel drops           *)
(* broadcasts: a client that asked for list_changed alone and believes its *)
(* copy complete has the list as it is, or a list_changed coming.          *)
THEOREM NoChangeIsLost ==
  ASSUME \A l \in Listeners : Filter[l] = {"list"}
  PROVE  Spec => []NoLostChange
<1>1. LostInv => NoLostChange
  BY DEF LostInv, CaughtUp, ListsOnly, UpToDate, NoLostChange
<1>2. QED
  BY <1>1, LostInvariant, PTL
=============================================================================
