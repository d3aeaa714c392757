----------------------------- MODULE OAuthProofs -----------------------------
(* Theorems about OAuth, for any number of handlers, logins and grants.    *)
EXTENDS OAuth, FiniteSetTheorems, TLAPS

Stages == {"idle", "delete", "exchange", "storeUser", "storeCode", "burn", "remove",
           "rotate", "storeAccess", "storeRefresh", "storeOrphan", "answer"}

Records  == [pc: Stages, item: Items \cup {NoItem}, flow: Flows \cup {0},
             by: Apps \cup {"none"}, user: Flows \cup {0}, new: 0 .. MaxSerial]

Typed ==
  /\ TypeOK
  /\ h \in [Procs -> Records]
  /\ IsFiniteSet(expired)

(* GitHub has vouched for flow f, and u is a user of its account. *)
Vouched(f, u) ==
  /\ f \in vouched /\ login[f] \in Allowed /\ app[f] \in Apps
  /\ u \in Flows /\ login[u] = login[f]

GoodCode(f)  == f \in Flows /\ Vouched(f, codeUser[f])
GoodToken(s) ==
  /\ s \in 1 .. serial
  /\ Vouched(tok[s].flow, tok[s].user) /\ tok[s].app = app[tok[s].flow]

(* What a handler has established by each of its stages. *)
GoodHandler(p) ==
  LET i == h[p].item
      f == h[p].flow
      refresh == \E s \in Serials : i = <<"refresh", s>> /\ GoodToken(s) /\ f = tok[s].flow
      granted == GoodToken(h[p].new) /\ tok[h[p].new].flow = f
  IN
    /\ h[p].pc = "idle" => h[p] = Idle
    /\ h[p].pc # "idle" => f \in Flows /\ app[f] \in Apps /\ i # NoItem
    /\ h[p].pc \in {"delete", "exchange", "storeUser", "storeCode"} => i = <<"request", f>>
    /\ h[p].pc \in {"storeUser", "storeCode"} => Vouched(f, h[p].user)
    /\ h[p].pc = "burn" => i = <<"code", f>> /\ GoodCode(f)
    /\ h[p].pc \in {"remove", "rotate"} => refresh
    /\ h[p].pc = "rotate" => h[p].by = app[f]
    /\ h[p].pc = "storeAccess" =>
         ((i = <<"code", f>> /\ GoodCode(f)) \/ refresh) /\ h[p].by = app[f]
    /\ h[p].pc \in {"storeRefresh", "storeOrphan"} => granted /\ i[1] # "request"
    /\ h[p].pc = "answer" => i = <<"request", f>> \/ (granted /\ i[1] # "request")

GoodItem(i) ==
  /\ \A f \in Flows : i = <<"request", f>> => app[f] \in Apps
  /\ \A f \in Flows : i = <<"code", f>> => GoodCode(f)
  /\ \A s \in Serials : i \in {<<"access", s>>, <<"refresh", s>>} => GoodToken(s)

(* Whatever is there descends from a login. *)
Descends ==
  /\ \A i \in store : GoodItem(i)
  /\ \A p \in Procs : GoodHandler(p)
  /\ \A l \in Logins : index[l] # 0 => login[index[l]] = l

(* One user for an account, unless two of its logins overlapped. *)
Identified ==
  /\ \A l \in Logins : index[l] # 0 => index[l] \in users
  /\ \A u \in users : login[u] \in raced \/ index[login[u]] = u
  /\ \A p, q \in Procs :
       /\ p # q /\ h[p].pc = "storeUser" /\ h[q].pc = "storeUser"
       /\ login[h[p].flow] = login[h[q].flow]
       => login[h[p].flow] \in raced
  /\ \A p \in Procs :
       h[p].pc = "storeUser" =>
         login[h[p].flow] \in raced \/ index[login[h[p].flow]] \in {0, h[p].user}

(* What a login can go on with: at most one item, or one handler.          *)
Ways(f)    == {i \in store : i[1] \in {"request", "code", "refresh"} /\ FlowOf(i) = f}
Busy(p, f) == h[p].pc # "idle" /\ h[p].flow = f
Makes(p)   == h[p].pc \in {"storeRefresh", "storeOrphan", "answer"}
Made(p)    == IF h[p].item[1] = "request" THEN <<"code", h[p].flow>> ELSE <<"refresh", h[p].new>>

Standing(p, f) ==
  /\ h[p].pc \in {"delete", "burn", "remove", "rotate"} => Ways(f) \subseteq {h[p].item}
  /\ h[p].pc \in {"exchange", "storeUser", "storeCode", "storeAccess", "storeRefresh", "storeOrphan"} =>
       Ways(f) = {}
  /\ h[p].pc = "answer" => Ways(f) \subseteq {Made(p)}
  /\ Makes(p) => Made(p) \notin delivered
  /\ h[p].item[1] = "request" => <<"code", f>> \notin delivered

OneWay(f) ==
  /\ \A i, j \in Ways(f) : i = j
  /\ \A p, q \in Procs : Busy(p, f) /\ Busy(q, f) => p = q
  /\ \A p \in Procs : Busy(p, f) => Standing(p, f)
  /\ <<"request", f>> \in store => <<"code", f>> \notin delivered

Linear ==
  /\ \A f \in Flows \ doubled : OneWay(f)
  /\ \A f \in Flows : <<"code", f>> \in delivered => app[f] \in Apps
  /\ \A s \in Serials : <<"refresh", s>> \in delivered => s <= serial

-----------------------------------------------------------------------------
LEMMA ItemsAre ==
  /\ \A f \in Flows : <<"request", f>> \in Items /\ <<"code", f>> \in Items
  /\ \A s \in Serials : <<"access", s>> \in Items /\ <<"refresh", s>> \in Items
BY DEF Items

LEMMA TypedInit == Init => Typed
<1> SUFFICES ASSUME Init
             PROVE  Typed
  OBVIOUS
<1>1. Idle \in Records
  BY ConstantsOK DEF Idle, Records, Stages
<1>2. IsFiniteSet(expired)
  BY FS_EmptySet DEF Init
<1>3. h \in [Procs -> Records]
  BY <1>1 DEF Init
<1>4. serial \in 0 .. MaxSerial /\ faults \in 0 .. MaxTrouble
  BY ConstantsOK DEF Init
<1>5. tok \in [Serials -> [flow: Flows \cup {0}, app: Apps \cup {"none"}, user: Flows \cup {0}]]
  BY DEF Init, NoTok
<1> QED
  BY <1>2, <1>3, <1>4, <1>5, ConstantsOK DEF Init, Typed, TypeOK, Records, Stages

LEMMA SpoilsAre == "overlap" \in Spoils /\ "delete" \in Spoils /\ "user" \in Spoils /\ "other" \in Spoils
BY DEF Spoils

LEMMA FaultTyped ==
  ASSUME Typed, NEW f \in Flows, NEW w \in Spoils, Fault(w, f)
  PROVE  faults' \in 0 .. MaxTrouble /\ spoilt' \subseteq Spoils \X Flows /\ UNCHANGED bucketVars
<1>1. Cardinality(expired) \in Nat
  BY FS_CardinalityType DEF Typed
<1> QED
  BY <1>1, ConstantsOK DEF Typed, TypeOK, Fault, Trouble, bucketVars

LEMMA HandlerTyped ==
  ASSUME Typed, NEW p \in Procs, NEW x \in Records, h' = [h EXCEPT ![p] = x]
  PROVE  /\ h' \in [Procs -> Records]
         /\ h'[p] = x /\ \A q \in Procs \ {p} : h'[q] = h[q]
BY DEF Typed

LEMMA HandlerGoes ==
  ASSUME Typed, NEW p \in Procs
  PROVE  /\ h[p] \in Records
         /\ Ends(p) => h' = [h EXCEPT ![p] = Idle] /\ Idle \in Records
         /\ \A s \in Stages : Goto(p, s) =>
              h' = [h EXCEPT ![p] = [h[p] EXCEPT !.pc = s]] /\ [h[p] EXCEPT !.pc = s] \in Records
BY ConstantsOK DEF Typed, Ends, Goto, Idle, Records, Stages

LEMMA RecordsAre ==
  /\ Idle \in Records
  /\ \A x \in Records :
       /\ x.pc \in Stages /\ x.item \in Items \cup {NoItem} /\ x.flow \in Flows \cup {0}
       /\ x.by \in Apps \cup {"none"} /\ x.user \in Flows \cup {0} /\ x.new \in 0 .. MaxSerial
       /\ \A s \in Stages, i \in Items, f \in Flows, a \in Apps \cup {"none"} :
            [x EXCEPT !.pc = s, !.item = i, !.flow = f, !.by = a] \in Records
       /\ \A s \in Stages, n \in 0 .. MaxSerial : [x EXCEPT !.pc = s, !.new = n] \in Records
       /\ \A s \in Stages, u \in Flows \cup {0} : [x EXCEPT !.pc = s, !.user = u] \in Records
<1>1. Idle \in Records
  BY ConstantsOK DEF Idle, Records, Stages
<1>2. ASSUME NEW x \in Records
      PROVE  /\ x.pc \in Stages /\ x.item \in Items \cup {NoItem} /\ x.flow \in Flows \cup {0}
             /\ x.by \in Apps \cup {"none"} /\ x.user \in Flows \cup {0} /\ x.new \in 0 .. MaxSerial
  BY DEF Records
<1>3. ASSUME NEW x \in Records, NEW s \in Stages, NEW i \in Items, NEW f \in Flows,
             NEW a \in Apps \cup {"none"}
      PROVE  [x EXCEPT !.pc = s, !.item = i, !.flow = f, !.by = a] \in Records
  BY DEF Records
<1>4. ASSUME NEW x \in Records, NEW s \in Stages, NEW n \in 0 .. MaxSerial
      PROVE  [x EXCEPT !.pc = s, !.new = n] \in Records
  BY DEF Records
<1>5. ASSUME NEW x \in Records, NEW s \in Stages, NEW u \in Flows \cup {0}
      PROVE  [x EXCEPT !.pc = s, !.user = u] \in Records
  BY DEF Records
<1> QED
  BY <1>1, <1>2, <1>3, <1>4, <1>5

LEMMA TokenSerial ==
  ASSUME Typed, NEW s, GoodToken(s)
  PROVE  s \in Serials /\ s \in 0 .. MaxSerial /\ s <= serial
BY ConstantsOK DEF Typed, TypeOK, GoodToken, Serials

(* TypeOK but for what handlers hold. *)
Buckets ==
  /\ clients \subseteq Apps /\ store \subseteq Items
  /\ users \subseteq Flows /\ index \in [Logins -> Flows \cup {0}]
  /\ app \in [Flows -> Apps \cup {"none"}] /\ login \in [Flows -> Logins]
  /\ vouched \subseteq Flows /\ codeUser \in [Flows -> Flows \cup {0}]
  /\ tok \in [Serials -> [flow: Flows \cup {0}, app: Apps \cup {"none"}, user: Flows \cup {0}]]
  /\ serial \in 0 .. MaxSerial /\ faults \in 0 .. MaxTrouble
  /\ expired \subseteq Items /\ IsFiniteSet(expired) /\ delivered \subseteq Items
  /\ spoilt \subseteq Spoils \X Flows /\ raced \subseteq Logins

LEMMA TypedIs == Typed <=> Buckets /\ h \in [Procs -> Records]
BY DEF Typed, TypeOK, Buckets, Records, Stages

LEMMA TypedStep == Typed /\ Descends /\ [Next]_vars => Typed'
<1> SUFFICES ASSUME Typed, Descends, [Next]_vars
             PROVE  Buckets' /\ h' \in [Procs -> Records]
  BY TypedIs DEF Buckets, Typed, TypeOK, Records, Stages
<1> USE DEF Buckets
<1>0. Buckets /\ h \in [Procs -> Records] /\ \A p \in Procs : GoodHandler(p) /\ h[p] \in Records
  BY TypedIs DEF Descends
<1>1. ASSUME NEW a \in Apps, RegisterClient(a)
      PROVE  Buckets' /\ h' \in [Procs -> Records]
  BY <1>0, <1>1 DEF RegisterClient, factVars, ghostVars
<1>2. ASSUME NEW f \in Flows, NEW a \in Apps, Authorize(f, a)
      PROVE  Buckets' /\ h' \in [Procs -> Records]
  <2>1. \/ UNCHANGED bucketVars /\ faults' \in 0 .. MaxTrouble /\ spoilt' \subseteq Spoils \X Flows
        \/ Write(store \cup {<<"request", f>>})
    BY <1>2, FaultTyped, SpoilsAre DEF Authorize
  <2> QED
    BY <1>0, <1>2, <2>1, ItemsAre DEF Authorize, Write, NoFault, bucketVars
<1>3. ASSUME NEW p \in Procs, NEW i \in Items, NEW s \in Stages, NEW a \in Apps \cup {"none"},
             Finds(p, i, s, a), FlowOf(i) \in Flows
      PROVE  Buckets' /\ h' \in [Procs -> Records]
  <2>1. [Idle EXCEPT !.pc = s, !.item = i, !.flow = FlowOf(i), !.by = a] \in Records
    BY <1>3, RecordsAre
  <2>2. h' \in [Procs -> Records]
    BY <1>3, <2>1, HandlerTyped DEF Finds
  <2> QED
    BY <1>0, <1>3, <2>2, SpoilsAre DEF Finds, bucketVars, factVars
<1>4. ASSUME NEW p \in Procs, DeleteRequest(p) \/ RemoveRefresh(p) \/ Rotate(p) \/ BurnCode(p)
      PROVE  Buckets' /\ h' \in [Procs -> Records]
  <2>1. h[p].flow \in Flows /\ h[p].item \in Items
    BY <1>0, <1>4 DEF DeleteRequest, RemoveRefresh, Rotate, BurnCode, GoodHandler, Records
  <2>2. \/ UNCHANGED bucketVars /\ faults' \in 0 .. MaxTrouble /\ spoilt' \subseteq Spoils \X Flows
        \/ Write(store \ {h[p].item})
    BY <1>4, <2>1, FaultTyped, SpoilsAre DEF DeleteRequest, RemoveRefresh, Rotate, BurnCode, Deleted
  <2>3. Ends(p) \/ \E s \in Stages : Goto(p, s)
    BY <1>4 DEF DeleteRequest, RemoveRefresh, Rotate, BurnCode, Stages
  <2>4. h' \in [Procs -> Records]
    BY <2>3, HandlerGoes, HandlerTyped
  <2> QED
    BY <1>0, <1>4, <2>2, <2>4 DEF DeleteRequest, RemoveRefresh, Rotate, BurnCode, Write, NoFault, bucketVars, factVars
<1>5. ASSUME NEW p \in Procs, Exchange(p)
      PROVE  Buckets' /\ h' \in [Procs -> Records]
  <2>1. h[p].flow \in Flows /\ login[h[p].flow] \in Logins
    BY <1>0, <1>5 DEF Exchange, GoodHandler
  <2>2. UserFor(h[p].flow) \in Flows \cup {0}
    BY <1>0, <2>1 DEF UserFor
  <2>3. [h[p] EXCEPT !.pc = "storeUser", !.user = UserFor(h[p].flow)] \in Records
    BY <1>0, <2>2 DEF Records, Stages
  <2>4. \/ h' = [h EXCEPT ![p] = [h[p] EXCEPT !.pc = "storeUser", !.user = UserFor(h[p].flow)]]
        \/ Ends(p)
    BY <1>0, <1>5 DEF Exchange
  <2>5. h' \in [Procs -> Records]
    BY <2>3, <2>4, HandlerGoes, HandlerTyped
  <2>6. vouched' \subseteq Flows /\ raced' \subseteq Logins
    BY <1>0, <1>5, <2>1 DEF Exchange
  <2> QED
    BY <1>0, <1>5, <2>5, <2>6 DEF Exchange, bucketVars
<1>6. ASSUME NEW p \in Procs, StoreUser(p)
      PROVE  Buckets' /\ h' \in [Procs -> Records]
  <2>1. h[p].flow \in Flows /\ login[h[p].flow] \in Logins /\ h[p].user \in Flows
    BY <1>0, <1>6 DEF StoreUser, GoodHandler, Vouched
  <2>2. h' \in [Procs -> Records]
    <3>1. "storeCode" \in Stages /\ Goto(p, "storeCode")
      BY <1>6 DEF StoreUser, Stages
    <3> QED
      BY <3>1, HandlerGoes, HandlerTyped
  <2>3. CASE NoFault
    BY <1>0, <1>6, <2>1, <2>2, <2>3 DEF StoreUser, NoFault, factVars, Fault, bucketVars
  <2>4. CASE Fault("user", h[p].flow)
    BY <1>0, <1>6, <2>1, <2>2, <2>4, FaultTyped, SpoilsAre DEF StoreUser, factVars, bucketVars
  <2> QED
    BY <1>6, <2>3, <2>4 DEF StoreUser
<1>7. ASSUME NEW p \in Procs, StoreCode(p)
      PROVE  Buckets' /\ h' \in [Procs -> Records]
  <2>1. h[p].flow \in Flows /\ h[p].user \in Flows
    BY <1>0, <1>7 DEF StoreCode, GoodHandler, Vouched
  <2>2. \/ UNCHANGED bucketVars /\ faults' \in 0 .. MaxTrouble /\ spoilt' \subseteq Spoils \X Flows
        \/ Write(store \cup {<<"code", h[p].flow>>})
    BY <1>7, <2>1, FaultTyped, SpoilsAre DEF StoreCode
  <2>3. Ends(p) \/ \E s \in Stages : Goto(p, s)
    BY <1>7 DEF StoreCode, Stages
  <2>4. h' \in [Procs -> Records]
    BY <2>3, HandlerGoes, HandlerTyped
  <2>5. codeUser' \in [Flows -> Flows \cup {0}]
    BY <1>0, <1>7, <2>1 DEF StoreCode
  <2> QED
    BY <1>0, <1>7, <2>1, <2>2, <2>4, <2>5, ItemsAre DEF StoreCode, Write, NoFault, bucketVars
<1>8. ASSUME NEW p \in Procs, AnswerCallback(p) \/ AnswerToken(p)
      PROVE  Buckets' /\ h' \in [Procs -> Records]
  <2>1. h[p].flow \in Flows /\ (h[p].item[1] # "request" => h[p].new \in Serials)
    BY <1>0, <1>8, TokenSerial DEF AnswerCallback, AnswerToken, GoodHandler
  <2>2. PICK new \in SUBSET Items : Deliver(new, h[p].flow)
    BY <1>8, <2>1, ItemsAre DEF AnswerCallback, AnswerToken
  <2>3. Ends(p) /\ UNCHANGED <<factVars, expired, raced>>
    BY <1>8 DEF AnswerCallback, AnswerToken
  <2>4. h' \in [Procs -> Records]
    BY <2>3, HandlerGoes, HandlerTyped
  <2>5. UNCHANGED bucketVars /\ faults' \in 0 .. MaxTrouble /\ spoilt' \subseteq Spoils \X Flows /\ delivered' \subseteq Items
    BY <1>0, <2>1, <2>2, FaultTyped, SpoilsAre DEF Deliver, NoFault
  <2> QED
    BY <1>0, <2>3, <2>4, <2>5 DEF factVars, bucketVars
<1>9. ASSUME NEW p \in Procs, StoreAccess(p)
      PROVE  Buckets' /\ h' \in [Procs -> Records]
  <2>1. h[p].flow \in Flows /\ serial' \in Serials /\ serial' = serial + 1
    <3>1. h[p].flow \in Flows
      BY <1>0, <1>9 DEF StoreAccess, GoodHandler
    <3>2. serial \in Nat /\ serial < MaxSerial /\ serial' = serial + 1
      BY <1>0, <1>9, ConstantsOK DEF StoreAccess
    <3> QED
      BY <3>1, <3>2, ConstantsOK DEF Serials
  <2>2. GrantUser(h[p].item) \in Flows
    <3>1. h[p].pc = "storeAccess"
      BY <1>9 DEF StoreAccess
    <3>2. CASE h[p].item = <<"code", h[p].flow>> /\ GoodCode(h[p].flow)
      BY <3>2 DEF GrantUser, GoodCode, Vouched
    <3>3. CASE \E s \in Serials : h[p].item = <<"refresh", s>> /\ GoodToken(s)
      BY <3>3 DEF GrantUser, GoodToken, Vouched
    <3> QED
      BY <1>0, <3>1, <3>2, <3>3 DEF GoodHandler
  <2>3. tok' \in [Serials -> [flow: Flows \cup {0}, app: Apps \cup {"none"}, user: Flows \cup {0}]]
    BY <1>0, <1>9, <2>1, <2>2 DEF StoreAccess, Records
  <2>4. \/ UNCHANGED bucketVars /\ faults' \in 0 .. MaxTrouble /\ spoilt' \subseteq Spoils \X Flows
        \/ Write(store \cup {<<"access", serial'>>})
    BY <1>9, <2>1, FaultTyped, SpoilsAre DEF StoreAccess
  <2>5. \/ Ends(p)
        \/ \E s \in Stages : h' = [h EXCEPT ![p] = [h[p] EXCEPT !.pc = s, !.new = serial']]
    BY <1>0, <1>9 DEF StoreAccess, Stages
  <2>6. \A s \in Stages : [h[p] EXCEPT !.pc = s, !.new = serial'] \in Records
    <3>1. serial' \in 0 .. MaxSerial
      BY <2>1 DEF Serials
    <3> QED
      BY <1>0, <3>1, RecordsAre
  <2>7. h' \in [Procs -> Records]
    BY <2>5, <2>6, HandlerGoes, HandlerTyped
  <2>8. UNCHANGED <<app, login, vouched, codeUser, expired, delivered, raced>> /\ serial' \in 0 .. MaxSerial
    BY <1>9, <2>1 DEF StoreAccess, Serials
  <2>9. CASE UNCHANGED bucketVars /\ faults' \in 0 .. MaxTrouble /\ spoilt' \subseteq Spoils \X Flows
    BY <1>0, <2>3, <2>7, <2>8, <2>9 DEF bucketVars
  <2>10. CASE Write(store \cup {<<"access", serial'>>})
    BY <1>0, <2>1, <2>3, <2>7, <2>8, <2>10, ItemsAre DEF Write, NoFault
  <2> QED
    BY <2>4, <2>9, <2>10
<1>10. ASSUME NEW p \in Procs, StoreRefresh(p) \/ StoreOrphan(p)
      PROVE  Buckets' /\ h' \in [Procs -> Records]
  <2>1. h[p].flow \in Flows /\ h[p].new \in Serials
    BY <1>0, <1>10, TokenSerial DEF StoreRefresh, StoreOrphan, GoodHandler
  <2>2. \/ UNCHANGED bucketVars /\ faults' \in 0 .. MaxTrouble /\ spoilt' \subseteq Spoils \X Flows
        \/ Write(store \cup {<<"refresh", h[p].new>>})
    BY <1>10, <2>1, FaultTyped, SpoilsAre DEF StoreRefresh, StoreOrphan
  <2>3. Ends(p) \/ \E s \in Stages : Goto(p, s)
    BY <1>10 DEF StoreRefresh, StoreOrphan, Stages
  <2>4. h' \in [Procs -> Records]
    BY <2>3, HandlerGoes, HandlerTyped
  <2> QED
    BY <1>0, <1>10, <2>1, <2>2, <2>4, ItemsAre DEF StoreRefresh, StoreOrphan, Write, NoFault, bucketVars, factVars
<1>11. ASSUME NEW i \in Items, Expire(i)
      PROVE  Buckets' /\ h' \in [Procs -> Records]
  <2>1. IsFiniteSet(expired')
    BY <1>0, <1>11, FS_AddElement DEF Expire
  <2> QED
    BY <1>0, <1>11, <2>1 DEF Expire, bucketVars, factVars
<1>12. CASE Crash
  <2>1. Idle \in Records
    BY HandlerGoes, ConstantsOK DEF Idle, Records, Stages
  <2>2. Cardinality(expired) \in Nat
    BY <1>0, FS_CardinalityType
  <2>3. faults' \in 0 .. MaxTrouble
    BY <1>0, <1>12, <2>2, ConstantsOK DEF Crash, Trouble
  <2>4. spoilt' \subseteq Spoils \X Flows
    <3>1. \A p \in Procs : h[p] # Idle => h[p].flow \in Flows
      BY <1>0 DEF GoodHandler
    <3> QED
      BY <1>0, <1>12, <3>1, SpoilsAre DEF Crash
  <2> QED
    BY <1>0, <1>12, <2>1, <2>3, <2>4 DEF Crash, bucketVars, factVars
<1>13. CASE UNCHANGED vars
  BY <1>0, <1>13 DEF vars
<1>14. ASSUME NEW p \in Procs, NEW f \in Flows, BeginCallback(p, f)
      PROVE  Buckets' /\ h' \in [Procs -> Records]
  <2>1. <<"request", f>> \in Items /\ FlowOf(<<"request", f>>) \in Flows /\ "delete" \in Stages
    BY ItemsAre DEF FlowOf, Stages
  <2> QED
    BY <1>3, <1>14, <2>1 DEF BeginCallback
<1>15. ASSUME NEW p \in Procs, NEW f \in Flows, NEW a \in Apps, BeginCode(p, f, a)
      PROVE  Buckets' /\ h' \in [Procs -> Records]
  <2>1. <<"code", f>> \in Items /\ FlowOf(<<"code", f>>) \in Flows /\ "burn" \in Stages
    BY ItemsAre DEF FlowOf, Stages
  <2> QED
    BY <1>3, <1>15, <2>1 DEF BeginCode
<1>16. ASSUME NEW p \in Procs, NEW s \in Serials, NEW a \in Apps, BeginRefresh(p, s, a)
      PROVE  Buckets' /\ h' \in [Procs -> Records]
  <2>1. <<"refresh", s>> \in Items /\ "remove" \in Stages /\ "rotate" \in Stages
    BY ItemsAre DEF Stages
  <2>2. <<"refresh", s>> \in store
    BY <1>16 DEF BeginRefresh, Finds
  <2>3. FlowOf(<<"refresh", s>>) \in Flows
    BY <1>0, <2>2 DEF FlowOf, Descends, GoodItem, GoodToken, Vouched
  <2> QED
    BY <1>3, <1>16, <2>1, <2>3 DEF BeginRefresh
<1> QED
  BY <1>1, <1>2, <1>4, <1>5, <1>6, <1>7, <1>8, <1>9, <1>10, <1>11, <1>12, <1>13, <1>14, <1>15, <1>16
  DEF Next, Callback, Token, CreateStaticClient

-----------------------------------------------------------------------------
(* What has been established once stays so. *)

Persists ==
  /\ login' = login /\ vouched \subseteq vouched'
  /\ \A f \in Flows : app[f] \in Apps => app'[f] = app[f]
  /\ serial' >= serial /\ \A s \in 1 .. serial : tok'[s] = tok[s]
  /\ \A f \in Flows : codeUser'[f] = codeUser[f] \/ Vouched(f, codeUser'[f])

LEMMA FactsPersist == Typed /\ Descends /\ [Next]_vars => Persists
<1> SUFFICES ASSUME Typed, Descends, [Next]_vars
             PROVE  Persists
  OBVIOUS
<1> USE DEF Typed, TypeOK, Persists
<1>0. serial \in Nat /\ serial <= MaxSerial
  BY ConstantsOK
<1>1. ASSUME UNCHANGED factVars
      PROVE  Persists
  BY <1>0, <1>1 DEF factVars
<1>2. ASSUME NEW f \in Flows, NEW a \in Apps, Authorize(f, a)
      PROVE  Persists
  BY <1>0, <1>2, ConstantsOK DEF Authorize
<1>3. ASSUME NEW p \in Procs, Exchange(p)
      PROVE  Persists
  BY <1>0, <1>3 DEF Exchange
<1>4. ASSUME NEW p \in Procs, StoreCode(p)
      PROVE  Persists
  <2>1. Vouched(h[p].flow, h[p].user)
    BY <1>4 DEF StoreCode, Descends, GoodHandler
  <2>2. \A f \in Flows : codeUser'[f] = codeUser[f] \/ Vouched(f, codeUser'[f])
    BY <1>4, <2>1 DEF StoreCode
  <2> QED
    BY <1>0, <1>4, <2>2 DEF StoreCode
<1>5. ASSUME NEW p \in Procs, StoreAccess(p)
      PROVE  Persists
  BY <1>0, <1>5 DEF StoreAccess, Serials
<1>6. (\E a \in Apps : RegisterClient(a) \/ CreateStaticClient(a)) => UNCHANGED factVars
  BY DEF RegisterClient, CreateStaticClient
<1>7. ASSUME NEW p \in Procs, Callback(p)
      PROVE  Exchange(p) \/ StoreCode(p) \/ UNCHANGED factVars
  BY <1>7 DEF Callback, BeginCallback, Finds, DeleteRequest, StoreUser, AnswerCallback
<1>8. ASSUME NEW p \in Procs, Token(p)
      PROVE  StoreAccess(p) \/ UNCHANGED factVars
  BY <1>8 DEF Token, BeginCode, BeginRefresh, Finds, BurnCode, RemoveRefresh, Rotate,
              StoreRefresh, StoreOrphan, AnswerToken
<1>9. Crash \/ (\E i \in Items : Expire(i)) \/ UNCHANGED vars => UNCHANGED factVars
  BY DEF Crash, Expire, vars, factVars
<1> QED
  BY <1>1, <1>2, <1>3, <1>4, <1>5, <1>6, <1>7, <1>8, <1>9 DEF Next

LEMMA VouchedPersists ==
  ASSUME Typed, Persists, NEW f \in Flows, NEW u, Vouched(f, u)
  PROVE  Vouched(f, u)'
BY DEF Persists, Vouched

LEMMA GoodCodePersists ==
  ASSUME Typed, Persists, NEW f, GoodCode(f)
  PROVE  GoodCode(f)'
<1>1. f \in Flows /\ Vouched(f, codeUser[f])
  BY DEF GoodCode
<1>2. Vouched(f, codeUser'[f])
  BY <1>1 DEF Persists
<1>3. codeUser'[f] \in Flows /\ f \in vouched' /\ login'[f] \in Allowed /\ app'[f] \in Apps
      /\ login'[codeUser'[f]] = login'[f]
  BY <1>1, <1>2 DEF Persists, Vouched
<1> QED
  BY <1>1, <1>3 DEF GoodCode, Vouched

LEMMA GoodTokenPersists ==
  ASSUME Typed, Typed', Persists, NEW s, GoodToken(s)
  PROVE  GoodToken(s)' /\ tok'[s] = tok[s]
<1>1. s \in 1 .. serial /\ tok'[s] = tok[s] /\ s \in 1 .. serial'
  <2>1. serial \in Int /\ serial' \in Int /\ serial' >= serial
    BY DEF Typed, TypeOK, Persists
  <2>2. s \in 1 .. serial /\ tok'[s] = tok[s]
    BY DEF GoodToken, Persists
  <2> QED
    BY <2>1, <2>2
<1>2. tok[s].flow \in Flows /\ Vouched(tok[s].flow, tok[s].user) /\ tok[s].app = app[tok[s].flow]
  BY DEF GoodToken, Vouched, Typed, TypeOK
<1>3. Vouched(tok[s].flow, tok[s].user)' /\ app'[tok[s].flow] = app[tok[s].flow]
  BY <1>1, <1>2 DEF Vouched, Persists
<1> QED
  BY <1>1, <1>2, <1>3 DEF GoodToken

LEMMA GoodItemPersists ==
  ASSUME Typed, Typed', Persists, NEW i, GoodItem(i)
  PROVE  GoodItem(i)'
<1>1. \A f \in Flows : i = <<"request", f>> => app'[f] \in Apps
  BY DEF GoodItem, Persists
<1>2. \A f \in Flows : i = <<"code", f>> => GoodCode(f)'
  BY GoodCodePersists DEF GoodItem
<1>3. \A s \in Serials : i \in {<<"access", s>>, <<"refresh", s>>} => GoodToken(s)'
  BY GoodTokenPersists DEF GoodItem
<1> QED
  BY <1>1, <1>2, <1>3 DEF GoodItem

LEMMA GoodHandlerPersists ==
  ASSUME Typed, Typed', Persists, NEW p \in Procs, GoodHandler(p), h'[p] = h[p]
  PROVE  GoodHandler(p)'
<1> DEFINE i == h[p].item
           f == h[p].flow
           Refresh == \E s \in Serials : i = <<"refresh", s>> /\ GoodToken(s) /\ f = tok[s].flow
           Granted == GoodToken(h[p].new) /\ tok[h[p].new].flow = f
<1>1. Refresh => Refresh'
  BY GoodTokenPersists
<1>2. Granted => Granted'
  BY GoodTokenPersists
<1>3. GoodCode(f) => GoodCode(f)'
  BY GoodCodePersists
<1>4. f \in Flows => \A u : Vouched(f, u) => Vouched(f, u)'
  BY VouchedPersists
<1>5. f \in Flows /\ app[f] \in Apps => app'[f] = app[f]
  BY DEF Persists
<1> QED
  BY <1>1, <1>2, <1>3, <1>4, <1>5 DEF GoodHandler

(* A step keeps Descends if what it adds is good. *)
LEMMA DescendsBy ==
  ASSUME Typed, Typed', Descends, Persists,
         \A i \in store' \ store : GoodItem(i)',
         \A q \in Procs : h'[q] = h[q] \/ GoodHandler(q)',
         \A l \in Logins : index'[l] \in {0, index[l]} \/ login[index'[l]] = l
  PROVE  Descends'
<1>1. \A i \in store' : GoodItem(i)'
  BY GoodItemPersists DEF Descends
<1>2. \A q \in Procs : GoodHandler(q)'
  BY GoodHandlerPersists DEF Descends
<1>3. \A l \in Logins : index'[l] # 0 => login'[index'[l]] = l
  BY DEF Descends, Persists
<1> QED
  BY <1>1, <1>2, <1>3 DEF Descends

LEMMA Goes ==
  ASSUME Typed, NEW p \in Procs, NEW s \in Stages, Goto(p, s)
  PROVE  /\ h'[p].pc = s /\ h'[p].item = h[p].item /\ h'[p].flow = h[p].flow
         /\ h'[p].by = h[p].by /\ h'[p].user = h[p].user /\ h'[p].new = h[p].new
         /\ \A q \in Procs \ {p} : h'[q] = h[q]
BY DEF Typed, Goto, Records

LEMMA Finishes ==
  ASSUME Typed, NEW p \in Procs, Ends(p)
  PROVE  GoodHandler(p)' /\ \A q \in Procs \ {p} : h'[q] = h[q]
<1>1. h'[p] = Idle /\ \A q \in Procs \ {p} : h'[q] = h[q]
  BY DEF Typed, Ends
<1> QED
  BY <1>1 DEF GoodHandler, Idle

LEMMA Starts ==
  ASSUME Typed, NEW p \in Procs, NEW i, NEW s, NEW a, Finds(p, i, s, a)
  PROVE  /\ h'[p].pc = s /\ h'[p].item = i /\ h'[p].flow = FlowOf(i) /\ h'[p].by = a
         /\ h'[p].user = 0 /\ h'[p].new = 0
         /\ \A q \in Procs \ {p} : h'[q] = h[q]
         /\ UNCHANGED <<bucketVars, factVars>>
BY DEF Typed, Finds, Idle

LEMMA DescendsStep ==
  ASSUME Typed, Typed', Descends, Persists, [Next]_vars
  PROVE  Descends'
<1> DEFINE Adds   == \A i \in store' \ store : GoodItem(i)'
           Moves  == \A q \in Procs : h'[q] = h[q] \/ GoodHandler(q)'
           Points == \A l \in Logins : index'[l] \in {0, index[l]} \/ login[index'[l]] = l
<1> SUFFICES Adds /\ Moves /\ Points
  BY DescendsBy
<1>0. /\ \A p \in Procs : GoodHandler(p) /\ h[p] \in Records
      /\ \A i \in store : GoodItem(i)
  BY DEF Descends, Typed
<1>1. ASSUME NEW a \in Apps, RegisterClient(a) \/ CreateStaticClient(a)
      PROVE  Adds /\ Moves /\ Points
  BY <1>1 DEF RegisterClient, CreateStaticClient
<1>2. ASSUME NEW f \in Flows, NEW a \in Apps, Authorize(f, a)
      PROVE  Adds /\ Moves /\ Points
  <2>1. store' \ store \subseteq {<<"request", f>>} /\ UNCHANGED <<h, index>>
    BY <1>2 DEF Authorize, Write, Fault, bucketVars
  <2>2. app'[f] \in Apps
    BY <1>2 DEF Authorize, Typed, TypeOK
  <2>3. GoodItem(<<"request", f>>)'
    BY <2>2 DEF GoodItem
  <2> QED
    BY <2>1, <2>3
<1>3. ASSUME NEW p \in Procs, NEW f \in Flows, BeginCallback(p, f)
      PROVE  Adds /\ Moves /\ Points
  <2>1. <<"request", f>> \in store /\ FlowOf(<<"request", f>>) = f
    BY <1>3 DEF BeginCallback, Finds, FlowOf
  <2>2. app[f] \in Apps /\ app'[f] = app[f]
    BY <1>0, <2>1 DEF GoodItem, Persists
  <2>3. Finds(p, <<"request", f>>, "delete", "none")
    BY <1>3 DEF BeginCallback
  <2>4. /\ h'[p].pc = "delete" /\ h'[p].item = <<"request", f>> /\ h'[p].flow = f
        /\ \A q \in Procs \ {p} : h'[q] = h[q]
        /\ UNCHANGED <<bucketVars, factVars>>
    BY <2>1, <2>3, Starts
  <2>5. GoodHandler(p)'
    BY <2>2, <2>4 DEF GoodHandler, NoItem
  <2> QED
    BY <2>4, <2>5 DEF bucketVars
<1>4. ASSUME NEW p \in Procs, DeleteRequest(p)
      PROVE  Adds /\ Moves /\ Points
  <2>1. store' \subseteq store /\ UNCHANGED index
    BY <1>4 DEF DeleteRequest, Deleted, Write, Fault, bucketVars
  <2>2. h[p].flow \in Flows /\ h[p].item = <<"request", h[p].flow>> /\ app'[h[p].flow] \in Apps
    BY <1>0, <1>4 DEF DeleteRequest, GoodHandler, Persists
  <2>3. CASE Ends(p)
    BY <2>1, <2>3, Finishes
  <2>4. CASE Goto(p, "exchange")
    <3>1. "exchange" \in Stages
      BY DEF Stages
    <3>2. GoodHandler(p)'
      BY <2>2, <2>4, <3>1, Goes DEF GoodHandler, NoItem
    <3> QED
      BY <2>1, <2>4, <3>1, <3>2, Goes
  <2> QED
    BY <1>4, <2>3, <2>4 DEF DeleteRequest
<1>5. ASSUME NEW p \in Procs, Exchange(p)
      PROVE  Adds /\ Moves /\ Points
  <2>1. UNCHANGED bucketVars
    BY <1>5 DEF Exchange
  <2>2. CASE Ends(p)
    BY <2>1, <2>2, Finishes DEF bucketVars
  <2>3. CASE ~ Ends(p)
    <3>1. PICK f \in Flows : f = h[p].flow /\ h[p].item = <<"request", f>> /\ app[f] \in Apps
      BY <1>0, <1>5 DEF Exchange, GoodHandler
    <3>2. PICK u : u = UserFor(f)
      OBVIOUS
    <3>3. /\ f \in vouched' /\ login[f] \in Allowed
          /\ h' = [h EXCEPT ![p].pc = "storeUser", ![p].user = u]
      BY <1>5, <2>3, <3>1, <3>2 DEF Exchange, Authorized
    <3>4. u \in Flows /\ login[u] = login[f]
      BY <3>1, <3>2 DEF UserFor, Descends, Typed, TypeOK
    <3>5. app'[f] \in Apps /\ Vouched(f, u)'
      BY <3>1, <3>3, <3>4 DEF Vouched, Persists
    <3>6. /\ h'[p].pc = "storeUser" /\ h'[p].item = h[p].item /\ h'[p].flow = f
          /\ h'[p].user = u /\ \A q \in Procs \ {p} : h'[q] = h[q]
      BY <1>0, <3>1, <3>3 DEF Typed, Records
    <3>7. GoodHandler(p)'
      BY <3>1, <3>5, <3>6 DEF GoodHandler, NoItem
    <3> QED
      BY <2>1, <3>6, <3>7 DEF bucketVars
  <2> QED
    BY <2>2, <2>3
<1>6. ASSUME NEW p \in Procs, StoreUser(p)
      PROVE  Adds /\ Moves /\ Points
  <2>1. PICK f \in Flows, u \in Flows :
          f = h[p].flow /\ u = h[p].user /\ h[p].item = <<"request", f>> /\ Vouched(f, u)
    BY <1>0, <1>6 DEF StoreUser, GoodHandler, Vouched
  <2>2. Vouched(f, u)'
    BY <2>1 DEF Vouched, Persists
  <2>3. "storeCode" \in Stages /\ Goto(p, "storeCode")
    BY <1>6 DEF Stages, StoreUser
  <2>4. GoodHandler(p)' /\ \A q \in Procs \ {p} : h'[q] = h[q]
    BY <2>1, <2>2, <2>3, Goes DEF GoodHandler, NoItem, Vouched
  <2>5. store' = store /\ Points
    BY <1>6, <2>1 DEF StoreUser, Fault, bucketVars, Vouched, Typed, TypeOK
  <2> QED
    BY <2>4, <2>5
<1>7. ASSUME NEW p \in Procs, StoreCode(p)
      PROVE  Adds /\ Moves /\ Points
  <2>1. PICK f \in Flows : f = h[p].flow /\ h[p].item = <<"request", f>> /\ Vouched(f, h[p].user)
    BY <1>0, <1>7 DEF StoreCode, GoodHandler
  <2>2. CASE Ends(p) /\ UNCHANGED bucketVars
    BY <2>2, Finishes DEF bucketVars
  <2>3. CASE ~ (Ends(p) /\ UNCHANGED bucketVars)
    <3>1. /\ Write(store \cup {<<"code", f>>}) /\ Goto(p, "answer")
          /\ codeUser' = [codeUser EXCEPT ![f] = h[p].user]
      BY <1>7, <2>1, <2>3 DEF StoreCode, Fault
    <3>2. codeUser'[f] = h[p].user
      BY <3>1 DEF Typed, TypeOK
    <3>3. app'[f] \in Apps /\ GoodCode(f)'
      BY <2>1, <3>2 DEF GoodCode, Vouched, Persists
    <3>4. GoodItem(<<"code", f>>)'
      BY <3>3 DEF GoodItem
    <3>5. "answer" \in Stages
      BY DEF Stages
    <3>6. GoodHandler(p)' /\ \A q \in Procs \ {p} : h'[q] = h[q]
      BY <2>1, <3>1, <3>3, <3>5, Goes DEF GoodHandler, NoItem
    <3> QED
      BY <3>1, <3>4, <3>6 DEF Write
  <2> QED
    BY <2>2, <2>3
<1>8. ASSUME NEW p \in Procs, AnswerCallback(p) \/ AnswerToken(p) \/ RemoveRefresh(p)
      PROVE  Adds /\ Moves /\ Points
  <2>1. Ends(p) /\ store' \subseteq store /\ UNCHANGED index
    BY <1>8 DEF AnswerCallback, AnswerToken, RemoveRefresh, Deliver, Deleted, Write, Fault, bucketVars
  <2> QED
    BY <2>1, Finishes
<1>9. ASSUME NEW p \in Procs, NEW f \in Flows, NEW a \in Apps, BeginCode(p, f, a)
      PROVE  Adds /\ Moves /\ Points
  <2>1. <<"code", f>> \in store /\ FlowOf(<<"code", f>>) = f
    BY <1>9 DEF BeginCode, Finds, FlowOf
  <2>2. GoodCode(f) /\ GoodCode(f)' /\ app'[f] \in Apps
    BY <1>0, <2>1, GoodCodePersists DEF GoodItem, GoodCode, Vouched
  <2>3. Finds(p, <<"code", f>>, "burn", a)
    BY <1>9 DEF BeginCode
  <2>4. /\ h'[p].pc = "burn" /\ h'[p].item = <<"code", f>> /\ h'[p].flow = f
        /\ \A q \in Procs \ {p} : h'[q] = h[q]
        /\ UNCHANGED <<bucketVars, factVars>>
    BY <2>1, <2>3, Starts
  <2>5. GoodHandler(p)'
    BY <2>2, <2>4 DEF GoodHandler, NoItem
  <2> QED
    BY <2>4, <2>5 DEF bucketVars
<1>10. ASSUME NEW p \in Procs, NEW s \in Serials, NEW a \in Apps, BeginRefresh(p, s, a)
       PROVE  Adds /\ Moves /\ Points
  <2>1. <<"refresh", s>> \in store /\ FlowOf(<<"refresh", s>>) = tok[s].flow
    BY <1>10 DEF BeginRefresh, Finds, FlowOf
  <2>2. GoodToken(s) /\ GoodToken(s)' /\ tok'[s] = tok[s]
    BY <1>0, <2>1, GoodTokenPersists DEF GoodItem
  <2>3. PICK stage \in {"remove", "rotate"} :
          /\ Finds(p, <<"refresh", s>>, stage, a)
          /\ stage = "rotate" => tok[s].app = a
    BY <1>10 DEF BeginRefresh, SameClient
  <2>4. /\ h'[p].pc = stage /\ h'[p].item = <<"refresh", s>> /\ h'[p].flow = tok[s].flow
        /\ h'[p].by = a /\ \A q \in Procs \ {p} : h'[q] = h[q]
        /\ UNCHANGED <<bucketVars, factVars>>
    BY <2>1, <2>3, Starts
  <2>5. tok[s].flow \in Flows /\ app'[tok[s].flow] \in Apps /\ (stage = "rotate" => a = app'[tok[s].flow])
    BY <2>2, <2>3 DEF GoodToken, Vouched, Typed, TypeOK
  <2>6. GoodHandler(p)'
    BY <2>2, <2>4, <2>5 DEF GoodHandler, NoItem
  <2> QED
    BY <2>4, <2>6 DEF bucketVars
<1>11. ASSUME NEW p \in Procs, BurnCode(p) \/ Rotate(p)
       PROVE  Adds /\ Moves /\ Points
  <2>1. store' \subseteq store /\ UNCHANGED index
    BY <1>11 DEF BurnCode, Rotate, Deleted, Write, Fault, bucketVars
  <2>2. CASE Ends(p)
    BY <2>1, <2>2, Finishes
  <2>3. CASE ~ Ends(p)
    <3>1. Goto(p, "storeAccess") /\ "storeAccess" \in Stages
      BY <1>11, <2>3 DEF BurnCode, Rotate, Stages
    <3>2. PICK f \in Flows : f = h[p].flow
      BY <1>0, <1>11 DEF BurnCode, Rotate, GoodHandler
    <3>3. h[p].by = app[f] /\ app[f] \in Apps /\ h[p].item # NoItem
      BY <1>0, <1>11, <2>3, <3>2 DEF BurnCode, Rotate, GoodHandler, CodeClient
    <3>4. h[p].by = app'[f] /\ app'[f] \in Apps
      BY <3>3 DEF Persists
    <3>5. \/ h[p].item = <<"code", f>> /\ GoodCode(f)'
          \/ \E s \in Serials : /\ h[p].item = <<"refresh", s>> /\ GoodToken(s)'
                                /\ f = tok'[s].flow
      <4>1. \/ h[p].item = <<"code", f>> /\ GoodCode(f)
            \/ \E s \in Serials : h[p].item = <<"refresh", s>> /\ GoodToken(s) /\ f = tok[s].flow
        BY <1>0, <1>11, <3>2 DEF BurnCode, Rotate, GoodHandler
      <4> QED
        BY <4>1, GoodCodePersists, GoodTokenPersists
    <3>6. /\ h'[p].pc = "storeAccess" /\ h'[p].item = h[p].item /\ h'[p].flow = f
          /\ h'[p].by = h[p].by /\ \A q \in Procs \ {p} : h'[q] = h[q]
      BY <3>1, <3>2, Goes
    <3>7. GoodHandler(p)'
      BY <3>3, <3>4, <3>5, <3>6 DEF GoodHandler
    <3> QED
      BY <2>1, <3>6, <3>7
  <2> QED
    BY <2>2, <2>3
<1>12. ASSUME NEW p \in Procs, StoreAccess(p)
       PROVE  Adds /\ Moves /\ Points
  <2>1. PICK f \in Flows : f = h[p].flow /\ h[p].by = app[f] /\ app[f] \in Apps
    BY <1>0, <1>12 DEF StoreAccess, GoodHandler
  <2>2. \/ h[p].item = <<"code", f>> /\ GoodCode(f)
        \/ \E s \in Serials : h[p].item = <<"refresh", s>> /\ GoodToken(s) /\ f = tok[s].flow
    BY <1>0, <1>12, <2>1 DEF StoreAccess, GoodHandler
  <2>3. PICK u : u = GrantUser(h[p].item)
    OBVIOUS
  <2>4. Vouched(f, u) /\ u \in Flows
    <3>1. CASE h[p].item = <<"code", f>> /\ GoodCode(f)
      BY <2>3, <3>1 DEF GrantUser, GoodCode, Vouched
    <3>2. CASE \E s \in Serials : h[p].item = <<"refresh", s>> /\ GoodToken(s) /\ f = tok[s].flow
      BY <2>3, <3>2 DEF GrantUser, GoodToken, Vouched
    <3> QED
      BY <2>2, <3>1, <3>2
  <2>5. PICK n : n = serial'
    OBVIOUS
  <2>6. n \in 1 .. serial' /\ n \in Serials
    BY <1>12, <2>5, ConstantsOK DEF StoreAccess, Serials, Typed, TypeOK
  <2>7. tok'[n] = [flow |-> f, app |-> app[f], user |-> u]
    BY <1>12, <2>1, <2>3, <2>5, <2>6 DEF StoreAccess, Typed, TypeOK
  <2>8. app'[f] = app[f] /\ Vouched(f, u)'
    BY <2>1, <2>4, VouchedPersists DEF Persists
  <2>9. GoodToken(n)' /\ tok'[n].flow = f
    BY <2>6, <2>7, <2>8 DEF GoodToken
  <2>10. GoodItem(<<"access", n>>)'
    BY <2>9 DEF GoodItem
  <2>11. store' \ store \subseteq {<<"access", n>>} /\ UNCHANGED index
    BY <1>12, <2>5 DEF StoreAccess, Write, Fault, bucketVars
  <2>12. CASE Ends(p)
    BY <2>10, <2>11, <2>12, Finishes
  <2>13. CASE ~ Ends(p)
    <3>1. PICK stage \in {"storeRefresh", "storeOrphan"} :
            h' = [h EXCEPT ![p].pc = stage, ![p].new = n]
      BY <1>12, <2>5, <2>13 DEF StoreAccess
    <3>2. /\ h'[p].pc = stage /\ h'[p].item = h[p].item /\ h'[p].flow = f /\ h'[p].new = n
          /\ \A q \in Procs \ {p} : h'[q] = h[q]
      BY <1>0, <2>1, <3>1 DEF Typed, Records
    <3>3. h[p].item # NoItem /\ h[p].item[1] # "request"
      BY <2>2 DEF NoItem
    <3>4. GoodHandler(p)'
      BY <2>1, <2>8, <2>9, <3>2, <3>3 DEF GoodHandler
    <3> QED
      BY <2>10, <2>11, <3>2, <3>4
  <2> QED
    BY <2>12, <2>13
<1>13. ASSUME NEW p \in Procs, StoreRefresh(p) \/ StoreOrphan(p)
       PROVE  Adds /\ Moves /\ Points
  <2>1. PICK f \in Flows : f = h[p].flow /\ app[f] \in Apps
    BY <1>0, <1>13 DEF StoreRefresh, StoreOrphan, GoodHandler
  <2>2. PICK n : n = h[p].new
    OBVIOUS
  <2>3. GoodToken(n) /\ tok[n].flow = f /\ h[p].item # NoItem /\ h[p].item[1] # "request"
    BY <1>0, <1>13, <2>1, <2>2 DEF StoreRefresh, StoreOrphan, GoodHandler
  <2>4. GoodToken(n)' /\ tok'[n].flow = f /\ app'[f] \in Apps
    BY <2>1, <2>3, GoodTokenPersists DEF Persists
  <2>5. GoodItem(<<"refresh", n>>)'
    BY <2>4 DEF GoodItem
  <2>6. store' \ store \subseteq {<<"refresh", n>>} /\ UNCHANGED index
    BY <1>13, <2>2 DEF StoreRefresh, StoreOrphan, Write, Fault, bucketVars
  <2>7. CASE Ends(p)
    BY <2>5, <2>6, <2>7, Finishes
  <2>8. CASE ~ Ends(p)
    <3>1. Goto(p, "answer") /\ "answer" \in Stages
      BY <1>13, <2>8 DEF StoreRefresh, StoreOrphan, Stages
    <3>2. /\ h'[p].pc = "answer" /\ h'[p].item = h[p].item /\ h'[p].flow = f /\ h'[p].new = n
          /\ \A q \in Procs \ {p} : h'[q] = h[q]
      BY <2>1, <2>2, <3>1, Goes
    <3>3. GoodHandler(p)'
      BY <2>3, <2>4, <3>2 DEF GoodHandler
    <3> QED
      BY <2>5, <2>6, <3>2, <3>3
  <2> QED
    BY <2>7, <2>8
<1>14. CASE Crash
  <2>1. \A q \in Procs : GoodHandler(q)'
    BY <1>14 DEF Crash, GoodHandler, Idle
  <2> QED
    BY <1>14, <2>1 DEF Crash, bucketVars
<1>15. CASE (\E i \in Items : Expire(i)) \/ UNCHANGED vars
  BY <1>15 DEF Expire, bucketVars, vars
<1> QED
  BY <1>1, <1>2, <1>3, <1>4, <1>5, <1>6, <1>7, <1>8, <1>9, <1>10, <1>11, <1>12, <1>13, <1>14, <1>15
  DEF Next, Callback, Token

LEMMA DescendsInit == Init => Descends
BY DEF Init, Descends, GoodHandler, Idle

LEMMA Inductive == Spec => [](Typed /\ Descends)
<1>1. Init => Typed /\ Descends
  BY TypedInit, DescendsInit
<1>2. Typed /\ Descends /\ [Next]_vars => (Typed /\ Descends)'
  BY TypedStep, FactsPersist, DescendsStep
<1> QED
  BY <1>1, <1>2, PTL DEF Spec

(* The buckets of storage.go, what handlers hold and what clients hold are *)
(* of their types in every state, whatever fails and whenever it restarts. *)
THEOREM TypeCorrect == Spec => []TypeOK
<1>1. Typed => TypeOK
  BY DEF Typed
<1> QED
  BY <1>1, Inductive, PTL

(* Every token in the database goes back to a login that GitHub vouched for*)
(* and the allowlist lets in (handlers.go:130-153), through all refreshes, *)
(* overlaps, failed writes and crashes.                                    *)
THEOREM TokensAlwaysTrace == Spec => []TokensTraceToLogin
<1>1. Typed /\ Descends => TokensTraceToLogin
  <2> SUFFICES ASSUME Typed, Descends, NEW s \in Serials,
                      {<<"access", s>>, <<"refresh", s>>} \cap store # {}
               PROVE  /\ tok[s].flow \in vouched /\ login[tok[s].flow] \in Allowed
                      /\ tok[s].app = app[tok[s].flow]
                      /\ tok[s].user \in Flows /\ login[tok[s].user] = login[tok[s].flow]
    BY DEF TokensTraceToLogin
  <2>1. GoodToken(s)
    BY DEF Descends, GoodItem
  <2> QED
    BY <2>1 DEF GoodToken, Vouched
<1> QED
  BY <1>1, Inductive, PTL

-----------------------------------------------------------------------------
(* One user id for an account. *)

LEMMA IdentifiedBy ==
  ASSUME Identified, UNCHANGED <<login, users, index, raced>>,
         \A p \in Procs : h'[p].pc = "storeUser" => h'[p] = h[p]
  PROVE  Identified'
BY DEF Identified

LEMMA IdentifiedStep ==
  ASSUME Typed, Descends, Persists, Identified, [Next]_vars
  PROVE  Identified'
<1> DEFINE Same == /\ UNCHANGED <<login, users, index, raced>>
                   /\ \A p \in Procs : h'[p].pc = "storeUser" => h'[p] = h[p]
<1>0. /\ \A p \in Procs : GoodHandler(p) /\ h[p] \in Records
      /\ login' = login
  BY DEF Descends, Typed, Persists
<1>1. ASSUME NEW a \in Apps, RegisterClient(a) \/ CreateStaticClient(a)
      PROVE  Same
  BY <1>0, <1>1 DEF RegisterClient, CreateStaticClient, ghostVars
<1>2. ASSUME NEW p \in Procs, Ends(p), UNCHANGED <<users, index, raced>>
      PROVE  Same
  BY <1>0, <1>2 DEF Ends, Typed, Idle
<1>3. ASSUME NEW p \in Procs, NEW s \in Stages \ {"storeUser"}, Goto(p, s), UNCHANGED <<users, index, raced>>
      PROVE  Same
  BY <1>0, <1>3, Goes
<1>4. ASSUME NEW p \in Procs, NEW i, NEW s, NEW a, Finds(p, i, s, a), s # "storeUser"
      PROVE  Same
  <2>1. /\ h'[p].pc = s /\ \A q \in Procs \ {p} : h'[q] = h[q]
        /\ UNCHANGED <<bucketVars, factVars>>
    BY <1>4, Starts
  <2>2. raced' = raced
    BY <1>4 DEF Finds
  <2> QED
    BY <1>0, <1>4, <2>1, <2>2 DEF bucketVars
<1>5. ASSUME NEW p \in Procs, NEW f \in Flows, BeginCallback(p, f)
      PROVE  Same
  BY <1>4, <1>5 DEF BeginCallback
<1>6. ASSUME NEW p \in Procs, NEW f \in Flows, NEW a \in Apps, BeginCode(p, f, a)
      PROVE  Same
  BY <1>4, <1>6 DEF BeginCode
<1>7. ASSUME NEW p \in Procs, NEW s \in Serials, NEW a \in Apps, BeginRefresh(p, s, a)
      PROVE  Same
  BY <1>4, <1>7 DEF BeginRefresh
<1>8. ASSUME NEW p \in Procs,
             \/ DeleteRequest(p) \/ StoreCode(p) \/ AnswerCallback(p) \/ BurnCode(p)
             \/ RemoveRefresh(p) \/ Rotate(p) \/ StoreRefresh(p) \/ StoreOrphan(p) \/ AnswerToken(p)
      PROVE  Same
  <2>1. UNCHANGED <<users, index, raced>>
    BY <1>8 DEF DeleteRequest, StoreCode, AnswerCallback, BurnCode, RemoveRefresh, Rotate,
                StoreRefresh, StoreOrphan, AnswerToken, Deleted, Deliver, Write, Fault, bucketVars
  <2>2. Ends(p) \/ \E s \in Stages \ {"storeUser"} : Goto(p, s)
    BY <1>8 DEF DeleteRequest, StoreCode, AnswerCallback, BurnCode, RemoveRefresh, Rotate,
                StoreRefresh, StoreOrphan, AnswerToken, Stages
  <2> QED
    BY <1>2, <1>3, <2>1, <2>2
<1>9. ASSUME NEW p \in Procs, StoreAccess(p)
      PROVE  Same
  <2>1. UNCHANGED <<users, index, raced>>
    BY <1>9 DEF StoreAccess, Write, Fault, bucketVars
  <2>2. Ends(p) \/ \E s \in {"storeRefresh", "storeOrphan"} :
                      h' = [h EXCEPT ![p].pc = s, ![p].new = serial']
    BY <1>9 DEF StoreAccess
  <2>3. CASE ~ Ends(p)
    BY <1>0, <2>1, <2>2, <2>3 DEF Typed, Records
  <2> QED
    BY <1>2, <2>1, <2>3
<1>10. ASSUME NEW p \in Procs, Exchange(p)
       PROVE  Identified'
  <2>1. CASE Ends(p)
    <3>1. UNCHANGED <<users, index>>
      BY <1>10 DEF Exchange, bucketVars
    <3>2. raced \subseteq raced'
      BY <1>10 DEF Exchange
    <3>3. \A q \in Procs : h'[q].pc = "storeUser" => h'[q] = h[q]
      BY <2>1 DEF Ends, Typed, Idle
    <3> QED
      BY <1>0, <3>1, <3>2, <3>3 DEF Identified
  <2>2. CASE ~ Ends(p)
    <3>1. PICK f \in Flows : f = h[p].flow /\ login[f] \in Logins
      BY <1>0, <1>10 DEF Exchange, GoodHandler, Typed, TypeOK
    <3>2. /\ h' = [h EXCEPT ![p].pc = "storeUser", ![p].user = UserFor(f)]
          /\ raced \subseteq raced' /\ UNCHANGED <<users, index>>
          /\ \A q \in Procs \ {p} :
               h[q].pc = "storeUser" /\ login[h[q].flow] = login[f] => login[f] \in raced'
      BY <1>10, <2>2, <3>1 DEF Exchange, bucketVars
    <3>3. /\ h'[p].pc = "storeUser" /\ h'[p].flow = f /\ h'[p].user = UserFor(f)
          /\ \A q \in Procs \ {p} : h'[q] = h[q]
      BY <1>0, <3>1, <3>2 DEF Typed, Records
    <3>4. index[login[f]] \in {0, h'[p].user}
      BY <3>3 DEF UserFor
    <3>5. ASSUME NEW q \in Procs, NEW r \in Procs, q # r, h'[q].pc = "storeUser", h'[r].pc = "storeUser",
                 login[h'[q].flow] = login[h'[r].flow]
          PROVE  login[h'[q].flow] \in raced'
      <4>1. CASE q = p \/ r = p
        BY <3>2, <3>3, <3>5, <4>1
      <4>2. CASE q # p /\ r # p
        <5>1. h'[q] = h[q] /\ h'[r] = h[r]
          BY <3>3, <4>2
        <5>2. login[h[q].flow] \in raced
          BY <3>5, <5>1 DEF Identified
        <5> QED
          BY <3>2, <5>1, <5>2
      <4> QED
        BY <4>1, <4>2
    <3>6. ASSUME NEW q \in Procs, h'[q].pc = "storeUser"
          PROVE  login[h'[q].flow] \in raced' \/ index[login[h'[q].flow]] \in {0, h'[q].user}
      BY <3>2, <3>3, <3>4, <3>6 DEF Identified
    <3>7. \A v \in users : login[v] \in raced' \/ index[login[v]] = v
      BY <3>2 DEF Identified
    <3>8. \A l \in Logins : index[l] # 0 => index[l] \in users
      BY DEF Identified
    <3>9. login' = login /\ users' = users /\ index' = index
      BY <1>0, <3>2
    <3>10. \A q, r \in Procs :
             q # r /\ h'[q].pc = "storeUser" /\ h'[r].pc = "storeUser"
             /\ login[h'[q].flow] = login[h'[r].flow] => login[h'[q].flow] \in raced'
      BY <3>5
    <3> HIDE DEF Same
    <3> QED
      BY <3>6, <3>7, <3>8, <3>9, <3>10 DEF Identified
  <2> QED
    BY <2>1, <2>2
<1>11. ASSUME NEW p \in Procs, StoreUser(p)
       PROVE  Identified'
  <2>1. PICK f \in Flows, u \in Flows, l \in Logins :
          f = h[p].flow /\ u = h[p].user /\ l = login[f] /\ l = login[u]
    BY <1>0, <1>11 DEF StoreUser, GoodHandler, Vouched, Typed, TypeOK
  <2>2. "storeCode" \in Stages /\ Goto(p, "storeCode") /\ raced' = raced /\ h[p].pc = "storeUser"
    BY <1>11 DEF Stages, StoreUser
  <2>3. h'[p].pc = "storeCode" /\ \A q \in Procs \ {p} : h'[q] = h[q]
    BY <2>2, Goes
  <2>4. CASE UNCHANGED bucketVars
    <3>1. Same
      BY <1>0, <2>2, <2>3, <2>4 DEF bucketVars
    <3> QED
      BY <3>1, IdentifiedBy
  <2>5. CASE users' = users \cup {u} /\ index' = [index EXCEPT ![l] = u]
    <3>1. index'[l] = u /\ \A k \in Logins \ {l} : index'[k] = index[k]
      BY <2>1, <2>5 DEF Typed, TypeOK
    <3>2. \A v \in users : v \in Flows /\ login[v] \in Logins /\ v # 0
      BY ConstantsOK DEF Typed, TypeOK
    <3>3. l \in raced \/ index[l] \in {0, u}
      BY <2>1, <2>2 DEF Identified
    <3>4. \A v \in users' : login[v] \in raced \/ index'[login[v]] = v
      <4>1. ASSUME NEW v \in users, login[v] = l, l \notin raced
            PROVE  v = u
        BY <3>2, <3>3, <4>1 DEF Identified
      <4> QED
        BY <2>1, <2>5, <3>1, <3>2, <4>1 DEF Identified
    <3>5. \A k \in Logins : index'[k] # 0 => index'[k] \in users'
      BY <2>5, <3>1 DEF Identified
    <3>6. ASSUME NEW q \in Procs, h'[q].pc = "storeUser"
          PROVE  login[h'[q].flow] \in raced \/ index'[login[h'[q].flow]] \in {0, h'[q].user}
      <4>1. q # p /\ h'[q] = h[q] /\ h[q].pc = "storeUser"
        BY <2>3, <3>6
      <4>2. login[h[q].flow] \in Logins
        BY <1>0, <4>1 DEF GoodHandler, Typed, TypeOK
      <4>3. login[h[q].flow] = l => l \in raced
        BY <2>1, <2>2, <4>1 DEF Identified
      <4> QED
        BY <3>1, <4>1, <4>2, <4>3 DEF Identified
    <3>7. ASSUME NEW q \in Procs, NEW r \in Procs, q # r, h'[q].pc = "storeUser", h'[r].pc = "storeUser",
                 login[h'[q].flow] = login[h'[r].flow]
          PROVE  login[h'[q].flow] \in raced
      BY <2>3, <3>7 DEF Identified
    <3> QED
      BY <1>0, <2>2, <3>4, <3>5, <3>6, <3>7 DEF Identified
  <2> QED
    BY <1>11, <2>1, <2>4, <2>5 DEF StoreUser, Fault
<1>12. CASE Crash
  <2>1. Same
    BY <1>0, <1>12 DEF Crash, Idle, bucketVars
  <2> QED
    BY <2>1, IdentifiedBy
<1>13. CASE (\E i \in Items : Expire(i)) \/ UNCHANGED vars
  <2>1. Same
    BY <1>0, <1>13 DEF Expire, bucketVars, vars
  <2> QED
    BY <2>1, IdentifiedBy
<1>14. Same => Identified'
  BY IdentifiedBy
<1>15. ASSUME NEW f \in Flows, NEW a \in Apps, Authorize(f, a)
       PROVE  Same
  BY <1>0, <1>15 DEF Authorize, Write, Fault, bucketVars
<1> QED
  BY <1>1, <1>5, <1>6, <1>7, <1>8, <1>9, <1>10, <1>11, <1>12, <1>13, <1>14, <1>15
  DEF Next, Callback, Token

(* An account gets one user id (handlers.go:155-174), unless two of its    *)
(* callbacks were between GetUserByGitHubLogin and StoreUser together.     *)
THEOREM AlwaysOneIdentity == Spec => []OneIdentity
<1>1. Init => Identified
  BY DEF Init, Identified, Idle
<1>2. Typed /\ Descends /\ Identified /\ [Next]_vars => Identified'
  BY FactsPersist, IdentifiedStep
<1>3. Typed /\ Descends /\ Identified => OneIdentity
  BY DEF Identified, Descends, OneIdentity, Typed, TypeOK
<1> QED
  BY <1>1, <1>2, <1>3, Inductive, PTL DEF Spec

-----------------------------------------------------------------------------
(* One credential for a login no two requests have doubled, and in which   *)
(* no deletion has failed.                                                 *)

LEMMA SpoiltGrows ==
  ASSUME spoilt \subseteq spoilt'
  PROVE  excused \subseteq excused' /\ doubled \subseteq doubled' /\ unstored \subseteq unstored'
BY DEF excused, doubled, unstored

LEMMA FaultSpoils ==
  ASSUME NEW f \in Flows
  PROVE  /\ Fault("delete", f) => f \in doubled'
         /\ Fault("user", f) => f \in unstored'
         /\ Fault("other", f) => f \in excused'
         /\ <<"overlap", f>> \in spoilt' => f \in doubled'
         /\ <<"other", f>> \in spoilt' => f \in excused'
BY SpoilsAre DEF Fault, excused, doubled, unstored

LEMMA DoubledExcused == doubled \subseteq excused
BY SpoilsAre DEF excused, doubled

(* Users, faults and what has been sent are never forgotten. *)
LEMMA Grows ==
  Typed /\ Descends /\ [Next]_vars =>
    /\ users \subseteq users' /\ expired \subseteq expired' /\ delivered \subseteq delivered'
    /\ excused \subseteq excused' /\ doubled \subseteq doubled' /\ unstored \subseteq unstored'
<1> DEFINE Grown == users \subseteq users' /\ spoilt \subseteq spoilt' /\ expired \subseteq expired'
                    /\ delivered \subseteq delivered'
<1> SUFFICES ASSUME Typed, Descends, [Next]_vars
             PROVE  Grown
  BY SpoiltGrows
<1> USE DEF bucketVars, ghostVars, Write, NoFault, Fault
<1>1. CASE \E a \in Apps : RegisterClient(a) \/ CreateStaticClient(a)
  BY <1>1 DEF RegisterClient, CreateStaticClient
<1>2. CASE \E f \in Flows, a \in Apps : Authorize(f, a)
  BY <1>2 DEF Authorize
<1>3. ASSUME NEW p \in Procs, Callback(p)
      PROVE  Grown
  BY <1>3 DEF Callback, BeginCallback, Finds, DeleteRequest, Deleted, Exchange, StoreUser, StoreCode,
              AnswerCallback, Deliver
<1>4. ASSUME NEW p \in Procs, Token(p)
      PROVE  Grown
  BY <1>4 DEF Token, BeginCode, BeginRefresh, Finds, BurnCode, RemoveRefresh, Rotate, Deleted,
              StoreAccess, StoreRefresh, StoreOrphan, AnswerToken, Deliver
<1>5. CASE Crash \/ (\E i \in Items : Expire(i)) \/ UNCHANGED vars
  BY <1>5 DEF Crash, Expire, vars
<1> QED
  BY <1>1, <1>2, <1>3, <1>4, <1>5 DEF Next

LEMMA WaysFrom ==
  ASSUME Typed, Descends, Persists, NEW f
  PROVE  Ways(f)' \subseteq Ways(f) \cup {i \in store' \ store : FlowOf(i)' = f}
<1> SUFFICES ASSUME NEW i \in Ways(f)', i \in store
             PROVE  i \in Ways(f)
  BY DEF Ways
<1>1. i \in Items /\ i[1] \in {"request", "code", "refresh"} /\ FlowOf(i)' = f
  BY DEF Ways, Typed, TypeOK
<1>2. CASE i[1] \in {"request", "code"}
  BY <1>1, <1>2 DEF Ways, FlowOf
<1>3. CASE i[1] = "refresh"
  <2>1. PICK s \in Serials : i = <<"refresh", s>>
    BY <1>1, <1>3 DEF Items
  <2>2. tok'[s] = tok[s]
    BY <2>1 DEF Descends, GoodItem, GoodToken, Persists
  <2> QED
    BY <1>1, <2>1, <2>2 DEF Ways, FlowOf
<1> QED
  BY <1>1, <1>2, <1>3

(* Everything OneWay says is lost only by what is added. *)
LEMMA OneWayKept ==
  ASSUME NEW g, OneWay(g), Ways(g)' \subseteq Ways(g),
         \A q \in Procs : Busy(q, g)' => h'[q] = h[q],
         <<"code", g>> \in delivered' => <<"code", g>> \in delivered,
         \A q \in Procs : Busy(q, g) /\ Makes(q) /\ Made(q) \in delivered' => Made(q) \in delivered
  PROVE  OneWay(g)'
<1>1. \A q \in Procs : Busy(q, g)' => Busy(q, g) /\ Made(q)' = Made(q) /\ h'[q] = h[q]
  BY DEF Busy, Made
<1>2. <<"request", g>> \in store' => <<"request", g>> \in store
  BY DEF Ways, FlowOf
<1> QED
  BY <1>1, <1>2 DEF OneWay, Standing, Makes

(* A handler that works on one login leaves the others alone. *)
LEMMA OthersKept ==
  ASSUME Typed, Descends, Persists, Linear, NEW p \in Procs, NEW f \in Flows,
         doubled \subseteq doubled',
         \A i \in store' \ store : i[1] = "access" \/ FlowOf(i)' = f,
         \A q \in Procs \ {p} : h'[q] = h[q],
         h'[p].pc = "idle" \/ h'[p].flow = f,
         \A i \in delivered' \ delivered :
           i[1] = "access" \/ i = <<"code", f>> \/ \E s \in Serials : i = <<"refresh", s>> /\ tok[s].flow = f
  PROVE  \A g \in Flows \ (doubled' \cup {f}) : OneWay(g)'
<1> SUFFICES ASSUME NEW g \in Flows \ (doubled' \cup {f})
             PROVE  OneWay(g)'
  OBVIOUS
<1>1. OneWay(g)
  BY DEF Linear
<1>2. Ways(g)' \subseteq Ways(g)
  BY WaysFrom DEF Ways
<1>3. \A q \in Procs : Busy(q, g)' => h'[q] = h[q]
  BY DEF Busy
<1>4. <<"code", g>> \in delivered' => <<"code", g>> \in delivered
  OBVIOUS
<1>5. ASSUME NEW q \in Procs, Busy(q, g), Makes(q), Made(q) \in delivered'
      PROVE  Made(q) \in delivered
  <2>1. CASE h[q].item[1] = "request"
    BY <1>4, <1>5, <2>1 DEF Made, Busy
  <2>2. CASE h[q].item[1] # "request"
    <3>1. Made(q) = <<"refresh", h[q].new>>
      BY <2>2 DEF Made
    <3>2. tok[h[q].new].flow = g
      BY <1>5, <2>2 DEF Busy, Makes, Descends, GoodHandler
    <3> QED
      BY <1>5, <3>1, <3>2
  <2> QED
    BY <2>1, <2>2
<1> QED
  BY <1>1, <1>2, <1>3, <1>4, <1>5, OneWayKept

LEMMA OwnKept ==
  ASSUME NEW p \in Procs, NEW f,
         \A q \in Procs \ {p} : h'[q] = h[q] /\ ~ Busy(q, f),
         \A i, j \in Ways(f)' : i = j,
         Busy(p, f)' => Standing(p, f)',
         <<"request", f>> \in store' => <<"code", f>> \notin delivered'
  PROVE  OneWay(f)'
<1>1. \A q \in Procs \ {p} : ~ Busy(q, f)'
  BY DEF Busy
<1> QED
  BY <1>1 DEF OneWay

(* Whoever works on a login that is not doubled works on it alone. *)
LEMMA Alone ==
  ASSUME Linear, NEW p \in Procs, NEW f \in Flows \ doubled, f = h[p].flow, h[p].pc # "idle"
  PROVE  Standing(p, f) /\ \A q \in Procs \ {p} : ~ Busy(q, f)
BY DEF Linear, OneWay, Busy

LEMMA FindsKept ==
  ASSUME Typed, Descends, Persists, Linear, NEW p \in Procs, NEW i, NEW s, NEW a, NEW f \in Flows,
         Finds(p, i, s, a), f = FlowOf(i), i[1] \in {"request", "code", "refresh"},
         i[1] = "request" \/ i \in delivered,
         s \in {"delete", "burn", "remove", "rotate"}
  PROVE  /\ \A g \in Flows \ doubled' : OneWay(g)'
         /\ doubled \subseteq doubled' /\ delivered' = delivered
<1>1. /\ h'[p].pc = s /\ h'[p].item = i /\ h'[p].flow = f
      /\ \A q \in Procs \ {p} : h'[q] = h[q]
      /\ UNCHANGED <<bucketVars, factVars>>
  BY Starts
<1>2. doubled \subseteq doubled' /\ delivered' = delivered /\ store' = store /\ i \in store
  BY SpoiltGrows DEF Finds, bucketVars
<1>3. ASSUME NEW g \in Flows \ (doubled' \cup {f})
      PROVE  OneWay(g)'
  BY <1>1, <1>2, OthersKept
<1>4. ASSUME f \notin doubled'
      PROVE  OneWay(f)'
  <2>1. OneWay(f) /\ \A q \in Procs \ {p} : h[q].item # i
    <3>1. Overlap(p, i) => f \in doubled'
      BY FaultSpoils DEF Finds
    <3> QED
      BY <1>2, <1>4, <3>1 DEF Linear, Overlap
  <2>2. i \in Ways(f) /\ Ways(f)' \subseteq Ways(f)
    BY <1>2, WaysFrom DEF Ways
  <2>3. Ways(f)' \subseteq {i}
    BY <2>1, <2>2 DEF OneWay
  <2>4. ASSUME NEW q \in Procs \ {p}, Busy(q, f)
        PROVE  FALSE
    <3>1. Standing(q, f) /\ h[q].pc \in Stages \ {"idle"}
      BY <2>1, <2>4 DEF OneWay, Busy, Typed, Records
    <3>2. h[q].pc = "answer" /\ i = Made(q) /\ i \notin delivered
      BY <2>1, <2>2, <3>1 DEF Standing, Stages, Makes
    <3>3. Made(q)[1] # "request"
      BY DEF Made
    <3> QED
      BY <3>2, <3>3
  <2>5. <<"request", f>> \in store' => <<"code", f>> \notin delivered'
    BY <1>2, <2>1 DEF OneWay
  <2>6. i[1] = "request" => i = <<"request", f>>
    BY <1>2 DEF Typed, TypeOK, Items, FlowOf
  <2>7. Standing(p, f)'
    BY <1>1, <1>2, <2>3, <2>5, <2>6 DEF Standing, Makes
  <2> QED
    BY <1>1, <2>3, <2>4, <2>5, <2>7, OwnKept
<1> QED
  BY <1>2, <1>3, <1>4

LEMMA BusyKept ==
  ASSUME Typed, Descends, Persists, Linear, NEW p \in Procs, NEW f \in Flows,
         f = h[p].flow, h[p].pc # "idle", doubled \subseteq doubled',
         \A i \in store' \ store : i[1] = "access" \/ FlowOf(i)' = f,
         \A q \in Procs \ {p} : h'[q] = h[q],
         h'[p].pc = "idle" \/ h'[p].flow = f,
         \A i \in delivered' \ delivered :
           i[1] = "access" \/ i = <<"code", f>> \/ \E s \in Serials : i = <<"refresh", s>> /\ tok[s].flow = f,
         f \notin doubled' /\ Standing(p, f) =>
           /\ \E x : x # <<"request", f>> /\ Ways(f)' \subseteq {x}
           /\ h'[p].pc # "idle" => Standing(p, f)'
  PROVE  \A g \in Flows \ doubled' : OneWay(g)'
<1>1. ASSUME NEW g \in Flows \ (doubled' \cup {f})
      PROVE  OneWay(g)'
  BY <1>1, OthersKept
<1>2. ASSUME f \notin doubled'
      PROVE  OneWay(f)'
  <2>1. Standing(p, f) /\ \A q \in Procs \ {p} : ~ Busy(q, f)
    BY <1>2, Alone
  <2>2. \A i, j \in Ways(f)' : i = j
    BY <1>2, <2>1
  <2>3. <<"request", f>> \notin store'
    <3>1. <<"request", f>> \in store' => <<"request", f>> \in Ways(f)'
      BY DEF Ways, FlowOf
    <3> QED
      BY <1>2, <2>1, <3>1
  <2>4. Busy(p, f)' => Standing(p, f)'
    BY <1>2, <2>1 DEF Busy
  <2> QED
    BY <2>1, <2>2, <2>3, <2>4, OwnKept
<1> QED
  BY <1>1, <1>2

LEMMA Spent ==
  ASSUME Typed, Descends, Persists, NEW p \in Procs, NEW f \in Flows, f = h[p].flow,
         Deleted(p), f \notin doubled', Ways(f) \subseteq {h[p].item}
  PROVE  Ways(f)' = {}
<1>1. store' = store \ {h[p].item}
  BY FaultSpoils DEF Deleted, Write
<1> QED
  BY <1>1, WaysFrom DEF Ways

LEMMA LinearStep ==
  ASSUME Typed, Typed', Descends, Persists, Linear, [Next]_vars
  PROVE  Linear'
<1> DEFINE Kept == \A g \in Flows \ doubled' : OneWay(g)'
           Sent == \A i \in delivered' \ delivered :
                     \/ i[1] = "access"
                     \/ \E f \in Flows : i = <<"code", f>> /\ app[f] \in Apps
                     \/ \E s \in 1 .. serial : i = <<"refresh", s>>
<1>0. /\ \A p \in Procs : GoodHandler(p) /\ h[p] \in Records
      /\ \A i \in store : GoodItem(i)
      /\ doubled \subseteq doubled'
  BY Grows DEF Descends, Typed
<1>1. SUFFICES Kept /\ Sent
  <2>1. \A f \in Flows : <<"code", f>> \in delivered' => app[f] \in Apps
    BY <1>1 DEF Linear
  <2>2. \A s \in Serials : <<"refresh", s>> \in delivered' => s <= serial
    BY <1>1 DEF Linear, Typed, TypeOK, Serials
  <2>3. serial \in Int /\ serial' \in Int /\ serial <= serial'
    BY DEF Typed, TypeOK, Persists
  <2>4. \A s \in Serials : <<"refresh", s>> \in delivered' => s <= serial'
    BY <2>2, <2>3 DEF Serials
  <2>5. \A f \in Flows : <<"code", f>> \in delivered' => app'[f] \in Apps
    BY <2>1 DEF Persists
  <2> QED
    BY <1>1, <2>4, <2>5 DEF Linear
<1>2. ASSUME UNCHANGED <<h, delivered>>, store' \subseteq store
      PROVE  Kept /\ Sent
  <2>1. \A g : Ways(g)' \subseteq Ways(g)
    BY <1>2, WaysFrom
  <2>2. \A g \in Flows \ doubled' : OneWay(g)
    BY <1>0 DEF Linear
  <2> QED
    BY <1>2, <2>1, <2>2, OneWayKept
<1>3. ASSUME NEW a \in Apps, RegisterClient(a) \/ CreateStaticClient(a)
      PROVE  Kept /\ Sent
  BY <1>2, <1>3 DEF RegisterClient, CreateStaticClient, ghostVars
<1>4. ASSUME NEW f \in Flows, NEW a \in Apps, Authorize(f, a)
      PROVE  Kept /\ Sent
  <2>1. UNCHANGED <<h, delivered>> /\ doubled \subseteq doubled' /\ app[f] \notin Apps
    BY <1>0, <1>4, ConstantsOK DEF Authorize
  <2>2. CASE store' = store
    BY <1>2, <2>1, <2>2
  <2>3. CASE store' = store \cup {<<"request", f>>}
    <3>1. Ways(f) = {}
      <4>1. ASSUME NEW i \in Ways(f)
            PROVE  FALSE
        <5>1. i \in store /\ i \in Items /\ i[1] \in {"request", "code", "refresh"} /\ FlowOf(i) = f
          BY DEF Ways, Typed, TypeOK
        <5>2. CASE i[1] \in {"request", "code"}
          BY <1>0, <2>1, <5>1, <5>2 DEF Items, FlowOf, GoodItem, GoodCode, Vouched
        <5>3. CASE i[1] = "refresh"
          <6>1. PICK s \in Serials : i = <<"refresh", s>> /\ tok[s].flow = f
            BY <5>1, <5>3 DEF Items, FlowOf
          <6> QED
            BY <1>0, <2>1, <5>1, <6>1 DEF GoodItem, GoodToken, Vouched
        <5> QED
          BY <5>1, <5>2, <5>3
      <4> QED
        BY <4>1
    <3>2. \A q \in Procs : ~ Busy(q, f)
      BY <1>0, <2>1 DEF Busy, GoodHandler
    <3>3. <<"code", f>> \notin delivered
      BY <2>1 DEF Linear
    <3>4. Ways(f)' \subseteq {<<"request", f>>}
      BY <2>3, <3>1, WaysFrom
    <3>5. OneWay(f)'
      BY <2>1, <3>2, <3>3, <3>4 DEF OneWay, Busy
    <3>6. ASSUME NEW g \in Flows \ doubled', g # f
          PROVE  OneWay(g)'
      <4>1. FlowOf(<<"request", f>>)' = f
        BY DEF FlowOf
      <4>2. Ways(g)' \subseteq Ways(g)
        BY <2>3, <3>6, <4>1, WaysFrom
      <4>3. OneWay(g)
        BY <2>1, <3>6 DEF Linear
      <4> QED
        BY <2>1, <4>2, <4>3, OneWayKept
    <3> QED
      BY <2>1, <3>5, <3>6
  <2> QED
    BY <1>4, <2>2, <2>3 DEF Authorize, Write, Fault, bucketVars
<1>5. ASSUME NEW p \in Procs, NEW f \in Flows, BeginCallback(p, f)
      PROVE  Kept /\ Sent
  <2>1. FlowOf(<<"request", f>>) = f /\ <<"request", f>>[1] = "request"
    BY DEF FlowOf
  <2>2. Finds(p, <<"request", f>>, "delete", "none")
    BY <1>5 DEF BeginCallback
  <2> QED
    BY <2>1, <2>2, FindsKept
<1>6. ASSUME NEW p \in Procs, NEW f \in Flows, NEW a \in Apps, BeginCode(p, f, a)
      PROVE  Kept /\ Sent
  <2>1. FlowOf(<<"code", f>>) = f /\ <<"code", f>>[1] = "code"
    BY DEF FlowOf
  <2>2. Finds(p, <<"code", f>>, "burn", a) /\ <<"code", f>> \in delivered
    BY <1>6 DEF BeginCode
  <2> QED
    BY <2>1, <2>2, FindsKept
<1>7. ASSUME NEW p \in Procs, NEW s \in Serials, NEW a \in Apps, BeginRefresh(p, s, a)
      PROVE  Kept /\ Sent
  <2>1. PICK stage \in {"remove", "rotate"} : Finds(p, <<"refresh", s>>, stage, a)
    BY <1>7 DEF BeginRefresh
  <2>2. <<"refresh", s>> \in store /\ <<"refresh", s>> \in delivered
    BY <1>7 DEF BeginRefresh, Finds
  <2>3. PICK f \in Flows : f = FlowOf(<<"refresh", s>>)
    BY <1>0, <2>2 DEF FlowOf, GoodItem, GoodToken, Vouched, Typed, TypeOK
  <2>4. <<"refresh", s>>[1] = "refresh"
    OBVIOUS
  <2> QED
    BY <2>1, <2>2, <2>3, <2>4, FindsKept
<1>8. ASSUME NEW p \in Procs, DeleteRequest(p) \/ BurnCode(p) \/ Rotate(p) \/ RemoveRefresh(p)
      PROVE  Kept /\ Sent
  <2>1. PICK f \in Flows : f = h[p].flow /\ h[p].pc # "idle"
    BY <1>0, <1>8 DEF DeleteRequest, BurnCode, Rotate, RemoveRefresh, GoodHandler
  <2>2. Deleted(p) /\ delivered' = delivered
    BY <1>8 DEF DeleteRequest, BurnCode, Rotate, RemoveRefresh
  <2>3. doubled \subseteq doubled' /\ store' \subseteq store
    BY <1>0, <2>2 DEF Deleted, Write, Fault, bucketVars
  <2>4. Ends(p) \/ \E s \in {"exchange", "storeAccess"} : Goto(p, s) /\ s \in Stages
    BY <1>8 DEF DeleteRequest, BurnCode, Rotate, RemoveRefresh, Stages
  <2>5. /\ \A q \in Procs \ {p} : h'[q] = h[q]
        /\ h'[p].pc = "idle" \/ (h'[p].pc \in {"exchange", "storeAccess"}
                                  /\ h'[p].flow = f /\ h'[p].item = h[p].item)
    BY <2>1, <2>4, Goes DEF Ends, Typed, Idle
  <2>6. ASSUME f \notin doubled', Standing(p, f)
        PROVE  /\ \E x : x # <<"request", f>> /\ Ways(f)' \subseteq {x}
               /\ h'[p].pc # "idle" => Standing(p, f)'
    <3>1. h[p].pc \in {"delete", "burn", "remove", "rotate"}
      BY <1>8 DEF DeleteRequest, BurnCode, Rotate, RemoveRefresh
    <3>2. Ways(f)' = {}
      BY <2>1, <2>2, <2>6, <3>1, Spent DEF Standing
    <3>3. h'[p].pc # "idle" => Standing(p, f)'
      BY <2>2, <2>5, <2>6, <3>2 DEF Standing, Makes
    <3> QED
      BY <3>2, <3>3
  <2> QED
    BY <2>1, <2>2, <2>3, <2>5, <2>6, BusyKept
<1>9. ASSUME NEW p \in Procs, Exchange(p) \/ StoreUser(p)
      PROVE  Kept /\ Sent
  <2>1. PICK f \in Flows : f = h[p].flow /\ h[p].pc \in {"exchange", "storeUser"}
    BY <1>0, <1>9 DEF Exchange, StoreUser, GoodHandler
  <2>2. delivered' = delivered /\ doubled \subseteq doubled' /\ store' = store
    BY <1>0, <1>9 DEF Exchange, StoreUser, Fault, bucketVars
  <2>3. \/ Ends(p)
        \/ \E u : h' = [h EXCEPT ![p].pc = "storeUser", ![p].user = u]
        \/ Goto(p, "storeCode")
    BY <1>9 DEF Exchange, StoreUser
  <2>4. /\ \A q \in Procs \ {p} : h'[q] = h[q]
        /\ h'[p].pc = "idle" \/ (h'[p].pc \in {"storeUser", "storeCode"}
                                  /\ h'[p].flow = f /\ h'[p].item = h[p].item)
    BY <1>0, <2>1, <2>3 DEF Ends, Goto, Typed, Records, Idle
  <2>5. ASSUME f \notin doubled', Standing(p, f)
        PROVE  /\ \E x : x # <<"request", f>> /\ Ways(f)' \subseteq {x}
               /\ h'[p].pc # "idle" => Standing(p, f)'
    <3>1. Ways(f)' = {}
      BY <2>1, <2>2, <2>5, WaysFrom DEF Standing
    <3>2. h'[p].pc # "idle" => Standing(p, f)'
      BY <2>2, <2>4, <2>5, <3>1 DEF Standing, Makes
    <3> QED
      BY <3>1, <3>2
  <2> QED
    BY <2>1, <2>2, <2>4, <2>5, BusyKept
<1>10. ASSUME NEW p \in Procs, StoreCode(p)
       PROVE  Kept /\ Sent
  <2>1. PICK f \in Flows : f = h[p].flow /\ h[p].pc = "storeCode" /\ h[p].item = <<"request", f>>
    BY <1>0, <1>10 DEF StoreCode, GoodHandler
  <2>2. delivered' = delivered /\ doubled \subseteq doubled'
    BY <1>0, <1>10 DEF StoreCode
  <2>3. /\ store' \ store \subseteq {<<"code", f>>} /\ FlowOf(<<"code", f>>)' = f
        /\ Ends(p) \/ Goto(p, "answer")
    BY <1>10, <2>1 DEF StoreCode, Write, Fault, bucketVars, FlowOf
  <2>4. "answer" \in Stages
    BY DEF Stages
  <2>5. /\ \A q \in Procs \ {p} : h'[q] = h[q]
        /\ \/ h'[p].pc = "idle"
           \/ h'[p].pc = "answer" /\ h'[p].flow = f /\ h'[p].item = h[p].item
    BY <2>1, <2>3, <2>4, Goes DEF Ends, Typed, Idle
  <2>6. ASSUME f \notin doubled', Standing(p, f)
        PROVE  /\ \E x : x # <<"request", f>> /\ Ways(f)' \subseteq {x}
               /\ h'[p].pc # "idle" => Standing(p, f)'
    <3>1. Ways(f)' \subseteq {<<"code", f>>}
      BY <2>1, <2>3, <2>6, WaysFrom DEF Standing
    <3>2. h'[p].pc # "idle" => Made(p)' = <<"code", f>>
      BY <2>1, <2>5, <2>6 DEF Made
    <3>3. h'[p].pc # "idle" => Standing(p, f)'
      BY <2>1, <2>2, <2>5, <2>6, <3>1, <3>2 DEF Standing
    <3> QED
      BY <3>1, <3>3
  <2>7. \A i \in store' \ store : i[1] = "access" \/ FlowOf(i)' = f
    BY <2>3
  <2> QED
    BY <2>1, <2>2, <2>5, <2>6, <2>7, BusyKept
<1>11. ASSUME NEW p \in Procs, AnswerCallback(p) \/ AnswerToken(p)
       PROVE  Kept /\ Sent
  <2>1. PICK f \in Flows : f = h[p].flow /\ h[p].pc = "answer" /\ app[f] \in Apps
    BY <1>0, <1>11 DEF AnswerCallback, AnswerToken, GoodHandler
  <2>2. store' = store /\ doubled \subseteq doubled'
    BY <1>0, <1>11 DEF AnswerCallback, AnswerToken, Deliver, Fault, bucketVars
  <2>3. Ends(p)
    BY <1>11 DEF AnswerCallback, AnswerToken
  <2>4. h'[p].pc = "idle" /\ \A q \in Procs \ {p} : h'[q] = h[q]
    BY <2>3 DEF Ends, Typed, Idle
  <2>5. \/ delivered' \ delivered \subseteq {<<"code", f>>}
        \/ /\ h[p].item[1] # "request"
           /\ delivered' \ delivered \subseteq {<<"access", h[p].new>>, <<"refresh", h[p].new>>}
    BY <1>11, <2>1 DEF AnswerCallback, AnswerToken, Deliver
  <2>6. PICK n : n = h[p].new
    OBVIOUS
  <2>7. h[p].item[1] # "request" => GoodToken(n) /\ n \in Serials /\ tok[n].flow = f
    BY <1>0, <2>1, <2>6, TokenSerial DEF GoodHandler
  <2>8. \A i \in delivered' \ delivered :
          \/ i[1] = "access" \/ i = <<"code", f>>
          \/ i = <<"refresh", n>> /\ n \in Serials /\ n \in 1 .. serial /\ tok[n].flow = f
    BY <2>5, <2>6, <2>7 DEF GoodToken
  <2>9. Sent
    BY <2>1, <2>8
  <2>10. ASSUME f \notin doubled', Standing(p, f)
         PROVE  \E x : x # <<"request", f>> /\ Ways(f)' \subseteq {x}
    <3>1. Ways(f)' \subseteq {Made(p)}
      BY <2>1, <2>2, <2>10, WaysFrom DEF Standing
    <3>2. Made(p) # <<"request", f>>
      BY DEF Made
    <3> QED
      BY <3>1, <3>2
  <2>11. Kept
    BY <2>1, <2>2, <2>4, <2>8, <2>10, BusyKept
  <2> QED
    BY <2>9, <2>11
<1>12. ASSUME NEW p \in Procs, StoreAccess(p)
       PROVE  Kept /\ Sent
  <2>1. PICK f \in Flows : f = h[p].flow /\ h[p].pc = "storeAccess"
    BY <1>0, <1>12 DEF StoreAccess, GoodHandler
  <2>2. PICK n \in Serials : n = serial' /\ n > serial
    BY <1>12, ConstantsOK DEF StoreAccess, Serials, Typed, TypeOK
  <2>3. /\ delivered' = delivered /\ doubled \subseteq doubled'
        /\ store' \ store \subseteq {<<"access", n>>}
    BY <1>0, <1>12, <2>2 DEF StoreAccess, Write, Fault, bucketVars
  <2>4. \/ Ends(p)
        \/ \E s \in {"storeRefresh", "storeOrphan"} : h' = [h EXCEPT ![p].pc = s, ![p].new = n]
    BY <1>12, <2>2 DEF StoreAccess
  <2>5. /\ \A q \in Procs \ {p} : h'[q] = h[q]
        /\ \/ h'[p].pc = "idle"
           \/ /\ h'[p].pc \in {"storeRefresh", "storeOrphan"}
              /\ h'[p].flow = f /\ h'[p].new = n /\ h'[p].item = h[p].item
    <3>1. CASE Ends(p)
      BY <3>1 DEF Ends, Typed, Idle
    <3>2. CASE \E s \in {"storeRefresh", "storeOrphan"} : h' = [h EXCEPT ![p].pc = s, ![p].new = n]
      BY <1>0, <2>1, <3>2 DEF Typed, Records
    <3> QED
      BY <2>4, <3>1, <3>2
  <2>6. ASSUME f \notin doubled', Standing(p, f)
        PROVE  /\ \E x : x # <<"request", f>> /\ Ways(f)' \subseteq {x}
               /\ h'[p].pc # "idle" => Standing(p, f)'
    <3>1. Ways(f)' = {}
      BY <2>1, <2>3, <2>6, WaysFrom DEF Standing, Ways
    <3>2. h[p].item[1] # "request"
      BY <1>0, <2>1 DEF GoodHandler
    <3>3. h'[p].pc # "idle" => Made(p)' = <<"refresh", n>>
      BY <2>5, <3>2 DEF Made
    <3>4. <<"refresh", n>> \notin delivered
      <4>1. serial \in Int /\ n \in Int
        BY <2>2 DEF Typed, TypeOK, Serials
      <4> QED
        BY <2>2, <4>1 DEF Linear
    <3>5. h'[p].pc # "idle" => Standing(p, f)'
      BY <2>3, <2>5, <3>1, <3>2, <3>3, <3>4 DEF Standing
    <3> QED
      BY <3>1, <3>5
  <2>7. \A i \in store' \ store : i[1] = "access"
    BY <2>3
  <2> QED
    BY <2>1, <2>3, <2>5, <2>6, <2>7, BusyKept
<1>13. ASSUME NEW p \in Procs, StoreRefresh(p) \/ StoreOrphan(p)
       PROVE  Kept /\ Sent
  <2>1. PICK f \in Flows : f = h[p].flow /\ h[p].pc \in {"storeRefresh", "storeOrphan"}
    BY <1>0, <1>13 DEF StoreRefresh, StoreOrphan, GoodHandler
  <2>2. PICK n : n = h[p].new
    OBVIOUS
  <2>3. GoodToken(n) /\ tok[n].flow = f /\ h[p].item[1] # "request"
    BY <1>0, <2>1, <2>2 DEF GoodHandler
  <2>4. FlowOf(<<"refresh", n>>)' = f
    BY <2>3 DEF FlowOf, GoodToken, Persists
  <2>5. /\ delivered' = delivered /\ doubled \subseteq doubled'
        /\ store' \ store \subseteq {<<"refresh", n>>}
    BY <1>0, <1>13, <2>2 DEF StoreRefresh, StoreOrphan, Write, Fault, bucketVars
  <2>6. Ends(p) \/ (Goto(p, "answer") /\ "answer" \in Stages)
    BY <1>13 DEF StoreRefresh, StoreOrphan, Stages
  <2>7. /\ \A q \in Procs \ {p} : h'[q] = h[q]
        /\ \/ h'[p].pc = "idle"
           \/ h'[p].pc = "answer" /\ h'[p].flow = f /\ h'[p].item = h[p].item /\ h'[p].new = n
    BY <2>1, <2>2, <2>6, Goes DEF Ends, Typed, Idle
  <2>8. ASSUME f \notin doubled', Standing(p, f)
        PROVE  /\ \E x : x # <<"request", f>> /\ Ways(f)' \subseteq {x}
               /\ h'[p].pc # "idle" => Standing(p, f)'
    <3>1. Ways(f)' \subseteq {<<"refresh", n>>}
      BY <2>1, <2>5, <2>8, WaysFrom DEF Standing
    <3>2. <<"refresh", n>> \notin delivered
      BY <2>1, <2>2, <2>3, <2>8 DEF Standing, Makes, Made
    <3>3. h'[p].pc # "idle" => Made(p)' = <<"refresh", n>>
      BY <2>3, <2>7 DEF Made
    <3>4. h'[p].pc # "idle" => Standing(p, f)'
      BY <2>3, <2>5, <2>7, <3>1, <3>2, <3>3 DEF Standing
    <3> QED
      BY <3>1, <3>4
  <2>9. \A i \in store' \ store : FlowOf(i)' = f
    BY <2>4, <2>5
  <2> QED
    BY <2>1, <2>5, <2>7, <2>8, <2>9, BusyKept
<1>14. CASE Crash
  <2>1. delivered' = delivered /\ store' = store /\ doubled \subseteq doubled'
    BY <1>0, <1>14 DEF Crash, bucketVars
  <2>2. ASSUME NEW g \in Flows \ doubled'
        PROVE  OneWay(g)'
    <3>1. OneWay(g) /\ Ways(g)' \subseteq Ways(g)
      BY <2>1, WaysFrom DEF Linear
    <3>2. \A q \in Procs : ~ Busy(q, g)'
      BY <1>14 DEF Crash, Busy, Idle
    <3> QED
      BY <2>1, <3>1, <3>2 DEF OneWay
  <2> QED
    BY <2>1, <2>2
<1>15. CASE (\E i \in Items : Expire(i)) \/ UNCHANGED vars
  BY <1>2, <1>15 DEF Expire, bucketVars, vars
<1> QED
  BY <1>3, <1>4, <1>5, <1>6, <1>7, <1>8, <1>9, <1>10, <1>11, <1>12, <1>13, <1>14, <1>15
  DEF Next, Callback, Token

(* A code or refresh token is used once (handlers.go:240, 326): a login has*)
(* one credential at most, over crashes, failed writes, lost responses and *)
(* expiries, unless two requests with it overlapped or a deletion failed.  *)
THEOREM AlwaysOneCredential == Spec => []OneCredential
<1>1. Init => Linear
  BY DEF Init, Linear, OneWay, Ways, Busy, Idle
<1>2. Typed /\ Descends /\ Linear /\ [Next]_vars => Linear'
  BY TypedStep, FactsPersist, LinearStep
<1>3. Linear => OneCredential
  <2>1. \A f : Credentials(f) \subseteq Ways(f)
    BY DEF Credentials, Ways
  <2> QED
    BY <2>1 DEF Linear, OneWay, OneCredential
<1> QED
  BY <1>1, <1>2, <1>3, Inductive, PTL DEF Spec
-----------------------------------------------------------------------------
(* What a client has been sent it can use.                                 *)

(* The items a handler works for and has made so far are in the buckets,   *)
(* or a fault has excused its login.                                       *)
Holding(p) ==
  LET i == h[p].item
      f == h[p].flow
      n == h[p].new
  IN
    /\ h[p].pc = "storeCode" => h[p].user \in users \/ f \in unstored
    /\ h[p].pc = "remove" => i \in expired
    /\ h[p].pc = "storeOrphan" => f \in excused
    /\ \A s \in Serials : i = <<"refresh", s>> =>
         GoodToken(s) /\ tok[s].flow = f /\ (Makes(p) => s < n)
    /\ h[p].pc = "storeRefresh" => <<"access", n>> \in store
    /\ h[p].pc = "answer" /\ i[1] # "request" =>
         <<"access", n>> \in store /\ (<<"refresh", n>> \in store \/ f \in excused)

(* Codes and tokens are for users in their bucket. *)
KnownUsers ==
  /\ \A f \in Flows : codeUser[f] # 0 => codeUser[f] \in users \/ f \in unstored
  /\ \A s \in 1 .. serial : tok[s].user \in users \/ tok[s].flow \in unstored

Replaced(s) == \E r \in s + 1 .. serial : <<"refresh", r>> \in delivered /\ tok[r].flow = tok[s].flow

(* An access token that was sent stays; a refresh token stays until it is  *)
(* out of time, being exchanged, or replaced by one that was sent.         *)
Usable ==
  \A s \in Serials :
    /\ <<"access", s>> \in delivered => <<"access", s>> \in store
    /\ <<"refresh", s>> \in delivered =>
         \/ <<"refresh", s>> \in store \cup expired
         \/ \E p \in Procs : h[p].item = <<"refresh", s>>
         \/ tok[s].flow \in excused
         \/ Replaced(s)

Delivers == (\A p \in Procs : Holding(p)) /\ KnownUsers /\ Usable

(* Only what a handler has looked up is removed; one that replaces a       *)
(* refresh token goes on with it.                                          *)
LEMMA Removals ==
  ASSUME Typed, Descends, [Next]_vars, NEW i \in store \ store'
  PROVE  \E p \in Procs : /\ i = h[p].item /\ h[p].pc \in {"delete", "burn", "remove", "rotate"}
                          /\ h[p].pc = "rotate" => h'[p].item = i
<1> DEFINE Goal == \E p \in Procs : /\ i = h[p].item /\ h[p].pc \in {"delete", "burn", "remove", "rotate"}
                                    /\ h[p].pc = "rotate" => h'[p].item = i
<1>0. i \in store /\ i \notin store'
  OBVIOUS
<1>1. ASSUME NEW p \in Procs, DeleteRequest(p) \/ BurnCode(p) \/ RemoveRefresh(p) \/ Rotate(p)
      PROVE  Goal
  <2>1. i = h[p].item
    BY <1>0, <1>1 DEF DeleteRequest, BurnCode, RemoveRefresh, Rotate, Deleted, Write, Fault, bucketVars
  <2>2. h[p].pc \in {"delete", "burn", "remove", "rotate"}
    BY <1>1 DEF DeleteRequest, BurnCode, RemoveRefresh, Rotate
  <2>3. ASSUME h[p].pc = "rotate"
        PROVE  h'[p].item = i
    <3>1. Goto(p, "storeAccess") /\ "storeAccess" \in Stages
      BY <1>1, <2>3 DEF DeleteRequest, BurnCode, RemoveRefresh, Rotate, Stages
    <3> QED
      BY <2>1, <3>1, Goes
  <2> QED
    BY <2>1, <2>2, <2>3
<1>2. (\E a \in Apps : RegisterClient(a) \/ CreateStaticClient(a)) => store \subseteq store'
  BY DEF RegisterClient, CreateStaticClient
<1>3. (\E f \in Flows, a \in Apps : Authorize(f, a)) => store \subseteq store'
  BY DEF Authorize, Write, Fault, bucketVars
<1>4. ASSUME NEW p \in Procs, Callback(p), ~ DeleteRequest(p)
      PROVE  store \subseteq store'
  BY <1>4 DEF Callback, BeginCallback, Finds, Exchange, StoreUser, StoreCode, AnswerCallback,
              Deliver, Write, Fault, bucketVars
<1>5. ASSUME NEW p \in Procs, Token(p), ~ BurnCode(p), ~ RemoveRefresh(p), ~ Rotate(p)
      PROVE  store \subseteq store'
  BY <1>5 DEF Token, BeginCode, BeginRefresh, Finds, StoreAccess, StoreRefresh, StoreOrphan,
              AnswerToken, Deliver, Write, Fault, bucketVars
<1>6. Crash \/ (\E x \in Items : Expire(x)) \/ UNCHANGED vars => store \subseteq store'
  BY DEF Crash, Expire, vars, bucketVars
<1> QED
  BY <1>0, <1>1, <1>2, <1>3, <1>4, <1>5, <1>6 DEF Next

(* No access token is ever removed. *)
LEMMA AccessStays ==
  ASSUME Typed, Descends, [Next]_vars, NEW n, <<"access", n>> \in store
  PROVE  <<"access", n>> \in store'
<1> SUFFICES ASSUME <<"access", n>> \notin store'
             PROVE  FALSE
  OBVIOUS
<1>1. PICK p \in Procs : <<"access", n>> = h[p].item /\ h[p].pc \in {"delete", "burn", "remove", "rotate"}
  BY Removals
<1>2. GoodHandler(p)
  BY DEF Descends
<1> QED
  BY <1>1, <1>2 DEF GoodHandler

(* What arrives is what a handler of /token has made, or a code. *)
LEMMA Deliveries ==
  ASSUME Typed, Descends, [Next]_vars, NEW i \in delivered' \ delivered
  PROVE  /\ store' = store
         /\ \/ i[1] = "code"
            \/ \E p \in Procs : /\ h[p].pc = "answer" /\ h[p].item[1] # "request"
                                /\ i \in {<<"access", h[p].new>>, <<"refresh", h[p].new>>}
<1> USE DEF NoFault, Write, Fault, ghostVars, bucketVars
<1>1. ASSUME NEW p \in Procs, AnswerCallback(p)
      PROVE  store' = store /\ i[1] = "code"
  BY <1>1 DEF AnswerCallback, Deliver
<1>2. ASSUME NEW p \in Procs, AnswerToken(p)
      PROVE  /\ store' = store /\ h[p].pc = "answer" /\ h[p].item[1] # "request"
             /\ i \in {<<"access", h[p].new>>, <<"refresh", h[p].new>>}
  BY <1>2 DEF AnswerToken, Deliver
<1>3. (\E a \in Apps : RegisterClient(a) \/ CreateStaticClient(a)) => delivered' = delivered
  BY DEF RegisterClient, CreateStaticClient
<1>4. (\E f \in Flows, a \in Apps : Authorize(f, a)) => delivered' = delivered
  BY DEF Authorize
<1>5. ASSUME NEW p \in Procs, Callback(p), ~ AnswerCallback(p)
      PROVE  delivered' = delivered
  BY <1>5 DEF Callback, BeginCallback, Finds, DeleteRequest, Exchange, StoreUser, StoreCode
<1>6. ASSUME NEW p \in Procs, Token(p), ~ AnswerToken(p)
      PROVE  delivered' = delivered
  BY <1>6 DEF Token, BeginCode, BeginRefresh, Finds, BurnCode, RemoveRefresh, Rotate,
              StoreAccess, StoreRefresh, StoreOrphan
<1>7. Crash \/ (\E x \in Items : Expire(x)) \/ UNCHANGED vars => delivered' = delivered
  BY DEF Crash, Expire, vars
<1> QED
  BY <1>1, <1>2, <1>3, <1>4, <1>5, <1>6, <1>7 DEF Next

(* A handler that stands still keeps what it holds. *)
LEMMA HoldingKept ==
  ASSUME Typed, Typed', Descends, Persists, Linear, [Next]_vars,
         NEW p \in Procs, Holding(p), h'[p] = h[p]
  PROVE  Holding(p)'
<1>1. /\ users \subseteq users' /\ expired \subseteq expired'
      /\ excused \subseteq excused' /\ unstored \subseteq unstored'
  BY Grows
<1>2. \A s : GoodToken(s) => GoodToken(s)' /\ tok'[s] = tok[s]
  BY GoodTokenPersists
<1>3. \A n : <<"access", n>> \in store => <<"access", n>> \in store'
  BY AccessStays
<1>4. ASSUME h[p].pc = "answer", h[p].item[1] # "request", h[p].flow \notin excused
      PROVE  <<"refresh", h[p].new>> \in store'
  <2>1. PICK n : n = h[p].new
    OBVIOUS
  <2>2. PICK f \in Flows : f = h[p].flow
    BY <1>4 DEF Descends, GoodHandler
  <2>3. <<"refresh", n>> \in store /\ tok[n].flow = f
    BY <1>4, <2>1, <2>2 DEF Holding, Descends, GoodHandler
  <2>4. ASSUME <<"refresh", n>> \notin store'
        PROVE  FALSE
    <3>1. PICK q \in Procs : /\ <<"refresh", n>> = h[q].item
                             /\ h[q].pc \in {"delete", "burn", "remove", "rotate"}
      BY <2>3, <2>4, Removals
    <3>2. GoodHandler(q)
      BY DEF Descends
    <3>3. \E s \in Serials : h[q].item = <<"refresh", s>> /\ h[q].flow = tok[s].flow
      BY <3>1, <3>2 DEF GoodHandler
    <3>4. h[q].flow = f /\ h[q].pc # "idle" /\ q # p
      BY <1>4, <2>3, <3>1, <3>3
    <3> QED
      BY <1>4, <2>2, <3>4, Alone, DoubledExcused DEF Busy
  <2> QED
    BY <2>1, <2>4
<1> QED
  BY <1>1, <1>2, <1>3, <1>4 DEF Holding, Makes

(* A handler lets go of a refresh token when it has expired, when a fault  *)
(* has touched its login, or when its successor has been sent.             *)
Settled(s) ==
  \/ <<"refresh", s>> \in expired \/ tok[s].flow \in excused'
  \/ \E r \in s + 1 .. serial : <<"refresh", r>> \in delivered' /\ tok[r].flow = tok[s].flow

LetsGo(p) == \A s \in Serials : h[p].item = <<"refresh", s>> /\ h'[p].item # <<"refresh", s>> => Settled(s)

LEMMA IdleHolds == ASSUME NEW p \in Procs, h'[p] = Idle PROVE Holding(p)'
BY DEF Holding, Idle, NoItem, Makes

LEMMA CallbackHolds ==
  ASSUME Typed, Descends, [Next]_vars, NEW p \in Procs, Callback(p)
  PROVE  /\ Holding(p)'
         /\ \A s \in Serials : h[p].item # <<"refresh", s>>
         /\ \A q \in Procs \ {p} : h'[q] = h[q]
<1> DEFINE f == h[p].flow
           Goal == /\ Holding(p)'
                   /\ \A s \in Serials : h[p].item # <<"refresh", s>>
                   /\ \A q \in Procs \ {p} : h'[q] = h[q]
<1>0. GoodHandler(p) /\ (h[p].pc # "idle" => f \in Flows)
  BY DEF Descends, GoodHandler
<1>1. ASSUME h[p].item[1] = "request", Ends(p)
      PROVE  Goal
  <2>1. h'[p] = Idle /\ \A q \in Procs \ {p} : h'[q] = h[q]
    BY <1>1 DEF Ends, Typed
  <2> QED
    BY <1>1, <2>1, IdleHolds
<1>2. ASSUME h[p].item[1] = "request", NEW s \in {"exchange", "answer"}, Goto(p, s)
      PROVE  Goal
  <2>1. h'[p].pc = s /\ h'[p].item = h[p].item /\ \A q \in Procs \ {p} : h'[q] = h[q]
    BY <1>2, Goes DEF Stages
  <2> QED
    BY <1>2, <2>1 DEF Holding
<1>3. ASSUME NEW g \in Flows, BeginCallback(p, g)
      PROVE  Goal
  <2>1. h[p] = Idle /\ Finds(p, <<"request", g>>, "delete", "none")
    BY <1>3 DEF BeginCallback, Finds
  <2>2. h'[p].pc = "delete" /\ h'[p].item = <<"request", g>> /\ \A q \in Procs \ {p} : h'[q] = h[q]
    BY <2>1, Starts
  <2>3. \A s \in Serials : h[p].item # <<"refresh", s>>
    BY <2>1 DEF Idle, NoItem
  <2> QED
    BY <2>2, <2>3 DEF Holding
<1>4. ASSUME DeleteRequest(p) \/ AnswerCallback(p) \/ Exchange(p) \/ StoreUser(p) \/ StoreCode(p)
      PROVE  h[p].item[1] = "request"
  BY <1>0, <1>4 DEF DeleteRequest, AnswerCallback, Exchange, StoreUser, StoreCode, GoodHandler
<1>5. CASE DeleteRequest(p) \/ AnswerCallback(p) \/ StoreCode(p)
  BY <1>1, <1>2, <1>4, <1>5 DEF DeleteRequest, AnswerCallback, StoreCode
<1>6. CASE Exchange(p)
  <2>1. CASE Ends(p)
    BY <1>1, <1>4, <1>6, <2>1
  <2>2. CASE ~ Ends(p)
    <3>1. \E u : h' = [h EXCEPT ![p].pc = "storeUser", ![p].user = u]
      BY <1>6, <2>2 DEF Exchange
    <3>2. h'[p].pc = "storeUser" /\ h'[p].item = h[p].item /\ \A q \in Procs \ {p} : h'[q] = h[q]
      BY <3>1 DEF Typed, Records
    <3> QED
      BY <1>4, <1>6, <3>2 DEF Holding
  <2> QED
    BY <2>1, <2>2
<1>7. CASE StoreUser(p)
  <2>1. Goto(p, "storeCode") /\ (h[p].user \in users' \/ f \in unstored')
    BY <1>0, <1>7, FaultSpoils DEF StoreUser
  <2>2. /\ h'[p].pc = "storeCode" /\ h'[p].item = h[p].item
        /\ h'[p].user = h[p].user /\ h'[p].flow = f /\ \A q \in Procs \ {p} : h'[q] = h[q]
    BY <2>1, Goes DEF Stages
  <2> QED
    BY <1>4, <1>7, <2>1, <2>2 DEF Holding
<1> QED
  BY <1>3, <1>5, <1>6, <1>7 DEF Callback

LEMMA TokenHolds ==
  ASSUME Typed, Typed', Descends, Persists, [Next]_vars, NEW p \in Procs, Holding(p), Token(p)
  PROVE  Holding(p)' /\ LetsGo(p) /\ \A q \in Procs \ {p} : h'[q] = h[q]
<1> DEFINE Goal == Holding(p)' /\ LetsGo(p) /\ \A q \in Procs \ {p} : h'[q] = h[q]
<1>0. GoodHandler(p) /\ excused \subseteq excused' /\ expired \subseteq expired'
  BY Grows DEF Descends
<1>1. PICK f : f = h[p].flow
  OBVIOUS
<1>14. Fault("other", f) /\ h[p].pc # "idle" => f \in excused'
  BY <1>0, <1>1, FaultSpoils DEF GoodHandler
<1>2. ASSUME Ends(p), \A s \in Serials : h[p].item = <<"refresh", s>> => Settled(s)
      PROVE  Goal
  <2>1. h'[p] = Idle /\ \A q \in Procs \ {p} : h'[q] = h[q]
    BY <1>2 DEF Ends, Typed
  <2> QED
    BY <1>2, <2>1, IdleHolds DEF LetsGo
<1>3. ASSUME f \in excused', Ends(p)
      PROVE  Goal
  BY <1>1, <1>2, <1>3 DEF Holding, Settled
<1>4. \A s \in Serials : h[p].item = <<"refresh", s>> => GoodToken(s)' /\ tok'[s].flow = f
  BY <1>1, GoodTokenPersists DEF Holding
<1>5. ASSUME NEW g \in Flows, NEW a \in Apps, BeginCode(p, g, a)
      PROVE  Goal
  <2>1. h[p] = Idle /\ Finds(p, <<"code", g>>, "burn", a)
    BY <1>5 DEF BeginCode, Finds
  <2>2. h'[p].pc = "burn" /\ h'[p].item = <<"code", g>> /\ \A q \in Procs \ {p} : h'[q] = h[q]
    BY <2>1, Starts
  <2>3. LetsGo(p)
    BY <2>1 DEF LetsGo, Idle, NoItem
  <2> QED
    BY <2>2, <2>3 DEF Holding
<1>6. ASSUME NEW s \in Serials, NEW a \in Apps, BeginRefresh(p, s, a)
      PROVE  Goal
  <2>1. PICK stage \in {"remove", "rotate"} :
          Finds(p, <<"refresh", s>>, stage, a) /\ (stage = "remove" => <<"refresh", s>> \in expired)
    BY <1>6 DEF BeginRefresh
  <2>2. h[p] = Idle /\ <<"refresh", s>> \in store /\ FlowOf(<<"refresh", s>>) = tok[s].flow
    BY <2>1 DEF Finds, FlowOf
  <2>3. /\ h'[p].pc = stage /\ h'[p].item = <<"refresh", s>> /\ h'[p].flow = tok[s].flow
        /\ \A q \in Procs \ {p} : h'[q] = h[q]
    BY <2>1, <2>2, Starts
  <2>4. GoodToken(s)' /\ tok'[s].flow = tok[s].flow
    BY <2>2, GoodTokenPersists DEF Descends, GoodItem
  <2>5. LetsGo(p)
    BY <2>2 DEF LetsGo, Idle, NoItem
  <2>6. \A t \in Serials : h'[p].item = <<"refresh", t>> => t = s
    BY <2>3
  <2>7. Holding(p)'
    BY <1>0, <2>1, <2>3, <2>4, <2>6 DEF Holding, Makes
  <2> QED
    BY <2>3, <2>5, <2>7
<1>7. CASE BurnCode(p)
  <2>1. h[p].item[1] = "code"
    BY <1>0, <1>7 DEF BurnCode, GoodHandler
  <2>2. CASE Ends(p)
    BY <1>2, <2>1, <2>2
  <2>3. CASE Goto(p, "storeAccess")
    <3>1. h'[p].pc = "storeAccess" /\ h'[p].item = h[p].item /\ \A q \in Procs \ {p} : h'[q] = h[q]
      BY <2>3, Goes DEF Stages
    <3> QED
      BY <2>1, <3>1 DEF Holding, LetsGo
  <2> QED
    BY <1>7, <2>2, <2>3 DEF BurnCode
<1>8. CASE RemoveRefresh(p)
  <2>1. Ends(p) /\ h[p].item \in expired
    BY <1>8 DEF RemoveRefresh, Holding
  <2> QED
    BY <1>2, <2>1 DEF Settled
<1>9. CASE Rotate(p)
  <2>1. Goto(p, "storeAccess")
    BY <1>9 DEF Rotate
  <2>2. /\ h'[p].pc = "storeAccess" /\ h'[p].item = h[p].item /\ h'[p].flow = f
        /\ \A q \in Procs \ {p} : h'[q] = h[q]
    BY <1>1, <2>1, Goes DEF Stages
  <2> QED
    BY <1>4, <2>2 DEF Holding, LetsGo, Makes
<1>10. CASE StoreAccess(p)
  <2>1. PICK n : n = serial' /\ n = serial + 1
    BY <1>10 DEF StoreAccess
  <2>2. \A s \in Serials : h[p].item = <<"refresh", s>> => s < n
    <3>1. serial \in Nat /\ \A s : GoodToken(s) => s \in 1 .. serial
      BY ConstantsOK DEF Typed, TypeOK, GoodToken
    <3> QED
      BY <2>1, <3>1 DEF Holding
  <2>3. CASE Ends(p)
    <3>1. h[p].item[1] = "code" \/ h'[p] # Idle
      <4>1. Typed /\ Ends(p) => h'[p] = Idle
        BY DEF Typed, Ends
      <4>2. Fault("other", f) \/ h'[p].new = n
        BY <1>1, <1>10, <2>1 DEF StoreAccess, Typed, Records
      <4>3. n # 0
        BY <2>1, ConstantsOK DEF Typed, TypeOK
      <4>4. Fault("other", f)
        BY <2>3, <4>1, <4>2, <4>3 DEF Idle
      <4>5. h[p].item[1] = "code" \/ h'[p].new = n
        BY <1>10, <2>1 DEF StoreAccess, Typed, Records
      <4> QED
        BY <2>3, <4>1, <4>3, <4>5 DEF Idle
    <3>2. h'[p] = Idle
      BY <2>3 DEF Typed, Ends
    <3> QED
      BY <1>2, <2>3, <3>1, <3>2
  <2>4. CASE ~ Ends(p)
    <3>1. PICK stage \in {"storeRefresh", "storeOrphan"} :
            /\ h' = [h EXCEPT ![p].pc = stage, ![p].new = n]
            /\ stage = "storeOrphan" => f \in excused'
            /\ stage = "storeRefresh" => <<"access", n>> \in store'
      BY <1>1, <1>10, <1>14, <2>1, <2>4 DEF StoreAccess, Write
    <3>2. /\ h'[p].pc = stage /\ h'[p].item = h[p].item /\ h'[p].flow = f /\ h'[p].new = n
          /\ \A q \in Procs \ {p} : h'[q] = h[q]
      BY <1>1, <3>1 DEF Typed, Records
    <3> QED
      BY <1>4, <2>2, <3>1, <3>2 DEF Holding, LetsGo, Makes
  <2> QED
    BY <2>3, <2>4
<1>11. CASE StoreRefresh(p)
  <2>1. PICK n : n = h[p].new
    OBVIOUS
  <2>2. CASE Fault("other", f) /\ Ends(p)
    BY <1>3, <1>11, <1>14, <2>2 DEF StoreRefresh
  <2>3. CASE Write(store \cup {<<"refresh", n>>}) /\ Goto(p, "answer")
    <3>1. <<"refresh", n>> \in store' /\ <<"access", n>> \in store'
      BY <1>11, <2>1, <2>3 DEF StoreRefresh, Holding, Write
    <3>2. /\ h'[p].pc = "answer" /\ h'[p].item = h[p].item /\ h'[p].flow = f /\ h'[p].new = n
          /\ \A q \in Procs \ {p} : h'[q] = h[q]
      BY <1>1, <2>1, <2>3, Goes DEF Stages
    <3>3. \A s \in Serials : h[p].item = <<"refresh", s>> => s < n
      BY <1>11, <2>1 DEF StoreRefresh, Holding, Makes
    <3> QED
      BY <1>4, <3>1, <3>2, <3>3 DEF Holding, LetsGo
  <2> QED
    BY <1>1, <1>11, <2>1, <2>2, <2>3 DEF StoreRefresh
<1>12. CASE StoreOrphan(p)
  <2>1. Ends(p) /\ f \in excused
    BY <1>1, <1>12 DEF StoreOrphan, Holding
  <2> QED
    BY <1>0, <1>3, <2>1
<1>13. CASE AnswerToken(p)
  <2>1. PICK n : n = h[p].new
    OBVIOUS
  <2>2. Ends(p)
    BY <1>13 DEF AnswerToken
  <2>3. CASE Fault("other", f)
    BY <1>3, <1>13, <1>14, <2>2, <2>3 DEF AnswerToken
  <2>4. CASE <<"refresh", n>> \in delivered'
    <3>1. GoodToken(n) /\ tok[n].flow = f
      BY <1>0, <1>1, <1>13, <2>1 DEF AnswerToken, GoodHandler
    <3>2. ASSUME NEW s \in Serials, h[p].item = <<"refresh", s>>
          PROVE  Settled(s)
      <4>1. tok[s].flow = f /\ s < n /\ s \in Int
        BY <1>1, <1>13, <2>1, <3>2 DEF Holding, Makes, AnswerToken, Serials
      <4>2. n \in s + 1 .. serial
        BY <3>1, <4>1, ConstantsOK DEF GoodToken, Typed, TypeOK
      <4> QED
        BY <2>4, <3>1, <4>1, <4>2 DEF Settled
    <3> QED
      BY <1>2, <2>2, <3>2
  <2> QED
    BY <1>1, <1>13, <2>1, <2>3, <2>4 DEF AnswerToken, Deliver
<1> QED
  BY <1>5, <1>6, <1>7, <1>8, <1>9, <1>10, <1>11, <1>12, <1>13 DEF Token

LEMMA HoldingStep ==
  ASSUME Typed, Typed', Descends, Persists, Linear, Delivers, [Next]_vars, NEW p \in Procs
  PROVE  Holding(p)' /\ LetsGo(p)
<1>0. Holding(p)
  BY DEF Delivers
<1>1. CASE h'[p] = h[p]
  BY <1>0, <1>1, HoldingKept DEF LetsGo
<1>2. CASE Callback(p)
  BY <1>2, CallbackHolds DEF LetsGo
<1>3. CASE Token(p)
  BY <1>0, <1>3, TokenHolds
<1>4. CASE Crash
  <2>1. h'[p] = Idle /\ (h[p] # Idle => h[p].flow \in excused')
    <3>1. h[p] # Idle => h[p].flow \in Flows
      BY DEF Descends, GoodHandler
    <3> QED
      BY <1>4, <3>1, FaultSpoils DEF Crash
  <2>2. LetsGo(p)
    BY <1>0, <2>1 DEF LetsGo, Settled, Holding, Idle, NoItem
  <2> QED
    BY <2>1, <2>2, IdleHolds
<1>5. ASSUME NEW q \in Procs, Callback(q) \/ Token(q), q # p
      PROVE  h'[p] = h[p]
  <2>1. Holding(q)
    BY DEF Delivers
  <2> QED
    BY <1>5, <2>1, CallbackHolds, TokenHolds
<1>6. CASE \/ \E a \in Apps : RegisterClient(a) \/ CreateStaticClient(a)
           \/ \E f \in Flows, a \in Apps : Authorize(f, a)
           \/ \E i \in Items : Expire(i)
           \/ UNCHANGED vars
  BY <1>1, <1>6 DEF RegisterClient, CreateStaticClient, Authorize, Expire, vars
<1> QED
  BY <1>1, <1>2, <1>3, <1>4, <1>5, <1>6 DEF Next

LEMMA KnownUsersStep ==
  ASSUME Typed, Descends, Persists, Delivers, [Next]_vars
  PROVE  KnownUsers'
<1>0. users \subseteq users' /\ unstored \subseteq unstored' /\ KnownUsers
  BY Grows DEF Delivers
<1>1. CASE UNCHANGED <<codeUser, tok, serial>>
  BY <1>0, <1>1 DEF KnownUsers
<1>2. ASSUME NEW p \in Procs, StoreCode(p)
      PROVE  KnownUsers'
  <2>1. h[p].user \in users \/ h[p].flow \in unstored
    BY <1>2 DEF StoreCode, Delivers, Holding
  <2>2. /\ \A f \in Flows : codeUser'[f] # codeUser[f] => f = h[p].flow /\ codeUser'[f] = h[p].user
        /\ UNCHANGED <<tok, serial>>
    BY <1>2 DEF StoreCode, Typed, TypeOK
  <2> QED
    BY <1>0, <2>1, <2>2 DEF KnownUsers
<1>3. ASSUME NEW p \in Procs, StoreAccess(p)
      PROVE  KnownUsers'
  <2>1. PICK f \in Flows : f = h[p].flow
    BY <1>3 DEF StoreAccess, Descends, GoodHandler
  <2>2. PICK u : u = GrantUser(h[p].item)
    OBVIOUS
  <2>3. u \in users \/ f \in unstored
    <3>1. CASE h[p].item = <<"code", f>> /\ GoodCode(f)
      <4>1. codeUser[f] # 0 /\ u = codeUser[f]
        BY <2>2, <3>1, ConstantsOK DEF GrantUser, GoodCode, Vouched
      <4> QED
        BY <1>0, <4>1 DEF KnownUsers
    <3>2. CASE \E s \in Serials : h[p].item = <<"refresh", s>> /\ GoodToken(s) /\ f = tok[s].flow
      BY <1>0, <2>2, <3>2 DEF GrantUser, KnownUsers, GoodToken
    <3> QED
      BY <1>3, <2>1, <3>1, <3>2 DEF StoreAccess, Descends, GoodHandler
  <2>4. /\ serial \in Nat /\ serial' = serial + 1 /\ serial' \in Serials
        /\ codeUser' = codeUser /\ \A s \in 1 .. serial : tok'[s] = tok[s]
    BY <1>3, ConstantsOK DEF StoreAccess, Typed, TypeOK, Persists, Serials
  <2>5. tok'[serial'].user = u /\ tok'[serial'].flow = f
    BY <1>3, <2>1, <2>2, <2>4 DEF StoreAccess, Typed, TypeOK
  <2>6. \A s \in 1 .. serial' : s \in 1 .. serial \/ s = serial'
    BY <2>4
  <2> QED
    BY <1>0, <2>3, <2>4, <2>5, <2>6 DEF KnownUsers
<1>4. ASSUME NEW p \in Procs, Callback(p), ~ StoreCode(p)
      PROVE  UNCHANGED <<codeUser, tok, serial>>
  BY <1>4 DEF Callback, BeginCallback, Finds, DeleteRequest, Exchange, StoreUser, AnswerCallback, factVars
<1>5. ASSUME NEW p \in Procs, Token(p), ~ StoreAccess(p)
      PROVE  UNCHANGED <<codeUser, tok, serial>>
  BY <1>5 DEF Token, BeginCode, BeginRefresh, Finds, BurnCode, RemoveRefresh, Rotate,
              StoreRefresh, StoreOrphan, AnswerToken, factVars
<1>6. CASE \/ \E a \in Apps : RegisterClient(a) \/ CreateStaticClient(a)
           \/ \E f \in Flows, a \in Apps : Authorize(f, a)
           \/ (\E i \in Items : Expire(i)) \/ Crash \/ UNCHANGED vars
  BY <1>1, <1>6 DEF RegisterClient, CreateStaticClient, Authorize, Expire, Crash, vars, factVars
<1> QED
  BY <1>1, <1>2, <1>3, <1>4, <1>5, <1>6 DEF Next

LEMMA UsableStep ==
  ASSUME Typed, Typed', Descends, Persists, Linear, Delivers, [Next]_vars
  PROVE  Usable'
<1> SUFFICES ASSUME NEW s \in Serials
             PROVE  /\ <<"access", s>> \in delivered' => <<"access", s>> \in store'
                    /\ <<"refresh", s>> \in delivered' =>
                         \/ <<"refresh", s>> \in store' \cup expired'
                         \/ \E p \in Procs : h'[p].item = <<"refresh", s>>
                         \/ tok'[s].flow \in excused'
                         \/ Replaced(s)'
  BY DEF Usable
<1>0. /\ excused \subseteq excused' /\ expired \subseteq expired' /\ delivered \subseteq delivered'
      /\ \A p \in Procs : Holding(p) /\ LetsGo(p) /\ GoodHandler(p)
      /\ serial \in Int /\ serial' \in Int /\ serial <= serial'
      /\ \A r \in 1 .. serial : tok'[r] = tok[r]
  BY Grows, HoldingStep DEF Delivers, Descends, Persists, Typed, TypeOK
<1>1. ASSUME <<"access", s>> \in delivered'
      PROVE  <<"access", s>> \in store'
  <2>1. CASE <<"access", s>> \in delivered
    BY <2>1, AccessStays DEF Delivers, Usable
  <2>2. CASE <<"access", s>> \notin delivered
    BY <1>0, <1>1, <2>2, Deliveries DEF Holding
  <2> QED
    BY <2>1, <2>2
<1>2. ASSUME <<"refresh", s>> \in delivered, s <= serial
      PROVE  \/ <<"refresh", s>> \in store' \cup expired'
             \/ \E p \in Procs : h'[p].item = <<"refresh", s>>
             \/ tok'[s].flow \in excused'
             \/ Replaced(s)'
  <2>1. s \in 1 .. serial /\ tok'[s] = tok[s]
    BY <1>0, <1>2 DEF Serials
  <2>2. ASSUME NEW r \in s + 1 .. serial, <<"refresh", r>> \in delivered', tok[r].flow = tok[s].flow
        PROVE  Replaced(s)'
    <3>1. r \in 1 .. serial /\ r \in s + 1 .. serial'
      BY <1>0, <2>1, <2>2
    <3>2. tok'[r] = tok[r]
      BY <1>0, <3>1
    <3> QED
      BY <2>1, <2>2, <3>1, <3>2 DEF Replaced
  <2>3. Replaced(s) => Replaced(s)'
    BY <1>0, <2>2 DEF Replaced
  <2>4. Settled(s) => \/ <<"refresh", s>> \in expired' \/ tok'[s].flow \in excused' \/ Replaced(s)'
    BY <1>0, <2>1, <2>2 DEF Settled
  <2>5. CASE \E p \in Procs : h[p].item = <<"refresh", s>>
    BY <1>0, <2>4, <2>5 DEF LetsGo
  <2>6. CASE <<"refresh", s>> \in store
    <3>1. CASE <<"refresh", s>> \in store'
      BY <3>1
    <3>2. CASE <<"refresh", s>> \notin store'
      <4>1. PICK p \in Procs : <<"refresh", s>> = h[p].item
        BY <2>6, <3>2, Removals
      <4> QED
        BY <2>5, <4>1
    <3> QED
      BY <3>1, <3>2
  <2> QED
    BY <1>0, <1>2, <2>1, <2>3, <2>5, <2>6 DEF Delivers, Usable
<1>3. ASSUME <<"refresh", s>> \in delivered'
      PROVE  \/ <<"refresh", s>> \in store' \cup expired'
             \/ \E p \in Procs : h'[p].item = <<"refresh", s>>
             \/ tok'[s].flow \in excused'
             \/ Replaced(s)'
  <2>1. CASE <<"refresh", s>> \in delivered
    BY <1>2, <2>1 DEF Linear
  <2>2. CASE <<"refresh", s>> \notin delivered
    <3>1. PICK p \in Procs : /\ h[p].pc = "answer" /\ h[p].item[1] # "request" /\ store' = store
                             /\ s = h[p].new
      BY <1>3, <2>2, Deliveries
    <3>2. GoodToken(s) /\ tok[s].flow = h[p].flow
      BY <1>0, <3>1 DEF GoodHandler
    <3>3. <<"refresh", s>> \in store \/ h[p].flow \in excused
      BY <1>0, <3>1 DEF Holding
    <3>4. tok'[s] = tok[s]
      BY <3>2, GoodTokenPersists
    <3> QED
      BY <1>0, <3>1, <3>2, <3>3, <3>4
  <2> QED
    BY <2>1, <2>2
<1> QED
  BY <1>1, <1>3

(* What a client was sent by /token works (handlers.go:286-306, 346-365):  *)
(* its access tokens are accepted until they expire, unless storing the    *)
(* user failed, whatever else has; and its last refresh token can be       *)
(* presented or is being exchanged, unless a fault or an overlapping       *)
(* request has touched the login.                                          *)
THEOREM DeliveredTokensAlwaysWork == Spec => []DeliveredTokensWork
<1>1. Init => Linear /\ Delivers
  BY DEF Init, Linear, OneWay, Ways, Busy, Idle, NoItem, Makes, Delivers, Holding, KnownUsers, Usable
<1>2. Typed /\ Descends /\ Linear /\ Delivers /\ [Next]_vars => (Linear /\ Delivers)'
  BY TypedStep, FactsPersist, LinearStep, HoldingStep, KnownUsersStep, UsableStep DEF Delivers
<1>3. Typed /\ Descends /\ Delivers => DeliveredTokensWork
  <2> SUFFICES ASSUME Typed, Descends, Delivers, NEW f \in Flows, NEW s \in Serials, tok[s].flow = f
               PROVE  /\ f \notin unstored /\ <<"access", s>> \in delivered \ expired => Served(s)
                      /\ f \notin excused /\ s \in Latest(f) =>
                                            \/ <<"refresh", s>> \in store \cup expired
                                            \/ \E p \in Procs : h[p].item = <<"refresh", s>>
    BY DEF DeliveredTokensWork, Latest
  <2>1. ASSUME f \notin unstored, <<"access", s>> \in delivered \ expired
        PROVE  Served(s)
    <3>1. <<"access", s>> \in store
      BY <2>1 DEF Delivers, Usable
    <3>2. GoodToken(s)
      BY <3>1 DEF Descends, GoodItem
    <3> QED
      BY <2>1, <3>1, <3>2 DEF Served, GoodToken, Delivers, KnownUsers
  <2>2. ASSUME f \notin excused, s \in Latest(f)
        PROVE  \/ <<"refresh", s>> \in store \cup expired
               \/ \E p \in Procs : h[p].item = <<"refresh", s>>
    <3>1. <<"refresh", s>> \in delivered /\ ~ Replaced(s)
      BY <2>2 DEF Latest, Replaced
    <3> QED
      BY <2>2, <3>1 DEF Delivers, Usable
  <2> QED
    BY <2>1, <2>2
<1> QED
  BY <1>1, <1>2, <1>3, Inductive, PTL DEF Spec
=============================================================================
