-------------------------------- MODULE OAuth --------------------------------
(***************************************************************************)
(* auth/: the OAuth authorization server in front of /mcp.  A login (flow) *)
(* goes from /authorize to GitHub, back to /callback, and to /token for    *)
(* the first pair of tokens, which /token replaces for a refresh token.    *)
(* Every handler is a sequence of BoltDB transactions; each is atomic and  *)
(* durable, but nothing holds the sequence together: handlers overlap, a   *)
(* write may fail, items expire, and a crash ends all handlers at once.    *)
(*                                                                         *)
(* Random identifiers are fresh numbers: a flow's request, authorization   *)
(* code and, if it is the first of its GitHub login, user are all named by *)
(* the flow; the tokens of a grant by its serial number.                   *)
(***************************************************************************)
EXTENDS Integers, FiniteSets

CONSTANTS
  Procs,     \* handler goroutines
  Flows,     \* logins that are begun
  Apps,      \* OAuth clients
  Static,    \* those of the configuration file
  Logins,    \* GitHub accounts
  Allowed,   \* the accounts on the allowlist
  MaxSerial, \* bound: grants that make tokens
  MaxTrouble \* bound: failed writes, lost responses, crashes and expired items

ASSUME ConstantsOK ==
  /\ Flows \subseteq Nat \ {0} /\ "none" \notin Apps
  /\ Allowed \subseteq Logins /\ Static \subseteq Apps
  /\ MaxSerial \in Nat /\ MaxTrouble \in Nat

Serials == 1 .. MaxSerial
Items   == ({"request", "code"} \X Flows) \cup ({"access", "refresh"} \X Serials)

VARIABLES
  clients,   \* bucket clients
  store,     \* which requests, codes and tokens are in their buckets
  users,     \* bucket users: the user ids in it
  index,     \* bucket users_by_github: login -> user id, or 0
  app,       \* app[f]: the client that began flow f, or "none"
  login,     \* login[f]: who signs in to GitHub in flow f
  vouched,   \* the flows whose GitHub code has been exchanged
  codeUser,  \* codeUser[f]: the user id in the authorization code of f
  tok,       \* tok[s]: what the tokens of serial s say
  serial,    \* serials used
  expired,   \* the items whose time is over
  delivered, \* the items that a client has been sent
  h,         \* h[p]: where handler p stands, and its locals
  faults,    \* how many faults there have been
  spoilt,    \* what has gone wrong, with the flow in which it has
  raced      \* the logins with two overlapping callbacks

vars == <<clients, store, users, index, app, login, vouched, codeUser, tok, serial,
          expired, delivered, h, faults, spoilt, raced>>
bucketVars == <<clients, store, users, index>>
ghostVars  == <<expired, delivered, faults, spoilt, raced>>
factVars   == <<app, login, vouched, codeUser, tok, serial>>

NoItem == <<"none", 0>>
Idle   == [pc |-> "idle", item |-> NoItem, flow |-> 0, by |-> "none", user |-> 0, new |-> 0]
NoTok  == [flow |-> 0, app |-> "none", user |-> 0]

(* The flow that an item belongs to. *)
FlowOf(i) == IF i[1] \in {"request", "code"} THEN i[2] ELSE tok[i[2]].flow

Init ==
  /\ clients = Static /\ store = {} /\ users = {} /\ index = [l \in Logins |-> 0]
  /\ app = [f \in Flows |-> "none"] /\ login \in [Flows -> Logins]
  /\ vouched = {} /\ codeUser = [f \in Flows |-> 0]
  /\ tok = [s \in Serials |-> NoTok] /\ serial = 0
  /\ expired = {} /\ delivered = {}
  /\ h = [p \in Procs |-> Idle]
  /\ faults = 0 /\ spoilt = {} /\ raced = {}

Goto(p, s) == h' = [h EXCEPT ![p].pc = s]
Ends(p)    == h' = [h EXCEPT ![p] = Idle]

Trouble == faults + Cardinality(expired)

(* Two requests with one item, a deletion or a StoreUser that fails, and   *)
(* every other fault: a write, a response, a crash.                        *)
Spoils   == {"overlap", "delete", "user", "other"}
excused  == {f \in Flows : \E w \in Spoils : <<w, f>> \in spoilt}
doubled  == {f \in Flows : <<"overlap", f>> \in spoilt \/ <<"delete", f>> \in spoilt}
unstored == {f \in Flows : <<"user", f>> \in spoilt}

(* A transaction that changes the store, or fails and changes nothing.     *)
Fault(what, f) ==
  /\ Trouble < MaxTrouble /\ faults' = faults + 1 /\ spoilt' = spoilt \cup {<<what, f>>}
  /\ UNCHANGED bucketVars
NoFault == UNCHANGED <<faults, spoilt>>

Write(items) == store' = items /\ UNCHANGED <<clients, users, index>> /\ NoFault

(* The response arrives with what it carries, or is lost. *)
Deliver(items, f) ==
  \/ delivered' = delivered \cup items /\ NoFault /\ UNCHANGED bucketVars
  \/ Fault("other", f) /\ UNCHANGED delivered

-----------------------------------------------------------------------------
(* /register: StoreClient under a new client id. *)
RegisterClient(a) ==
  /\ a \notin clients
  /\ clients' = clients \cup {a}
  /\ UNCHANGED <<store, users, index, factVars, h, ghostVars>>

(* Middleware: the access token is there, in time, and so is its user. *)
Served(s) == <<"access", s>> \in store \ expired /\ tok[s].user \in users

(* POST /admin/clients, for whoever has a token. *)
CreateStaticClient(a) ==
  /\ \E s \in Serials : <<"access", s>> \in delivered /\ Served(s)
  /\ RegisterClient(a)

(* /authorize.  Clients are never removed (the route that would do so does *)
(* not match), so that GetClient and StoreAuthRequest are one step.  The   *)
(* browser is sent to GitHub even if storing the request failed.  Flows are*)
(* numbered in the order in which they begin.                              *)
Authorize(f, a) ==
  /\ a \in clients
  /\ app[f] = "none" /\ \A g \in Flows : g < f => app[g] # "none"
  /\ app' = [app EXCEPT ![f] = a]
  /\ Write(store \cup {<<"request", f>>}) \/ Fault("other", f)
  /\ UNCHANGED <<login, vouched, codeUser, tok, serial, h, expired, delivered, raced>>

-----------------------------------------------------------------------------
(* What a handler begins with: it looks an item up and goes on if it finds *)
(* it.  Two that have found the same item overlap.                         *)

Overlap(p, i) == \E q \in Procs \ {p} : h[q].item = i

Finds(p, i, s, by) ==
  /\ h[p] = Idle
  /\ i \in store
  /\ h' = [h EXCEPT ![p] = [Idle EXCEPT !.pc = s, !.item = i, !.flow = FlowOf(i), !.by = by]]
  /\ spoilt' = IF Overlap(p, i) THEN spoilt \cup {<<"overlap", FlowOf(i)>>} ELSE spoilt
  /\ UNCHANGED <<bucketVars, factVars, expired, delivered, faults, raced>>

(* Delete, whose error is ignored. *)
NotDeleted(p) == NoFault /\ UNCHANGED bucketVars
Deleted(p)    == Write(store \ {h[p].item}) \/ Fault("delete", h[p].flow)

(* /callback: GetAuthRequest, ... *)
BeginCallback(p, f) == Finds(p, <<"request", f>>, "delete", "none")

(* ... DeleteAuthRequest and the test of its expiry, ... *)
DeleteRequest(p) ==
  /\ h[p].pc = "delete"
  /\ Deleted(p)
  /\ IF h[p].item \in expired THEN Ends(p) ELSE Goto(p, "exchange")
  /\ UNCHANGED <<factVars, expired, delivered, raced>>

Authorized(f) == login[f] \in Allowed

AlwaysNew(f) == f
OnlyKnown(f) == index[login[f]]
UserFor(f)   == IF index[login[f]] # 0 THEN index[login[f]] ELSE f

(* ExchangeCode and GetUser: a browser is sent back with one code, which   *)
(* GitHub takes once; the calls may fail besides.                          *)
Vouches(f) == f \notin vouched

(* ... ExchangeCode, GetUser, the allowlist, and GetUserByGitHubLogin:     *)
(* GitHub's part touches nothing that handlers share.                      *)
Exchange(p) ==
  /\ h[p].pc = "exchange"
  /\ LET f == h[p].flow
         others == {q \in Procs \ {p} : h[q].pc = "storeUser" /\ login[h[q].flow] = login[f]}
     IN  \/ /\ Vouches(f) /\ vouched' = vouched \cup {f}
            /\ Authorized(f)
            /\ h' = [h EXCEPT ![p].pc = "storeUser", ![p].user = UserFor(f)]
            /\ raced' = IF others # {} THEN raced \cup {login[f]} ELSE raced
         \/ Ends(p) /\ UNCHANGED <<vouched, raced>>
  /\ UNCHANGED <<bucketVars, app, login, codeUser, tok, serial,
                 expired, delivered, faults, spoilt>>

(* StoreUser, whose error is ignored, writes both buckets at once. *)
StoreUser(p) ==
  /\ h[p].pc = "storeUser"
  /\ \/ /\ users' = users \cup {h[p].user}
        /\ index' = [index EXCEPT ![login[h[p].flow]] = h[p].user]
        /\ NoFault /\ UNCHANGED <<clients, store>>
     \/ Fault("user", h[p].flow)
  /\ Goto(p, "storeCode")
  /\ UNCHANGED <<factVars, expired, delivered, raced>>

(* GenerateAuthorizationCode; if it is stored, the browser takes it to the *)
(* client.                                                                 *)
StoreCode(p) ==
  /\ h[p].pc = "storeCode"
  /\ \/ /\ Write(store \cup {<<"code", h[p].flow>>})
        /\ codeUser' = [codeUser EXCEPT ![h[p].flow] = h[p].user]
        /\ Goto(p, "answer")
     \/ Fault("other", h[p].flow) /\ Ends(p) /\ UNCHANGED codeUser
  /\ UNCHANGED <<app, login, vouched, tok, serial, expired, delivered, raced>>

AnswerCallback(p) ==
  /\ h[p].pc = "answer" /\ h[p].item[1] = "request"
  /\ Deliver({<<"code", h[p].flow>>}, h[p].flow)
  /\ Ends(p)
  /\ UNCHANGED <<factVars, expired, raced>>

Callback(p) == \/ \E f \in Flows : BeginCallback(p, f)
               \/ DeleteRequest(p) \/ Exchange(p) \/ StoreUser(p)
               \/ StoreCode(p) \/ AnswerCallback(p)

-----------------------------------------------------------------------------
(* /token, for a code and for a refresh token.                             *)

(* handleAuthCodeGrant: GetAuthCode, ... *)
BeginCode(p, f, a) == <<"code", f>> \in delivered /\ Finds(p, <<"code", f>>, "burn", a)

AnyClient(s, a)  == TRUE
SameClient(s, a) == tok[s].app = a

CodeClient(p) == h[p].by = app[h[p].flow]

(* ... DeleteAuthCode, then the tests of expiry, client, redirect URI,     *)
(* PKCE and resource, one of which may fail: the code is spent all the same*)
BurnCode(p) ==
  /\ h[p].pc = "burn"
  /\ Deleted(p)
  /\ \/ h[p].item \notin expired /\ CodeClient(p) /\ Goto(p, "storeAccess")
     \/ Ends(p)
  /\ UNCHANGED <<factVars, expired, delivered, raced>>

(* handleRefreshTokenGrant: GetRefreshToken, then its expiry and its client*)
(* (another client's is refused, and nothing has changed), ...             *)
BeginRefresh(p, s, a) ==
  LET i == <<"refresh", s>> IN
    /\ i \in delivered
    /\ i \in expired \/ SameClient(s, a)
    /\ Finds(p, i, IF i \in expired THEN "remove" ELSE "rotate", a)

(* ... DeleteRefreshToken of one that has expired, ... *)
RemoveRefresh(p) ==
  /\ h[p].pc = "remove"
  /\ Deleted(p)
  /\ Ends(p)
  /\ UNCHANGED <<factVars, expired, delivered, raced>>

(* ... or of one that is replaced, before the new tokens exist. *)
Rotate(p) ==
  /\ h[p].pc = "rotate"
  /\ Deleted(p)
  /\ Goto(p, "storeAccess")
  /\ UNCHANGED <<factVars, expired, delivered, raced>>

(* The user id that the new tokens are made for. *)
OwnUser(i)   == FlowOf(i)
GrantUser(i) == IF i[1] = "code" THEN codeUser[i[2]] ELSE tok[i[2]].user

(* GenerateAccessToken.  Without it the code grant reports a server error; *)
(* the refresh grant goes on with a nil token.                             *)
StoreAccess(p) ==
  /\ h[p].pc = "storeAccess" /\ serial < MaxSerial
  /\ serial' = serial + 1
  /\ tok' = [tok EXCEPT ![serial'] = [flow |-> h[p].flow, app |-> h[p].by,
                                      user |-> GrantUser(h[p].item)]]
  /\ \/ /\ Write(store \cup {<<"access", serial'>>})
        /\ h' = [h EXCEPT ![p].pc = "storeRefresh", ![p].new = serial']
     \/ /\ Fault("other", h[p].flow)
        /\ IF h[p].item[1] = "code" THEN Ends(p)
           ELSE h' = [h EXCEPT ![p].pc = "storeOrphan", ![p].new = serial']
  /\ UNCHANGED <<app, login, vouched, codeUser, expired, delivered, raced>>

(* GenerateRefreshToken. *)
StoreRefresh(p) ==
  /\ h[p].pc = "storeRefresh"
  /\ \/ Write(store \cup {<<"refresh", h[p].new>>}) /\ Goto(p, "answer")
     \/ Fault("other", h[p].flow) /\ Ends(p)
  /\ UNCHANGED <<factVars, expired, delivered, raced>>

(* The refresh token is stored even when the access token was not; then the*)
(* nil access token makes the handler panic, and the client gets nothing.  *)
StoreOrphan(p) ==
  /\ h[p].pc = "storeOrphan"
  /\ Write(store \cup {<<"refresh", h[p].new>>}) \/ Fault("other", h[p].flow)
  /\ Ends(p)
  /\ UNCHANGED <<factVars, expired, delivered, raced>>

AnswerToken(p) ==
  /\ h[p].pc = "answer" /\ h[p].item[1] # "request"
  /\ Deliver({<<"access", h[p].new>>, <<"refresh", h[p].new>>}, h[p].flow)
  /\ Ends(p)
  /\ UNCHANGED <<factVars, expired, raced>>

Token(p) == \/ \E f \in Flows, a \in Apps : BeginCode(p, f, a)
            \/ \E s \in Serials, a \in Apps : BeginRefresh(p, s, a)
            \/ BurnCode(p) \/ RemoveRefresh(p) \/ Rotate(p)
            \/ StoreAccess(p) \/ StoreRefresh(p) \/ StoreOrphan(p) \/ AnswerToken(p)

-----------------------------------------------------------------------------
Expire(i) ==
  /\ Trouble < MaxTrouble /\ i \in store \ expired
  /\ expired' = expired \cup {i}
  /\ UNCHANGED <<bucketVars, factVars, h, delivered, faults, spoilt, raced>>

(* The process ends and starts again: the database is what it was. *)
Crash ==
  /\ Trouble < MaxTrouble /\ faults' = faults + 1
  /\ \E p \in Procs : h[p] # Idle
  /\ spoilt' = spoilt \cup {<<"other", h[p].flow>> : p \in {q \in Procs : h[q] # Idle}}
  /\ h' = [p \in Procs |-> Idle]
  /\ UNCHANGED <<bucketVars, factVars, expired, delivered, raced>>

Next ==
  \/ \E a \in Apps : RegisterClient(a) \/ CreateStaticClient(a)
  \/ \E f \in Flows, a \in Apps : Authorize(f, a)
  \/ \E p \in Procs : Callback(p) \/ Token(p)
  \/ \E i \in Items : Expire(i)
  \/ Crash

Spec == Init /\ [][Next]_vars

-----------------------------------------------------------------------------
(* Properties.                                                             *)

(* Types of the variables, with the bounds. *)
TypeOK ==
  /\ clients \subseteq Apps /\ store \subseteq Items
  /\ users \subseteq Flows /\ index \in [Logins -> Flows \cup {0}]
  /\ app \in [Flows -> Apps \cup {"none"}] /\ login \in [Flows -> Logins]
  /\ vouched \subseteq Flows /\ codeUser \in [Flows -> Flows \cup {0}]
  /\ tok \in [Serials -> [flow: Flows \cup {0}, app: Apps \cup {"none"}, user: Flows \cup {0}]]
  /\ serial \in 0 .. MaxSerial /\ faults \in 0 .. MaxTrouble
  /\ expired \subseteq Items /\ delivered \subseteq Items
  /\ spoilt \subseteq Spoils \X Flows /\ raced \subseteq Logins
  /\ \A p \in Procs :
       /\ h[p].pc \in {"idle", "delete", "exchange", "storeUser", "storeCode",
                       "burn", "remove", "rotate", "storeAccess", "storeRefresh",
                       "storeOrphan", "answer"}
       /\ h[p].item \in Items \cup {NoItem} /\ h[p].flow \in Flows \cup {0}
       /\ h[p].by \in Apps \cup {"none"}
       /\ h[p].user \in Flows \cup {0} /\ h[p].new \in 0 .. MaxSerial

(* Tokens come from a login: GitHub vouched for an account on the allowlist*)
(* in the flow they descend from, through any number of refreshes; they are*)
(* for the client that began it, and for a user of that account.           *)
TokensTraceToLogin ==
  \A s \in Serials :
    {<<"access", s>>, <<"refresh", s>>} \cap store # {} =>
      LET t == tok[s] IN
        /\ t.flow \in vouched /\ login[t.flow] \in Allowed
        /\ t.app = app[t.flow]
        /\ t.user \in Flows /\ login[t.user] = login[t.flow]

Credentials(f) == {i \in store : i[1] \in {"code", "refresh"} /\ FlowOf(i) = f}

(* "Delete code (one-time use)", "Delete old refresh token (rotation)": a  *)
(* login has at most one credential that tokens can be had for, whatever   *)
(* crashes or fails, unless two requests with it overlapped or the deletion*)
(* of one failed.                                                          *)
OneCredential == \A f \in Flows \ doubled : \A i, j \in Credentials(f) : i = j

Latest(f) == {s \in Serials : /\ <<"refresh", s>> \in delivered /\ tok[s].flow = f
                              /\ \A r \in s + 1 .. serial : tok[r].flow # f
                                                           \/ <<"refresh", r>> \notin delivered}

(* What a client has been sent it can use: its access tokens are served    *)
(* until they expire, over failures and restarts, unless storing the user  *)
(* failed; and its last refresh token can be presented or is being         *)
(* exchanged, unless a fault or an overlap has touched the login.          *)
DeliveredTokensWork ==
  \A f \in Flows :
    /\ f \notin unstored =>
         \A s \in Serials : <<"access", s>> \in delivered \ expired /\ tok[s].flow = f => Served(s)
    /\ f \notin excused =>
         \A s \in Latest(f) : \/ <<"refresh", s>> \in store \cup expired
                               \/ \E p \in Procs : h[p].item = <<"refresh", s>>

(* "Check if user already exists": an account has one user id, and its     *)
(* index entry points to a user, unless two of its logins overlapped.      *)
OneIdentity ==
  /\ \A f, g \in users : login[f] = login[g] => f = g \/ login[f] \in raced
  /\ \A l \in Logins : index[l] # 0 => index[l] \in users /\ login[index[l]] = l
=============================================================================
