------------------------------ MODULE Catalog -------------------------------
(***************************************************************************)
(* A client that keeps a copy of the resource list: it opens a             *)
(* subscriptions/listen stream, and once that is acknowledged it fetches   *)
(* the list page by page, from the start again whenever list_changed       *)
(* arrives, as the comments of Register and Unregister ask of it.  The     *)
(* server side is Broker; resources/list is handleResourcesList and        *)
(* paginate.                                                               *)
(***************************************************************************)
EXTENDS Broker

CONSTANT PageSize  \* entries per page (50 in the code)

ASSUME PageSizeOK == PageSize \in Nat \ {0}

VARIABLES
  phase,  \* phase[l]: the client of l is "deaf" (no acknowledgement yet), "due"
          \* (has to fetch a page), "asked" (its request is out), "fresh", or
          \* "stuck" (it keeps its stream but does not read it any more)
  off,    \* off[l]: the cursor it holds, as the offset encoded in it
  acc,    \* acc[l]: the entries of the pages it has fetched so far
  reply,  \* reply[l]: the server's answer on its way
  view    \* view[l]: the list as it last fetched it completely

clientVars == <<phase, off, acc, reply, view>>
vars       == <<serverVars, clientVars>>

NoReply == [ok |-> FALSE, page |-> <<>>, next |-> 0]

Init ==
  /\ BrokerInit
  /\ phase = [l \in Listeners |-> "deaf"]
  /\ off = [l \in Listeners |-> 0]
  /\ acc = [l \in Listeners |-> <<>>]
  /\ reply = [l \in Listeners |-> NoReply]
  /\ view = [l \in Listeners |-> <<>>]

-----------------------------------------------------------------------------
(* handleResourcesList: a snapshot of the list under r.mu, sliced by the   *)
(* cursor.  A cursor beyond the end of a list that has shrunk is refused.  *)
(* next = 0 stands for the absent nextCursor: no page but the first starts *)
(* at 0.                                                                   *)

PageEnd(o) == IF o + PageSize < Len(list) THEN o + PageSize ELSE Len(list)

ShortPage(o) ==
  IF o > Len(list) THEN NoReply
  ELSE [ok   |-> TRUE,
        page |-> SubSeq(list, o + 1, PageEnd(o)),
        next |-> IF PageEnd(o) < Len(list) - 1 THEN PageEnd(o) ELSE 0]

Paginate(o) ==
  IF o > Len(list) THEN NoReply
  ELSE [ok   |-> TRUE,
        page |-> SubSeq(list, o + 1, PageEnd(o)),
        next |-> IF PageEnd(o) < Len(list) THEN PageEnd(o) ELSE 0]

-----------------------------------------------------------------------------
(* The client of stream l.                                                 *)

Forget(l, p) ==
  /\ phase' = [phase EXCEPT ![l] = p]
  /\ off' = [off EXCEPT ![l] = 0]
  /\ acc' = [acc EXCEPT ![l] = <<>>]
  /\ reply' = [reply EXCEPT ![l] = NoReply]

Restart(l) == Forget(l, "due")

(* (Re)connecting: what it knew is worth nothing ("no backfill"). *)
Connect(l) ==
  /\ Subscribe(l)
  /\ Forget(l, "deaf")
  /\ UNCHANGED view

GetsStuck(l) ==
  /\ Forget(l, "stuck")
  /\ UNCHANGED <<serverVars, view>>

(* The acknowledgement and list_changed both make it fetch anew. *)
ReadStream(l) ==
  /\ phase[l] # "stuck"
  /\ wire[l] # <<>>
  /\ wire' = [wire EXCEPT ![l] = Tail(@)]
  /\ IF Head(wire[l]) \in {"ack", "list"}
       THEN Restart(l)
       ELSE UNCHANGED <<phase, off, acc, reply>>
  /\ UNCHANGED <<registryVars, todo, brokerVars, ended, view>>

ListPage(l) ==
  /\ phase[l] = "due"
  /\ reply' = [reply EXCEPT ![l] = Paginate(off[l])]
  /\ phase' = [phase EXCEPT ![l] = "asked"]
  /\ UNCHANGED <<serverVars, off, acc, view>>

TakePage(l) ==
  /\ phase[l] = "asked"
  /\ IF ~reply[l].ok
       THEN Restart(l) /\ UNCHANGED view
       ELSE LET all == acc[l] \o reply[l].page
            IN /\ reply' = [reply EXCEPT ![l] = NoReply]
               /\ off' = [off EXCEPT ![l] = reply[l].next]
               /\ IF reply[l].next # 0
                    THEN /\ phase' = [phase EXCEPT ![l] = "due"]
                         /\ acc' = [acc EXCEPT ![l] = all]
                         /\ UNCHANGED view
                    ELSE /\ phase' = [phase EXCEPT ![l] = "fresh"]
                         /\ acc' = [acc EXCEPT ![l] = <<>>]
                         /\ view' = [view EXCEPT ![l] = all]
  /\ UNCHANGED serverVars

Client(l) == ReadStream(l) \/ ListPage(l) \/ TakePage(l)

Next ==
  \/ \E m \in Mutators : (Mutate(m) \/ Finish(m)) /\ UNCHANGED clientVars
  \/ \E l \in Listeners : (Listen(l) \/ Cancel(l)) /\ UNCHANGED clientVars
  \/ \E l \in Listeners : Connect(l) \/ GetsStuck(l) \/ Client(l)

Spec == Init /\ [][Next]_vars

(* A mutator that has unlocked the registry goes on to the broker; listen  *)
(* handlers run; clients that are not stuck read their stream and fetch    *)
(* pages.  Strong fairness for the return: select picks a ready case at    *)
(* random.                                                                 *)
FairSpec ==
  /\ Spec
  /\ \A m \in Mutators : WF_vars(Finish(m) /\ UNCHANGED clientVars)
  /\ \A l \in Listeners :
       /\ WF_vars(Listen(l) /\ UNCHANGED clientVars)
       /\ SF_vars(ListenReturns(l) /\ UNCHANGED clientVars)
       /\ WF_vars(ReadStream(l)) /\ WF_vars(ListPage(l) \/ TakePage(l))

-----------------------------------------------------------------------------
(* Properties.                                                             *)

(* Types of the client's variables, on top of the server's. *)
TypeOK ==
  /\ BrokerTypeOK
  /\ phase \in [Listeners -> {"deaf", "due", "asked", "fresh", "stuck"}]
  /\ off \in [Listeners -> Nat]
  /\ acc \in [Listeners -> Seq(Entries)]
  /\ reply \in [Listeners -> [ok: BOOLEAN, page: Seq(Entries), next: Nat]]
  /\ view \in [Listeners -> Seq(Entries)]

(* A topic t is on its way to the client of l: some mutator has yet to     *)
(* announce it, or it waits in the channel, the handler or the stream.     *)
OnItsWay(l, t) ==
  \/ \E m \in Mutators : \E i \in 1 .. Len(todo[m]) : todo[m][i] = Announce(t)
  \/ \E i \in 1 .. Len(ch[l]) : ch[l][i] = t
  \/ cur[l] = t
  \/ \E i \in 1 .. Len(wire[l]) : wire[l][i] = t

(* Until then the client knows nothing; it has itself ended the stream. *)
Connected(l) == lh[l] # "ended" /\ l \notin ended

(* No change is lost.  A client that believes its copy complete, although  *)
(* the list is another by now, has a list_changed coming: whatever page    *)
(* boundaries the changes fell between, however the mutators' broadcasts   *)
(* were delayed and reordered, and although a full channel drops them.     *)
NoLostChange ==
  \A l \in Listeners :
     Connected(l) /\ phase[l] = "fresh" => view[l] = list \/ OnItsWay(l, "list")

(* Once the mutators rest (version is bounded, so they do), every client   *)
(* that stays connected and reads ends up with the list as it is, for good.*)
CatalogConverges ==
  \A l \in Listeners :
     <>[](lh[l] \in {"select", "write"} /\ l \notin ended /\ phase[l] # "stuck")
       => <>[](phase[l] = "fresh" /\ view[l] = list)
=============================================================================
