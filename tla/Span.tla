-------------------------------- MODULE Span --------------------------------
(***************************************************************************)
(* The spanning tree protocol of the service daemons (msg_lnk.c): how the  *)
(* LNK_SPAN of one mounted filesystem travels from daemon to daemon, is    *)
(* withdrawn again, and what a broken connection does to it.               *)
(*                                                                         *)
(* Every received SPAN is a link; the best link is relayed as a SPAN of    *)
(* its own over the other connections.  A SPAN is a transaction: here it   *)
(* is its CREATE and its DELETE in the stream of the connection, in order  *)
(* (see Dmsg); replies change nothing of what is modelled here.            *)
(*                                                                         *)
(* One cluster and one node, so a daemon has one tree of links.  The       *)
(* filters of a LNK_CONN accept everything.  Links at the same distance    *)
(* are ordered by random numbers (rnss): any of them can be the best.      *)
(* Every handler runs under cluster_mtx, taken as recursive (it is locked  *)
(* again at msg_lnk.c 1286), and is one step.  As in Dmsg no fairness is   *)
(* stated: at this commit the flags that wake a core thread are not set.   *)
(***************************************************************************)
EXTENDS Naturals, FiniteSets, SequencesExt

CONSTANTS
  Daemons,     \* service daemons
  Conns,       \* connections: sets of two daemons
  Home,        \* the daemon whose kernel has the filesystem mounted
  Kernel,      \* the other end of that connection
  MaxDist,     \* DMSG_SPAN_MAXDIST
  Starts,      \* initial situations: the connections that are down from the
               \* start, and the <<d, e>> whose LNK_CONN is on its way to e
  Breakable,   \* bound: connections that may break
  MaxRelays,   \* bound: SPANs open at a time from one daemon over one connection,
  Repeats      \* for the <<d, e>> in this set; one for the others

ASSUME TopologyAssumption ==
  /\ Home \in Daemons /\ Kernel \notin Daemons
  /\ \A c \in Conns : c \subseteq Daemons /\ Cardinality(c) = 2
  /\ Breakable \subseteq Conns
  /\ \A s \in Starts :
       /\ s.down \subseteq Conns
       /\ \A p \in s.late : p \in Daemons \X Daemons /\ {p[1], p[2]} \in Conns \ s.down

ASSUME BoundAssumption == MaxDist \in Nat /\ MaxRelays \in Nat \ {0}

Ids == 1..MaxRelays
Peers(d) == {e \in Daemons : {d, e} \in Conns}

VARIABLES
  mounted,     \* the kernel of Home has announced the filesystem
  link,        \* link[d]: h2span_link's of d
  relay,       \* relay[d]: h2span_relay's of d, in the relayq of their link
  tree,        \* tree[d][e]: what conn->tree of d for e holds: relays to e
  connq,       \* connq[d]: peers whose LNK_CONN is open
  sig,         \* sig[d]: connections of d with DMSG_IOCOMF_SWORK
  chan,        \* chan[d][e]: messages of d to e
  broken,      \* broken connections
  failed,      \* failed[d]: connections on which the core thread of d met an error
  crashed      \* daemons that are no more

vars == <<mounted, link, relay, tree, connq, sig, chan, broken, failed, crashed>>

Link    == [from : Daemons \cup {Kernel}, id : Ids, dist : Nat]
Relay   == [to : Daemons, id : Ids, from : Daemons \cup {Kernel}, sid : Ids]
Message == [kind : {"CONN", "DELETE"}, id : Ids, dist : {0}]
             \cup [kind : {"CREATE"}, id : Ids, dist : Nat]

ConnMsg      == [kind |-> "CONN", id |-> 1, dist |-> 0]
CreateMsg(i, dist) == [kind |-> "CREATE", id |-> i, dist |-> dist]
DeleteMsg(i) == [kind |-> "DELETE", id |-> i, dist |-> 0]

\* Both ends of every connection have sent their LNK_CONN.  Where it arrived,
\* the scan it caused found no link yet.
Init ==
  \E s \in Starts :
    /\ mounted = FALSE
    /\ link    = [d \in Daemons |-> {}]
    /\ relay   = [d \in Daemons |-> {}]
    /\ tree    = [d \in Daemons |-> [e \in Daemons |-> {}]]
    /\ connq   = [d \in Daemons |-> {e \in Peers(d) : {d, e} \notin s.down /\ <<e, d>> \notin s.late}]
    /\ sig     = [d \in Daemons |-> {}]
    /\ chan    = [d \in Daemons |-> [e \in Daemons |->
                    IF <<d, e>> \in s.late THEN <<ConnMsg>> ELSE <<>>]]
    /\ broken  = s.down
    /\ failed  = [d \in Daemons |-> {e \in Peers(d) : {d, e} \in s.down}]
    /\ crashed = {}

\* The relay stands for this link.
Of(r, l) == r.from = l.from /\ r.sid = l.id

-----------------------------------------------------------------------------
(* Relays *)

\* The best links: the smallest distance is first in node->tree.
Best(d) == {l \in link[d] : \A k \in link[d] : l.dist <= k.dist}

\* Addresses for a new SPAN state of d towards e.
FreshIds(d, e) ==
  {i \in Ids : /\ i = 1 \/ <<d, e>> \in Repeats
               /\ \A r \in relay[d] : ~(r.to = e /\ r.id = i)
               /\ \A l \in link[e] : ~(l.from = d /\ l.id = i)
               /\ \A k \in DOMAIN chan[d][e] : chan[d][e][k].id # i
                                                \/ chan[d][e][k].kind = "CONN"}

\* RB_INSERT refuses a relay that compares equal: one of the same link.
Inserted(d, l, e) ==
  \A r \in relay[d] : ~(r.to = e /\ r.id \in tree[d][e] /\ Of(r, l))

\* Mutant of Relayed: the limit on slink->dist is missing.
RelayedFar(d, l, e) == e \in connq[d] /\ l.from # e

\* dmsg_relay_scan_specific for the best link l and the connection to e.  The
\* search for a relay that is already in place is commented out, so nothing
\* but these conditions stands in the way of another one.
Relayed(d, l, e) ==
  /\ e \in connq[d]
  /\ l.dist <= MaxDist
  /\ l.from # e

\* The bound MaxRelays: with all addresses in use, a duplicate is not sent, and
\* the first relay of a link waits.
Bounded(d, l, e) ==
  FreshIds(d, e) # {} \/ \E r \in relay[d] : r.to = e /\ Of(r, l)

\* The distance of the SPAN that is sent for l.
RelayDist(l) == l.dist + 1

\* What dmsg_relay_delete writes to e for the relays rs: a DELETE each.
Deletes(d, e, rs) == SetToSeq({DeleteMsg(r.id) : r \in {q \in rs : q.to = e}})

\* Mutant of Extras: the loop over the relays in excess is missing.
ExtrasKept(d, l, e) == {}

\* The relays to e that sort behind a new one of the best link l: "in excess of
\* the current aggregate spanning state".  They are found by RB_NEXT from the
\* new relay, and only if that is in the tree.
Extras(d, l, e) ==
  {r \in relay[d] : r.to = e /\ r.id \in tree[d][e] /\ Inserted(d, l, e)}

\* A signal makes the core thread of a connection run dmsg_relay_scan over all
\* connections of the daemon.
Scan(d, e) ==
  /\ d \notin crashed
  /\ e \in sig[d]
  /\ sig' = [sig EXCEPT ![d] = @ \ {e}]
  /\ IF link[d] = {} THEN UNCHANGED <<relay, tree, chan>>
     ELSE \E l \in Best(d) :
       LET new   == {c \in Daemons : Relayed(d, l, c) /\ FreshIds(d, c) # {}}
           id(c) == CHOOSE i \in FreshIds(d, c) : TRUE
           gone  == UNION {Extras(d, l, c) : c \in new}
       IN /\ \A c \in Daemons : Relayed(d, l, c) => Bounded(d, l, c)
          /\ relay' = [relay EXCEPT ![d] = (@ \ gone) \cup
               {[to |-> c, id |-> id(c), from |-> l.from, sid |-> l.id] : c \in new}]
          /\ tree' = [tree EXCEPT ![d] = [c \in Daemons |->
               IF c \in new /\ Inserted(d, l, c)
               THEN (@[c] \ {r.id : r \in Extras(d, l, c)}) \cup {id(c)} ELSE @[c]]]
          /\ chan' = [chan EXCEPT ![d] = [c \in Daemons |->
               IF c \in new /\ {d, c} \notin broken
               THEN Append(@[c], CreateMsg(id(c), RelayDist(l))) \o Deletes(d, c, gone)
               ELSE @[c]]]
  /\ UNCHANGED <<mounted, link, connq, broken, failed, crashed>>

\* RB_REMOVE of relays to e.  A relay that was never inserted has no parent
\* and no children, and its removal makes the root NULL.
TreeWithout(d, e, rs) ==
  LET ids == {r.id : r \in {q \in rs : q.to = e}}
  IN IF ids \subseteq tree[d][e] THEN tree[d][e] \ ids ELSE {}

\* dmsg_relay_delete looks through relay->conn, which is freed memory once the
\* LNK_CONN of the connection is over.
Dangling(d, rs) == \E r \in rs : r.to \notin connq[d]

\* dmsg_iocom_signal: sets SWORK as atomic_set_int is documented; at this commit
\* the function it expands to only prints (msg.c 75).  The thread that met an
\* error reads until EOF and looks at the signal no more.
Signal(d, e) == IF e \in failed[d] THEN sig ELSE [sig EXCEPT ![d] = @ \cup {e}]

\* The process of d is gone: so are its connections and all it knew.
Crash(d) ==
  /\ link'   = [link EXCEPT ![d] = {}]
  /\ relay'  = [relay EXCEPT ![d] = {}]
  /\ tree'   = [tree EXCEPT ![d] = [e \in Daemons |-> {}]]
  /\ connq'  = [connq EXCEPT ![d] = {}]
  /\ sig'    = [sig EXCEPT ![d] = {}]
  /\ broken' = broken \cup {c \in Conns : d \in c}
  /\ chan'   = [x \in Daemons |-> [y \in Daemons |->
                  IF d \in {x, y} THEN <<>> ELSE chan[x][y]]]
  /\ failed'  = [failed EXCEPT ![d] = {}]
  /\ crashed' = crashed \cup {d}

\* Mutant of DropLink: the loop over slink->relayq is missing.
DropLinkKeepsRelays(d, l, in) ==
  /\ link' = [link EXCEPT ![d] = @ \ {l}]
  /\ chan' = in
  /\ sig'  = IF link[d] = {l} THEN sig ELSE Signal(d, l.from)
  /\ UNCHANGED <<relay, tree, connq, broken, failed, crashed>>

\* Mutant of DropLink: the relays of l go over to the link that is best now.
DropLinkReparents(d, l, in) ==
  LET rs   == {r \in relay[d] : Of(r, l)}
      rest == link[d] \ {l}
  IN /\ link' = [link EXCEPT ![d] = rest]
     /\ \/ rest = {} /\ relay' = [relay EXCEPT ![d] = @ \ rs]
        \/ \E k \in rest : relay' = [relay EXCEPT ![d] =
             (@ \ rs) \cup {[r EXCEPT !.from = k.from, !.sid = k.id] : r \in rs}]
     /\ chan' = in
     /\ sig'  = sig
     /\ UNCHANGED <<tree, connq, broken, failed, crashed>>

\* dmsg_lnk_span on the DELETE of link l, in the core thread of connection e:
\* the relays of l go, then l, and the other links get their chance.  in is
\* chan after the message was read.
DropLink(d, l, in) ==
  LET rs == {r \in relay[d] : Of(r, l)}
  IN IF Dangling(d, rs) THEN Crash(d)
     ELSE /\ link'  = [link EXCEPT ![d] = @ \ {l}]
          /\ relay' = [relay EXCEPT ![d] = @ \ rs]
          /\ tree'  = [tree EXCEPT ![d] = [e \in Daemons |->
                         IF \E r \in rs : r.to = e THEN TreeWithout(d, e, rs) ELSE @[e]]]
          /\ chan'  = [in EXCEPT ![d] = [e \in Daemons |->
                         IF {d, e} \in broken THEN @[e] ELSE @[e] \o Deletes(d, e, rs)]]
          /\ sig'   = IF link[d] = {l} THEN sig ELSE Signal(d, l.from)
          /\ UNCHANGED <<connq, broken, failed, crashed>>

\* dmsg_lnk_span on the CREATE of a SPAN.
AddLink(d, l) ==
  /\ link' = [link EXCEPT ![d] = @ \cup {l}]
  /\ sig'  = Signal(d, l.from)
  /\ UNCHANGED <<relay, tree, connq, broken, failed, crashed>>

-----------------------------------------------------------------------------
(* Messages *)

KernelLink == [from |-> Kernel, id |-> 1, dist |-> 0]

\* The kernel of Home announces the filesystem, once, and takes it back.
Mount ==
  /\ ~mounted /\ Home \notin crashed
  /\ mounted' = TRUE
  /\ AddLink(Home, KernelLink)
  /\ UNCHANGED chan

Unmount ==
  /\ KernelLink \in link[Home] /\ Kernel \notin failed[Home]
  /\ DropLink(Home, KernelLink, chan)
  /\ UNCHANGED mounted

ReceiveConn(d, e) ==
  /\ chan[e][d] # <<>> /\ Head(chan[e][d]).kind = "CONN"
  /\ e \notin failed[d]
  /\ connq' = [connq EXCEPT ![d] = @ \cup {e}]
  /\ sig'   = Signal(d, e)
  /\ chan'  = [chan EXCEPT ![e][d] = Tail(@)]
  /\ UNCHANGED <<mounted, link, relay, tree, broken, failed, crashed>>

ReceiveCreate(d, e) ==
  LET m == Head(chan[e][d])
  IN /\ chan[e][d] # <<>> /\ m.kind = "CREATE"
     /\ AddLink(d, [from |-> e, id |-> m.id, dist |-> m.dist])
     /\ chan' = [chan EXCEPT ![e][d] = Tail(@)]
     /\ UNCHANGED mounted

ReceiveDelete(d, e) ==
  LET m == Head(chan[e][d])
  IN /\ chan[e][d] # <<>> /\ m.kind = "DELETE"
     /\ \E l \in link[d] : /\ l.from = e /\ l.id = m.id
                           /\ DropLink(d, l, [chan EXCEPT ![e][d] = Tail(@)])
     /\ UNCHANGED mounted

-----------------------------------------------------------------------------
(* A broken connection *)

\* What was not read by then is lost.
Break(c) ==
  /\ c \in Breakable \ broken
  /\ broken' = broken \cup {c}
  /\ chan' = [x \in Daemons |-> [y \in Daemons |->
                IF {x, y} = c THEN <<>> ELSE chan[x][y]]]
  /\ UNCHANGED <<mounted, link, relay, tree, connq, sig, failed, crashed>>

\* dmsg_ioq_read meets the end of the stream.  From now on the inner loop of
\* dmsg_iocom_core runs until EOF, and a signal that is pending is lost.
ReadError(d, e) ==
  /\ \/ {d, e} \in broken /\ d \notin crashed
     \/ d = Home /\ e = Kernel /\ KernelLink \in link[Home]
  /\ e \notin failed[d]
  /\ failed' = [failed EXCEPT ![d] = @ \cup {e}]
  /\ sig'    = [sig EXCEPT ![d] = @ \ {e}]
  /\ UNCHANGED <<mounted, link, relay, tree, connq, chan, broken, crashed>>

\* It simulates a DELETE for every transaction of the connection: first those
\* of the other end, its SPANs and its LNK_CONN in any order.
FailLink(d, e) ==
  /\ e \in failed[d]
  /\ \E l \in link[d] : l.from = e /\ DropLink(d, l, chan)
  /\ UNCHANGED mounted

\* dmsg_lnk_conn on DELETE: the relays that are in conn->tree go, and conn.
FailConn(d, e) ==
  /\ e \in failed[d]
  /\ e \in connq[d]
  /\ connq' = [connq EXCEPT ![d] = @ \ {e}]
  /\ relay' = [relay EXCEPT ![d] = {r \in @ : ~(r.to = e /\ r.id \in tree[d][e])}]
  /\ tree'  = [tree EXCEPT ![d][e] = {}]
  /\ UNCHANGED <<mounted, link, sig, chan, broken, failed, crashed>>

\* Then our own SPANs: dmsg_lnk_relay deletes a relay that is still there, and
\* its conn is gone by now.
FailRelay(d, e) ==
  /\ e \in failed[d]
  /\ e \notin connq[d]
  /\ \A l \in link[d] : l.from # e
  /\ \E r \in relay[d] : r.to = e
  /\ Crash(d)
  /\ UNCHANGED mounted

-----------------------------------------------------------------------------
Next ==
  \/ Mount \/ Unmount
  \/ \E d \in Daemons, e \in Daemons \cup {Kernel} :
       Scan(d, e) \/ ReadError(d, e) \/ FailLink(d, e)
  \/ \E d, e \in Daemons :
       \/ ReceiveConn(d, e) \/ ReceiveCreate(d, e) \/ ReceiveDelete(d, e)
       \/ FailConn(d, e) \/ FailRelay(d, e)
  \/ \E c \in Conns : Break(c)

Spec == Init /\ [][Next]_vars

-----------------------------------------------------------------------------
(* Properties *)

TypeOK ==
  /\ mounted \in BOOLEAN
  /\ link \in [Daemons -> SUBSET Link]
  /\ relay \in [Daemons -> SUBSET Relay]
  /\ tree \in [Daemons -> [Daemons -> SUBSET Ids]]
  /\ connq \in [Daemons -> SUBSET Daemons]
  /\ sig \in [Daemons -> SUBSET (Daemons \cup {Kernel})]
  /\ chan \in [Daemons -> [Daemons -> Seq(Message)]]
  /\ \A d, e \in Daemons : \A i \in tree[d][e] : \E r \in relay[d] : r.to = e /\ r.id = i
  /\ \A d, e \in Daemons : Cardinality(tree[d][e]) <= 1
  /\ failed \in [Daemons -> SUBSET (Daemons \cup {Kernel})]
  /\ broken \subseteq Conns /\ crashed \subseteq Daemons

\* Every SPAN is held up by its neighbour: a link a daemon has from another
\* one is backed by a relay there, unless the DELETE is on its way or the
\* connection is broken, and a relay is backed by a link of its own daemon.
\* No daemon keeps routing to a filesystem through one that dropped it.
Grounded ==
  /\ \A d \in Daemons : \A l \in link[d] :
       \/ l.from = Kernel
       \/ {d, l.from} \in broken
       \/ \E r \in relay[l.from] : r.to = d /\ r.id = l.id
       \/ DeleteMsg(l.id) \in ToSet(chan[l.from][d])
  /\ \A d \in Daemons : \A r \in relay[d] : \E l \in link[d] : Of(r, l)

\* However the SPANs run in circles between the daemons, none is further away
\* than DMSG_SPAN_MAXDIST + 1.
DistBound == \A d \in Daemons : \A l \in link[d] : l.dist <= MaxDist + 1

AllLinks ==
  {x \in Daemons \X UNION {link[d] : d \in Daemons} : x[2] \in link[x[1]]}

\* Link x = <<e, k>> holds up link y = <<d, l>>: daemon e has relayed k to d as
\* l, their connection works and no DELETE is on its way.
HoldsUp(x, y) ==
  LET e == x[1]
      d == y[1]
  IN /\ y[2].from = e /\ {d, e} \notin broken
     /\ DeleteMsg(y[2].id) \notin ToSet(chan[e][d])
     /\ \E r \in relay[e] : r.to = d /\ r.id = y[2].id /\ Of(r, x[2])

\* "stopping tail-chasing closed loops when a feeder span is lost" (msg_lnk.c
\* 45): no set of links holds itself up.  SPANs do run in circles, through
\* every daemon again, but no link is ever its own feeder over any number of
\* hops, so without the kernel's end nothing is left to keep the others alive.
NoRing ==
  \A S \in SUBSET AllLinks : (\A y \in S : \E x \in S : HoldsUp(x, y)) => S = {}

\* Every core thread of d waits in poll(): no signal is pending, nothing is to
\* be read, and every connection that broke has reached EOF.
AtRest(d) ==
  /\ sig[d] = {}
  /\ \A e \in Daemons : chan[e][d] = <<>>
  /\ \A e \in Daemons : {d, e} \in broken => e \in failed[d]
  /\ connq[d] \cap failed[d] = {}
  /\ \A l \in link[d] : l.from \notin failed[d]
  /\ \A r \in relay[d] : r.to \notin failed[d]

\* "If the node still exists issue any required updates" (msg_lnk.c 698): a
\* daemon at rest has relayed its best link over every connection that wants
\* it.
UpdatesIssued ==
  \A d, e \in Daemons :
    (/\ AtRest(d)
     /\ link[d] # {} /\ e \in connq[d]
     /\ \A l \in Best(d) : l.from # e /\ l.dist <= MaxDist)
    => \E r \in relay[d] : r.to = e
=============================================================================
